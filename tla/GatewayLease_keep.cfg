CONSTANTS
  Models = {m1}
  Clef = clef
  Requests = {r1, r2}
  Instances = {i1, i2}
  Fences = {f1, f2}
  Commands = {c1, c2}
  NoFence = NoFence
  NoInstance = NoInstance
  NoModel = NoModel
  Ops = {"keep", "direct", "fence"}
  Supervised = TRUE
  MaxCrashes = 1
  MaxFaults = 1
SPECIFICATION Spec
CHECK_DEADLOCK FALSE
SYMMETRY Symmetry
INVARIANTS KeepHonoured
