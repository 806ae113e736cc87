CONSTANTS
  Models = {m1, m2}
  Clef = clef
  Requests = {r1, r2}
  Instances = {i1, i2}
  Fences = {f1}
  Commands = {}
  NoFence = NoFence
  NoInstance = NoInstance
  NoModel = NoModel
  Ops = {"park", "fence"}
  Supervised = TRUE
  MaxCrashes = 1
  MaxFaults = 1
SPECIFICATION Spec
CHECK_DEADLOCK FALSE
SYMMETRY Symmetry
INVARIANTS CallsAreSafe TablesAreTrue
PROPERTY KeepsPromise
