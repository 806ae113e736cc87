CONSTANTS
  Models = {m1}
  Clef = clef
  Requests = {r1}
  Instances = {i1, i2}
  Fences = {}
  Commands = {c1}
  NoFence = NoFence
  NoInstance = NoInstance
  NoModel = NoModel
  Ops = {"calm_stop", "busy", "unload"}
  Supervised = TRUE
  MaxCrashes = 0
  MaxFaults = 2
SPECIFICATION FairSpec
CHECK_DEADLOCK FALSE
PROPERTIES CallsAreAccounted DrainEnds
