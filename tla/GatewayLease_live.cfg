CONSTANTS
  Models = {m1, m2}
  Clef = clef
  Requests = {r1, r2}
  Instances = {i1, i2}
  Fences = {}
  Commands = {}
  NoFence = NoFence
  NoInstance = NoInstance
  NoModel = NoModel
  Ops = {}
  Supervised = TRUE
  MaxCrashes = 1
  MaxFaults = 1
SPECIFICATION FairSpec
CHECK_DEADLOCK FALSE
PROPERTY UnloadsSettle
