CONSTANTS
  m1 = m1
  m2 = m2
  d1 = d1
  d2 = d2
  a1 = a1
  a2 = a2
  Targets <- TwoTargets
  Digests <- TwoDigests
  Alias <- OwnAliases
  Installed <- Shared
  Server = Server
  FenceIds = {f1, f2, f3, f4}
  Manual = Manual
  NoFence = NoFence
  NoDigest = NoDigest
  Helped = TRUE
  MaxAborts = 2
  MaxPulls = 1
SPECIFICATION Spec

CHECK_DEADLOCK FALSE
INVARIANTS WeightsKept CleanWhenDone
PROPERTY FencesCover
