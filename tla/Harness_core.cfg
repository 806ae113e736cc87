SPECIFICATION Spec
CONSTANTS
  Nil = Nil
  Bound <- MCBound
  Pid = {1, 2}
  Main <- MCMain
  Worker <- MCWorker
  MaxPin = 1
  Asks = 3
  Proc = {1, 2}
  MaxVersion = 1
  KeepNewest = 1
  Model = {"a", "b", "c"}
  Shipped <- MCShipped
  Default = 1
  Required = 2
  Cap = 2
  ProofSpec <- MCProofSpec
CHECK_DEADLOCK FALSE
INVARIANTS StoppedIsRecorded ChildrenStopped GoldensHold HeldSnapshotStays AbortReaches ReceiptsStand
