CONSTANTS
  Procs = {p1, p2, p3}
  None = None
  Deadlines = TRUE
  Observers = TRUE
  MaxDepth = 2
  MaxCrashes = 1
SPECIFICATION FairSpec
INVARIANT SlotIsSound
PROPERTIES FirstInLine GpuServed
