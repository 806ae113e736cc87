CONSTANTS
  Handlers = {h1, h2, h3}
  ClefConcurrency = 2
  AuxConcurrency = 1
  MaxFaults = 1
SPECIFICATION FairSpec
INVARIANT SlotsAccounted
PROPERTY ClefSlotComesBack
