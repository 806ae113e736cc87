SPECIFICATION Spec
CONSTANTS
  Nil = Nil
  Bound <- MCBound
  PlantList <- MCPlantList
  Receipt = {"r1", "r2"}
  RunDir = {"d"}
  IdleNeeded = 2
  Cooldown = 3
  StaleLimit = 3
  Unit = {"u", "v"}
  Written = {"pu"}
  Naming <- MCNaming
  Commands = 2
  Samples = 2
  Name = {"n", "m"}
  Judge = {"j"}
  MaxQueued = 1
  Of <- MCOf
  Fate <- MCFate
  Build = {0, 1, 2}
  Sends <- MCSends
  Module <- MCModule
  Runner = {r1, r2}
  CaseList <- MCCaseList
  CaseGrader <- MCCaseGrader
  CaseTrace <- MCCaseTrace
  Shell = {s1, s2}
SYMMETRY MCSymmetry
CHECK_DEADLOCK FALSE
INVARIANTS PlantIsJournaled LandedIsGated WakesSpare WakesCome QueueSettles NewIsFiledOnce CarriedIsSame CampaignStands AgentIsPinned
PROPERTIES OthersEditsStay MainOnlyGrows WrittenOnce
