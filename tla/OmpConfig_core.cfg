SPECIFICATION Spec
CONSTANTS
  Profile = {p1, p2}
  Bare = {p2}
  Nil = Nil
  Keep = Keep
  MaxCommand = 3
  MaxEdit = 1
  MaxDeath = 1
  MaxFailure = 1
  MaxUpset = 1
  Preset <- MCPreset
  TestProfile = {p1}
  Proven = {}
  SmolModel = {"A", "B"}
CHECK_DEADLOCK FALSE
INVARIANTS EditsSurvive RecordsHold RouteHolds SmolResolves
PROPERTIES PresetsUndo
