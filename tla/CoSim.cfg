SPECIFICATION MCSpec
CONSTANTS
  Loc <- MCLoc
  Value <- MCValue
  NTrans = 2
  None = None
  ModelOf <- MCModels
  NUnits = 2
  UnitsOf <- MCUnits
  TMax = 6
  Never = 99
  WatchedLimit = 2
  MaxFirings = 5
  Void = Void
  InputNames = {"a", "b"}
  ParameterNames = {"g"}
  OutputNames = {"o"}
  StartValues <- MCDeclared
  Reacting <- MCReaction
  Passing <- MCPassing
  Seeds = {0, 1}
  Handles = {h1, h2}
  Holders = {s1, s2}
  Batches <- MCBatches
  Horizon = 2
  MaxCalls = 6
CHECK_DEADLOCK FALSE
INVARIANTS
  CheckpointsAreHeld
  HostIsNeverRefused
PROPERTIES
  TakenBack
  InputsAreHeld
  PointsComplete
