SPECIFICATION ISpec
CONSTANTS
  Loc <- MCLoc
  Value <- MCValue
  Inputs <- MCInputs
  NTrans = 2
  None = None
  ModelOf <- MCModels
  TMax = 3
  Never = 99
  WatchedLimit = 2
  MaxFirings = 3
  MaxCalls = 4
CHECK_DEADLOCK FALSE
PROPERTY ResetIsFresh
