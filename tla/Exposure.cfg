SPECIFICATION XSpec
CONSTANTS
  Loc <- MCLoc
  Value <- MCValue
  Driven = {"i"}
  NTrans = 4
  None = None
  ModelOf <- MCModels
  TMax = 6
  Never = 99
  WatchedLimit = 2
  MaxFirings = 0
CHECK_DEADLOCK FALSE
INVARIANT TallyIsExact
