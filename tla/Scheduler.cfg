SPECIFICATION FairSpec
CONSTANTS
  Loc <- MCLoc
  Value <- MCValue
  NTrans = 3
  None = None
  ModelOf <- MCModels
  TMax = 5
  Never = 9
  WatchedLimit = 2
  MaxFirings = 3
CHECK_DEADLOCK FALSE
INVARIANTS
  NoOverdue
  TargetStopsClock
PROPERTIES
  ObservedBeforeLeft
  ImplementsRace
  RunReturns
