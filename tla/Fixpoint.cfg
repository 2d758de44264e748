SPECIFICATION FairSpec
CONSTANTS
  Attr <- MCAttr
  Aut <- MCAut
  Value <- MCValue
  Fail = Fail
  NSteps = 3
  ModelOf <- MCModels
  MaxFirings = 2
INVARIANTS
  ProbeBlamesOrder
  SettledWhenIdle
PROPERTIES
  FailuresLeaveNothing
  EveryFixpointReturns
CHECK_DEADLOCK FALSE
