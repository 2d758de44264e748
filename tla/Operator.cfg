SPECIFICATION OSpec
CONSTANTS
  Loc <- MCLoc
  Value <- MCValue
  NTrans = 3
  None = None
  ModelOf <- MCModels
  TMax = 3
  WatchedLimit = 2
  MaxFirings = 3
  Inputs <- MCInputs
  Budgets = {1, 9}
  MaxCalls = 3
CHECK_DEADLOCK FALSE
INVARIANTS
  DurationsAreExact
  HeldAtItsInstant
PROPERTIES
  InstantsAreCompleted
  CommandsAreAtomic
