SPECIFICATION Spec
CONSTANTS
  Loc <- MCLoc
  Aut <- MCAut
  Clock = "time"
  Swept <- MCSwept
  Domain <- MCDomain
  NWatched = 2
  ModelOf <- MCModels
  Band = 1
  None = None
  Fail = Fail
  Bad = Fail
INVARIANTS
  IndexIsExact
