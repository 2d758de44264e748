SPECIFICATION ESpec
CONSTANTS
  Loc <- MCLoc
  Value <- MCValue
  NTrans = 4
  None = None
  ModelOf <- MCModels
  TMax = 4
  WatchedLimit = 2
  MaxFirings = 9
  Scale <- MCScale
  MaxInstantaneous = 2
  TolEvent = 1
  Threads = 3
  StudyOf <- MCStudies
  Depth = 5
CHECK_DEADLOCK FALSE
INVARIANTS
  CutOffsAreSound
  WalkIsTheRecursion
  NothingHidesTheInstantaneous
