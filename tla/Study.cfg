CONSTANTS
  None = None
  NoLabel = None
  Absent = None
  Alphabet <- MCAlphabet
  StudyOf <- MCStudyOf
  MaxFirings = 6
  MaxTicks = 2
  Limits <- MCLimits
SPECIFICATION Spec
INVARIANTS
  LoopsAreTheCycles
  CancelledHadNoPart
  MinimalIsOrderFree
  TreeIsTheModel
  QuantifiedIsTrue
PROPERTY SealedModesStay
CHECK_DEADLOCK FALSE
