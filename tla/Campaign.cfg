SPECIFICATION MCSpec
CONSTANTS
  None = None
  NbRuns = 4
  Samples <- MCSamples
  TMax = 3
  Histories <- MCHistories
  ChunkBytes = 60
  MaxChunk = 8
  SampleBytes = 6
  Widths = {0, 1, 8}
  Orders <- MCOrders
  SequenceOf <- MCSequences
  Asked <- MCAsked
  Conditions <- MCConditions
  Older <- MCOlder
  NoFile = NoFile
  Transitions <- MCTransitions
  FearedEvent <- MCFeared
  Selections <- MCSelections
  GroupsOf <- MCGroups
  Dates <- MCDates
  Corpora <- MCCorpora
  EventNames <- MCEventNames
  Absent = Absent
CHECK_DEADLOCK FALSE
INVARIANTS
  CampaignIsSequential
  ResultsAgree
  PathIsWhole
  ReadIsTheCampaign
  MeasuresAreTheirDefinitions
PROPERTIES
  CampaignEnds
