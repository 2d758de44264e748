SPECIFICATION SSpec
CONSTANTS
  None = None
  Refused = Refused
  Studies <- MCStudies
  StreamBlock = 5
  PilotStreamBase = 16
  PilotBlock = 4
  MaxPilotSize = 3
  MaxPilotIterations = 4
INVARIANTS
  StreamsAreFresh
  Unbiased
