SPECIFICATION FairSpec
CONSTANTS
  MaxVisits = 2
  MaxQuestions = 2
  MaxPieces = 1
  MaxCancels = 2
  MaxDrops = 2
INVARIANTS TypeOK OneSocket TranscriptTrue StreamingIsReal
PROPERTIES CancelStops Reconnects
CHECK_DEADLOCK FALSE
