SPECIFICATION FairSpec
CONSTANTS
  ask = ask  draft = draft
  MaxSockets = 2
  Modes = {ask}
  Ask = ask
  NoTurn = NoTurn
  Limit = 3
  MaxRounds = 1
  MaxTurns = 2
  MaxErrors = 1
  MaxDeaths = 1
  MaxEdits = 1
INVARIANTS TypeOK TurnsAreSaved ContextIsComplete
PROPERTIES RoutesClose
CHECK_DEADLOCK FALSE
