SPECIFICATION Spec
CONSTANTS
  ask = ask  draft = draft
  MaxSockets = 2
  Modes = {ask, draft}
  Ask = ask
  NoTurn = NoTurn
  Limit = 3
  MaxRounds = 1
  MaxTurns = 2
  MaxErrors = 1
  MaxDeaths = 1
  MaxEdits = 1
INVARIANT TurnRunsInItsMode
CHECK_DEADLOCK FALSE
