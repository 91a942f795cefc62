SPECIFICATION Spec
CONSTANTS
  d1 = d1
  d2 = d2
  d3 = d3
  None = None
  Delegations = {d1, d2}
  Compactions = {d2}
  Outcomes = {"done", "blocked"}
  MaxTurns = 2
  MaxAsks = 1
  Faults = {"stop", "death", "restart", "throw", "refusal", "unread"}
  MaxFaults = 1
INVARIANT AnswersAreHeard AnswerIsOfItsTurn
PROPERTY OnePath RowsAreLawful CallIsAnswered
CHECK_DEADLOCK FALSE
