CONSTANTS
  Intraday = {stock}
  Context = {}
  Sector = {etf}
  Requestable = {"open_15m", "open_30m", "open_60m", "close", "close_final"}
  MaxRuns = 5
  Minute = {1, 2}
  Observable <- MCAllOrNothing
  None = None
SPECIFICATION Spec
INVARIANTS
  NeverRejected
  ProofFollowsSnapshot
  MaterialisedTogether
CHECK_DEADLOCK FALSE
