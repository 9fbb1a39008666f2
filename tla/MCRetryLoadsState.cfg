CONSTANTS
  Intraday = {stock}
  Context = {}
  Sector = {etf}
  Requestable = {"close", "close_retry", "historical_context_repair"}
  MaxRuns = 4
  Minute = {1, 2}
  Observable <- MCObservable
  None = None
SPECIFICATION Spec
INVARIANT RetryLoadsState
CHECK_DEADLOCK FALSE
