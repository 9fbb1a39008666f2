CONSTANTS
  PerDay = 5
  PerMinute = 2
  KeptMinutes = 2
  Horizon = 8
  MaxJobs = 3
  MaxRequests = 2
  None = None
SPECIFICATION Spec
INVARIANTS
  RequestsAreDebited
  WaitSuffices
CHECK_DEADLOCK FALSE
