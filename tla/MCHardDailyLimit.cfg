CONSTANTS
  PerDay = 3
  PerMinute = 2
  KeptMinutes = 2
  Horizon = 8
  MaxJobs = 3
  MaxRequests = 2
  None = None
SPECIFICATION Spec
INVARIANT HardDailyLimit
CHECK_DEADLOCK FALSE
