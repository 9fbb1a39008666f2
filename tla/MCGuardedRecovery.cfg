CONSTANTS
  Target = {a, b}
  PerDay = 3
  MaxRuns = 2
  OutsideLimit = 1
  None = None
SYMMETRY MCSymmetry
SPECIFICATION Spec
INVARIANTS
  TypeOK
  HistoriesReplacedWhole
  LedgerFollowsDebits
  BatchStaysFunded
  TerminalBracketsStore
  ReportsAreFinal
CHECK_DEADLOCK FALSE
