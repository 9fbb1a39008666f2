CONSTANTS
  stock = stock
  spy = spy
  Damaged = Damaged
  None = None
  c = c
  Symbol = {stock, spy}
  Benchmark = {spy}
  TradeDate = 3
  Series <- MCSeries
  Stages = {"open_60m", "close"}
  Window = {1, 2}
  Answers <- MCAnswers
  Horizon = {1, 2}
  Average = {2}
  MaxSnapshots = 2
  Compute = {c}
SPECIFICATION Spec
CHECK_DEADLOCK FALSE
INVARIANTS
  AcceptedProofIsCurrent
  TargetIsLatestAndUnambiguous
  SelectionIgnoresOrder
PROPERTIES
  PublishedProofVerifies
  ProofsImmutable
