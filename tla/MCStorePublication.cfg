CONSTANTS
  Job = {proof, plain}
  ProofJob = {proof}
  Commit <- MCCommit
  Root = 0
  Attempts = 3
  ForeignPushLimit = 1
  ForeignTagLimit = 1
  None = None
SPECIFICATION Spec
INVARIANTS
  TypeOK
  ReceiptIsDurable
  LandsAtMostOnce
  QueueMembersDoNotCollide
  ProofLandsOnItsBase
PROPERTIES
  RefinesDurableStore
  EveryJobEnds
CHECK_DEADLOCK FALSE
