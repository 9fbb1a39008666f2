CONSTANTS
  live = live
  replay = replay
  r1 = r1
  r2 = r2
  a = a
  b = b
  x = x
  None = None
  Conflict = Conflict
  Job = {live, replay, r1, r2}
  Kind <- MCKind
  Wanted <- MCWanted
  Facts = {x}
  Probe <- MCProbe
  Day = 2
  MaxTime = 2
  MaxPasses = 3
SPECIFICATION Spec
CHECK_DEADLOCK FALSE
INVARIANTS
  LatestIsNewest
  RefsResolve
PROPERTIES
  ManifestPinsItsOutputs
  RefinesDocumentStore
