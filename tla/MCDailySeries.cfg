CONSTANTS
  large = large
  small = small
  LastDay = 5
  RebaseDay = {4}
  Bar = {large, small}
  Size <- MCSize
  RecordLimit = 2
  ByteLimit = 3
  EodWindow = 2
  BootstrapMinimum = 2
  Target = 3
  RevisableTail = 2
  MaxRevised = 1
  None = None
  Partial = Partial
SPECIFICATION Spec
INVARIANTS
  TypeOK
  ReadableUnlessTorn
  RecordsTile
PROPERTIES
  FailsClosed
  RefinesDailyHistory
CHECK_DEADLOCK FALSE
