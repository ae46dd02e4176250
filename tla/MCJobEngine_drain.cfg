SPECIFICATION FairSpec
CONSTANTS
  a = a
  b = b
  c = c
  NoJob = NoJob
  Jobs = {a, b, c}
  Exclusive = {b}
  Priority <- FlatPriority
  Parent <- NestedParent
  Awaiting = {a}
  Callable = {}
  Hooked = {}
  Unknown = {}
  Budgeted = {}
  Awaited = {}
  Prunable = {}
  PoolSizes = {}
  MinWorkers = 2
  MaxWorkersOverride = 2
  MaxTransient = 1
CHECK_DEADLOCK FALSE
PROPERTIES
  NestedJobsEnd
