SPECIFICATION FairSpec
CONSTANTS
  a = a
  b = b
  c = c
  NoJob = NoJob
  Jobs = {a, c}
  Exclusive = {}
  Priority <- FlatPriority
  Parent <- NestedParent
  Awaiting = {a}
  Callable = {a}
  Hooked = {a}
  Unknown = {}
  Budgeted = {}
  Awaited = {a}
  Prunable = {a}
  PoolSizes = {}
  MinWorkers = 1
  MaxWorkersOverride = 1
  MaxTransient = 1
CHECK_DEADLOCK FALSE
INVARIANT
  TransientBalanced
PROPERTIES
  NestedJobsEnd PoolDrains EndIsReported WaitersReturn
