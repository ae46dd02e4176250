SPECIFICATION Spec
CONSTANTS
  a = a
  b = b
  c = c
  NoJob = NoJob
  Jobs = {a, b}
  Exclusive = {b}
  Priority <- FlatPriority
  Parent <- FlatParent
  Awaiting = {}
  Callable = {a}
  Hooked = {a}
  Unknown = {b}
  Budgeted = {a}
  Awaited = {a}
  Prunable = {a}
  PoolSizes = {1, 3}
  MinWorkers = 1
  MaxWorkersOverride = 2
  MaxTransient = 0
CHECK_DEADLOCK FALSE
INVARIANTS
   ExclusiveAlone SlotsMatchRecords 
  CancelNotLost NothingLeftBehind HookOnce ToldOnce NoLostWakeup
PROPERTIES
  NoResurrection ImplementsLifecycle
