SPECIFICATION Spec
CONSTANTS
  p = p
  q = q
  u = u
  w = w
  NoTask = NoTask
  NoJob = NoJob
  Tasks = {p, q}
  Pipelines <- ChainOrP
  Singles = {}
  Submitter <- FromBody
  RetryOf <- QRepeatsP
  Cancellable = {q}
  Watched = {q}
  Flaky = {}
  Unresolved = {}
  Pressure = {FALSE, TRUE}
  Callers = {u}
  Watchdog = w
  GlobalMax = 1
  MaxTransient = 1
  MaxAutoRetries = 0
  MayShutDown = TRUE
CHECK_DEADLOCK FALSE
INVARIANTS
  EndIsTold Supervised JoinRule ParentsFirst  ShutdownLeavesNothing
