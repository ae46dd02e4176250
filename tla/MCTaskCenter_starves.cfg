SPECIFICATION Spec
CONSTANTS
  p = p
  q = q
  u = u
  w = w
  NoTask = NoTask
  NoJob = NoJob
  Tasks = {p, q}
  Pipelines <- NoPipelines
  Singles = {p, q}
  Submitter <- NoBody
  RetryOf <- NoRepeats
  Cancellable = {p}
  Watched = {}
  Flaky = {}
  Unresolved = {}
  Pressure = {FALSE}
  Callers = {u}
  Watchdog = w
  GlobalMax = 1
  MaxTransient = 1
  MaxAutoRetries = 0
  MayShutDown = FALSE
CHECK_DEADLOCK FALSE
INVARIANTS
  NeverStarves

