SPECIFICATION FairSpec
CONSTANTS
  p = p
  q = q
  u = u
  w = w
  NoTask = NoTask
  NoJob = NoJob
  Tasks = {p, q}
  Pipelines <- OneChain
  Singles = {q}
  Submitter <- NoBody
  RetryOf <- NoRepeats
  Cancellable = {p}
  Watched = {p}
  Flaky = {p}
  Unresolved = {q}
  Pressure = {FALSE}
  Callers = {u}
  Watchdog = w
  GlobalMax = 1
  MaxTransient = 1
  MaxAutoRetries = 1
  MayShutDown = FALSE
CHECK_DEADLOCK FALSE
INVARIANTS
  OnlyTheEndIsTold
PROPERTIES
  OneWay 
