SPECIFICATION Spec
CONSTANTS
  Worker = w
  Submitter = s
  Loggers = {w}
  MaxLogLines = 3
  LogKeepLines = 2
  MaxLines = 6
CHECK_DEADLOCK FALSE
INVARIANTS
  NoLineTwiceUntilReleased EveryLineForwarded
