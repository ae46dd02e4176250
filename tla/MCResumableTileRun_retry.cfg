SPECIFICATION FairSpec
CONSTANTS
  p = p
  q = q
  r = r
  k = k
  l = l
  Processes = {p}
  NoProcess = NoProcess
  Keys = {k}
  NoKey = NoKey
  Key <- Runs
  Alike = {k}
  N = 3
  Interval = 0
  CutsNewline = TRUE
  MaxStops = 3
  MaxRots = 0
PROPERTY
  RetriesPublish
