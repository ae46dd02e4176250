SPECIFICATION Spec
CONSTANTS
  p = p
  q = q
  r = r
  k = k
  l = l
  Processes = {p, q}
  NoProcess = NoProcess
  Keys = {k}
  NoKey = NoKey
  Key <- Runs
  Alike = {k}
  N = 2
  Interval = 2
  CutsNewline = FALSE
  MaxStops = 1
  MaxRots = 0
PROPERTY
  TurnedAwayHarmsNobody
