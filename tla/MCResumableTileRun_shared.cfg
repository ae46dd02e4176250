SPECIFICATION Spec
CONSTANTS
  p = p
  q = q
  r = r
  k = k
  l = l
  Processes = {p, q, r}
  NoProcess = NoProcess
  Keys = {k, l}
  NoKey = NoKey
  Key <- Runs
  Alike = {k, l}
  N = 3
  Interval = 2
  CutsNewline = FALSE
  MaxStops = 2
  MaxRots = 1
INVARIANTS
  NeverMixesIdentities MarkerIsTheCommit CommittedTilesOnDisk 
PROPERTY
  AcknowledgedNotRecomputed
