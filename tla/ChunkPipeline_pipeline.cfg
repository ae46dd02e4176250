SPECIFICATION FairSpec
CONSTANTS
  S = 1
  N = 6
  Capacity = 1
  Failing = {1, 2}
  Filtering = {1}
  Cancels = TRUE
CHECK_DEADLOCK FALSE
INVARIANTS
  NoSilentTruncation ConsumedInOrder  AtMostOneAfterCancel
PROPERTY
  Terminates
