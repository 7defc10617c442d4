CONSTANTS
  a = a
  b = b
  c = c
  Server = {a, b}
  Listed = {a}
  MaxEdits = 2
  MaxChanges = 1
  MayStop = TRUE
SPECIFICATION FairSpec
INVARIANT NothingLeftToRetry
PROPERTIES EventuallyConnected LoopEnds
CHECK_DEADLOCK FALSE
