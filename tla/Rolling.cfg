SPECIFICATION Spec
CONSTANTS
  Words <- MCWords
  Hop = 4
  TailLen = 9
  Window = 16
  Overlap = 2
  Near = 1
  Jitter = 2
  RefreshEvery = 24
  RefreshGap = 6
  MaxTime = 44
INVARIANTS WordsOnceInOrder
PROPERTIES HopIsHeard WordsLeaveForAReason PruneRefreshes
\* The audio ends.
CHECK_DEADLOCK FALSE
