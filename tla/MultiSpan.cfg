SPECIFICATION Spec
CONSTANTS
  NoAlign = NoAlign
  Aligned <- MCAligned
  FarDist = 2
  MaxSegs = 5
INVARIANTS SpansTile JumpsAreSeams SplitsAreJustified NoJumpMissed
\* A recording ends.
CHECK_DEADLOCK FALSE
