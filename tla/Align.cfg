SPECIFICATION Spec
CONSTANTS
  Transcripts <- MCTranscripts
  References <- MCReferences
  Offsets <- MCOffsets
  Bands = {0, 1, 2}
  SubCost <- MCSubCost
  ObsIns = 2
  RefDel = 2
  Inf = 1000
  Heard <- MCHeard
  NextGap = 2
INVARIANTS TraceIsPath AlignmentIsCheapest SegmentsFitTheWords
\* A function that returns.
CHECK_DEADLOCK FALSE
