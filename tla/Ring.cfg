CONSTANTS
  Cap = 8
  Hop = 3
  MinBytes = 4
  TailBytes = 5
  Window = 6
  Frames <- MCFrames
  MaxTotal = 26
SPECIFICATION Spec
INVARIANTS TypeOK RingHoldsLatest SliceIsAudio
PROPERTIES LabelsAreClose HopIsInSlice
CHECK_DEADLOCK FALSE
