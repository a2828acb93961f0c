SPECIFICATION FairSpec
CONSTANTS
  c1 = c1
  c2 = c2
  Clients <- OneClient
  Hop = 2
  MinProcess = 2
  MaxAudio = 0
  MaxTotal = 2
  Faults <- NoFaults
  Limits <- ConnectLimits
PROPERTY StopEndsProcessor
\* A session ends: its tasks return and its clients leave.
CHECK_DEADLOCK FALSE
