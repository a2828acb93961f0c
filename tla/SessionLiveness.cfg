SPECIFICATION FairSpec
CONSTANTS
  c1 = c1
  c2 = c2
  Clients <- OneClient
  Hop = 1
  MinProcess = 2
  MaxAudio = 2
  MaxTotal = 3
  Faults <- NoFaults
  Limits <- ConnectLimits
PROPERTY BacklogDrains
PROPERTY SleepingProcessorStops
PROPERTY AbandonedGoesAway
\* A session ends: its tasks return and its clients leave.
CHECK_DEADLOCK FALSE
