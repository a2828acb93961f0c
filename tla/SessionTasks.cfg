SPECIFICATION Spec
CONSTANTS
  c1 = c1
  c2 = c2
  Clients <- TwoClients
  Hop = 2
  MinProcess = 2
  MaxAudio = 3
  MaxTotal = 4
  Faults <- AllFaults
  Limits <- LaterLimits
INVARIANT TypeOK
INVARIANT TasksOutliveStop
PROPERTY HopsTile
SYMMETRY Symmetry
\* A session ends: its tasks return and its clients leave.
CHECK_DEADLOCK FALSE
