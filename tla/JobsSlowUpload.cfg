SPECIFICATION Spec
CONSTANTS
  NoJob = NoJob
  j1 = j1
  j2 = j2
  w1 = w1
  w2 = w2
  Jobs <- TwoJobs
  Workers <- TwoWorkers
  QueueCap = 1
  Permits = 1
  MaxDelete = 1
  SlowUploads = TRUE
  Faults <- NoFaults
  MaxRestarts = 0
PROPERTY ActiveIsNeverDeleted
SYMMETRY Symmetry
\* When every job is finished and its directory deleted nothing is left to do.
CHECK_DEADLOCK FALSE
