CONSTANTS
  Queue = {q1, q2}
  Prealloc = 3
  MaxJobs = 5
  MaxPending = 4
  MaxNesting = 2
  Reentrant = FALSE
SPECIFICATION Spec
CHECK_DEADLOCK FALSE
PROPERTY
  AcquiredRecordIsUnused
