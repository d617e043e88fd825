CONSTANTS
  Queue = {q1, q2}
  Prealloc = 3
  MaxJobs = 4
  MaxPending = 3
  MaxNesting = 2
  Reentrant = TRUE
SPECIFICATION Spec
CHECK_DEADLOCK FALSE
PROPERTY
  ProcessedRecordIsRecycled
