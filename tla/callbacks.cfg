CONSTANTS
  Queue = {q1, q2, q3}
  Prealloc = 3
  MaxJobs = 6
  MaxPending = 3
  MaxNesting = 3
  Reentrant = FALSE
SPECIFICATION Spec
CHECK_DEADLOCK FALSE
INVARIANTS
  TypeOK
  RecordsPartitioned
  CalledOnceOrWaiting
PROPERTIES
  DrainsComplete
