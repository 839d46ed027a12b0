\* Several CPUs: two tasks contend for one inum in a one-slot table.
CONSTANTS
  Task = {t1, t2}
  NoTask = NoTask
  Inum = {1}
  NINODE = 1
  MaxGets = 2
  Preemptive = TRUE
SPECIFICATION Spec
INVARIANT TypeOK
PROPERTY EveryPutReturns
\* A task stuck forever violates EveryPutReturns; the bounded rounds end.
CHECK_DEADLOCK FALSE
