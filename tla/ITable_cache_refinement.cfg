\* One CPU, no preemption in the kernel: two tasks, two inums, two slots,
\* three lookups per task.
CONSTANTS
  Task = {t1, t2}
  NoTask = NoTask
  Inum = {1, 2}
  NINODE = 2
  MaxGets = 3
  Preemptive = FALSE
SPECIFICATION Spec
PROPERTY ICacheRefinement
