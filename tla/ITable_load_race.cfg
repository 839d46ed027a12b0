\* One CPU, no preemption in the kernel: two tasks, one inum, two slots.
CONSTANTS
  Task = {t1, t2}
  NoTask = NoTask
  Inum = {1}
  NINODE = 2
  MaxGets = 2
  Preemptive = FALSE
SPECIFICATION Spec
INVARIANT LockedViewFresh
