\* One CPU, no preemption in the kernel: two tasks, one inum, one slot.
CONSTANTS
  Task = {t1, t2}
  NoTask = NoTask
  Inum = {1}
  NINODE = 1
  MaxGets = 2
  Preemptive = FALSE
SPECIFICATION Spec
PROPERTY FreeOnlyUnshared
