\* One task, three inodes, two names, three system calls and one crash.
\* The bound on calls ends every behaviour, so no deadlock check.
CONSTANTS
    Inum = {1, 2, 3}
    Names = {"a", "b"}
    MaxDirSlots = 3
    MaxOps = 3
    MaxCrash = 1
SPECIFICATION Spec
INVARIANT NoDanglingEntry
CHECK_DEADLOCK FALSE
