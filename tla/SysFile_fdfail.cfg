\* fdalloc fails while a struct file is free: sys_open must give the
\* struct file back (a task that hangs on its own lock, or a trap on a
\* fresh slot, stops the system, so no deadlock check).
CONSTANTS
    Proc = {p1, p2}
    Inum = {1, 2, 3}
    Names = {"a", "b"}
    NFILE = 2
    NOFILE = 1
    MaxDirSlots = 3
    EntsPerBlock = 2
    Paths <- MCPathsAbs
    ChdirPaths <- MCChdirRoot
    OpenModes <- MCOpenModes
SPECIFICATION Spec
INVARIANT FileRefsExact
CHECK_DEADLOCK FALSE
