\* fdalloc fails in a file slot an earlier open has used: xv6fs_close
\* puts the inode the caller still holds, then iunlockput puts it again.
CONSTANTS
    Proc = {p1, p2}
    Inum = {1, 2, 3}
    Names = {"a", "b"}
    NFILE = 2
    NOFILE = 1
    MaxDirSlots = 4
    EntsPerBlock = 2
    Paths <- MCPathsAbs
    ChdirPaths <- MCChdirRoot
    OpenModes <- MCOpenModes
SPECIFICATION Spec
INVARIANT RefCountsExact
CHECK_DEADLOCK FALSE
