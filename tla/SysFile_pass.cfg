CONSTANTS
    Proc = {p1, p2}
    Inum = {1, 2, 3}
    Names = {"a", "b"}
    NFILE = 1
    NOFILE = 2
    MaxDirSlots = 4
    EntsPerBlock = 2
    Paths <- MCPathsRoot
    ChdirPaths <- MCChdirRoot
    OpenModes <- MCOpenModes
SPECIFICATION Spec
INVARIANT TypeOK
INVARIANT RefCountsExact
INVARIANT LinkCountsExact
INVARIANT FreedInodesUnreachable
INVARIANT UnlinkedInodesReclaimed
INVARIANT ParentLinks
INVARIANT NamesUnique
INVARIANT NoPanicOrHang
