CONSTANTS
    Proc = {p1, p2}
    Inum = {1, 2, 3}
    Names = {"a", "b"}
    NFILE = 1
    NOFILE = 2
    MaxDirSlots = 4
    EntsPerBlock = 2
    Paths <- MCPaths
    ChdirPaths <- MCChdirAny
    OpenModes <- MCOpenModes
SPECIFICATION Spec
INVARIANT LinkCountsExact
