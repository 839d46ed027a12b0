\* Two tasks share one struct file and each has one of its own. Each task
\* makes two calls among filewrite and fileread of 1 or 2 bytes on either
\* file, with a good or a bad user buffer, and sys_open(O_TRUNC).
\* Blocks of 2 bytes, one direct block and an indirect block of 2 entries
\* (6 bytes at most), 3 blocks: on an empty disk a write runs out at the
\* indirect block's second entry, and when another file holds block 2 it
\* runs out at the first entry, after the indirect block was allocated.
\* filewrite chunks of 1 byte, so that a call of 2 bytes takes two chunks.
CONSTANTS
    Task = {1, 2}
    NoTask = 0
    NBLOCK = 3
    Foreign = {2}
    BSIZE = 2
    NDIRECT = 1
    NINDIRECT = 2
    MaxChunk = 1
    MaxLen = 2
    MaxOps = 2
SPECIFICATION Spec
INVARIANTS TypeOK BlocksAccounted ReadReturnsBytes
PROPERTY AFileRefinement
