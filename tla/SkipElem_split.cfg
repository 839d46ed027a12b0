\* namex's skipelem loop over every path of up to 5 characters drawn from
\* two letters and '/', with 2-byte names so that elements of 2 and 3
\* characters hit the unterminated and truncated cases.
CONSTANTS
    Letter = {a, b}
    Slash = Slash
    NUL = NUL
    DIRSIZ = 2
    MaxPath = 5
SPECIFICATION Spec
\* The loop ends when skipelem returns 0; that final state has no successor.
CHECK_DEADLOCK FALSE
INVARIANTS TypeOK NamesAsSplit LastOnlyAtEnd
