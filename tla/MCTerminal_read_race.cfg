CONSTANTS
    NR_TERM <- MCOneTerm
    IN_BUF_SIZE <- MCBufSize
    LENS <- MCLens
    NR_RET_MAX <- MCNrRetMax
    READERS <- MCReaderOn0
SPECIFICATION Spec
INVARIANT IndexesInBounds
CHECK_DEADLOCK FALSE
