CONSTANTS
    NR_TERM <- MCOneTerm
    IN_BUF_SIZE <- MCBufSize
    LENS <- MCLens
    NR_RET_MAX <- MCNrRetMax
    READERS <- MCReaderOn0
SPECIFICATION Spec
INVARIANT TypeOK
\* A terminal whose indices have left in_buf stops (undefined behaviour):
\* those stops are the only deadlocks.
CHECK_DEADLOCK FALSE
