CONSTANTS
    NR_TERM <- MCTwoTerms
    IN_BUF_SIZE <- MCBufSize
    LENS <- MCLens
    NR_RET_MAX <- MCNrRetMax
    READERS <- MCNoReaders
SPECIFICATION Spec
PROPERTY LineBufferRefined
