CONSTANTS
    MAX_PID <- MCMaxPid
    NR_TERM <- MCTwoTerms
    NULL = NULL
    FILES <- MCFiles
    USER_FAULTS = FALSE
SPECIFICATION Spec
INVARIANT RootShellRestartsInPlace
