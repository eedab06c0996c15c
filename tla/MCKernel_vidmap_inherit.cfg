CONSTANTS
    MAX_PID <- MCMaxPid
    NR_TERM <- MCOneTerm
    NULL = NULL
    FILES <- MCFiles
    USER_FAULTS = FALSE
SPECIFICATION Spec
INVARIANT NoInheritedVideoMap
