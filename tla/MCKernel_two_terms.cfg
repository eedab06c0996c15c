CONSTANTS
    MAX_PID <- MCSmallPid
    NR_TERM <- MCTwoTerms
    NULL = NULL
    FILES <- MCFiles
    USER_FAULTS = TRUE
SPECIFICATION Spec
INVARIANTS
    ContextConsistent
PROPERTIES
    TickRestoresVideoMap
CHECK_DEADLOCK FALSE
