CONSTANTS
    MAX_PID <- MCMaxPid
    NR_TERM <- MCOneTerm
    NULL = NULL
    FILES <- MCFiles
    USER_FAULTS = FALSE
SPECIFICATION Spec
INVARIANTS
    TypeOK
    PidOwnership
    WaitingParentConsistent
    RunnableAreLive
    AddressSpacesIsolated
PROPERTIES
    ExecuteReturns
