CONSTANTS
    MAX_PID <- MCMaxPid
    NR_TERM <- MCNrTerm
SPECIFICATION Spec
INVARIANT TypeOK
PROPERTIES
    TickIsRoundRobin
    StarvationFree
    RequestsServiced
