CONSTANTS
    Procs <- MCProcs
    FD_MAX <- MCFdMax
    Names <- MCNames
    NameType <- MCNameType
    FileLen <- MCFileLen
    RtcName <- MCRtcName
    NUM_DIRS <- MCNumDirs
    LENS <- MCLens
    RATES <- MCRates
SPECIFICATION Spec
INVARIANT TypeOK FilePositionInBounds ReadDataMatchesReference RtcRateValid
