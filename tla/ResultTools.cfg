SPECIFICATION ToolsSpec
CONSTANTS
    Histograms <- AllCollected
    Tops = {1, 2, 4, 6}
    Percents = {80, 90, 99}
    FloatExact = 16
    Word = 1024
    ChunkLogs <- MCChunkLogs
    FailureLogs <- MCFailureLogs
    FailTypes = {"exch_busy", "free_other"}
    Experiments <- MCExperiments
    RootBelow <- MCRootBelow
    RootAbove <- MCRootAbove
    MaxFloat = 1000000000
INVARIANTS
    TopCoverage
    FewestEntries
    LargestIsChosen
    CountersUnderTheirNames
    CasesAreOfOneKind
    EveryRunCounts
    AccountsAgree
    FailuresAreCounted
CHECK_DEADLOCK FALSE
