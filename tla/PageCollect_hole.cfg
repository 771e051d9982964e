SPECIFICATION Spec
CONSTANTS
    THP = 2
    Files <- Six
    Tables <- HugeFirst
    Frames = {2, 3, 4}
    HugeFrames <- HugeFour
    NotPresent = NotPresent
    Kernel = {}
    StaleWords = {NotPresent}
    StaleSizes = {1}
    Changes = {}
    Faults = {}
INVARIANTS
    EveryPresentPageCounted
CHECK_DEADLOCK FALSE
