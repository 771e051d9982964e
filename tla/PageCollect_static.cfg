SPECIFICATION Spec
CONSTANTS
    THP = 2
    Files <- Adjacent
    Tables <- Tables6
    Frames = {2, 3, 4}
    HugeFrames <- AllHuge
    NotPresent = NotPresent
    Kernel = {9}
    StaleWords = {NotPresent, 4}
    StaleSizes = {1}
    Changes = {"one remap", "exit"}
    Faults = {"open"}
INVARIANTS
    TypeOK
    CursorInSync
    EverySmallPageCounted
PROPERTIES
    CountsWhatIsMapped
CHECK_DEADLOCK FALSE
