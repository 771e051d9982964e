SPECIFICATION Spec
CONSTANTS
    THP = 2
    Files <- WithKernel
    Tables <- Tables4
    Frames = {2, 3}
    HugeFrames <- OneHuge
    NotPresent = NotPresent
    Kernel = {9}
    StaleWords = {NotPresent, 2}
    StaleSizes = {1, 3}
    Changes = {"remap", "exit"}
    Faults = {"open", "seek", "jump", "read", "flagseek", "flagread"}
INVARIANTS
    Accounting
    RunsMatch
    PagesInOrder
PROPERTIES
    Terminates
CHECK_DEADLOCK FALSE
