SPECIFICATION TerminatingSpec
CONSTANTS
    Options <- SyscallLaunches
    MaxIter = 1
PROPERTIES
    StoredBenchEndIsNoticed
CHECK_DEADLOCK FALSE
