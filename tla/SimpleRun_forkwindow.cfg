SPECIFICATION TerminatingSpec
CONSTANTS
    Options <- PlainLaunches
    MaxIter = 1
PROPERTIES
    BenchEndsLauncherEnds
CHECK_DEADLOCK FALSE
