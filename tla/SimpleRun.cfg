SPECIFICATION TerminatingSpec
CONSTANTS
    Options <- AllLaunches
    MaxIter = 2
INVARIANTS
    TypeOK
    ReportAfterReap
    ShellIsSystems
    Numbering
    MissingPreReported
    StubIsLast
PROPERTIES
    ReportedOnce
    ImplementsLauncher
    HeardEnds
    PlainEnds
CHECK_DEADLOCK FALSE
