SPECIFICATION ToolsSpec
CONSTANTS
    Files <- MCFiles
    PrintedFiles <- MCPrintedFiles
    THP = 2
    Vpns = {2, 3, 4, 6}
    Pfns = {2, 4}
    MaxLines = 2
INVARIANTS
    Chained
    FramesKept
    TotalIsFootprint
    InnerCanBeRemoved
    FailsForNestedOnly
    OverlapsAgree
    PlacesAgree
    PlacedAsInRanges
PROPERTIES
    Terminates
CHECK_DEADLOCK FALSE
