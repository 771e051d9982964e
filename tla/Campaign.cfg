SPECIFICATION Spec
CONSTANTS
    Rounds = 2
    Snapshots = 3
    Levels = {0, 2}
    Leftovers = {0, 1}
    Faults = {"memfrag"}
INVARIANTS
    FirstBenchInFragmentedMemory
    ResultsAreOfTheirRound
    PrintedUpToGap
    OneFragmenter
PROPERTIES
    EndsOrWaits
CHECK_DEADLOCK FALSE
