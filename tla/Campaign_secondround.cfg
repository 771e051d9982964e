SPECIFICATION Spec
CONSTANTS
    Rounds = 2
    Snapshots = 1
    Levels = {0}
    Leftovers = {}
    Faults = {}
INVARIANTS
    BenchInFragmentedMemory
CHECK_DEADLOCK FALSE
