SPECIFICATION Spec
CONSTANTS
    MaxMonID = 7
    Clusters = {{0, 1, 2}, {}}
    Counts = {1, 3, 5}
    Moved = {0}
    Crashable = {1}
    Losable = {2}
    Pinned = {2}
    MaxEvents = 2
INVARIANTS TypeOK NewIdUnused
PROPERTIES KeepsQuorum RemovesOnlySpares BudgetLeavesQuorum
CHECK_DEADLOCK FALSE
