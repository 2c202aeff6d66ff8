SPECIFICATION Spec
CONSTANTS
    MaxMonID = 4
    Clusters = {{0,1,2}}
    Counts = {3}
    Moved = {0}
    Crashable = {1}
    Losable = {}
    Pinned = {0,1,2}
    MaxEvents = 1
PROPERTIES FailoverKeepsQuorum
CHECK_DEADLOCK FALSE
