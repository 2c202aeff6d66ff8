SPECIFICATION FairSpec
CONSTANTS
    MaxMonID = 9
    Clusters = {{0,1,2}, {}}
    Counts = {3}
    Moved = {}
    Crashable = {1}
    Losable = {2}
    Pinned = {}
    MaxEvents = 3
PROPERTIES Recovers
CHECK_DEADLOCK FALSE
