SPECIFICATION Spec
CONSTANTS
    OSDs = {1, 2, 3}
    Steady = {1, 2}
    Nodes = {"n1", "n2"}
    NodeOf <- ZoneNodes
    Levels = {0}
    Domains = {1, 2}
    Location <- ZoneLocation
    PoolChoices <- HostPools
    Cordonable = {"n2"}
    Crashable = {1}
    Expiring = {}
    MaxAborts = 0
INVARIANT SleepsOnlyWhenRestored
