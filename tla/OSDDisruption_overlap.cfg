SPECIFICATION RunningSpec
CONSTANTS
    OSDs = {1, 2, 3}
    Steady = {1, 2, 3}
    Nodes = {"n1", "n2", "n3"}
    NodeOf <- HostNodes
    Levels = {0}
    Domains = {1, 2, 3}
    Location <- HostLocation
    PoolChoices <- HostPools
    Cordonable = {"n1", "n2"}
    Crashable = {}
    Expiring = {}
    MaxAborts = 0
INVARIANT DrainsStayInOneDomain
