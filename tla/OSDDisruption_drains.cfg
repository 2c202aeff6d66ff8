SPECIFICATION Spec
CONSTANTS
    OSDs = {1, 2}
    Steady = {1, 2}
    Nodes = {"n1", "n2"}
    NodeOf <- HostNodes
    Levels = {0}
    Domains = {1, 2}
    Location <- HostLocation
    PoolChoices <- HostPools
    Cordonable = {"n1", "n2"}
    Crashable = {}
    Expiring = {}
    MaxAborts = 1
INVARIANTS TypeOK OnlyDrainedDomainsExposed SleepsOnlyWhenRestored
