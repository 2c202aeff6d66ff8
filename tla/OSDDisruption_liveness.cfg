SPECIFICATION FairSpec
CONSTANTS
    OSDs = {1, 2}
    Steady = {1, 2}
    Nodes = {"n1", "n2"}
    NodeOf <- HostNodes
    Levels = {0}
    Domains = {1, 2}
    Location <- HostLocation
    PoolChoices <- HostPools
    Cordonable = {"n1"}
    Crashable = {2}
    Expiring = {1}
    MaxAborts = 1
PROPERTY HealedClusterIsRestored
