SPECIFICATION Spec
CONSTANTS
    OSDs = {1, 2}
    Steady = {1, 2}
    Nodes = {"n1", "n2"}
    NodeOf <- ZoneNodes
    Levels = {0, 1}
    Domains = {1, 2, 11, 12}
    Location <- ZoneLocation
    PoolChoices <- ZonePools
    Cordonable = {"n2"}
    Crashable = {}
    Expiring = {}
    MaxAborts = 0
INVARIANT AllBlockingBudgetsDeleted
