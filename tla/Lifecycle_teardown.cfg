CONSTANTS
  Objects <- MCObjects
  Kind <- MCKind
  Provider <- MCProvider
  Backing <- MCBacking
  Pools <- MCPools
  Mirrored = {"pool", "rnsA", "fs"}
  Scenarios <- MCScenarios
  MaxEvents = 1
  Failing = {"fs rm", "pool delete", "nvme-gw delete", "grace remove"}
  NoObject = "nobody"
SPECIFICATION FairSpec
INVARIANTS TypeOK DataKept ProvidersLast CheckersEnd NothingLeft ClusterLast
           ForeignKept
PROPERTIES TeardownCompletes SetupCompletes
CHECK_DEADLOCK FALSE
