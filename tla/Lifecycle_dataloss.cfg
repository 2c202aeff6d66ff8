\* The dependents check of CephFilesystem when `fs get` fails.
SPECIFICATION Spec
CONSTANTS
  Objects <- MCObjects
  Kind <- MCKind
  Provider <- MCProvider
  Backing <- MCBacking
  Pools <- MCPools
  Mirrored = {"pool", "rnsA", "fs"}
  Scenarios <- JustFile
  MaxEvents = 1
  Failing = {"fs get"}
  NoObject = "nobody"
INVARIANT NoDataLost
CHECK_DEADLOCK FALSE
