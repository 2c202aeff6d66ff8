SPECIFICATION FairSpec
CONSTANTS
  Clusters = {{"aes256k", "quiet"}, {}}
  MaxGen = 3
  MaxEvents = 2
INVARIANTS
  TypeOK
  NeverLockedOut
PROPERTIES
  KeepsAccess
  PublishedWhenSafe
  MonKeyStored
  Settles
CHECK_DEADLOCK FALSE
