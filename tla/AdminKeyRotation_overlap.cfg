SPECIFICATION Spec
CONSTANTS
  Clusters = {{"aes256k"}}
  MaxGen = 2
  MaxEvents = 0
INVARIANTS
  NeverLockedOut
CHECK_DEADLOCK FALSE
