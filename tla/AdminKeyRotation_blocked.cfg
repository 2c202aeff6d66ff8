SPECIFICATION FairSpec
CONSTANTS
  Clusters = {{}}
  MaxGen = 2
  MaxEvents = 2
PROPERTIES
  NotBlocked
CHECK_DEADLOCK FALSE
