CONSTANTS
  Cles = {r1, r2}
  LastDay = 2
  MaxVersion = 1
  Retries = 0
  MaxActive = 2
  Expiration = 3
SPECIFICATION Spec
INVARIANTS PartitionIsItsFile
CHECK_DEADLOCK FALSE
