CONSTANTS
  Cles = {r1}
  LastDay = 2
  MaxVersion = 2
  Retries = 1
  MaxActive = 1
  Expiration = 3
SPECIFICATION FairSpec
INVARIANTS TypeOK PartitionIsItsFile StagingIsCurrent
PROPERTIES CurrentKept OthersUntouched EveryWindowEnds
CHECK_DEADLOCK FALSE
