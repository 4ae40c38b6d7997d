CONSTANTS
  Evenements = {e1, e2}
  NoEvent = NoEvent
  LastDay = 2
  Retries = 1
  Coupures = {"ligne", "fin"}
SPECIFICATION FairSpec
INVARIANTS TypeOK LoadedIsComplete
PROPERTIES ReplayKeeps EventuallyLoaded
CHECK_DEADLOCK FALSE
