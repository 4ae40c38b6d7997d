CONSTANTS
  Evenements = {e1}
  NoEvent = NoEvent
  LastDay = 1
  Retries = 2
  Coupures = {"caractere"}
SPECIFICATION Spec
INVARIANTS TruncatedLineIsRejected
CHECK_DEADLOCK FALSE
