CONSTANTS
  Bookings = {b1}
  NoRow = NoRow
  MaxVersion = 2
  MaxTopic = 4
  Resnapshots = TRUE
SPECIFICATION Spec
INVARIANTS Reconciled
CHECK_DEADLOCK FALSE
