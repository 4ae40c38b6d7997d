CONSTANTS
  Bookings = {b1, b2}
  NoRow = NoRow
  MaxVersion = 2
  MaxTopic = 5
  Resnapshots = FALSE
SPECIFICATION Spec
SYMMETRY BookingSymmetry
INVARIANTS TypeOK Reconciled
CHECK_DEADLOCK FALSE
