CONSTANTS
  Tables = {bookings}
  Members = {c1}
  NoOne = NoOne
  Kinds = {"row"}
  MaxOffset = 1
  MaxTotal = 1
  MaxMessages = 1
  InterruptPoints = {"poll", "noted", "load", "reset"}
SPECIFICATION Spec
INVARIANTS NoLoss
CHECK_DEADLOCK FALSE
