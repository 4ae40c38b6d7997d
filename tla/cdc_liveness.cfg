CONSTANTS
  Tables = {bookings}
  Members = {c1, c2}
  NoOne = NoOne
  Kinds = {"row", "tombstone"}
  MaxOffset = 2
  MaxTotal = 2
  MaxMessages = 2
  InterruptPoints = {}
SPECIFICATION FairSpec
PROPERTIES EventuallyDelivered LagDrainsWhenCalm
CHECK_DEADLOCK FALSE
