CONSTANTS
  Tables = {bookings, payments}
  Members = {c1, c2}
  NoOne = NoOne
  Kinds = {"row", "tombstone", "illisible"}
  MaxOffset = 2
  MaxTotal = 2
  MaxMessages = 2
  InterruptPoints = {"poll", "load", "reset"}
SPECIFICATION Spec
SYMMETRY Symmetry
INVARIANTS TypeOK NoLoss BufferBounded OnceWhenCalm LagZeroMeansDelivered
PROPERTIES ImplementsContract MonotoneWhenCalm
CHECK_DEADLOCK FALSE
