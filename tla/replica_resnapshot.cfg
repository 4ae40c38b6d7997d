CONSTANTS
  Bookings = {b1}
  NoRow = NoRow
  MaxVersion = 2
  MaxTopic = 4
  Resnapshots = TRUE
SPECIFICATION FairSpec
INVARIANTS NothingMissing
PROPERTIES NoResurrection ImplementsReplica EventuallyShown EventuallyGone
CHECK_DEADLOCK FALSE
