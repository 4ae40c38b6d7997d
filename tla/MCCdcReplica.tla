--------------------------- MODULE MCCdcReplica ---------------------------
(* Small instances of CdcReplica. *)
EXTENDS CdcReplica, TLC

BookingSymmetry == Permutations(Bookings)

=============================================================================
