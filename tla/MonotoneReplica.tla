-------------------------- MODULE MonotoneReplica --------------------------
(***************************************************************************)
(* What a replica of the source promises while it lags: each booking shows *)
(* a state that the source has had, and never an older one than it has     *)
(* already shown.  A state is named by the number of changes (insertion,   *)
(* updates, deletion) that led to it, 0 when the booking is unknown.       *)
(***************************************************************************)
EXTENDS Naturals

CONSTANT Bookings

VARIABLES
  etape,   \* etape[b]: changes that b has had in the source
  vue      \* vue[b]: the one that the replica shows

Init ==
  /\ etape = [b \in Bookings |-> 0]
  /\ vue = [b \in Bookings |-> 0]

Change(b) ==
  /\ etape' = [etape EXCEPT ![b] = @ + 1]
  /\ UNCHANGED vue

Refresh ==
  /\ UNCHANGED etape
  /\ vue' \in [Bookings -> Nat]
  /\ \A b \in Bookings : vue[b] <= vue'[b] /\ vue'[b] <= etape[b]

Next == Refresh \/ \E b \in Bookings : Change(b)

Spec == Init /\ [][Next]_<<etape, vue>>

=============================================================================
