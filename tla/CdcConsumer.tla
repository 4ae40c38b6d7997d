---------------------------- MODULE CdcConsumer ----------------------------
(***************************************************************************)
(* ingestion/cdc_consumer.py: the loop that reads the Debezium topics and  *)
(* appends their messages to the raw BigQuery tables by micro-batches.     *)
(*                                                                         *)
(* Several processes of the program may run in the one consumer group      *)
(* (booking-cdc-bq), each started at most once here: a restart is another  *)
(* member.  A topic has one partition and feeds one table, so Tables names *)
(* topics, partitions and tables alike.  Offsets count from 1.             *)
(*                                                                         *)
(* The broker (offsets, group membership, assignment) and Debezium are not *)
(* in src/: they are modelled from how the consumer uses them.  Payloads,  *)
(* timestamps and log lines are left out; time is a free choice at each    *)
(* poll (flush after --max-seconds, exit after --exit-when-idle).          *)
(***************************************************************************)
EXTENDS Naturals, Sequences, FiniteSets, FiniteSetsExt

CONSTANTS
  Tables,           \* TABLES: topic, partition and raw table
  Members,          \* the processes that may be started
  NoOne,            \* no member, no topic
  Kinds,            \* kinds of message Debezium may write
  MaxOffset,        \* bound on the length of a topic
  MaxTotal,         \* bound on the messages of all topics
  MaxMessages,      \* --max-messages
  InterruptPoints   \* steps at which a Ctrl+C may land

AllKinds == {"row", "tombstone", "illisible"}
AllPoints == {"poll", "noted", "load", "reset"}

ASSUME TablesAssumption == Tables # {} /\ IsFiniteSet(Tables)
ASSUME MembersAssumption == NoOne \notin Members \cup Tables
ASSUME KindsAssumption == Kinds \subseteq AllKinds
ASSUME BoundsAssumption ==
  MaxOffset \in Nat /\ MaxTotal \in Nat /\ MaxMessages \in Nat \ {0}
ASSUME PointsAssumption == InterruptPoints \subseteq AllPoints

VARIABLES
  \* the broker and the warehouse
  log,          \* log[t]: messages of topic t
  commis,       \* commis[t]: committed offset, 0 before the first commit
  raw,          \* raw[t]: offsets with a row in {t}_cdc
  redits,       \* redits[t]: offsets loaded more than once
  \* the consumer group
  etat,         \* etat[c]: where c stands in the group
  owner,        \* owner[t]: member to which the last rebalance gave t
  \* the processes
  pc,           \* pc[c]: step of main() or vider() that c is about to take
  position,     \* position[c][t]: next offset c reads of t, 0: not assigned
  tampon,       \* tampon[c][t]: offsets of the buffered rows
  a_commiter,   \* a_commiter[c][t]: offset to commit, 0: no entry
  courant,      \* courant[c]: topic of the message in hand
  restant,      \* restant[c]: tables that vider() has yet to load
  \* history
  incident      \* a batch was cut short, or read under a lost assignment

broker == <<log, commis, raw, redits>>
group == <<etat, owner>>
memory == <<position, tampon, a_commiter, courant, restant>>
vars == <<log, commis, raw, redits, etat, owner, pc, position, tampon,
          a_commiter, courant, restant, incident>>

Steps == {"absent", "poll", "noted", "load", "reset", "final_load",
          "closing", "stopped", "dead"}
Etats == {"out", "rejoin", "joined", "sync", "stable"}
Offsets == 0 .. (MaxOffset + 1)

Running(c) == pc[c] \notin {"absent", "stopped", "dead"}
InGroup == {c \in Members : etat[c] # "out"}
Pending(c) == \E t \in Tables : a_commiter[c][t] # 0
Assigned(c) == {t \in Tables : position[c][t] # 0}
Loading(c) == pc[c] \in {"load", "final_load"}

Contents(s) == {s[i] : i \in DOMAIN s}
EnAttente(buffer) == MapThenSumSet(LAMBDA t : Len(buffer[t]), Tables)
NonEmpty(buffer) == {t \in Tables : buffer[t] # <<>>}

None == [t \in Tables |-> 0]
Empty == [t \in Tables |-> <<>>]

\* Mutants of StartOffset: auto.offset.reset=latest; committed offsets ignored.
StartLatest(t) == IF commis[t] = 0 THEN Len(log[t]) + 1 ELSE commis[t]
StartFromScratch(t) == 1

\* auto.offset.reset=earliest: without a committed offset, the first message
\* that the topic holds.
StartOffset(t) == IF commis[t] = 0 THEN 1 ELSE commis[t]

\* Mutant of LagTotal: the partitions of c only, as before the test of 02/10.
LagAssigned(c) ==
  MapThenSumSet(LAMBDA t : Len(log[t]) + 1 - StartOffset(t), Assigned(c))

\* lag_total(): over every partition of the topics, assigned to c or not.
LagTotal(c) ==
  MapThenSumSet(LAMBDA t : Len(log[t]) + 1 - StartOffset(t), Tables)

-----------------------------------------------------------------------------
TypeOK ==
  /\ log \in [Tables -> Seq(Kinds)]
  /\ \A t \in Tables : Len(log[t]) <= MaxOffset
  /\ commis \in [Tables -> Offsets]
  /\ raw \in [Tables -> SUBSET Offsets]
  /\ redits \in [Tables -> SUBSET Offsets]
  /\ etat \in [Members -> Etats]
  /\ owner \in [Tables -> Members \cup {NoOne}]
  /\ pc \in [Members -> Steps]
  /\ position \in [Members -> [Tables -> Offsets]]
  /\ tampon \in [Members -> [Tables -> Seq(Offsets)]]
  /\ a_commiter \in [Members -> [Tables -> Offsets]]
  /\ courant \in [Members -> Tables \cup {NoOne}]
  /\ restant \in [Members -> SUBSET Tables]
  /\ incident \in BOOLEAN

Init ==
  /\ log = [t \in Tables |-> <<>>]
  /\ commis = None
  /\ raw = [t \in Tables |-> {}]
  /\ redits = [t \in Tables |-> {}]
  /\ etat = [c \in Members |-> "out"]
  /\ owner = [t \in Tables |-> NoOne]
  /\ pc = [c \in Members |-> "absent"]
  /\ position = [c \in Members |-> None]
  /\ tampon = [c \in Members |-> Empty]
  /\ a_commiter = [c \in Members |-> None]
  /\ courant = [c \in Members |-> NoOne]
  /\ restant = [c \in Members |-> {}]
  /\ incident = FALSE

-----------------------------------------------------------------------------
(***************************************************************************)
(* Debezium: appends a change event or the tombstone of a deleted key, or  *)
(* something that the consumer cannot read.                                *)
(***************************************************************************)
Produce(t, k) ==
  /\ Len(log[t]) < MaxOffset
  /\ EnAttente(log) < MaxTotal
  /\ log' = [log EXCEPT ![t] = Append(@, k)]
  /\ UNCHANGED <<commis, raw, redits, group, pc, memory, incident>>

(***************************************************************************)
(* The group coordinator, eager protocol.  A change of membership makes    *)
(* every member give up its partitions at its next poll; once all have     *)
(* rejoined, the partitions are shared out again.                          *)
(***************************************************************************)
Shaken ==
  [d \in Members |->
     CASE etat[d] = "stable" -> "rejoin"
       [] etat[d] = "sync"   -> "joined"
       [] OTHER              -> etat[d]]

MembershipChange(c, new) ==
  /\ etat' = [Shaken EXCEPT ![c] = new]
  /\ owner' = [t \in Tables |-> NoOne]

\* poll() of a process that is not in the group: subscribe() at start, or the
\* discovery that it was evicted.  What it had assigned is dropped; tampon and
\* a_commiter stay, for no on_revoke callback is given to subscribe().
Join(c) ==
  /\ pc[c] = "poll"
  /\ etat[c] = "out"
  /\ MembershipChange(c, "joined")
  /\ position' = [position EXCEPT ![c] = None]
  /\ UNCHANGED <<broker, pc, tampon, a_commiter, courant, restant, incident>>

\* poll() of a member during a rebalance: same remark.
Revoke(c) ==
  /\ pc[c] = "poll"
  /\ etat[c] = "rejoin"
  /\ etat' = [etat EXCEPT ![c] = "joined"]
  /\ position' = [position EXCEPT ![c] = None]
  /\ incident' = (incident \/ Pending(c))
  /\ UNCHANGED <<broker, owner, pc, tampon, a_commiter, courant, restant>>

ShareOut ==
  /\ InGroup # {}
  /\ \A c \in InGroup : etat[c] = "joined"
  /\ owner' \in [Tables -> InGroup]
  /\ etat' = [c \in Members |-> IF c \in InGroup THEN "sync" ELSE etat[c]]
  /\ UNCHANGED <<broker, pc, memory, incident>>

\* poll() delivers the assignment: reading starts at the committed offset.
OnAssign(c) ==
  /\ pc[c] = "poll"
  /\ etat[c] = "sync"
  /\ etat' = [etat EXCEPT ![c] = "stable"]
  /\ position' = [position EXCEPT ![c] =
       [t \in Tables |-> IF owner[t] = c THEN StartOffset(t) ELSE 0]]
  /\ UNCHANGED <<broker, owner, pc, tampon, a_commiter, courant, restant,
                 incident>>

\* The coordinator hears no more of a dead process.
SessionExpire(c) ==
  /\ pc[c] = "dead"
  /\ etat[c] # "out"
  /\ MembershipChange(c, "out")
  /\ UNCHANGED <<broker, pc, memory, incident>>

\* A live process is taken for dead: load jobs longer than max.poll.interval,
\* machine asleep, network cut.  It does not know it before its next poll.
Evict(c) ==
  /\ Running(c)
  /\ etat[c] # "out"
  /\ MembershipChange(c, "out")
  /\ incident' = TRUE
  /\ UNCHANGED <<broker, pc, memory>>

-----------------------------------------------------------------------------
(***************************************************************************)
(* main()                                                                  *)
(***************************************************************************)
Start(c) ==
  /\ pc[c] = "absent"
  /\ pc' = [pc EXCEPT ![c] = "poll"]
  /\ UNCHANGED <<broker, group, memory, incident>>

\* poll() returns a message, and its successor becomes the offset to commit
\* before the message itself has been read.
PollMessage(c, t) ==
  /\ pc[c] = "poll"
  /\ t \in Assigned(c)
  /\ position[c][t] <= Len(log[t])
  /\ position' = [position EXCEPT ![c][t] = @ + 1]
  /\ a_commiter' = [a_commiter EXCEPT ![c][t] = position[c][t] + 1]
  /\ courant' = [courant EXCEPT ![c] = t]
  /\ pc' = [pc EXCEPT ![c] = "noted"]
  /\ UNCHANGED <<broker, group, tampon, restant, incident>>

\* Mutant of BeginFlush: only the table of the message in hand is loaded.
BeginFlushInHand(c, step, buffer) ==
  /\ pc' = [pc EXCEPT ![c] = step]
  /\ restant' = [restant EXCEPT ![c] = NonEmpty(buffer) \cap {courant[c]}]

\* vider() begins: it will load every table whose buffer holds a row.
BeginFlush(c, step, buffer) ==
  /\ pc' = [pc EXCEPT ![c] = step]
  /\ restant' = [restant EXCEPT ![c] = NonEmpty(buffer)]

\* The end of main(): a last vider() if anything is to be committed.
Finish(c, buffer) ==
  IF Pending(c) THEN BeginFlush(c, "final_load", buffer)
                ELSE /\ pc' = [pc EXCEPT ![c] = "closing"]
                     /\ UNCHANGED restant

\* The process is no more, and its memory with it.
Gone(c, how) ==
  /\ pc' = [pc EXCEPT ![c] = how]
  /\ position' = [position EXCEPT ![c] = None]
  /\ tampon' = [tampon EXCEPT ![c] = Empty]
  /\ a_commiter' = [a_commiter EXCEPT ![c] = None]
  /\ restant' = [restant EXCEPT ![c] = {}]
  /\ courant' = [courant EXCEPT ![c] = NoOne]

\* The message in hand is buffered, or counted if it is a tombstone; the flush
\* test follows, on the rows buffered or on the time (a free choice).
Handle(c) ==
  LET t == courant[c]
      o == a_commiter[c][t] - 1
      buffer == IF log[t][o] = "row"
                  THEN [tampon[c] EXCEPT ![t] = Append(@, o)]
                  ELSE tampon[c]
  IN  /\ pc[c] = "noted"
      /\ log[t][o] # "illisible"
      /\ tampon' = [tampon EXCEPT ![c] = buffer]
      /\ \/ BeginFlush(c, "load", buffer)
         \/ /\ EnAttente(buffer) < MaxMessages
            /\ pc' = [pc EXCEPT ![c] = "poll"]
            /\ UNCHANGED restant
      /\ courant' = [courant EXCEPT ![c] = NoOne]
      /\ UNCHANGED <<broker, group, position, a_commiter, incident>>

\* json.loads() or a missing field raises: the process ends without commit.
HandleFails(c) ==
  LET t == courant[c]
  IN  /\ pc[c] = "noted"
      /\ log[t][a_commiter[c][t] - 1] = "illisible"
      /\ Gone(c, "dead")
      /\ incident' = TRUE
      /\ UNCHANGED <<broker, group>>

\* Mutants of FlushOnTime: the time is looked at only when there are rows; only
\* when the batch is full.
FlushOnTimeIfRows(c) ==
  /\ pc[c] = "poll"
  /\ EnAttente(tampon[c]) > 0
  /\ BeginFlush(c, "load", tampon[c])
  /\ UNCHANGED <<broker, group, position, tampon, a_commiter, courant,
                 incident>>

FlushOnTimeIfFull(c) ==
  /\ pc[c] = "poll"
  /\ EnAttente(tampon[c]) >= MaxMessages
  /\ BeginFlush(c, "load", tampon[c])
  /\ UNCHANGED <<broker, group, position, tampon, a_commiter, courant,
                 incident>>

\* poll() returns nothing and --max-seconds have passed since the batch began.
FlushOnTime(c) ==
  /\ pc[c] = "poll"
  /\ Pending(c)
  /\ BeginFlush(c, "load", tampon[c])
  /\ UNCHANGED <<broker, group, position, tampon, a_commiter, courant,
                 incident>>

\* poll() returns nothing for --exit-when-idle seconds.  Without a partition
\* the clock is reset at each turn, so the process waits.
IdleExit(c) ==
  /\ pc[c] = "poll"
  /\ Assigned(c) # {}
  /\ Finish(c, tampon[c])
  /\ UNCHANGED <<broker, group, position, tampon, a_commiter, courant,
                 incident>>

-----------------------------------------------------------------------------
(***************************************************************************)
(* vider(), and the reset of the batch that follows it.                    *)
(***************************************************************************)
AppendRows(c, t) ==
  LET rows == Contents(tampon[c][t])
      twice == {o \in rows : \E i, j \in DOMAIN tampon[c][t] :
                   i # j /\ tampon[c][t][i] = o /\ tampon[c][t][j] = o}
  IN  /\ raw' = [raw EXCEPT ![t] = @ \cup rows]
      /\ redits' = [redits EXCEPT ![t] = @ \cup (rows \cap raw[t]) \cup twice]

\* Mutants of CommitOffsets: the offset of the last message and not of the next;
\* the offset after the next.
CommitOffsetsBehind(c) ==
  commis' = [t \in Tables |->
               IF a_commiter[c][t] # 0 THEN a_commiter[c][t] - 1 ELSE commis[t]]

CommitOffsetsAhead(c) ==
  commis' = [t \in Tables |->
               IF a_commiter[c][t] # 0 THEN a_commiter[c][t] + 1 ELSE commis[t]]

CommitOffsets(c) ==
  commis' = [t \in Tables |->
               IF a_commiter[c][t] # 0 THEN a_commiter[c][t] ELSE commis[t]]

\* The load job of one table, waited for.
LoadTable(c, t) ==
  /\ Loading(c)
  /\ t \in restant[c]
  /\ AppendRows(c, t)
  /\ restant' = [restant EXCEPT ![c] = @ \ {t}]
  /\ UNCHANGED <<log, commis, group, pc, position, tampon, a_commiter,
                 courant, incident>>

\* Mutant of MayCommit: the loads are sent but not waited for.
MayCommitEarly(c) ==
  /\ Loading(c)
  /\ c \in InGroup \/ InGroup = {}

\* The broker takes offsets from a member, and from a stranger only when the
\* group is empty.
MayCommit(c) ==
  /\ Loading(c)
  /\ restant[c] = {}
  /\ c \in InGroup \/ InGroup = {}

Commit(c) ==
  /\ MayCommit(c)
  /\ CommitOffsets(c)
  /\ pc' = [pc EXCEPT ![c] = IF pc[c] = "load" THEN "reset" ELSE "closing"]
  /\ UNCHANGED <<log, raw, redits, group, memory, incident>>

\* Mutant of Reset: the buffer is kept.
ResetOffsetsOnly(c) ==
  /\ pc[c] = "reset"
  /\ a_commiter' = [a_commiter EXCEPT ![c] = None]
  /\ pc' = [pc EXCEPT ![c] = "poll"]
  /\ UNCHANGED <<broker, group, tampon, position, courant, restant, incident>>

\* New tampon, new a_commiter, back to poll().
Reset(c) ==
  /\ pc[c] = "reset"
  /\ tampon' = [tampon EXCEPT ![c] = Empty]
  /\ a_commiter' = [a_commiter EXCEPT ![c] = None]
  /\ pc' = [pc EXCEPT ![c] = "poll"]
  /\ UNCHANGED <<broker, group, position, courant, restant, incident>>

\* consumer.close(): the process leaves the group at once.
Close(c) ==
  /\ pc[c] = "closing"
  /\ Gone(c, "stopped")
  /\ IF etat[c] = "out" THEN UNCHANGED group ELSE MembershipChange(c, "out")
  /\ UNCHANGED <<broker, incident>>

-----------------------------------------------------------------------------
(***************************************************************************)
(* What was sent when a process is interrupted or dies: a load job that    *)
(* BigQuery completes all the same, a commit that the broker has taken.    *)
(***************************************************************************)
InFlight(c) ==
  \/ UNCHANGED <<commis, raw, redits>>
  \/ /\ Loading(c)
     /\ \E t \in restant[c] : AppendRows(c, t)
     /\ UNCHANGED commis
  \/ /\ MayCommit(c)
     /\ CommitOffsets(c)
     /\ UNCHANGED <<raw, redits>>

\* Ctrl+C in the loop: caught, and everything buffered is flushed again.  On
\* the reset step tampon may already be new and a_commiter still old.
Interrupt(c) ==
  /\ pc[c] \in InterruptPoints
  /\ InFlight(c)
  /\ \/ tampon' = tampon
     \/ pc[c] = "reset" /\ tampon' = [tampon EXCEPT ![c] = Empty]
  /\ Finish(c, tampon'[c])
  /\ courant' = [courant EXCEPT ![c] = NoOne]
  /\ incident' = (incident \/ pc[c] \in {"load", "reset"})
  /\ UNCHANGED <<log, group, position, a_commiter>>

\* Any other end: kill, os._exit of --crash-after-load, an error returned by
\* poll(), a load job or a commit that fails, lag_total() that times out, a
\* Ctrl+C outside the loop.  No commit follows, and no close().
Die(c) ==
  /\ Running(c)
  /\ InFlight(c)
  /\ Gone(c, "dead")
  /\ incident' = (incident \/ (Pending(c) /\ pc[c] # "closing"))
  /\ UNCHANGED <<log, group>>

Next ==
  \/ \E t \in Tables, k \in Kinds : Produce(t, k)
  \/ ShareOut
  \/ \E c \in Members :
       \/ Start(c)
       \/ Join(c)
       \/ Revoke(c)
       \/ OnAssign(c)
       \/ SessionExpire(c)
       \/ Evict(c)
       \/ \E t \in Tables : PollMessage(c, t)
       \/ Handle(c)
       \/ HandleFails(c)
       \/ FlushOnTime(c)
       \/ IdleExit(c)
       \/ \E t \in Tables : LoadTable(c, t)
       \/ Commit(c)
       \/ Reset(c)
       \/ Close(c)
       \/ Interrupt(c)
       \/ Die(c)

Spec == Init /\ [][Next]_vars

(***************************************************************************)
(* A process that runs keeps polling, loading and committing; the broker   *)
(* completes its rebalances and expires its sessions.  Nothing obliges     *)
(* anyone to start a process, and no failure is obliged to happen.         *)
(***************************************************************************)
Fairness ==
  /\ WF_vars(ShareOut)
  /\ \A c \in Members :
       /\ WF_vars(Join(c))
       /\ WF_vars(Revoke(c))
       /\ WF_vars(OnAssign(c))
       /\ WF_vars(SessionExpire(c))
       /\ WF_vars(\E t \in Tables : PollMessage(c, t))
       /\ WF_vars(Handle(c))
       /\ WF_vars(HandleFails(c))
       /\ WF_vars(FlushOnTime(c))
       /\ WF_vars(\E t \in Tables : LoadTable(c, t))
       /\ WF_vars(Commit(c))
       /\ WF_vars(Reset(c))
       /\ WF_vars(Close(c))

FairSpec == Spec /\ Fairness

-----------------------------------------------------------------------------
IsTombstone(t, o) == o \in 1 .. Len(log[t]) /\ log[t][o] = "tombstone"

Covered(t, n) == \A o \in 1 .. (n - 1) : o \in raw[t] \/ IsTombstone(t, o)

\* Aucune perte: whatever crashes, rebalances, evictions or late Ctrl+C came
\* before, every message below a committed offset is in the raw table, unless
\* it is a tombstone.  An unreadable message is never skipped.
NoLoss == \A t \in Tables : Covered(t, commis[t])

\* lag_total() is what the operator and the reconciliation test trust: when it
\* says 0, every row of the topics is in the raw table, even while a rebalance
\* leaves the process that asks without partitions.
LagZeroMeansDelivered ==
  \A c \in Members :
    Running(c) /\ LagTotal(c) = 0 =>
      \A t \in Tables : Covered(t, Len(log[t]) + 1)

\* The memory of the process is bounded by the flush test alone: no sequence of
\* rebalances, which put the same rows again in the buffer, grows it further.
BufferBounded ==
  \A c \in Members : EnAttente(tampon[c]) <= MaxMessages

\* Where no batch was cut short and no partition changed hands under a pending
\* batch (stops by Ctrl+C at poll() or by idleness, restarts and new members
\* included), each row is loaded once: at-least-once is then exactly-once.
OnceWhenCalm == ~incident => \A t \in Tables : redits[t] = {}

\* Committed offsets go backwards only after such an incident (a member that
\* commits, late, the offsets of a partition it no longer has).
MonotoneWhenCalm ==
  [][~incident' => \A t \in Tables : commis[t] <= commis'[t]]_vars

Contract == INSTANCE AtLeastOnce

\* The consumer implements the contract of at-least-once delivery: every step
\* is a production, a load of existing rows, a covered commit, or none of them.
ImplementsContract == Contract!Spec

\* Evictions end: load jobs are not for ever longer than max.poll.interval.
EvictionsCease == <>[][~ \E c \in Members : Evict(c)]_vars

NoneRunning == \A c \in Members : ~Running(c)

\* Every row of a topic eventually reaches the raw table, however the partitions
\* move, as long as some process is left running and is not evicted for ever.
EventuallyDelivered ==
  EvictionsCease =>
    \A t \in Tables, o \in 1 .. MaxOffset :
      (o <= Len(log[t])) ~> (o \in raw[t] \/ IsTombstone(t, o) \/ NoneRunning)

\* The lag drains when no batch is cut short.  It need not otherwise: a member
\* that commits late, after it lost a partition, moves the offset back, and
\* nothing moves it forward again until the next message or the next rebalance.
LagDrainsWhenCalm ==
  []~incident =>
    \A t \in Tables, o \in 1 .. MaxOffset :
      (o <= Len(log[t])) ~> (commis[t] > o \/ NoneRunning)

=============================================================================
