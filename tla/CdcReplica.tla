---------------------------- MODULE CdcReplica -----------------------------
(***************************************************************************)
(* The CDC path of the bookings, from Postgres to what dbt holds for the   *)
(* existing bookings: the source table, Debezium (initial snapshot, then   *)
(* the WAL of its replication slot), the topic, the raw table, and the     *)
(* models stg_bookings_cdc and int_bookings_actives, evaluated on the raw  *)
(* table as it stands.                                                     *)
(*                                                                         *)
(* The consumer is not modelled again: its steps are those of the contract *)
(* AtLeastOnce, all of them, with rows loaded in any order and in any      *)
(* number.  What holds here holds of any consumer that implements it.      *)
(*                                                                         *)
(* A row of the source is a version of a booking; its columns are left     *)
(* out.  Postgres and Debezium are not in src/ beyond their settings: they *)
(* are modelled from debezium/connector-postgres.json and the compose file.*)
(***************************************************************************)
EXTENDS Naturals, Sequences, FiniteSets

CONSTANTS
  Bookings,       \* booking_id, never reused (BIGSERIAL)
  NoRow,          \* the JSON null of `before` or `after`
  MaxVersion,     \* bound on the versions of a booking
  MaxTopic,       \* bound on the length of the topic
  Resnapshots     \* may a snapshot be taken again?

ASSUME BookingsAssumption ==
  NoRow \notin [booking_id : Bookings, version : Nat]
ASSUME BoundsAssumption == MaxVersion \in Nat \ {0} /\ MaxTopic \in Nat
ASSUME ResnapshotsAssumption == Resnapshots \in BOOLEAN

VARIABLES
  source,     \* source[b]: version of b, 0 before it is inserted
  deleted,    \* bookings deleted from the source
  lsn,        \* position of the WAL
  wal,        \* messages for the changes that the slot retains, in order
  mode,       \* the connector: no slot yet, in its snapshot, or streaming
  image,      \* rows that the snapshot has yet to emit
  read,       \* messages of wal that the connector has emitted
  flushed,    \* messages of wal whose emission the connector remembers
  topic,      \* messages of booking.public.bookings
  charges,    \* charges[t]: offsets of topic t that have a row in {t}_cdc
  positions   \* positions[t]: committed offset of t, 0 at first

postgres == <<source, deleted, lsn>>
connector == <<mode, image, read, flushed, wal>>
warehouse == <<charges, positions>>
vars == <<source, deleted, lsn, wal, mode, image, read, flushed, topic,
          charges, positions>>

\* The tables share nothing but the group of consumers: one is enough here.
Tables == {"bookings"}
raw == charges["bookings"]
commis == positions["bookings"]

Row(b, v) == [booking_id |-> b, version |-> v]
Event(op, before, after, at) ==
  [op |-> op, before |-> before, after |-> after, lsn |-> at]
Tombstone == [op |-> "tombstone", before |-> NoRow, after |-> NoRow, lsn |-> 0]

Lines == [booking_id : Bookings, version : 1 .. MaxVersion] \cup {NoRow}
Messages == [op : {"c", "u", "d", "r", "tombstone"}, before : Lines,
             after : Lines, lsn : Nat]

TypeOK ==
  /\ source \in [Bookings -> 0 .. MaxVersion]
  /\ deleted \subseteq {b \in Bookings : source[b] > 0}
  /\ lsn \in Nat
  /\ wal \in Seq(Messages)
  /\ mode \in {"off", "snapshot", "streaming"}
  /\ image \subseteq Messages
  /\ read \in 0 .. Len(wal)
  /\ flushed \in 0 .. read
  /\ topic \in Seq(Messages)
  /\ charges \in [Tables -> SUBSET (1 .. Len(topic))]
  /\ positions \in [Tables -> 0 .. (MaxTopic + 1)]

Init ==
  /\ source = [b \in Bookings |-> 0]
  /\ deleted = {}
  /\ lsn = 0
  /\ wal = <<>>
  /\ mode = "off"
  /\ image = {}
  /\ read = 0
  /\ flushed = 0
  /\ topic = <<>>
  /\ charges = [t \in Tables |-> {}]
  /\ positions = [t \in Tables |-> 0]

-----------------------------------------------------------------------------
(***************************************************************************)
(* The source.  REPLICA IDENTITY FULL puts the whole old row in `before`;  *)
(* tombstones.on.delete gives a deletion a second message, without value.  *)
(***************************************************************************)
Write(messages) ==
  /\ lsn' = lsn + 1
  /\ wal' = IF mode = "off" THEN wal ELSE wal \o messages
  /\ UNCHANGED <<mode, image, read, flushed, topic, warehouse>>

Insert(b) ==
  /\ source[b] = 0
  /\ source' = [source EXCEPT ![b] = 1]
  /\ Write(<<Event("c", NoRow, Row(b, 1), lsn + 1)>>)
  /\ UNCHANGED deleted

Update(b) ==
  /\ source[b] \in 1 .. (MaxVersion - 1)
  /\ b \notin deleted
  /\ source' = [source EXCEPT ![b] = @ + 1]
  /\ Write(<<Event("u", Row(b, source[b]), Row(b, source[b] + 1), lsn + 1)>>)
  /\ UNCHANGED deleted

Delete(b) ==
  /\ source[b] > 0
  /\ b \notin deleted
  /\ deleted' = deleted \cup {b}
  /\ Write(<<Event("d", Row(b, source[b]), NoRow, lsn + 1), Tombstone>>)
  /\ UNCHANGED source

-----------------------------------------------------------------------------
(***************************************************************************)
(* Debezium: snapshot.mode=initial, then the changes in the order of the   *)
(* WAL.                                                                    *)
(***************************************************************************)
Emit(message) ==
  /\ Len(topic) < MaxTopic
  /\ topic' = Append(topic, message)

\* The slot is created and the table read at one position of the WAL.
SnapshotBegin ==
  /\ mode = "off"
  /\ mode' = "snapshot"
  /\ image' = {Event("r", NoRow, Row(b, source[b]), lsn) :
                 b \in {x \in Bookings : source[x] > 0} \ deleted}
  /\ wal' = <<>>
  /\ read' = 0
  /\ flushed' = 0
  /\ UNCHANGED <<postgres, topic, warehouse>>

SnapshotRow(m) ==
  /\ mode = "snapshot"
  /\ m \in image
  /\ Emit(m)
  /\ image' = image \ {m}
  /\ UNCHANGED <<postgres, mode, read, flushed, wal, warehouse>>

\* Mutant of SnapshotEnd: rows of the snapshot are left behind.
SnapshotEndEarly ==
  /\ mode = "snapshot"
  /\ mode' = "streaming"
  /\ image' = {}
  /\ UNCHANGED <<postgres, read, flushed, wal, topic, warehouse>>

SnapshotEnd ==
  /\ mode = "snapshot"
  /\ image = {}
  /\ mode' = "streaming"
  /\ UNCHANGED <<postgres, image, read, flushed, wal, topic, warehouse>>

Stream ==
  /\ mode = "streaming"
  /\ read < Len(wal)
  /\ Emit(wal[read + 1])
  /\ read' = read + 1
  /\ UNCHANGED <<postgres, mode, image, flushed, wal, warehouse>>

\* Mutant of FlushPosition: one message too many is remembered.
FlushAhead ==
  /\ mode = "streaming"
  /\ flushed < read
  /\ flushed' = read + 1
  /\ UNCHANGED <<postgres, mode, image, read, wal, topic, warehouse>>

FlushPosition ==
  /\ mode = "streaming"
  /\ flushed < read
  /\ flushed' = read
  /\ UNCHANGED <<postgres, mode, image, read, wal, topic, warehouse>>

\* The connector restarts: the changes emitted since the last position that it
\* recorded are emitted once more.
ConnectorRestart ==
  /\ mode = "streaming"
  /\ flushed < read
  /\ read' = flushed
  /\ UNCHANGED <<postgres, mode, image, flushed, wal, topic, warehouse>>

\* The connector restarts in the middle of its snapshot, or more WAL than
\* max_slot_wal_keep_size waits for it and its slot is lost with the changes
\* that it retained: in both cases a whole snapshot is taken anew.
SnapshotAgain ==
  /\ Resnapshots
  /\ mode = "snapshot" \/ (mode = "streaming" /\ read < Len(wal))
  /\ mode' = "off"
  /\ image' = {}
  /\ wal' = <<>>
  /\ read' = 0
  /\ flushed' = 0
  /\ UNCHANGED <<postgres, topic, warehouse>>

-----------------------------------------------------------------------------
(***************************************************************************)
(* The consumer: any one that keeps the contract.                          *)
(***************************************************************************)
IsTombstone(o) == topic[o].op = "tombstone"

Rows == {o \in 1 .. Len(topic) : ~IsTombstone(o)}

Consumer == INSTANCE AtLeastOnce WITH
  Kinds <- {"row", "tombstone"},
  MaxOffset <- MaxTopic,
  log <- [t \in Tables |->
            [o \in 1 .. Len(topic) |->
               IF IsTombstone(o) THEN "tombstone" ELSE "row"]],
  raw <- charges,
  commis <- positions

\* A load job: rows of the topic, in any number and in any order.
Load ==
  /\ UNCHANGED <<postgres, connector, topic>>
  /\ Consumer!Load("bookings")

\* A commit, forwards or backwards, of what the contract allows.
Commit ==
  /\ UNCHANGED <<postgres, connector, topic>>
  /\ Consumer!Commit

-----------------------------------------------------------------------------
(***************************************************************************)
(* dbt.  stg_bookings_cdc keeps the last event of each booking; a deletion *)
(* has its row in `before`.                                                *)
(***************************************************************************)
\* Mutants of Ligne: coalesce(after, before), which takes the JSON null of a
\* deletion; the row before the change.
LigneCoalesced(m) == m.after
LigneBefore(m) == m.before

Ligne(m) == IF m.op = "d" THEN m.before ELSE m.after

EventsOf(b) ==
  {o \in raw : Ligne(topic[o]) # NoRow /\ Ligne(topic[o]).booking_id = b}

\* Mutant of After: order by _kafka_offset desc.
AfterByOffset(o, p) == o > p

\* order by lsn desc, _kafka_offset desc
After(o, p) ==
  \/ topic[o].lsn > topic[p].lsn
  \/ topic[o].lsn = topic[p].lsn /\ o > p

Dernier(b) ==
  LET events == EventsOf(b)
  IN  CHOOSE o \in events : \A p \in events \ {o} : After(o, p)

StgBookingsCdc ==
  [b \in {x \in Bookings : EventsOf(x) # {}} |->
     LET m == topic[Dernier(b)]
     IN  [version |-> Ligne(m).version, is_deleted |-> m.op = "d"]]

\* int_bookings_actives: what exists in the source, according to the CDC.
Actives ==
  LET stg == StgBookingsCdc
  IN  [b \in {x \in DOMAIN stg : ~stg[x].is_deleted} |-> stg[b].version]

-----------------------------------------------------------------------------
Next ==
  \/ \E b \in Bookings : Insert(b) \/ Update(b) \/ Delete(b)
  \/ SnapshotBegin
  \/ \E m \in image : SnapshotRow(m)
  \/ SnapshotEnd
  \/ Stream
  \/ FlushPosition
  \/ ConnectorRestart
  \/ SnapshotAgain
  \/ Load
  \/ Commit

Spec == Init /\ [][Next]_vars

\* The connector keeps working, and each message that is not a tombstone is
\* loaded in the end, as EventuallyDelivered of CdcConsumer has it.
Fairness ==
  /\ WF_vars(SnapshotBegin)
  /\ WF_vars(\E m \in image : SnapshotRow(m))
  /\ WF_vars(SnapshotEnd)
  /\ WF_vars(Stream)
  /\ WF_vars(FlushPosition)
  /\ \A o \in 1 .. MaxTopic : []<>(o \in Rows => o \in raw)

FairSpec == Spec /\ Fairness

-----------------------------------------------------------------------------
Existing == {b \in Bookings : source[b] > 0} \ deleted

\* The simulator is quiet and nothing is on its way: the connector has emitted
\* all it had to, and the lag of the consumer is 0.
CaughtUp ==
  /\ mode = "streaming"
  /\ read = Len(wal)
  /\ (IF commis = 0 THEN 1 ELSE commis) = Len(topic) + 1

\* tests/test_reconciliation_cdc.py: with the lag at 0, the bookings of the
\* target are those of the source, neither ghosts nor losses; and each shows
\* its last version.
Reconciled ==
  CaughtUp => Actives = [b \in Existing |-> source[b]]

\* The half of it that holds however many snapshots are taken: no booking is
\* missing and none shows an old version.
NothingMissing ==
  CaughtUp =>
    LET actives == Actives
    IN  \A b \in Existing : b \in DOMAIN actives /\ actives[b] = source[b]

\* The bookings that the view knows as deleted.
Disparues ==
  LET stg == StgBookingsCdc
  IN  {b \in DOMAIN stg : stg[b].is_deleted}

\* A booking that was seen deleted does not come back, though the connector
\* emits old changes again after newer ones.
NoResurrection == [][Disparues \subseteq Disparues']_vars

\* Number of changes of b that led to what the view shows of it.
Shown(b) ==
  IF EventsOf(b) = {} THEN 0
  ELSE LET m == topic[Dernier(b)]
       IN  IF m.op = "d" THEN Ligne(m).version + 1 ELSE Ligne(m).version

Replica == INSTANCE MonotoneReplica WITH
  etape <- [b \in Bookings |->
              IF b \in deleted THEN source[b] + 1 ELSE source[b]],
  vue <- [b \in Bookings |-> Shown(b)]

\* However late, repeated or out of order the messages come, the view goes
\* through states of the source, forwards.
ImplementsReplica == Replica!Spec

TopicFull == Len(topic) = MaxTopic
RestartsCease == <>[][~(ConnectorRestart \/ SnapshotAgain)]_vars

\* A version of a booking is eventually shown, or overtaken by a later one, if
\* the connector is not restarted for ever and the topic has room; it may be
\* missed only by a booking deleted in between.
EventuallyShown ==
  RestartsCease =>
    \A b \in Bookings, v \in 1 .. MaxVersion :
      (source[b] = v) ~> (Shown(b) >= v \/ b \in deleted \/ TopicFull)

\* A deletion that the slot retains is eventually shown, or lost with the slot.
EventuallyGone ==
  RestartsCease =>
    \A b \in Bookings :
      (\E i \in DOMAIN wal : wal[i].op = "d" /\ wal[i].before.booking_id = b)
        ~> (Shown(b) > source[b] \/ mode = "off" \/ TopicFull)

=============================================================================
