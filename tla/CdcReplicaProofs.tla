-------------------------- MODULE CdcReplicaProofs --------------------------
(***************************************************************************)
(* Proofs about CdcReplica, for every number of bookings, versions and     *)
(* messages, and, where it is not said otherwise, whatever is snapshot     *)
(* anew, and whatever consumer keeps the contract AtLeastOnce.             *)
(***************************************************************************)
EXTENDS CdcReplica, FiniteSetTheorems, WellFoundedInduction, TLAPS

-----------------------------------------------------------------------------
(***************************************************************************)
(* Sequences of messages.                                                  *)
(***************************************************************************)
Elements(s) == {s[i] : i \in 1 .. Len(s)}

LEMMA AppendFacts ==
  ASSUME NEW S, NEW s \in Seq(S), NEW m \in S
  PROVE  /\ Append(s, m) \in Seq(S)
         /\ Len(Append(s, m)) = Len(s) + 1 /\ Len(s) \in Nat
         /\ \A i \in 1 .. Len(s) : Append(s, m)[i] = s[i]
         /\ Append(s, m)[Len(s) + 1] = m
         /\ Elements(Append(s, m)) = Elements(s) \cup {m}
<1>1. /\ Append(s, m) \in Seq(S)
      /\ Len(Append(s, m)) = Len(s) + 1 /\ Len(s) \in Nat
      /\ \A i \in 1 .. Len(s) : Append(s, m)[i] = s[i]
      /\ Append(s, m)[Len(s) + 1] = m
  OBVIOUS
<1>2. \A i \in 1 .. (Len(s) + 1) : i \in 1 .. Len(s) \/ i = Len(s) + 1
  BY <1>1
<1>3. Elements(Append(s, m)) = Elements(s) \cup {m}
  BY <1>1, <1>2 DEF Elements
<1>4. QED
  BY <1>1, <1>3

LEMMA ConcatFacts ==
  ASSUME NEW S, NEW s \in Seq(S), NEW t \in Seq(S)
  PROVE  /\ s \o t \in Seq(S)
         /\ Len(s \o t) = Len(s) + Len(t) /\ Len(s) \in Nat /\ Len(t) \in Nat
         /\ \A i \in 1 .. Len(s) : (s \o t)[i] = s[i]
         /\ \A i \in 1 .. Len(t) : (s \o t)[Len(s) + i] = t[i]
         /\ Elements(s \o t) = Elements(s) \cup Elements(t)
<1>1. /\ s \o t \in Seq(S)
      /\ Len(s \o t) = Len(s) + Len(t) /\ Len(s) \in Nat /\ Len(t) \in Nat
      /\ \A i \in 1 .. Len(s) : (s \o t)[i] = s[i]
  OBVIOUS
<1>2. \A i \in 1 .. Len(t) : (s \o t)[Len(s) + i] = t[i]
  BY <1>1
<1>3. \A i \in 1 .. Len(s \o t) :
        (s \o t)[i] \in Elements(s) \cup Elements(t)
  <2> SUFFICES ASSUME NEW i \in 1 .. Len(s \o t)
               PROVE  (s \o t)[i] \in Elements(s) \cup Elements(t)
    OBVIOUS
  <2>1. CASE i \in 1 .. Len(s)
    BY <1>1, <2>1 DEF Elements
  <2>2. CASE i \notin 1 .. Len(s)
    <3>1. i - Len(s) \in 1 .. Len(t) /\ Len(s) + (i - Len(s)) = i
      BY <1>1, <2>2
    <3>2. QED
      BY <1>2, <3>1 DEF Elements
  <2>3. QED
    BY <2>1, <2>2
<1>4. \A i \in 1 .. Len(s) : s[i] \in Elements(s \o t)
  <2>1. \A i \in 1 .. Len(s) : i \in 1 .. Len(s \o t)
    BY <1>1
  <2>2. QED
    BY <1>1, <2>1 DEF Elements
<1>5. \A i \in 1 .. Len(t) : t[i] \in Elements(s \o t)
  <2>1. \A i \in 1 .. Len(t) : Len(s) + i \in 1 .. Len(s \o t)
    BY <1>1
  <2>2. QED
    BY <1>2, <2>1 DEF Elements
<1>6. Elements(s \o t) = Elements(s) \cup Elements(t)
  BY <1>3, <1>4, <1>5 DEF Elements
<1>7. QED
  BY <1>1, <1>2, <1>6

-----------------------------------------------------------------------------
(***************************************************************************)
(* Types.                                                                  *)
(***************************************************************************)
TypeInv ==
  /\ TypeOK
  /\ Len(topic) <= MaxTopic
  /\ raw \subseteq 1 .. Len(topic)
  /\ commis \in 0 .. (MaxTopic + 1)

LEMMA LoadedTypes ==
  TypeOK => /\ raw \subseteq 1 .. Len(topic)
            /\ commis \in 0 .. (MaxTopic + 1)
BY DEF TypeOK, Tables, raw, commis

LEMMA LoadedTypesNext ==
  (TypeOK => /\ raw \subseteq 1 .. Len(topic)
             /\ commis \in 0 .. (MaxTopic + 1))'
BY LoadedTypes, PTL

LEMMA EventTypes ==
  ASSUME NEW op \in {"c", "u", "d", "r"}, NEW before \in Lines,
         NEW after \in Lines, NEW at \in Nat
  PROVE  /\ Event(op, before, after, at) \in Messages
         /\ Tombstone \in Messages
BY DEF Event, Messages, Tombstone, Lines

LEMMA RowTypes ==
  ASSUME NEW b \in Bookings, NEW v \in 1 .. MaxVersion
  PROVE  Row(b, v) \in Lines /\ NoRow \in Lines
BY DEF Row, Lines

LEMMA WriteTypes ==
  ASSUME TypeOK, NEW messages \in Seq(Messages), Write(messages)
  PROVE  /\ wal' \in Seq(Messages) /\ lsn' \in Nat
         /\ Len(wal) <= Len(wal') /\ Len(wal) \in Nat /\ Len(wal') \in Nat
         /\ UNCHANGED <<mode, image, read, flushed, topic, warehouse, raw,
                        commis>>
<1>1. wal \in Seq(Messages) /\ lsn \in Nat
  BY DEF TypeOK
<1>2. /\ wal \o messages \in Seq(Messages)
      /\ Len(wal \o messages) = Len(wal) + Len(messages)
      /\ Len(wal) \in Nat /\ Len(messages) \in Nat
  BY <1>1, ConcatFacts
<1>3. QED
  BY <1>1, <1>2 DEF Write, warehouse, raw, commis

LEMMA TypeInit == Init => TypeInv
<1> SUFFICES ASSUME Init
             PROVE  TypeInv
  OBVIOUS
<1>1. /\ source \in [Bookings -> 0 .. MaxVersion]
      /\ positions \in [Tables -> 0 .. (MaxTopic + 1)]
      /\ Len(topic) <= MaxTopic
  BY BoundsAssumption DEF Init
<1>2. TypeOK
  BY <1>1 DEF Init, TypeOK
<1>3. QED
  BY <1>1, <1>2, LoadedTypes DEF TypeInv

\* The messages that a change of the source writes.
LEMMA SourceMessages ==
  ASSUME TypeOK, NEW b \in Bookings
  PROVE  /\ source[b] = 0 => <<Event("c", NoRow, Row(b, 1), lsn + 1)>>
                               \in Seq(Messages)
         /\ source[b] \in 1 .. (MaxVersion - 1) =>
              <<Event("u", Row(b, source[b]), Row(b, source[b] + 1), lsn + 1)>>
                \in Seq(Messages)
         /\ source[b] > 0 =>
              <<Event("d", Row(b, source[b]), NoRow, lsn + 1), Tombstone>>
                \in Seq(Messages)
<1>1. lsn + 1 \in Nat /\ source[b] \in 0 .. MaxVersion /\ MaxVersion \in Nat
  BY BoundsAssumption DEF TypeOK
<1>2. 1 \in 1 .. MaxVersion
  BY BoundsAssumption
<1>3. /\ source[b] \in 1 .. (MaxVersion - 1) =>
           source[b] \in 1 .. MaxVersion /\ source[b] + 1 \in 1 .. MaxVersion
      /\ source[b] > 0 => source[b] \in 1 .. MaxVersion
  BY <1>1
<1>4. /\ Event("c", NoRow, Row(b, 1), lsn + 1) \in Messages
      /\ source[b] \in 1 .. (MaxVersion - 1) =>
           Event("u", Row(b, source[b]), Row(b, source[b] + 1), lsn + 1)
             \in Messages
      /\ source[b] > 0 =>
           /\ Event("d", Row(b, source[b]), NoRow, lsn + 1) \in Messages
           /\ Tombstone \in Messages
  BY <1>1, <1>2, <1>3, RowTypes, EventTypes
<1>5. QED
  BY <1>4

\* The topic as the contract sees it.
Log ==
  [o \in 1 .. Len(topic) |-> IF IsTombstone(o) THEN "tombstone" ELSE "row"]

LEMMA LogFacts ==
  ASSUME TypeOK
  PROVE  Len(Log) = Len(topic) /\ Len(topic) \in Nat
<1>1. Len(topic) \in Nat
  BY DEF TypeOK
<1>2. Log \in [1 .. Len(topic) -> {"row", "tombstone"}]
  BY DEF Log
<1>3. QED
  BY <1>1, <1>2

\* What the contract lets a load do.
LEMMA LoadFacts ==
  ASSUME TypeOK, Load
  PROVE  /\ UNCHANGED <<postgres, connector, topic, positions, commis>>
         /\ charges' \in [Tables -> SUBSET (1 .. Len(topic))]
         /\ raw \subseteq raw'
<1> DEFINE L == [t \in Tables |-> Log]
<1>1. UNCHANGED <<postgres, connector, topic, positions>>
  BY DEF Load, Consumer!Load
<1>2. PICK S \in SUBSET {o \in 1 .. Len(L["bookings"]) :
                          L["bookings"][o] = "row"} :
        charges' = [charges EXCEPT !["bookings"] = @ \cup S]
  BY DEF Load, Consumer!Load, Consumer!Rows, Consumer!Messages, Log
<1>3. S \subseteq 1 .. Len(topic)
  BY <1>2, LogFacts DEF Tables
<1>4. QED
  BY <1>1, <1>2, <1>3 DEF raw, commis, Tables, TypeOK

\* What it lets a commit do.
LEMMA CommitFacts ==
  ASSUME TypeOK, Commit
  PROVE  /\ UNCHANGED <<postgres, connector, topic, charges, raw>>
         /\ positions' \in [Tables -> 0 .. (MaxTopic + 1)]
         /\ \A o \in 1 .. (commis' - 1) :
              o \in 1 .. Len(topic) /\ (o \in raw \/ IsTombstone(o))
<1> DEFINE L == [t \in Tables |-> Log]
<1>1. /\ UNCHANGED <<postgres, connector, topic, charges>>
      /\ positions' \in [Tables -> 0 .. (MaxTopic + 1)]
  BY DEF Commit, Consumer!Commit
<1>2. \A o \in 1 .. (positions'["bookings"] - 1) :
        \/ o \in charges["bookings"]
        \/ o \in 1 .. Len(L["bookings"]) /\ L["bookings"][o] = "tombstone"
  BY DEF Commit, Consumer!Commit, Consumer!Covered, Consumer!IsTombstone,
     Consumer!Messages, Log, Tables
<1>3. \A o \in 1 .. (commis' - 1) :
        o \in 1 .. Len(topic) /\ (o \in raw \/ IsTombstone(o))
  <2>1. L["bookings"] = Log /\ raw \subseteq 1 .. Len(topic)
    BY LoadedTypes DEF Tables
  <2>2. \A o \in 1 .. Len(topic) : Log[o] = "tombstone" => IsTombstone(o)
    BY DEF Log
  <2>3. QED
    BY <1>2, <2>1, <2>2, LogFacts DEF raw, commis
<1>4. QED
  BY <1>1, <1>3 DEF raw

LEMMA TypeStep == TypeInv /\ [Next]_vars => TypeInv'
<1> SUFFICES ASSUME TypeInv, [Next]_vars
             PROVE  TypeOK' /\ Len(topic') <= MaxTopic
  BY LoadedTypesNext DEF TypeInv
<1> USE DEF postgres, connector, warehouse
<1>00. TypeOK /\ Len(topic) <= MaxTopic
  BY DEF TypeInv
<1> DEFINE Typed == TypeOK' /\ Len(topic') <= MaxTopic
<1>0. Len(wal) \in Nat /\ Len(topic) \in Nat /\ MaxTopic \in Nat
  BY <1>00, BoundsAssumption DEF TypeOK
<1>1. ASSUME NEW b \in Bookings, Insert(b) \/ Update(b) \/ Delete(b)
      PROVE  Typed
  <2>1. PICK messages \in Seq(Messages) : Write(messages)
    BY <1>00, <1>1, SourceMessages DEF Insert, Update, Delete, TypeOK
  <2>2. /\ wal' \in Seq(Messages) /\ lsn' \in Nat
        /\ Len(wal) <= Len(wal') /\ Len(wal') \in Nat
        /\ UNCHANGED <<mode, image, read, flushed, topic, warehouse>>
    BY <1>00, <2>1, WriteTypes
  <2>3. read' \in 0 .. Len(wal') /\ flushed' \in 0 .. read'
    BY <1>00, <1>0, <2>2 DEF TypeOK
  <2>4. /\ source' \in [Bookings -> 0 .. MaxVersion]
        /\ deleted' \subseteq {x \in Bookings : source'[x] > 0}
    <3>1. CASE Insert(b)
      BY <1>00, <3>1, BoundsAssumption DEF Insert, TypeOK
    <3>2. CASE Update(b)
      BY <1>00, <3>2, BoundsAssumption DEF Update, TypeOK
    <3>3. CASE Delete(b)
      BY <1>00, <3>3 DEF Delete, TypeOK
    <3>4. QED
      BY <1>1, <3>1, <3>2, <3>3
  <2>5. QED
    BY <1>00, <2>2, <2>3, <2>4 DEF TypeOK
<1>2. CASE SnapshotBegin
  <2>1. \A b \in Bookings : source[b] > 0 =>
          Event("r", NoRow, Row(b, source[b]), lsn) \in Messages
    <3>1. ASSUME NEW b \in Bookings, source[b] > 0
          PROVE  source[b] \in 1 .. MaxVersion
      BY <1>00, <3>1, BoundsAssumption DEF TypeOK
    <3>2. QED
      BY <1>00, <3>1, RowTypes, EventTypes DEF TypeOK
  <2>2. image' \subseteq Messages
    BY <1>2, <2>1 DEF SnapshotBegin
  <2>3. QED
    BY <1>00, <1>2, <2>2 DEF SnapshotBegin, TypeOK
<1>3. ASSUME NEW m \in Messages, Emit(m)
      PROVE  /\ topic' \in Seq(Messages) /\ Len(topic') <= MaxTopic
             /\ 1 .. Len(topic) \subseteq 1 .. Len(topic')
  <2>1. topic \in Seq(Messages)
    BY <1>00 DEF TypeOK
  <2>2. QED
    BY <1>0, <1>3, <2>1, AppendFacts DEF Emit
<1>4. ASSUME NEW m \in image, SnapshotRow(m)
      PROVE  Typed
  <2>1. m \in Messages
    BY <1>00 DEF TypeOK
  <2>2. QED
    BY <1>00, <1>3, <1>4, <2>1 DEF SnapshotRow, TypeOK
<1>5. CASE Stream
  <2>1. read + 1 \in 1 .. Len(wal)
    BY <1>00, <1>0, <1>5 DEF Stream, TypeOK
  <2>2. wal[read + 1] \in Messages
    BY <1>00, <2>1 DEF TypeOK
  <2>3. read' \in 0 .. Len(wal') /\ flushed' \in 0 .. read'
    BY <1>00, <1>0, <1>5, <2>1 DEF Stream, TypeOK
  <2>4. QED
    BY <1>00, <1>3, <1>5, <2>2, <2>3 DEF Stream, TypeOK
<1>6. CASE FlushPosition \/ ConnectorRestart
  <2>1. read \in 0 .. Len(wal) /\ flushed \in 0 .. read
    BY <1>00 DEF TypeOK
  <2>2. read' \in 0 .. Len(wal) /\ flushed' \in 0 .. read'
    BY <1>0, <1>6, <2>1 DEF FlushPosition, ConnectorRestart
  <2>3. QED
    BY <1>00, <1>6, <2>2 DEF FlushPosition, ConnectorRestart, TypeOK
<1>7. CASE SnapshotEnd
  BY <1>00, <1>7 DEF SnapshotEnd, TypeOK
<1>8. CASE SnapshotAgain
  BY <1>00, <1>8 DEF SnapshotAgain, TypeOK
<1>9. CASE Load
  BY <1>00, <1>9, LoadFacts DEF TypeOK
<1>10. CASE Commit
  BY <1>00, <1>10, CommitFacts DEF TypeOK
<1>11. CASE UNCHANGED vars
  BY <1>00, <1>11 DEF vars, TypeOK
<1>12. QED
  BY <1>1, <1>2, <1>4, <1>5, <1>6, <1>7, <1>8, <1>9, <1>10, <1>11 DEF Next

\* Type correctness of the path from the source to the views.
THEOREM TypeCorrect == Spec => []TypeOK
<1>1. TypeInv => TypeOK
  BY DEF TypeInv
<1>2. QED
  BY <1>1, TypeInit, TypeStep, PTL DEF Spec

-----------------------------------------------------------------------------
(***************************************************************************)
(* What the messages say.  Known are the messages that the connector may   *)
(* emit or has emitted; Pending those of the WAL that it has yet to emit.  *)
(***************************************************************************)
Known == Elements(topic) \cup image \cup Elements(wal)
Pending == {wal[i] : i \in (read + 1) .. Len(wal)}
Changes == {m \in Known : m.op # "tombstone"}
Of(m) == Ligne(m).booking_id

\* Number of changes of its booking up to the one that m carries, and number
\* of changes that a booking has had.
Rang(m) == IF m.op = "d" THEN Ligne(m).version + 1 ELSE Ligne(m).version
Etape(b) == IF b \in deleted THEN source[b] + 1 ELSE source[b]

\* A message carries a state that its booking has had, the present one if it
\* has the present position of the WAL.
Sound(m) ==
  /\ Ligne(m) \in [booking_id : Bookings, version : 1 .. MaxVersion]
  /\ m.lsn <= lsn
  /\ IF m.op = "d" THEN Of(m) \in deleted /\ Ligne(m).version = source[Of(m)]
                   ELSE Ligne(m).version <= source[Of(m)]
  /\ Rang(m) # Etape(Of(m)) => m.lsn < lsn

SoundInv == \A m \in Changes : Sound(m)

\* The positions of the WAL put the changes of a booking in order.
OrderInv ==
  \A m, n \in Changes :
    Of(m) = Of(n) /\ m.lsn <= n.lsn => Rang(m) <= Rang(n)

TombInv == \A m \in Known \ Changes : Ligne(m) = NoRow

MessageInv == TypeInv /\ SoundInv /\ OrderInv /\ TombInv

LEMMA RangFacts ==
  ASSUME TypeInv, SoundInv, NEW m \in Changes
  PROVE  /\ Of(m) \in Bookings /\ Ligne(m) # NoRow
         /\ Ligne(m).version \in Nat /\ Ligne(m).version > 0
         /\ Rang(m) \in Nat /\ Rang(m) > 0 /\ Rang(m) <= Etape(Of(m))
         /\ m.lsn \in Nat /\ m \in Messages /\ m \in Known
         /\ source[Of(m)] \in Nat /\ Etape(Of(m)) \in Nat
<1>1. /\ Ligne(m) \in [booking_id : Bookings, version : 1 .. MaxVersion]
      /\ m.op = "d" =>
           Of(m) \in deleted /\ Ligne(m).version = source[Of(m)]
      /\ m.op # "d" => Ligne(m).version <= source[Of(m)]
  BY DEF SoundInv, Sound
<1>2. Of(m) \in Bookings /\ Ligne(m).version \in 1 .. MaxVersion
  BY <1>1 DEF Of
<1>3. Ligne(m) # NoRow
  <2>1. Ligne(m) \in [booking_id : Bookings, version : Nat]
    BY <1>1, <1>2
  <2>2. QED
    BY <2>1, BookingsAssumption
<1>4. m \in Messages /\ m \in Known
  BY DEF Changes, Known, Elements, TypeInv, TypeOK
<1>5. m.lsn \in Nat
  BY <1>4 DEF Messages
<1>6. source[Of(m)] \in Nat
  BY <1>2 DEF TypeInv, TypeOK
<1>7. QED
  BY <1>1, <1>2, <1>3, <1>4, <1>5, <1>6 DEF Rang, Etape

\* The connector and the consumer say nothing new.
LEMMA KnownShrinks ==
  ASSUME MessageInv, TypeInv', UNCHANGED postgres, Known' \subseteq Known
  PROVE  MessageInv'
<1>1. Changes' \subseteq Changes /\ (Known \ Changes)' \subseteq Known \ Changes
  BY DEF Changes
<1>2. UNCHANGED <<source, deleted, lsn>>
  BY DEF postgres
<1>3. SoundInv'
  BY <1>1, <1>2 DEF MessageInv, SoundInv, Sound, Etape
<1>4. OrderInv' /\ TombInv'
  BY <1>1 DEF MessageInv, OrderInv, TombInv
<1>5. QED
  BY <1>3, <1>4 DEF MessageInv

\* A snapshot says the present of the existing bookings, at the present
\* position.
LEMMA SnapshotKnown ==
  ASSUME MessageInv, TypeInv', SnapshotBegin
  PROVE  MessageInv'
<1> USE DEF MessageInv
<1>1. UNCHANGED <<source, deleted, lsn, topic>> /\ wal' = <<>>
  BY DEF SnapshotBegin, postgres
<1>2. ASSUME NEW m \in Known', m \notin Known
      PROVE  /\ m.op = "r" /\ m.lsn = lsn /\ m \in Changes'
             /\ Of(m) \in Bookings \ deleted /\ source[Of(m)] > 0
             /\ Ligne(m) = Row(Of(m), source[Of(m)])
  <2>1. m \in image'
    <3>1. Elements(wal') = {}
      BY <1>1 DEF Elements
    <3>2. QED
      BY <1>1, <1>2, <3>1 DEF Known, Elements
  <2>2. PICK b \in Bookings \ deleted :
          source[b] > 0 /\ m = Event("r", NoRow, Row(b, source[b]), lsn)
    BY <2>1 DEF SnapshotBegin
  <2>3. m.op = "r" /\ m.lsn = lsn /\ m.after = Row(b, source[b])
    BY <2>2 DEF Event
  <2>4. Ligne(m) = Row(b, source[b]) /\ Of(m) = b
    BY <2>3 DEF Ligne, Of, Row
  <2>5. QED
    BY <1>2, <2>2, <2>3, <2>4 DEF Changes
<1>3. ASSUME NEW m \in Changes', m \notin Changes
      PROVE  Sound(m)' /\ Rang(m) = Etape(Of(m)) /\ m.lsn = lsn
  <2>1. m \in Known' /\ m \notin Known
    BY <1>3 DEF Changes
  <2>2. /\ m.op = "r" /\ m.lsn = lsn
        /\ Of(m) \in Bookings \ deleted /\ source[Of(m)] > 0
        /\ Ligne(m) = Row(Of(m), source[Of(m)])
    BY <1>2, <2>1
  <2>3. /\ source[Of(m)] \in 1 .. MaxVersion /\ lsn \in Nat
    BY <2>2, BoundsAssumption DEF TypeInv, TypeOK
  <2>4. /\ Ligne(m).version = source[Of(m)]
        /\ Ligne(m) \in [booking_id : Bookings, version : 1 .. MaxVersion]
    BY <2>2, <2>3 DEF Row
  <2>5. Rang(m) = Etape(Of(m))
    BY <2>2, <2>4 DEF Rang, Etape
  <2>6. QED
    BY <1>1, <2>2, <2>3, <2>4, <2>5 DEF Sound, Etape
<1>4. SoundInv'
  <2>1. ASSUME NEW m \in Changes
        PROVE  Sound(m)'
    BY <1>1 DEF SoundInv, Sound, Etape
  <2>2. QED
    BY <1>3, <2>1 DEF SoundInv
<1>5. ASSUME NEW m \in Changes', NEW n \in Changes', Of(m) = Of(n),
             m.lsn <= n.lsn
      PROVE  Rang(m) <= Rang(n)
  <2>1. lsn \in Nat
    BY DEF TypeInv, TypeOK
  <2>2. CASE m \in Changes /\ n \in Changes
    BY <1>5, <2>2 DEF OrderInv
  <2>3. CASE m \in Changes /\ n \notin Changes
    BY <1>3, <1>5, <2>3, RangFacts
  <2>4. CASE m \notin Changes /\ n \in Changes
    <3>1. Rang(m) = Etape(Of(n)) /\ m.lsn = lsn
      BY <1>3, <1>5, <2>4
    <3>2. Rang(n) # Etape(Of(n)) => n.lsn < lsn
      BY <2>4 DEF SoundInv, Sound
    <3>3. n.lsn \in Nat /\ Rang(n) \in Nat
      BY <2>4, RangFacts
    <3>4. Rang(n) = Etape(Of(n))
      BY <1>5, <2>1, <3>1, <3>2, <3>3
    <3>5. QED
      BY <3>1, <3>3, <3>4
  <2>5. CASE m \notin Changes /\ n \notin Changes
    <3>1. Rang(m) = Etape(Of(m)) /\ Rang(n) = Etape(Of(m))
      BY <1>3, <1>5, <2>5
    <3>2. Etape(Of(m)) \in Nat
      <4>1. Of(m) \in Bookings
        BY <1>3, <2>5 DEF Sound, Of
      <4>2. QED
        BY <4>1 DEF TypeInv, TypeOK, Etape
    <3>3. QED
      BY <3>1, <3>2
  <2>6. QED
    BY <2>2, <2>3, <2>4, <2>5
<1>6. TombInv'
  BY <1>2 DEF TombInv, Changes
<1>7. QED
  BY <1>4, <1>5, <1>6 DEF OrderInv

\* A change of b says its new state at a new position, the tombstone apart.
LEMMA ChangeKnown ==
  ASSUME MessageInv, TypeInv', NEW b \in Bookings, NEW n,
         Known' \subseteq Known \cup {n, Tombstone},
         lsn' = lsn + 1, n.lsn = lsn + 1, n.op # "tombstone",
         Ligne(n) \in [booking_id : {b}, version : 1 .. MaxVersion],
         Rang(n) = Etape(b)', Etape(b)' = Etape(b) + 1,
         b \notin deleted, source[b] <= source'[b],
         IF n.op = "d" THEN b \in deleted' /\ Ligne(n).version = source'[b]
                       ELSE Ligne(n).version <= source'[b],
         \A x \in Bookings \ {b} : /\ source'[x] = source[x]
                                   /\ x \in deleted' <=> x \in deleted
  PROVE  MessageInv'
<1> USE DEF MessageInv
<1>1. /\ lsn \in Nat
      /\ \A x \in Bookings : source[x] \in Nat /\ source'[x] \in Nat
  BY DEF TypeInv, TypeOK
<1>2. /\ Of(n) = b
      /\ Ligne(n) \in [booking_id : Bookings, version : 1 .. MaxVersion]
  BY DEF Of
<1>3. Sound(n)'
  BY <1>1, <1>2 DEF Sound
<1>4. ASSUME NEW m \in Changes
      PROVE  Sound(m)' /\ m.lsn < n.lsn /\ (Of(m) = b => Rang(m) <= Rang(n))
  <2>1. Sound(m) /\ Of(m) \in Bookings /\ m.lsn \in Nat
        /\ Rang(m) \in Nat /\ Rang(m) <= Etape(Of(m)) /\ Etape(Of(m)) \in Nat
        /\ Ligne(m).version \in Nat
    BY RangFacts DEF SoundInv
  <2>2. m.lsn <= lsn /\ m.lsn < lsn'
    BY <1>1, <2>1 DEF Sound
  <2>3. IF m.op = "d"
          THEN Of(m) \in deleted' /\ Ligne(m).version = source'[Of(m)]
          ELSE Ligne(m).version <= source'[Of(m)]
    <3>1. CASE Of(m) = b
      BY <1>1, <2>1, <3>1 DEF Sound
    <3>2. CASE Of(m) # b
      BY <2>1, <3>2 DEF Sound
    <3>3. QED
      BY <3>1, <3>2
  <2>4. Sound(m)'
    BY <1>1, <2>1, <2>2, <2>3 DEF Sound
  <2>5. Of(m) = b => Rang(m) <= Rang(n)
    BY <2>1
  <2>6. QED
    BY <2>2, <2>4, <2>5
<1>5. Changes' \subseteq Changes \cup {n}
  BY DEF Changes, Tombstone
<1>6. SoundInv'
  BY <1>3, <1>4, <1>5 DEF SoundInv
<1>7. OrderInv'
  <2> SUFFICES ASSUME NEW m \in Changes', NEW p \in Changes', Of(m) = Of(p),
                      m.lsn <= p.lsn
               PROVE  Rang(m) <= Rang(p)
    BY DEF OrderInv
  <2>1. CASE m \in Changes /\ p \in Changes
    BY <2>1 DEF OrderInv
  <2>2. CASE p = n /\ m \in Changes
    BY <1>2, <1>4, <2>2
  <2>3. CASE p = n /\ m = n
    <3>1. Rang(n) \in Nat
      BY <1>1 DEF Etape
    <3>2. QED
      BY <2>3, <3>1
  <2>4. CASE m = n /\ p \in Changes
    <3>1. p.lsn < n.lsn /\ p.lsn \in Nat
      BY <1>4, <2>4, RangFacts
    <3>2. QED
      BY <1>1, <2>4, <3>1
  <2>5. QED
    BY <1>5, <2>1, <2>2, <2>3, <2>4
<1>8. TombInv'
  <2>1. (Known \ Changes)' \subseteq (Known \ Changes) \cup {Tombstone}
    BY DEF Changes
  <2>2. Ligne(Tombstone) = NoRow
    BY DEF Ligne, Tombstone
  <2>3. QED
    BY <2>1, <2>2 DEF TombInv
<1>9. QED
  BY <1>6, <1>7, <1>8

\* The message of a change, and what it adds to the WAL.
LEMMA WriteKnown ==
  ASSUME TypeInv, NEW messages \in Seq(Messages), Write(messages)
  PROVE  /\ UNCHANGED <<mode, image, read, flushed, topic, raw, commis>>
         /\ lsn' = lsn + 1
         /\ mode = "off" => wal' = wal /\ Known' = Known
         /\ mode # "off" => /\ Known' = Known \cup Elements(messages)
                            /\ Pending' = Pending \cup Elements(messages)
<1>1. wal \in Seq(Messages) /\ read \in 0 .. Len(wal) /\ Len(wal) \in Nat
  BY DEF TypeInv, TypeOK
<1>2. /\ UNCHANGED <<mode, image, read, flushed, topic, raw, commis>>
      /\ lsn' = lsn + 1
      /\ wal' = IF mode = "off" THEN wal ELSE wal \o messages
  BY DEF Write, warehouse, raw, commis
<1>3. /\ Len(wal \o messages) = Len(wal) + Len(messages)
      /\ Len(messages) \in Nat
      /\ \A i \in 1 .. Len(wal) : (wal \o messages)[i] = wal[i]
      /\ \A i \in 1 .. Len(messages) :
           (wal \o messages)[Len(wal) + i] = messages[i]
      /\ Elements(wal \o messages) = Elements(wal) \cup Elements(messages)
  BY <1>1, ConcatFacts
<1>4. ASSUME mode # "off"
      PROVE  Pending' = Pending \cup Elements(messages)
  <2>1. wal' = wal \o messages /\ read' = read
    BY <1>2, <1>4
  <2>2. ASSUME NEW i \in (read + 1) .. Len(wal)
        PROVE  wal[i] \in Pending'
    <3>1. i \in 1 .. Len(wal) /\ i \in (read' + 1) .. Len(wal')
      BY <1>1, <1>3, <2>1
    <3>2. wal'[i] = wal[i]
      BY <1>3, <2>1, <3>1
    <3>3. QED
      BY <3>1, <3>2 DEF Pending
  <2>3. ASSUME NEW i \in 1 .. Len(messages)
        PROVE  messages[i] \in Pending'
    <3>1. Len(wal) + i \in (read' + 1) .. Len(wal')
      BY <1>1, <1>3, <2>1
    <3>2. wal'[Len(wal) + i] = messages[i]
      BY <1>3, <2>1
    <3>3. QED
      BY <3>1, <3>2 DEF Pending
  <2>4. ASSUME NEW i \in (read' + 1) .. Len(wal')
        PROVE  wal'[i] \in Pending \cup Elements(messages)
    <3>1. CASE i <= Len(wal)
      <4>1. i \in 1 .. Len(wal) /\ i \in (read + 1) .. Len(wal)
        BY <1>1, <2>1, <3>1
      <4>2. wal'[i] = wal[i]
        BY <1>3, <2>1, <4>1
      <4>3. QED
        BY <4>1, <4>2 DEF Pending
    <3>2. CASE ~(i <= Len(wal))
      <4>1. i - Len(wal) \in 1 .. Len(messages)
            /\ Len(wal) + (i - Len(wal)) = i
        BY <1>1, <1>3, <2>1, <3>2
      <4>2. QED
        BY <1>3, <2>1, <4>1 DEF Elements
    <3>3. QED
      BY <3>1, <3>2
  <2>5. QED
    BY <2>2, <2>3, <2>4 DEF Pending, Elements
<1>5. QED
  BY <1>2, <1>3, <1>4 DEF Known

\* Each change of b writes one message on b, and a deletion a tombstone too.
LEMMA SourceStep ==
  ASSUME TypeInv, NEW b \in Bookings, Insert(b) \/ Update(b) \/ Delete(b)
  PROVE  \E n \in Messages, messages \in Seq(Messages) :
           /\ Write(messages)
           /\ n.op \in {"c", "u", "d"}
           /\ n \in Elements(messages)
           /\ Elements(messages) \subseteq {n, Tombstone}
           /\ n.lsn = lsn + 1
           /\ Ligne(n) \in [booking_id : {b}, version : 1 .. MaxVersion]
           /\ Rang(n) = Etape(b)' /\ Etape(b)' = Etape(b) + 1
           /\ b \notin deleted /\ source[b] <= source'[b]
           /\ IF n.op = "d" THEN b \in deleted' /\ Ligne(n).version = source'[b]
                            ELSE /\ b \notin deleted'
                                 /\ n.after = Row(b, source'[b])
           /\ \A x \in Bookings \ {b} : /\ source'[x] = source[x]
                                        /\ x \in deleted' <=> x \in deleted
<1> USE DEF TypeInv
<1>1. /\ source[b] \in 0 .. MaxVersion /\ MaxVersion \in Nat \ {0}
      /\ b \in deleted => source[b] > 0
      /\ source \in [Bookings -> 0 .. MaxVersion] /\ deleted \subseteq Bookings
  BY BoundsAssumption DEF TypeOK
<1>2. CASE Insert(b)
  <2> DEFINE n == Event("c", NoRow, Row(b, 1), lsn + 1)
  <2>1. n \in Messages /\ <<n>> \in Seq(Messages) /\ Write(<<n>>)
    BY <1>2, SourceMessages DEF Insert
  <2>2. /\ n.op = "c" /\ n.lsn = lsn + 1 /\ n.after = Row(b, 1)
        /\ Ligne(n) = Row(b, 1)
    BY DEF Event, Ligne
  <2>3. Elements(<<n>>) = {n}
    BY DEF Elements
  <2>4. /\ source'[b] = 1 /\ source[b] = 0 /\ deleted' = deleted
        /\ \A x \in Bookings \ {b} : source'[x] = source[x]
    BY <1>1, <1>2 DEF Insert
  <2>5. Row(b, 1) \in [booking_id : {b}, version : 1 .. MaxVersion]
        /\ Row(b, 1).version = 1
    BY <1>1 DEF Row
  <2>6. Rang(n) = Etape(b)' /\ Etape(b)' = Etape(b) + 1 /\ b \notin deleted
    BY <1>1, <2>2, <2>4, <2>5 DEF Rang, Etape
  <2>7. b \notin deleted /\ source[b] <= source'[b]
    BY <1>1, <2>4
  <2> HIDE DEF n
  <2> USE <2>1
  <2> WITNESS n \in Messages, <<n>> \in Seq(Messages)
  <2>8. QED
    BY <2>1, <2>2, <2>3, <2>4, <2>5, <2>6, <2>7
<1>3. CASE Update(b)
  <2> DEFINE n == Event("u", Row(b, source[b]), Row(b, source[b] + 1), lsn + 1)
  <2>1. n \in Messages /\ <<n>> \in Seq(Messages) /\ Write(<<n>>)
    BY <1>3, SourceMessages DEF Update
  <2>2. /\ n.op = "u" /\ n.lsn = lsn + 1 /\ n.after = Row(b, source[b] + 1)
        /\ Ligne(n) = Row(b, source[b] + 1)
    BY DEF Event, Ligne
  <2>3. Elements(<<n>>) = {n}
    BY DEF Elements
  <2>4. /\ source'[b] = source[b] + 1 /\ source[b] \in 1 .. (MaxVersion - 1)
        /\ deleted' = deleted /\ b \notin deleted
        /\ \A x \in Bookings \ {b} : source'[x] = source[x]
    BY <1>1, <1>3 DEF Update
  <2>5. /\ Row(b, source[b] + 1)
             \in [booking_id : {b}, version : 1 .. MaxVersion]
        /\ Row(b, source[b] + 1).version = source[b] + 1
    BY <1>1, <2>4 DEF Row
  <2>6. Rang(n) = Etape(b)' /\ Etape(b)' = Etape(b) + 1
    BY <1>1, <2>2, <2>4, <2>5 DEF Rang, Etape
  <2>7. source[b] <= source'[b]
    BY <1>1, <2>4
  <2> HIDE DEF n
  <2> USE <2>1
  <2> WITNESS n \in Messages, <<n>> \in Seq(Messages)
  <2>8. QED
    BY <2>1, <2>2, <2>3, <2>4, <2>5, <2>6, <2>7
<1>4. CASE Delete(b)
  <2> DEFINE n == Event("d", Row(b, source[b]), NoRow, lsn + 1)
  <2>1. n \in Messages /\ <<n, Tombstone>> \in Seq(Messages)
        /\ Write(<<n, Tombstone>>)
    BY <1>4, SourceMessages DEF Delete
  <2>2. /\ n.op = "d" /\ n.lsn = lsn + 1 /\ Ligne(n) = Row(b, source[b])
    BY DEF Event, Ligne
  <2>3. Elements(<<n, Tombstone>>) = {n, Tombstone}
    BY DEF Elements
  <2>4. /\ source' = source /\ source[b] > 0
        /\ deleted' = deleted \cup {b} /\ b \notin deleted
    BY <1>4 DEF Delete
  <2>5. /\ Row(b, source[b]) \in [booking_id : {b}, version : 1 .. MaxVersion]
        /\ Row(b, source[b]).version = source[b]
    BY <1>1, <2>4 DEF Row
  <2>6. Rang(n) = Etape(b)' /\ Etape(b)' = Etape(b) + 1
    BY <1>1, <2>2, <2>4, <2>5 DEF Rang, Etape
  <2>7. source[b] <= source'[b] /\ b \in deleted'
    BY <1>1, <2>4
  <2> HIDE DEF n
  <2> USE <2>1
  <2> WITNESS n \in Messages, <<n, Tombstone>> \in Seq(Messages)
  <2>8. QED
    BY <2>1, <2>2, <2>3, <2>4, <2>5, <2>6, <2>7
<1>5. QED
  BY <1>2, <1>3, <1>4

-----------------------------------------------------------------------------
(***************************************************************************)
(* The inductive invariant.                                                *)
(***************************************************************************)
\* Below the committed offset all is in the raw table, tombstones apart.
CoverInv ==
  \A o \in 1 .. (commis - 1) :
    o \in 1 .. Len(topic) /\ (o \in raw \/ IsTombstone(o))

ImageInv == mode # "snapshot" => image = {}

\* The present version of a booking is in the topic, or will be.
CurrentInv ==
  mode # "off" =>
    \A b \in Existing :
      \E m \in Elements(topic) \cup image \cup Pending :
        m.op \notin {"d", "tombstone"} /\ m.after = Row(b, source[b])

\* When the only snapshot is the first one, the deletion of a booking of which
\* the topic tells is in the topic, or will be.
GoneInv ==
  IF mode = "off" THEN topic = <<>>
  ELSE \A b \in deleted :
         \/ \A m \in Changes : Of(m) # b
         \/ \E m \in Elements(topic) \cup Pending : m.op = "d" /\ Of(m) = b

Inv ==
  /\ MessageInv
  /\ CoverInv
  /\ ImageInv
  /\ CurrentInv
  /\ Resnapshots \/ GoneInv

LEMMA InvInit == Init => Inv
<1> SUFFICES ASSUME Init
             PROVE  Inv
  OBVIOUS
<1>1. TypeInv
  BY TypeInit
<1>2. Known = {}
  BY DEF Init, Known, Elements
<1>3. MessageInv
  BY <1>1, <1>2 DEF MessageInv, SoundInv, OrderInv, TombInv, Changes
<1>4. ImageInv /\ CurrentInv /\ GoneInv
  BY DEF Init, ImageInv, CurrentInv, GoneInv
<1>5. CoverInv
  BY DEF Init, CoverInv, commis, Tables
<1>6. QED
  BY <1>3, <1>4, <1>5 DEF Inv

\* A change of the source.
LEMMA SourceInv ==
  ASSUME Inv, TypeInv', NEW b \in Bookings, Insert(b) \/ Update(b) \/ Delete(b)
  PROVE  Inv' /\ UNCHANGED <<topic, raw, commis>>
<1> USE DEF Inv
<1>1. PICK n \in Messages, messages \in Seq(Messages) :
           /\ Write(messages)
           /\ n.op \in {"c", "u", "d"}
           /\ n \in Elements(messages)
           /\ Elements(messages) \subseteq {n, Tombstone}
           /\ n.lsn = lsn + 1
           /\ Ligne(n) \in [booking_id : {b}, version : 1 .. MaxVersion]
           /\ Rang(n) = Etape(b)' /\ Etape(b)' = Etape(b) + 1
           /\ b \notin deleted /\ source[b] <= source'[b]
           /\ IF n.op = "d" THEN b \in deleted' /\ Ligne(n).version = source'[b]
                            ELSE /\ b \notin deleted'
                                 /\ n.after = Row(b, source'[b])
           /\ \A x \in Bookings \ {b} : /\ source'[x] = source[x]
                                        /\ x \in deleted' <=> x \in deleted
  BY SourceStep DEF MessageInv
<1>2. /\ UNCHANGED <<mode, image, read, flushed, topic, raw, commis>>
      /\ lsn' = lsn + 1
      /\ mode = "off" => wal' = wal /\ Known' = Known
      /\ mode # "off" => /\ Known' = Known \cup Elements(messages)
                         /\ Pending' = Pending \cup Elements(messages)
  BY <1>1, WriteKnown DEF MessageInv
<1>3. Known' \subseteq Known \cup {n, Tombstone}
  BY <1>1, <1>2
<1>4. n.op # "d" => Ligne(n).version = source'[b]
  BY <1>1 DEF Ligne, Row
<1>5. source'[b] \in Nat /\ deleted' \subseteq Bookings
  BY DEF TypeInv, TypeOK
<1>6. MessageInv'
  BY <1>1, <1>2, <1>3, <1>4, <1>5, ChangeKnown
<1>7. CoverInv' /\ ImageInv'
  BY <1>2 DEF CoverInv, ImageInv, IsTombstone
<1>8. CurrentInv'
  <2> SUFFICES ASSUME mode # "off", NEW x \in Existing'
               PROVE  \E m \in (Elements(topic) \cup image \cup Pending)' :
                        /\ m.op \notin {"d", "tombstone"}
                        /\ m.after = Row(x, source'[x])
    BY <1>2 DEF CurrentInv
  <2>1. CASE x = b
    <3>1. n.op # "d" /\ n.op # "tombstone" /\ n.after = Row(b, source'[b])
      BY <1>1, <2>1 DEF Existing
    <3>2. n \in Pending'
      BY <1>1, <1>2
    <3>3. QED
      BY <2>1, <3>1, <3>2
  <2>2. CASE x # b
    <3>1. x \in Existing /\ source'[x] = source[x]
      BY <1>1, <2>2 DEF Existing
    <3>2. PICK m \in Elements(topic) \cup image \cup Pending :
            m.op \notin {"d", "tombstone"} /\ m.after = Row(x, source[x])
      BY <3>1 DEF CurrentInv
    <3>3. m \in (Elements(topic) \cup image \cup Pending)'
      BY <1>2, <3>2
    <3>4. QED
      BY <3>1, <3>2, <3>3
  <2>3. QED
    BY <2>1, <2>2
<1>9. GoneInv => GoneInv'
  <2> SUFFICES ASSUME GoneInv, mode # "off", NEW x \in deleted'
               PROVE  \/ \A m \in Changes' : Of(m) # x
                      \/ \E m \in (Elements(topic) \cup Pending)' :
                           m.op = "d" /\ Of(m) = x
    BY <1>2 DEF GoneInv
  <2>1. Of(n) = b /\ Changes' \subseteq Changes \cup {n}
    BY <1>1, <1>3 DEF Of, Changes, Tombstone
  <2>2. CASE x = b
    <3>1. n.op = "d"
      BY <1>1, <2>2
    <3>2. n \in Pending'
      BY <1>1, <1>2
    <3>3. QED
      BY <2>1, <2>2, <3>1, <3>2
  <2>3. CASE x # b
    <3>1. x \in deleted
      BY <1>1, <1>5, <2>3
    <3>2. CASE \A m \in Changes : Of(m) # x
      BY <2>1, <2>3, <3>2
    <3>3. CASE \E m \in Elements(topic) \cup Pending : m.op = "d" /\ Of(m) = x
      BY <1>2, <3>3
    <3>4. QED
      BY <3>1, <3>2, <3>3 DEF GoneInv
  <2>4. QED
    BY <2>2, <2>3
<1>10. QED
  BY <1>2, <1>6, <1>7, <1>8, <1>9

\* What the connector holds only moves towards the topic.
LEMMA FlowInv ==
  ASSUME Inv, TypeInv', UNCHANGED postgres, Known' \subseteq Known,
         Elements(topic) \subseteq Elements(topic'),
         Elements(topic) \cup image \cup Pending
           \subseteq (Elements(topic) \cup image \cup Pending)',
         Elements(topic) \cup Pending \subseteq (Elements(topic) \cup Pending)',
         \/ mode # "off" /\ mode' # "off"
         \/ mode' = mode /\ topic' = topic
  PROVE  MessageInv' /\ CurrentInv' /\ (Resnapshots \/ GoneInv')
<1>1. MessageInv'
  BY KnownShrinks DEF Inv
<1>2. UNCHANGED <<source, deleted>> /\ Existing' = Existing
  BY DEF postgres, Existing
<1>3. CurrentInv'
  BY <1>2 DEF Inv, CurrentInv
<1>4. Changes' \subseteq Changes
  BY DEF Changes
<1>5. GoneInv => GoneInv'
  BY <1>2, <1>4 DEF GoneInv
<1>6. QED
  BY <1>1, <1>3, <1>5 DEF Inv

\* What an emission does to the topic.
LEMMA EmitFacts ==
  ASSUME TypeInv, NEW m \in Messages, Emit(m)
  PROVE  /\ topic' = Append(topic, m)
         /\ Elements(topic') = Elements(topic) \cup {m}
         /\ Len(topic') = Len(topic) + 1 /\ Len(topic) \in Nat
         /\ \A o \in 1 .. Len(topic) :
              o \in 1 .. Len(topic') /\ topic'[o] = topic[o]
         /\ topic'[Len(topic) + 1] = m
<1>1. topic \in Seq(Messages) /\ topic' = Append(topic, m)
  BY DEF Emit, TypeInv, TypeOK
<1>2. QED
  BY <1>1, AppendFacts

LEMMA EmitCover ==
  ASSUME TypeInv, CoverInv, NEW m \in Messages, Emit(m), raw' = raw,
         commis' = commis
  PROVE  CoverInv'
BY EmitFacts DEF CoverInv, IsTombstone

LEMMA InvStep == Inv /\ [Next]_vars => Inv'
<1> SUFFICES ASSUME Inv, [Next]_vars
             PROVE  Inv'
  OBVIOUS
<1>1. TypeInv /\ TypeInv'
  BY TypeStep DEF Inv, MessageInv
<1>2. ASSUME NEW b \in Bookings, Insert(b) \/ Update(b) \/ Delete(b)
      PROVE  Inv'
  BY <1>1, <1>2, SourceInv
<1>3. CASE SnapshotBegin
  <2>1. MessageInv'
    BY <1>1, <1>3, SnapshotKnown DEF Inv
  <2>2. /\ UNCHANGED <<source, deleted, lsn, topic, raw, commis>>
        /\ mode = "off" /\ mode' = "snapshot" /\ wal' = <<>>
        /\ image' = {Event("r", NoRow, Row(b, source[b]), lsn) :
                       b \in {x \in Bookings : source[x] > 0} \ deleted}
    BY <1>3 DEF SnapshotBegin, postgres, warehouse, raw, commis
  <2>3. CoverInv' /\ ImageInv'
    BY <2>2 DEF Inv, CoverInv, ImageInv, IsTombstone
  <2>4. CurrentInv'
    <3>1. ASSUME NEW b \in Existing'
          PROVE  \E m \in image' : /\ m.op \notin {"d", "tombstone"}
                                   /\ m.after = Row(b, source'[b])
      <4>1. b \in {x \in Bookings : source[x] > 0} \ deleted
        BY <2>2 DEF Existing
      <4>2. Event("r", NoRow, Row(b, source[b]), lsn) \in image'
        BY <2>2, <4>1
      <4>3. QED
        BY <2>2, <4>2 DEF Event
    <3>2. QED
      BY <3>1 DEF CurrentInv
  <2>5. GoneInv => GoneInv'
    <3>1. ASSUME GoneInv, NEW m \in Changes'
          PROVE  Of(m) \notin deleted'
      <4>1. topic' = <<>> /\ wal' = <<>>
        BY <2>2, <3>1 DEF GoneInv
      <4>2. m \in image'
        BY <4>1 DEF Changes, Known, Elements
      <4>3. PICK b \in Bookings \ deleted :
              m = Event("r", NoRow, Row(b, source[b]), lsn)
        BY <2>2, <4>2
      <4>4. Of(m) = b
        BY <4>3 DEF Of, Ligne, Event, Row
      <4>5. QED
        BY <2>2, <4>4
    <3>2. QED
      BY <2>2, <3>1 DEF GoneInv
  <2>6. QED
    BY <2>1, <2>3, <2>4, <2>5 DEF Inv
<1>4. ASSUME NEW m \in image, SnapshotRow(m)
      PROVE  Inv'
  <2>1. m \in Messages
    BY <1>1 DEF TypeInv, TypeOK
  <2>2. /\ UNCHANGED <<source, deleted, lsn, mode, read, wal, raw, commis>>
        /\ mode = "snapshot" /\ image' = image \ {m} /\ Emit(m)
    BY <1>4 DEF SnapshotRow, postgres, warehouse, raw, commis
  <2>3. Elements(topic') = Elements(topic) \cup {m} /\ CoverInv'
    BY <1>1, <2>1, <2>2, EmitFacts, EmitCover DEF Inv
  <2>4. Pending' = Pending /\ Elements(wal') = Elements(wal)
    BY <2>2 DEF Pending, Elements
  <2>5. Known' \subseteq Known
    BY <2>2, <2>3, <2>4 DEF Known
  <2>6. UNCHANGED postgres /\ ImageInv'
    BY <2>2 DEF postgres, ImageInv
  <2>7. QED
    BY <1>1, <2>2, <2>3, <2>4, <2>5, <2>6, FlowInv DEF Inv
<1>5. CASE Stream
  <2> DEFINE m == wal[read + 1]
  <2>1. /\ UNCHANGED <<source, deleted, lsn, mode, image, wal, raw, commis>>
        /\ mode = "streaming" /\ read < Len(wal) /\ read' = read + 1
        /\ Emit(m)
    BY <1>5 DEF Stream, postgres, warehouse, raw, commis
  <2>2. read \in Nat /\ Len(wal) \in Nat /\ read + 1 \in 1 .. Len(wal)
    BY <1>1, <2>1 DEF TypeInv, TypeOK
  <2>3. m \in Messages /\ m \in Elements(wal)
    <3>1. m \in Messages
      BY <1>1, <2>2 DEF TypeInv, TypeOK
    <3>2. m \in Elements(wal)
      BY <2>2 DEF Elements
    <3>3. QED
      BY <3>1, <3>2
  <2> HIDE DEF m
  <2>4. Elements(topic') = Elements(topic) \cup {m} /\ CoverInv'
    BY <1>1, <2>1, <2>3, EmitFacts, EmitCover DEF Inv
  <2>5. Pending \subseteq Pending' \cup {m}
    <3> SUFFICES ASSUME NEW i \in (read + 1) .. Len(wal)
                 PROVE  wal[i] \in Pending' \cup {m}
      BY DEF Pending
    <3>1. CASE i = read + 1
      BY <3>1 DEF m
    <3>2. CASE i # read + 1
      <4>1. i \in (read' + 1) .. Len(wal')
        BY <2>1, <2>2, <3>2
      <4>2. QED
        BY <2>1, <4>1 DEF Pending
    <3>3. QED
      BY <3>1, <3>2
  <2>6. Known' \subseteq Known /\ UNCHANGED postgres /\ ImageInv'
    BY <2>1, <2>3, <2>4 DEF Known, postgres, Elements, Inv, ImageInv
  <2>7. QED
    BY <1>1, <2>1, <2>4, <2>5, <2>6, FlowInv DEF Inv
<1>6. CASE ConnectorRestart
  <2>1. /\ UNCHANGED <<source, deleted, lsn, mode, image, wal, topic, raw,
                       commis>>
        /\ mode = "streaming" /\ read' = flushed /\ flushed < read
    BY <1>6 DEF ConnectorRestart, postgres, warehouse, raw, commis
  <2>2. Pending \subseteq Pending'
    <3>1. flushed \in Nat /\ read \in Nat /\ Len(wal) \in Nat
      BY <1>1 DEF TypeInv, TypeOK
    <3>2. (read + 1) .. Len(wal) \subseteq (read' + 1) .. Len(wal')
      BY <2>1, <3>1
    <3>3. QED
      BY <2>1, <3>2 DEF Pending
  <2>3. Known' \subseteq Known /\ UNCHANGED postgres /\ ImageInv' /\ CoverInv'
    BY <2>1 DEF Known, Elements, postgres, Inv, ImageInv, CoverInv, IsTombstone
  <2>4. QED
    BY <1>1, <2>1, <2>2, <2>3, FlowInv DEF Inv, Elements
<1>7. CASE SnapshotEnd \/ FlushPosition \/ UNCHANGED vars
  <2>1. /\ UNCHANGED <<source, deleted, lsn, image, read, wal, topic, raw,
                       commis>>
        /\ mode' = mode \/ (mode # "off" /\ mode' # "off" /\ image = {})
    BY <1>7 DEF SnapshotEnd, FlushPosition, vars, postgres, warehouse, raw,
       commis
  <2>2. Known' = Known /\ Pending' = Pending /\ UNCHANGED postgres
    BY <2>1 DEF Known, Pending, Elements, postgres
  <2>3. ImageInv' /\ CoverInv'
    BY <2>1 DEF Inv, ImageInv, CoverInv, IsTombstone
  <2>4. QED
    BY <1>1, <2>1, <2>2, <2>3, FlowInv DEF Inv
<1>8. CASE SnapshotAgain
  <2>1. /\ UNCHANGED <<source, deleted, lsn, topic, raw, commis>>
        /\ mode' = "off" /\ image' = {} /\ wal' = <<>> /\ Resnapshots
    BY <1>8 DEF SnapshotAgain, postgres, warehouse, raw, commis
  <2>2. Known' \subseteq Known /\ UNCHANGED postgres
    BY <2>1 DEF Known, Elements, postgres
  <2>3. MessageInv'
    BY <1>1, <2>2, KnownShrinks DEF Inv
  <2>4. ImageInv' /\ CoverInv' /\ CurrentInv'
    BY <2>1 DEF Inv, ImageInv, CoverInv, CurrentInv, IsTombstone
  <2>5. QED
    BY <2>1, <2>3, <2>4 DEF Inv
<1>9. CASE Load \/ Commit
  <2>1. /\ UNCHANGED <<source, deleted, lsn, mode, image, read, wal, topic>>
        /\ raw \subseteq raw'
    BY <1>1, <1>9, LoadFacts, CommitFacts DEF TypeInv, postgres, connector
  <2>2. Known' = Known /\ Pending' = Pending /\ UNCHANGED postgres
    BY <2>1 DEF Known, Pending, Elements, postgres
  <2>3. CoverInv'
    <3>1. CASE Load
      <4>1. commis' = commis
        BY <1>1, <3>1, LoadFacts DEF TypeInv
      <4>2. QED
        BY <2>1, <4>1 DEF Inv, CoverInv, IsTombstone
    <3>2. CASE Commit
      <4>1. \A o \in 1 .. (commis' - 1) :
              o \in 1 .. Len(topic) /\ (o \in raw \/ IsTombstone(o))
        BY <1>1, <3>2, CommitFacts DEF TypeInv
      <4>2. QED
        BY <2>1, <4>1 DEF CoverInv, IsTombstone
    <3>3. QED
      BY <1>9, <3>1, <3>2
  <2>4. ImageInv'
    BY <2>1 DEF Inv, ImageInv
  <2>5. QED
    BY <1>1, <2>1, <2>2, <2>3, <2>4, FlowInv DEF Inv
<1>10. QED
  BY <1>2, <1>3, <1>4, <1>5, <1>6, <1>7, <1>8, <1>9 DEF Next

LEMMA InvAlways == Spec => []Inv
BY InvInit, InvStep, PTL DEF Spec

-----------------------------------------------------------------------------
(***************************************************************************)
(* The views.                                                              *)
(***************************************************************************)
LEMMA Greatest ==
  ASSUME NEW N \in Nat, NEW S \in SUBSET (0 .. N), S # {}
  PROVE  \E g \in S : \A k \in S : k <= g
<1> DEFINE R == {N - k : k \in S}
<1>0. \A k \in S : k \in Nat /\ N - k \in Nat
  OBVIOUS
<1>1. R \in SUBSET Nat /\ R # {}
  BY <1>0
<1>2. PICK r \in R : \A x \in R : ~ (<<x, r>> \in OpToRel(<, Nat))
  <2> HIDE DEF R
  <2>1. QED
    BY <1>1, NatLessThanWellFounded, WFMin
<1>3. \A x \in R : ~ (x < r)
  BY <1>1, <1>2 DEF OpToRel
<1>4. PICK g \in S : r = N - g
  BY <1>2
<1>5. \A k \in S : ~ (N - k < N - g)
  BY <1>3, <1>4
<1>6. QED
  BY <1>0, <1>4, <1>5

\* The messages of a booking in the raw table.
LEMMA EventsFacts ==
  ASSUME MessageInv, NEW b, NEW o \in EventsOf(b)
  PROVE  /\ o \in raw /\ o \in 1 .. Len(topic) /\ Len(topic) \in Nat
         /\ topic[o] \in Changes /\ Of(topic[o]) = b
         /\ topic[o].lsn \in 0 .. lsn /\ lsn \in Nat
<1>1. o \in raw /\ o \in 1 .. Len(topic) /\ Len(topic) \in Nat /\ lsn \in Nat
  BY DEF EventsOf, MessageInv, TypeInv, TypeOK
<1>2. topic[o] \in Known
  BY <1>1 DEF Known, Elements
<1>3. Ligne(topic[o]) # NoRow /\ Of(topic[o]) = b
  BY DEF EventsOf, Of
<1>4. topic[o] \in Changes
  BY <1>2, <1>3 DEF MessageInv, TombInv
<1>5. topic[o].lsn \in Nat /\ topic[o].lsn <= lsn
  BY <1>4, RangFacts DEF MessageInv, SoundInv, Sound
<1>6. QED
  BY <1>1, <1>3, <1>4, <1>5

\* row_number() = 1 keeps one row: the greatest position, then the greatest
\* offset.
LEMMA DernierIsLast ==
  ASSUME MessageInv, NEW b, EventsOf(b) # {}
  PROVE  /\ Dernier(b) \in EventsOf(b)
         /\ \A p \in EventsOf(b) \ {Dernier(b)} : After(Dernier(b), p)
<1> DEFINE E == EventsOf(b)
           L == {topic[o].lsn : o \in E}
<1>1. /\ lsn \in Nat /\ Len(topic) \in Nat
      /\ \A o \in E : topic[o].lsn \in 0 .. lsn /\ o \in 1 .. Len(topic)
  BY EventsFacts
<1>2. PICK g \in L : \A k \in L : k <= g
  <2>1. L \in SUBSET (0 .. lsn) /\ L # {}
    BY <1>1
  <2> HIDE DEF L
  <2>2. QED
    BY <1>1, <2>1, Greatest
<1> DEFINE O == {o \in E : topic[o].lsn = g}
<1>3. PICK d \in O : \A k \in O : k <= d
  <2>1. O \in SUBSET (0 .. Len(topic)) /\ O # {}
    BY <1>1, <1>2
  <2> HIDE DEF O
  <2>2. QED
    BY <1>1, <2>1, Greatest
<1>4. \A p \in E \ {d} : After(d, p)
  <2> SUFFICES ASSUME NEW p \in E, p # d
               PROVE  After(d, p)
    OBVIOUS
  <2>1. topic[p].lsn <= g /\ topic[d].lsn = g /\ d \in E
    BY <1>2, <1>3
  <2>2. topic[p].lsn = g => p <= d
    BY <1>3
  <2>3. topic[p].lsn \in Nat /\ g \in Nat /\ p \in Nat /\ d \in Nat
    BY <1>1, <2>1
  <2>4. QED
    BY <2>1, <2>2, <2>3 DEF After
<1>5. d \in E
  BY <1>3
<1> HIDE DEF E
<1>6. /\ (CHOOSE o \in E : \A p \in E \ {o} : After(o, p)) \in E
      /\ \A p \in E \ {CHOOSE o \in E : \A q \in E \ {o} : After(o, q)} :
           After(CHOOSE o \in E : \A q \in E \ {o} : After(o, q), p)
  BY <1>4, <1>5
<1>7. QED
  BY <1>6 DEF E, Dernier

\* A booking is shown as of the last of its changes that has been loaded.
ShownFacts(b) ==
  /\ Shown(b) \in Nat /\ Shown(b) <= Etape(b)
  /\ EventsOf(b) = {} => Shown(b) = 0
  /\ EventsOf(b) # {} =>
       /\ Dernier(b) \in EventsOf(b)
       /\ topic[Dernier(b)] \in Changes /\ Of(topic[Dernier(b)]) = b
       /\ Shown(b) = Rang(topic[Dernier(b)]) /\ Shown(b) > 0
  /\ \A p \in EventsOf(b) : Rang(topic[p]) <= Shown(b)

LEMMA ShownIs ==
  ASSUME MessageInv, NEW b \in Bookings
  PROVE  ShownFacts(b)
<1>1. CASE EventsOf(b) = {}
  <2>1. Shown(b) = 0 /\ Etape(b) \in Nat
    BY <1>1 DEF Shown, MessageInv, TypeInv, TypeOK, Etape
  <2>2. QED
    BY <1>1, <2>1 DEF ShownFacts
<1>2. CASE EventsOf(b) # {}
  <2> DEFINE d == Dernier(b)
  <2>1. d \in EventsOf(b) /\ \A p \in EventsOf(b) \ {d} : After(d, p)
    BY <1>2, DernierIsLast
  <2>2. Shown(b) = Rang(topic[d])
    BY <1>2 DEF Shown, Rang
  <2> HIDE DEF d
  <2>3. topic[d] \in Changes /\ Of(topic[d]) = b
    BY <2>1, EventsFacts
  <2>4. /\ Rang(topic[d]) \in Nat /\ Rang(topic[d]) > 0
        /\ Rang(topic[d]) <= Etape(b)
    BY <2>3, RangFacts DEF MessageInv
  <2>5. ASSUME NEW p \in EventsOf(b)
        PROVE  Rang(topic[p]) <= Rang(topic[d])
    <3>1. topic[p] \in Changes /\ Of(topic[p]) = b
      BY EventsFacts
    <3>2. topic[p].lsn <= topic[d].lsn
      <4>1. topic[p].lsn \in Nat /\ topic[d].lsn \in Nat
        BY <2>1, EventsFacts
      <4>2. QED
        BY <2>1, <4>1 DEF After
    <3>3. QED
      BY <2>3, <3>1, <3>2 DEF MessageInv, OrderInv
  <2>6. QED
    BY <1>2, <2>1, <2>2, <2>3, <2>4, <2>5 DEF d, ShownFacts
<1>3. QED
  BY <1>1, <1>2

LEMMA ShownAlways == MessageInv => \A b \in Bookings : ShownFacts(b)
BY ShownIs

LEMMA ShownNext == MessageInv' => (\A b \in Bookings : ShownFacts(b))'
BY ShownAlways, PTL

\* The raw table only grows, and the topic never changes its messages.
LEMMA Grows ==
  ASSUME Inv, [Next]_vars
  PROVE  /\ raw \subseteq raw'
         /\ \A o \in raw : topic'[o] = topic[o]
<1> USE DEF Inv, MessageInv
<1>1. TypeInv /\ raw \subseteq 1 .. Len(topic)
  BY DEF TypeInv, TypeOK
<1>2. ASSUME NEW m \in Messages, Emit(m)
      PROVE  \A o \in raw : topic'[o] = topic[o]
  BY <1>1, <1>2, EmitFacts
<1>3. ASSUME NEW b \in Bookings, Insert(b) \/ Update(b) \/ Delete(b)
      PROVE  raw' = raw /\ topic' = topic
  BY <1>3 DEF Insert, Update, Delete, Write, warehouse, raw
<1>4. ASSUME NEW m \in image, SnapshotRow(m)
      PROVE  raw' = raw /\ \A o \in raw : topic'[o] = topic[o]
  <2>1. m \in Messages
    BY <1>1 DEF TypeInv, TypeOK
  <2>2. QED
    BY <1>2, <1>4, <2>1 DEF SnapshotRow, warehouse, raw
<1>5. CASE Stream
  <2>1. read + 1 \in 1 .. Len(wal)
    BY <1>1, <1>5 DEF Stream, TypeInv, TypeOK
  <2>2. wal[read + 1] \in Messages
    BY <1>1, <2>1 DEF TypeInv, TypeOK
  <2>3. QED
    BY <1>2, <1>5, <2>2 DEF Stream, warehouse, raw
<1>6. CASE \/ SnapshotBegin \/ SnapshotEnd \/ FlushPosition \/ ConnectorRestart
           \/ SnapshotAgain \/ UNCHANGED vars
  BY <1>6 DEF SnapshotBegin, SnapshotEnd, FlushPosition, ConnectorRestart,
     SnapshotAgain, vars, warehouse, raw
<1>7. CASE Load \/ Commit
  BY <1>1, <1>7, LoadFacts, CommitFacts DEF TypeInv
<1>8. QED
  BY <1>3, <1>4, <1>5, <1>6, <1>7 DEF Next

LEMMA ShownGrows ==
  ASSUME Inv, [Next]_vars, NEW b \in Bookings
  PROVE  /\ Shown(b) <= Shown(b)'
         /\ EventsOf(b) \subseteq EventsOf(b)'
         /\ ShownFacts(b) /\ ShownFacts(b)'
<1>1. MessageInv /\ MessageInv'
  BY InvStep DEF Inv
<1>2. EventsOf(b) \subseteq EventsOf(b)'
  BY Grows DEF EventsOf
<1>3. ShownFacts(b) /\ ShownFacts(b)'
  BY <1>1, ShownIs, ShownNext
<1>4. Shown(b) \in Nat /\ Shown(b)' \in Nat
  BY <1>3 DEF ShownFacts
<1>5. CASE EventsOf(b) = {}
  BY <1>3, <1>4, <1>5 DEF ShownFacts
<1>6. CASE EventsOf(b) # {}
  <2>1. /\ Dernier(b) \in EventsOf(b) /\ Dernier(b) \in raw
        /\ Shown(b) = Rang(topic[Dernier(b)])
    BY <1>3, <1>6 DEF EventsOf, ShownFacts
  <2>2. Dernier(b) \in EventsOf(b)' /\ topic'[Dernier(b)] = topic[Dernier(b)]
    BY <1>2, <2>1, Grows
  <2>3. \A p \in EventsOf(b)' : Rang(topic'[p]) <= Shown(b)'
    BY <1>3 DEF ShownFacts, Rang
  <2>4. QED
    BY <1>2, <1>3, <1>4, <2>1, <2>2, <2>3
<1>7. QED
  BY <1>2, <1>3, <1>4, <1>5, <1>6

-----------------------------------------------------------------------------
(***************************************************************************)
(* What the views show when nothing is on its way.                         *)
(***************************************************************************)
LEMMA Quiet ==
  ASSUME Inv, CaughtUp
  PROVE  Pending = {} /\ image = {} /\ mode # "off"
<1>1. Len(wal) \in Nat
  BY DEF Inv, MessageInv, TypeInv, TypeOK
<1>2. (read + 1) .. Len(wal) = {}
  BY <1>1 DEF CaughtUp
<1>3. QED
  BY <1>2 DEF CaughtUp, Pending, Inv, ImageInv

\* The lag at 0: the whole topic is loaded, the tombstones apart.
LEMMA AllLoaded ==
  ASSUME Inv, CaughtUp, NEW m \in Elements(topic), m.op # "tombstone"
  PROVE  /\ m \in Changes /\ Rang(m) <= Shown(Of(m)) /\ Of(m) \in Bookings
         /\ EventsOf(Of(m)) # {}
<1>1. PICK o \in 1 .. Len(topic) : m = topic[o]
  BY DEF Elements
<1>2. m \in Changes
  BY DEF Changes, Known
<1>3. Len(topic) \in Nat /\ Len(topic) # 0
  BY <1>1 DEF Inv, MessageInv, TypeInv, TypeOK
<1>4. commis = Len(topic) + 1
  BY <1>3 DEF CaughtUp
<1>5. o \in raw
  <2>1. o \in raw \/ IsTombstone(o)
    BY <1>1, <1>3, <1>4 DEF Inv, CoverInv
  <2>2. QED
    BY <1>1, <2>1 DEF IsTombstone
<1>6. Ligne(m) # NoRow /\ Of(m) \in Bookings
  BY <1>2, RangFacts DEF Inv, MessageInv
<1>7. o \in EventsOf(Of(m))
  BY <1>1, <1>5, <1>6 DEF EventsOf, Of
<1>8. Rang(m) <= Shown(Of(m))
  BY <1>1, <1>6, <1>7, ShownIs DEF Inv, ShownFacts
<1>9. QED
  BY <1>2, <1>6, <1>7, <1>8

\* A booking whose events are there is active unless the last one is its
\* deletion, and shows the version of that event.
LEMMA StgIs ==
  /\ DOMAIN StgBookingsCdc = {b \in Bookings : EventsOf(b) # {}}
  /\ DOMAIN Actives = {b \in DOMAIN StgBookingsCdc :
                         topic[Dernier(b)].op # "d"}
  /\ \A b \in DOMAIN Actives :
       Actives[b] = Ligne(topic[Dernier(b)]).version
<1>1. /\ DOMAIN StgBookingsCdc = {b \in Bookings : EventsOf(b) # {}}
      /\ \A b \in DOMAIN StgBookingsCdc :
           /\ StgBookingsCdc[b].version = Ligne(topic[Dernier(b)]).version
           /\ StgBookingsCdc[b].is_deleted = (topic[Dernier(b)].op = "d")
  BY DEF StgBookingsCdc
<1>2. /\ DOMAIN Actives =
           {b \in DOMAIN StgBookingsCdc : ~StgBookingsCdc[b].is_deleted}
      /\ \A b \in DOMAIN Actives : Actives[b] = StgBookingsCdc[b].version
  BY DEF Actives
<1>3. QED
  BY <1>1, <1>2

\* An existing booking shows its present version once the lag is 0.
LEMMA ExistingShown ==
  ASSUME Inv, CaughtUp, NEW b \in Existing
  PROVE  b \in DOMAIN Actives /\ Actives[b] = source[b]
<1>1. /\ b \in Bookings /\ b \notin deleted
      /\ source[b] \in Nat /\ source[b] > 0
  BY DEF Existing, Inv, MessageInv, TypeInv, TypeOK
<1>2. Etape(b) = source[b]
  BY <1>1 DEF Etape
<1>3. PICK m \in Elements(topic) :
        m \in Changes /\ Of(m) = b /\ Rang(m) = source[b]
  <2>1. Pending = {} /\ image = {} /\ mode # "off"
    BY Quiet
  <2>2. PICK m \in Elements(topic) :
          m.op \notin {"d", "tombstone"} /\ m.after = Row(b, source[b])
    BY <2>1 DEF Inv, CurrentInv
  <2>3. Ligne(m) = Row(b, source[b]) /\ m \in Changes
    BY <2>2 DEF Ligne, Changes, Known
  <2>4. Of(m) = b /\ Rang(m) = source[b]
    BY <2>2, <2>3 DEF Of, Rang, Row
  <2>5. QED
    BY <2>3, <2>4
<1>4. m.op # "tombstone"
  BY <1>3 DEF Changes
<1>5. EventsOf(b) # {} /\ source[b] <= Shown(b)
  BY <1>3, <1>4, AllLoaded
<1>6. ShownFacts(b) /\ MessageInv
  BY <1>1, ShownIs DEF Inv
<1> DEFINE d == topic[Dernier(b)]
<1>7. /\ d \in Changes /\ Of(d) = b /\ Shown(b) = Rang(d)
      /\ Shown(b) \in Nat /\ Shown(b) <= source[b]
  BY <1>2, <1>5, <1>6 DEF ShownFacts
<1>8. d.op # "d"
  BY <1>1, <1>6, <1>7 DEF MessageInv, SoundInv, Sound
<1>9. Ligne(d).version = source[b]
  BY <1>1, <1>5, <1>7, <1>8 DEF Rang
<1>10. QED
  BY <1>1, <1>5, <1>8, <1>9, StgIs

\* tests/test_reconciliation_cdc.py, the half that holds however many
\* snapshots are taken: with the lag at 0 no booking is missing and none shows
\* an old version.
THEOREM NothingIsMissing == Spec => []NothingMissing
<1>1. Inv => NothingMissing
  <2> SUFFICES ASSUME Inv, CaughtUp, NEW b \in Existing
               PROVE  b \in DOMAIN Actives /\ Actives[b] = source[b]
    BY DEF NothingMissing
  <2>1. QED
    BY ExistingShown
<1>2. QED
  BY <1>1, InvAlways, PTL

\* The whole of it, if no snapshot is taken again: the bookings of the target
\* are those of the source, with their versions, and no deleted one is left.
THEOREM ReplicaReconciled ==
  ASSUME ~Resnapshots
  PROVE  Spec => []Reconciled
<1>1. ASSUME Inv, CaughtUp
      PROVE  Actives = [b \in Existing |-> source[b]]
  <2>1. DOMAIN Actives \subseteq Existing
    <3> SUFFICES ASSUME NEW b \in DOMAIN Actives
                 PROVE  b \in Existing
      OBVIOUS
    <3>1. b \in Bookings /\ EventsOf(b) # {} /\ topic[Dernier(b)].op # "d"
      BY StgIs
    <3>2. ShownFacts(b) /\ MessageInv
      BY <1>1, <3>1, ShownIs DEF Inv
    <3> DEFINE d == topic[Dernier(b)]
    <3>3. d \in Changes /\ Of(d) = b /\ Shown(b) = Rang(d) /\ Shown(b) > 0
      BY <3>1, <3>2 DEF ShownFacts
    <3>4. /\ Ligne(d).version \in Nat /\ Ligne(d).version > 0
          /\ Ligne(d).version <= source[b] /\ source[b] \in Nat
      BY <3>1, <3>2, <3>3, RangFacts DEF MessageInv, SoundInv, Sound
    <3>5. b \notin deleted
      <4> SUFFICES ASSUME b \in deleted
                   PROVE  FALSE
        OBVIOUS
      <4>1. PICK m \in Elements(topic) : m.op = "d" /\ Of(m) = b
        <5>1. Pending = {} /\ mode # "off"
          BY <1>1, Quiet
        <5>2. GoneInv /\ ~ \A m \in Changes : Of(m) # b
          BY <1>1, <3>3 DEF Inv
        <5>3. QED
          BY <5>1, <5>2 DEF GoneInv
      <4>2. m \in Changes /\ Rang(m) <= Shown(b)
        BY <1>1, <4>1, AllLoaded
      <4>3. Ligne(m).version = source[b]
        BY <3>2, <4>1, <4>2 DEF MessageInv, SoundInv, Sound
      <4>4. QED
        BY <3>1, <3>3, <3>4, <4>1, <4>2, <4>3 DEF Rang
    <3>6. QED
      BY <3>1, <3>4, <3>5 DEF Existing
  <2>2. \A b \in Existing : b \in DOMAIN Actives /\ Actives[b] = source[b]
    BY <1>1, ExistingShown
  <2>3. Actives = [b \in DOMAIN Actives |-> Actives[b]]
    BY DEF Actives
  <2>4. QED
    BY <2>1, <2>2, <2>3
<1>2. Inv => Reconciled
  BY <1>1 DEF Reconciled
<1>3. QED
  BY <1>2, InvAlways, PTL

-----------------------------------------------------------------------------
(***************************************************************************)
(* What a step may not do to the views.                                    *)
(***************************************************************************)
LEMMA SourceMoves ==
  ASSUME TypeInv, [Next]_vars, NEW b \in Bookings
  PROVE  b \in deleted => b \in deleted' /\ source'[b] = source[b]
<1>1. ASSUME NEW x \in Bookings, Insert(x) \/ Update(x)
      PROVE  b \in deleted => b \in deleted' /\ source'[b] = source[b]
  BY <1>1 DEF Insert, Update, TypeInv, TypeOK
<1>2. ASSUME NEW x \in Bookings, Delete(x)
      PROVE  b \in deleted => b \in deleted' /\ source'[b] = source[b]
  BY <1>2 DEF Delete
<1>3. CASE \/ SnapshotBegin \/ (\E m \in image : SnapshotRow(m)) \/ SnapshotEnd
           \/ Stream \/ FlushPosition \/ ConnectorRestart \/ SnapshotAgain
           \/ Load \/ Commit \/ UNCHANGED vars
  BY <1>3, LoadFacts, CommitFacts DEF TypeInv, SnapshotBegin, SnapshotRow,
     SnapshotEnd, Stream, FlushPosition, ConnectorRestart, SnapshotAgain,
     postgres, vars
<1>4. QED
  BY <1>1, <1>2, <1>3 DEF Next

Gone(b) == EventsOf(b) # {} /\ topic[Dernier(b)].op = "d"

LEMMA GoneIs == Disparues = {b \in Bookings : Gone(b)}
<1>1. /\ DOMAIN StgBookingsCdc = {b \in Bookings : EventsOf(b) # {}}
      /\ \A b \in DOMAIN StgBookingsCdc :
           StgBookingsCdc[b].is_deleted = (topic[Dernier(b)].op = "d")
  BY DEF StgBookingsCdc
<1>2. QED
  BY <1>1 DEF Disparues, Gone

LEMMA GoneIsNext == (Disparues = {b \in Bookings : Gone(b)})'
BY GoneIs, PTL

\* A booking that was seen deleted does not come back, though the connector
\* emits old changes again after newer ones: the deletion is the last change
\* of its booking, and the views keep the last of those loaded.
THEOREM GoneForGood == Spec => NoResurrection
<1>1. ASSUME Inv, [Next]_vars
      PROVE  Disparues \subseteq Disparues'
  <2> SUFFICES ASSUME NEW b \in Bookings, Gone(b)
               PROVE  Gone(b)'
    BY GoneIs, GoneIsNext
  <2>1. Inv /\ Inv'
    BY <1>1, InvStep
  <2>2. /\ Shown(b) <= Shown(b)' /\ EventsOf(b) \subseteq EventsOf(b)'
        /\ ShownFacts(b) /\ ShownFacts(b)'
    BY <1>1, ShownGrows
  <2>3. b \in deleted /\ Shown(b) = source[b] + 1 /\ source[b] \in Nat
    <3>1. /\ topic[Dernier(b)] \in Changes /\ Of(topic[Dernier(b)]) = b
          /\ Shown(b) = Rang(topic[Dernier(b)])
      BY <2>2 DEF Gone, ShownFacts
    <3>2. SoundInv /\ TypeInv
      BY <2>1 DEF Inv, MessageInv
    <3>3. /\ b \in deleted
          /\ Ligne(topic[Dernier(b)]).version = source[b]
      BY <3>1, <3>2 DEF Gone, SoundInv, Sound
    <3>4. source[b] \in Nat
      BY <3>2 DEF TypeInv, TypeOK
    <3>5. QED
      BY <3>1, <3>3, <3>4 DEF Gone, Rang
  <2>4. b \in deleted' /\ source'[b] = source[b]
    BY <1>1, <2>3, SourceMoves DEF Inv, MessageInv
  <2>5. EventsOf(b)' # {}
    BY <2>2 DEF Gone
  <2>6. ~ (Shown(b)' <= source[b])
    BY <2>2, <2>3 DEF ShownFacts
  <2>7. /\ topic'[Dernier(b)'] \in Changes' /\ Of(topic'[Dernier(b)']) = b
        /\ Shown(b)' = Rang(topic'[Dernier(b)'])
    BY <2>2, <2>5 DEF ShownFacts, Of, Rang
  <2> DEFINE d == topic'[Dernier(b)']
  <2>8. d.op # "d" => Ligne(d).version <= source'[b]
    BY <2>1, <2>7 DEF Inv, MessageInv, SoundInv, Sound, Of, Ligne
  <2>9. d.op = "d"
    BY <2>4, <2>6, <2>7, <2>8 DEF Rang
  <2>10. QED
    BY <2>5, <2>9 DEF Gone
<1>2. ASSUME Inv, [Next]_vars
      PROVE  [Disparues \subseteq Disparues']_vars
  BY <1>1, <1>2
<1>3. QED
  BY <1>2, InvAlways, PTL DEF Spec, NoResurrection

-----------------------------------------------------------------------------
(***************************************************************************)
(* CdcReplica implements MonotoneReplica.                                  *)
(***************************************************************************)
Etapes ==
  [b \in Bookings |-> IF b \in deleted THEN source[b] + 1 ELSE source[b]]
Vues == [b \in Bookings |-> Shown(b)]

\* A change of the source is one of the replica's; it touches no view.
LEMMA ChangeIsChange ==
  ASSUME Inv, NEW b \in Bookings, Insert(b) \/ Update(b) \/ Delete(b)
  PROVE  Replica!Change(b)
<1>1. TypeInv /\ source \in [Bookings -> Nat]
  BY DEF Inv, MessageInv, TypeInv, TypeOK
<1>2. UNCHANGED <<topic, raw>>
  BY DEF Insert, Update, Delete, Write, warehouse, raw
<1>3. Vues' = Vues
  BY <1>2 DEF Vues, Shown, EventsOf, Dernier, After
<1>4. /\ b \notin deleted
      /\ \A x \in Bookings \ {b} : /\ source'[x] = source[x]
                                   /\ x \in deleted' <=> x \in deleted
      /\ IF b \in deleted' THEN source'[b] = source[b]
                           ELSE source'[b] = source[b] + 1
  <2>1. CASE Insert(b)
    BY <1>1, <2>1 DEF Insert, TypeInv, TypeOK
  <2>2. CASE Update(b)
    BY <1>1, <2>2 DEF Update
  <2>3. CASE Delete(b)
    BY <1>1, <2>3 DEF Delete
  <2>4. QED
    BY <2>1, <2>2, <2>3
<1>5. Etapes' = [Etapes EXCEPT ![b] = @ + 1]
  <2>1. \A x \in Bookings :
          Etapes'[x] = IF x = b THEN Etapes[x] + 1 ELSE Etapes[x]
    BY <1>1, <1>4 DEF Etapes
  <2>2. QED
    BY <2>1 DEF Etapes
<1>6. QED
  BY <1>3, <1>5 DEF Replica!Change, Etapes, Vues

\* Any other step moves the views forwards, or leaves them.
LEMMA StepIsRefresh ==
  ASSUME Inv, [Next]_vars, UNCHANGED <<source, deleted>>
  PROVE  Replica!Refresh
<1>1. Etapes' = Etapes
  BY DEF Etapes
<1>2. ASSUME NEW b \in Bookings
      PROVE  /\ Shown(b)' \in Nat /\ Shown(b) <= Shown(b)'
             /\ Shown(b)' <= Etapes[b]
  <2>1. Shown(b) <= Shown(b)' /\ ShownFacts(b)'
    BY ShownGrows
  <2>2. Shown(b)' \in Nat /\ Shown(b)' <= Etape(b)'
    BY <2>1 DEF ShownFacts
  <2>3. Etape(b)' = Etapes[b]
    BY DEF Etape, Etapes
  <2>4. QED
    BY <2>1, <2>2, <2>3
<1>3. /\ Vues' \in [Bookings -> Nat]
      /\ \A b \in Bookings : Vues[b] <= Vues'[b] /\ Vues'[b] <= Etapes[b]
  BY <1>2 DEF Vues
<1>4. QED
  BY <1>1, <1>3 DEF Replica!Refresh, Etapes, Vues

\* However late, repeated or out of order the messages come, and however many
\* snapshots are taken, the view goes through states of the source, forwards.
THEOREM ReplicaIsMonotone == Spec => ImplementsReplica
<1>1. Init => Replica!Init
  <2> SUFFICES ASSUME Init
               PROVE  Replica!Init
    OBVIOUS
  <2>1. \A b \in Bookings : Shown(b) = 0
    BY DEF Init, Shown, EventsOf, raw, Tables
  <2>2. QED
    BY <2>1 DEF Init, Replica!Init
<1>2. ASSUME Inv, [Next]_vars
      PROVE  Replica!Next
  <2>1. CASE \E b \in Bookings : Insert(b) \/ Update(b) \/ Delete(b)
    BY <1>2, <2>1, ChangeIsChange DEF Replica!Next
  <2>2. CASE ~ \E b \in Bookings : Insert(b) \/ Update(b) \/ Delete(b)
    <3>1. UNCHANGED <<source, deleted>>
      BY <1>2, <2>2, LoadFacts, CommitFacts DEF Inv, MessageInv, TypeInv, Next,
         SnapshotBegin, SnapshotRow, SnapshotEnd, Stream, FlushPosition,
         ConnectorRestart, SnapshotAgain, postgres, vars
    <3>2. QED
      BY <1>2, <3>1, StepIsRefresh DEF Replica!Next
  <2>3. QED
    BY <2>1, <2>2
<1>3. QED
  BY <1>1, <1>2, InvAlways, PTL DEF Spec, ImplementsReplica, Replica!Spec

=============================================================================
