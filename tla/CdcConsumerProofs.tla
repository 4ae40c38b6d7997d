------------------------- MODULE CdcConsumerProofs -------------------------
(***************************************************************************)
(* Proofs about CdcConsumer, for every number of topics, processes,        *)
(* messages and for every batch size.                                      *)
(***************************************************************************)
EXTENDS CdcConsumer, SumTheorems, TLAPS

\* The message in hand exists, and its successor is already to be committed.
HandInv ==
  \A c \in Members :
    pc[c] = "noted" =>
      /\ courant[c] \in Tables
      /\ a_commiter[c][courant[c]] - 1 \in 1 .. Len(log[courant[c]])
      /\ position[c][courant[c]] = a_commiter[c][courant[c]]

TypeInv == TypeOK /\ HandInv

(***************************************************************************)
(* The types, and the message in hand.                                     *)
(***************************************************************************)

\* What a process holds when it is gone.
LEMMA GoneTypes ==
  ASSUME TypeOK, NEW c \in Members, NEW how \in Steps, Gone(c, how)
  PROVE  /\ pc' \in [Members -> Steps]
         /\ position' \in [Members -> [Tables -> Offsets]]
         /\ tampon' \in [Members -> [Tables -> Seq(Offsets)]]
         /\ a_commiter' \in [Members -> [Tables -> Offsets]]
         /\ courant' \in [Members -> Tables \cup {NoOne}]
         /\ restant' \in [Members -> SUBSET Tables]
<1>1. None \in [Tables -> Offsets] /\ Empty \in [Tables -> Seq(Offsets)]
  BY BoundsAssumption DEF None, Empty, Offsets
<1>2. QED
  BY <1>1 DEF Gone, TypeOK

LEMMA MembershipTypes ==
  ASSUME TypeOK, NEW c \in Members, NEW e \in Etats, MembershipChange(c, e)
  PROVE  /\ etat' \in [Members -> Etats]
         /\ owner' \in [Tables -> Members \cup {NoOne}]
BY DEF TypeOK, MembershipChange, Shaken, Etats

LEMMA AppendRowsTypes ==
  ASSUME TypeOK, NEW c \in Members, NEW t \in Tables, AppendRows(c, t)
  PROVE  /\ raw' \in [Tables -> SUBSET Offsets]
         /\ redits' \in [Tables -> SUBSET Offsets]
<1>1. Contents(tampon[c][t]) \subseteq Offsets
  BY DEF TypeOK, Contents
<1>2. QED
  BY <1>1 DEF TypeOK, AppendRows

LEMMA CommitOffsetsTypes ==
  ASSUME TypeOK, NEW c \in Members, CommitOffsets(c)
  PROVE  commis' \in [Tables -> Offsets]
BY DEF TypeOK, CommitOffsets

LEMMA InFlightTypes ==
  ASSUME TypeOK, NEW c \in Members, InFlight(c)
  PROVE  /\ commis' \in [Tables -> Offsets]
         /\ raw' \in [Tables -> SUBSET Offsets]
         /\ redits' \in [Tables -> SUBSET Offsets]
<1>1. CASE UNCHANGED <<commis, raw, redits>>
  BY <1>1 DEF TypeOK
<1>2. CASE /\ Loading(c)
           /\ \E t \in restant[c] : AppendRows(c, t)
           /\ UNCHANGED commis
  <2>1. PICK t \in restant[c] : AppendRows(c, t)
    BY <1>2
  <2>2. t \in Tables
    BY DEF TypeOK
  <2>3. QED
    BY <1>2, <2>1, <2>2, AppendRowsTypes DEF TypeOK
<1>3. CASE MayCommit(c) /\ CommitOffsets(c) /\ UNCHANGED <<raw, redits>>
  BY <1>3, CommitOffsetsTypes DEF TypeOK
<1>4. QED
  BY <1>1, <1>2, <1>3 DEF InFlight

LEMMA TypeInit == Init => TypeInv
<1>1. Offsets = 0 .. (MaxOffset + 1) /\ 0 \in Offsets
  BY BoundsAssumption DEF Offsets
<1>2. ASSUME Init
      PROVE  TypeInv
  <2>1. None \in [Tables -> Offsets] /\ Empty \in [Tables -> Seq(Offsets)]
    BY <1>1 DEF None, Empty
  <2>2. log \in [Tables -> Seq(Kinds)] /\ \A t \in Tables : Len(log[t]) <= MaxOffset
    BY <1>2, BoundsAssumption DEF Init
  <2>3. /\ commis \in [Tables -> Offsets]
        /\ position \in [Members -> [Tables -> Offsets]]
        /\ tampon \in [Members -> [Tables -> Seq(Offsets)]]
        /\ a_commiter \in [Members -> [Tables -> Offsets]]
    BY <1>2, <2>1 DEF Init
  <2>4. /\ raw \in [Tables -> SUBSET Offsets]
        /\ redits \in [Tables -> SUBSET Offsets]
        /\ restant \in [Members -> SUBSET Tables]
    BY <1>2 DEF Init
  <2>5. /\ etat \in [Members -> Etats]
        /\ owner \in [Tables -> Members \cup {NoOne}]
        /\ pc \in [Members -> Steps]
        /\ courant \in [Members -> Tables \cup {NoOne}]
        /\ incident \in BOOLEAN
    BY <1>2 DEF Init, Steps, Etats
  <2>6. HandInv
    BY <1>2 DEF Init, HandInv
  <2>7. QED
    BY <2>2, <2>3, <2>4, <2>5, <2>6 DEF TypeInv, TypeOK
<1>3. QED
  BY <1>2

LEMMA TypeStep == TypeInv /\ [Next]_vars => TypeInv'
<1> SUFFICES ASSUME TypeInv, [Next]_vars
             PROVE  TypeInv'
  OBVIOUS
<1> USE DEF TypeInv
<1>1. ASSUME NEW t \in Tables, NEW k \in Kinds, Produce(t, k)
      PROVE  TypeInv'
  <2>1. log' \in [Tables -> Seq(Kinds)] /\ \A u \in Tables : Len(log'[u]) <= MaxOffset
    BY <1>1, BoundsAssumption DEF Produce, TypeOK
  <2>2. \A u \in Tables : Len(log'[u]) >= Len(log[u])
    BY <1>1 DEF Produce, TypeOK
  <2>3. TypeOK'
    BY <1>1, <2>1 DEF Produce, TypeOK, group, memory
  <2>4. HandInv'
    BY <1>1, <2>1, <2>2 DEF Produce, TypeOK, HandInv, group, memory, Offsets
  <2>5. QED
    BY <2>3, <2>4
<1>2. CASE ShareOut
  <2>1. owner' \in [Tables -> Members \cup {NoOne}]
    BY <1>2 DEF ShareOut, InGroup
  <2>2. etat' \in [Members -> Etats]
    BY <1>2 DEF ShareOut, TypeOK, Etats
  <2>3. QED
    BY <1>2, <2>1, <2>2 DEF ShareOut, TypeOK, HandInv, broker, memory
<1>3. ASSUME NEW c \in Members
      PROVE  /\ Start(c) => TypeInv'
             /\ Join(c) => TypeInv'
             /\ Revoke(c) => TypeInv'
             /\ OnAssign(c) => TypeInv'
             /\ SessionExpire(c) => TypeInv'
             /\ Evict(c) => TypeInv'
  <2>1. None \in [Tables -> Offsets]
    BY BoundsAssumption DEF None, Offsets
  <2>2. ASSUME Start(c) PROVE TypeInv'
    BY <2>2 DEF Start, TypeOK, HandInv, broker, group, memory, Steps
  <2>3. ASSUME Join(c) PROVE TypeInv'
    <3>1. etat' \in [Members -> Etats] /\ owner' \in [Tables -> Members \cup {NoOne}]
      BY <2>3, MembershipTypes DEF Join, Etats
    <3>2. QED
      BY <2>1, <2>3, <3>1 DEF Join, TypeOK, HandInv, broker
  <2>4. ASSUME Revoke(c) PROVE TypeInv'
    BY <2>1, <2>4 DEF Revoke, TypeOK, HandInv, broker, Etats
  <2>5. ASSUME OnAssign(c) PROVE TypeInv'
    <3>1. [t \in Tables |-> IF owner[t] = c THEN StartOffset(t) ELSE 0]
            \in [Tables -> Offsets]
      BY BoundsAssumption DEF StartOffset, TypeOK, Offsets
    <3>2. QED
      BY <2>5, <3>1 DEF OnAssign, TypeOK, HandInv, broker, Etats
  <2>6. ASSUME SessionExpire(c) PROVE TypeInv'
    <3>1. etat' \in [Members -> Etats] /\ owner' \in [Tables -> Members \cup {NoOne}]
      BY <2>6, MembershipTypes DEF SessionExpire, Etats
    <3>2. QED
      BY <2>6, <3>1 DEF SessionExpire, TypeOK, HandInv, broker, memory
  <2>7. ASSUME Evict(c) PROVE TypeInv'
    <3>1. etat' \in [Members -> Etats] /\ owner' \in [Tables -> Members \cup {NoOne}]
      BY <2>7, MembershipTypes DEF Evict, Etats
    <3>2. QED
      BY <2>7, <3>1 DEF Evict, TypeOK, HandInv, broker, memory
  <2>8. QED
    BY <2>2, <2>3, <2>4, <2>5, <2>6, <2>7
<1>4. ASSUME NEW c \in Members, NEW t \in Tables, PollMessage(c, t)
      PROVE  TypeInv'
  <2>1. position[c][t] \in 1 .. Len(log[t]) /\ Len(log[t]) <= MaxOffset
    BY <1>4 DEF PollMessage, Assigned, TypeOK, Offsets
  <2>2. position[c][t] + 1 \in Offsets /\ position[c][t] + 1 - 1 \in 1 .. Len(log[t])
    BY <2>1, BoundsAssumption DEF Offsets, TypeOK
  <2>3. TypeOK'
    BY <1>4, <2>2 DEF PollMessage, TypeOK, broker, group, Steps
  <2>4. HandInv'
    <3> SUFFICES ASSUME NEW d \in Members, pc'[d] = "noted"
                 PROVE  /\ courant'[d] \in Tables
                        /\ a_commiter'[d][courant'[d]] - 1 \in 1 .. Len(log'[courant'[d]])
                        /\ position'[d][courant'[d]] = a_commiter'[d][courant'[d]]
      BY DEF HandInv
    <3>1. CASE d = c
      <4>1. /\ courant'[c] = t
            /\ a_commiter'[c][t] = position[c][t] + 1
            /\ position'[c][t] = position[c][t] + 1
            /\ log' = log
        BY <1>4 DEF PollMessage, TypeOK, broker
      <4>2. position[c][t] \in Int
        BY <2>1
      <4>3. a_commiter'[c][t] - 1 \in 1 .. Len(log[t])
        BY <2>1, <4>1, <4>2
      <4>4. QED
        BY <3>1, <4>1, <4>3
    <3>2. CASE d # c
      BY <1>4, <3>2 DEF PollMessage, TypeOK, broker, HandInv
    <3>3. QED
      BY <3>1, <3>2
  <2>5. QED
    BY <2>3, <2>4
<1>5. ASSUME NEW c \in Members, Handle(c)
      PROVE  TypeInv'
  <2> DEFINE t == courant[c]
             o == a_commiter[c][t] - 1
             buffer == IF log[t][o] = "row"
                         THEN [tampon[c] EXCEPT ![t] = Append(@, o)]
                         ELSE tampon[c]
  <2>1. t \in Tables /\ o \in Offsets
    <3>1. t \in Tables /\ o \in 1 .. Len(log[t])
      BY <1>5 DEF Handle, HandInv
    <3>2. Len(log[t]) \in Nat /\ Len(log[t]) <= MaxOffset
      BY <3>1 DEF TypeOK
    <3>3. QED
      BY <3>1, <3>2, BoundsAssumption DEF Offsets
  <2>2. buffer \in [Tables -> Seq(Offsets)]
    BY <2>1 DEF TypeOK
  <2>3. /\ tampon' = [tampon EXCEPT ![c] = buffer]
        /\ courant' = [courant EXCEPT ![c] = NoOne]
        /\ \/ pc' = [pc EXCEPT ![c] = "load"] /\ restant' = [restant EXCEPT ![c] = NonEmpty(buffer)]
           \/ pc' = [pc EXCEPT ![c] = "poll"] /\ restant' = restant
        /\ UNCHANGED <<broker, group, position, a_commiter, incident>>
    BY <1>5 DEF Handle, BeginFlush
  <2>4. NonEmpty(buffer) \in SUBSET Tables
    BY DEF NonEmpty
  <2> HIDE DEF t, o, buffer
  <2>5. TypeOK'
    <3>1. pc' \in [Members -> Steps] /\ restant' \in [Members -> SUBSET Tables]
      BY <2>3, <2>4 DEF TypeOK, Steps
    <3>2. tampon' \in [Members -> [Tables -> Seq(Offsets)]]
      BY <2>2, <2>3 DEF TypeOK
    <3>3. courant' \in [Members -> Tables \cup {NoOne}]
      BY <2>3 DEF TypeOK
    <3>4. QED
      BY <2>3, <3>1, <3>2, <3>3 DEF TypeOK, broker, group
  <2>6. HandInv'
    BY <2>3 DEF TypeOK, broker, HandInv
  <2>7. QED
    BY <2>5, <2>6
<1>6. ASSUME NEW c \in Members, HandleFails(c)
      PROVE  TypeInv'
  <2>1. Gone(c, "dead")
    BY <1>6 DEF HandleFails
  <2>2. TypeOK'
    BY <1>6, <2>1, GoneTypes DEF HandleFails, TypeOK, broker, group, Steps
  <2>3. HandInv'
    BY <1>6 DEF HandleFails, Gone, HandInv, TypeOK, broker
  <2>4. QED
    BY <2>2, <2>3
<1>7. ASSUME NEW c \in Members, FlushOnTime(c) \/ IdleExit(c)
      PROVE  TypeInv'
  <2>1. /\ \E step \in {"load", "final_load", "closing"} : pc' = [pc EXCEPT ![c] = step]
        /\ \/ restant' = restant
           \/ restant' = [restant EXCEPT ![c] = NonEmpty(tampon[c])]
        /\ UNCHANGED <<broker, group, position, tampon, a_commiter, courant, incident>>
    BY <1>7 DEF FlushOnTime, IdleExit, Finish, BeginFlush
  <2>2. NonEmpty(tampon[c]) \in SUBSET Tables
    BY DEF NonEmpty
  <2>3. pc' \in [Members -> Steps] /\ restant' \in [Members -> SUBSET Tables]
    <3>1. pc' \in [Members -> Steps]
      BY <2>1 DEF TypeOK, Steps
    <3>2. restant' \in [Members -> SUBSET Tables]
      BY <2>1, <2>2 DEF TypeOK
    <3>3. QED
      BY <3>1, <3>2
  <2>4. TypeOK'
    BY <2>1, <2>3 DEF TypeOK, broker, group
  <2>5. HandInv'
    BY <2>1 DEF TypeOK, broker, HandInv
  <2>6. QED
    BY <2>4, <2>5
<1>8. ASSUME NEW c \in Members, NEW t \in Tables, LoadTable(c, t)
      PROVE  TypeInv'
  <2>1. AppendRows(c, t)
    BY <1>8 DEF LoadTable
  <2>2. raw' \in [Tables -> SUBSET Offsets] /\ redits' \in [Tables -> SUBSET Offsets]
    BY <2>1, AppendRowsTypes
  <2>3. QED
    BY <1>8, <2>2 DEF LoadTable, TypeOK, HandInv, group
<1>9. ASSUME NEW c \in Members, Commit(c)
      PROVE  TypeInv'
  <2>1. commis' \in [Tables -> Offsets]
    BY <1>9, CommitOffsetsTypes DEF Commit
  <2>2. TypeOK'
    BY <1>9, <2>1 DEF Commit, TypeOK, group, memory, Steps
  <2>3. HandInv'
    BY <1>9 DEF Commit, TypeOK, HandInv, memory
  <2>4. QED
    BY <2>2, <2>3
<1>10. ASSUME NEW c \in Members, Reset(c)
       PROVE  TypeInv'
  <2>1. None \in [Tables -> Offsets] /\ Empty \in [Tables -> Seq(Offsets)]
    BY BoundsAssumption DEF None, Empty, Offsets
  <2>2. TypeOK'
    BY <1>10, <2>1 DEF Reset, TypeOK, broker, group, Steps
  <2>3. HandInv'
    BY <1>10 DEF Reset, TypeOK, HandInv, broker
  <2>4. QED
    BY <2>2, <2>3
<1>11. ASSUME NEW c \in Members, Close(c)
       PROVE  TypeInv'
  <2>1. Gone(c, "stopped")
    BY <1>11 DEF Close
  <2>2. etat' \in [Members -> Etats] /\ owner' \in [Tables -> Members \cup {NoOne}]
    BY <1>11, MembershipTypes DEF Close, TypeOK, group, Etats
  <2>3. TypeOK'
    BY <1>11, <2>1, <2>2, GoneTypes DEF Close, TypeOK, broker, Steps
  <2>4. HandInv'
    BY <1>11 DEF Close, Gone, HandInv, TypeOK, broker
  <2>5. QED
    BY <2>3, <2>4
<1>12. ASSUME NEW c \in Members, Interrupt(c)
       PROVE  TypeInv'
  <2>1. /\ commis' \in [Tables -> Offsets]
        /\ raw' \in [Tables -> SUBSET Offsets]
        /\ redits' \in [Tables -> SUBSET Offsets]
    BY <1>12, InFlightTypes DEF Interrupt
  <2>2. Empty \in [Tables -> Seq(Offsets)]
    BY DEF Empty
  <2>3. tampon' \in [Members -> [Tables -> Seq(Offsets)]]
    BY <1>12, <2>2 DEF Interrupt, TypeOK
  <2>4. /\ \E step \in {"final_load", "closing"} : pc' = [pc EXCEPT ![c] = step]
        /\ \/ restant' = restant
           \/ restant' = [restant EXCEPT ![c] = NonEmpty(tampon'[c])]
        /\ courant' = [courant EXCEPT ![c] = NoOne]
        /\ incident' \in BOOLEAN
        /\ UNCHANGED <<log, group, position, a_commiter>>
    BY <1>12 DEF Interrupt, Finish, BeginFlush, TypeOK
  <2>5. NonEmpty(tampon'[c]) \in SUBSET Tables
    BY DEF NonEmpty
  <2>6. TypeOK'
    BY <2>1, <2>3, <2>4, <2>5 DEF TypeOK, group, Steps
  <2>7. HandInv'
    BY <2>4 DEF TypeOK, HandInv
  <2>8. QED
    BY <2>6, <2>7
<1>13. ASSUME NEW c \in Members, Die(c)
       PROVE  TypeInv'
  <2>1. Gone(c, "dead")
    BY <1>13 DEF Die
  <2>2. TypeOK'
    BY <1>13, <2>1, GoneTypes, InFlightTypes DEF Die, TypeOK, group, Steps
  <2>3. HandInv'
    BY <1>13 DEF Die, Gone, HandInv, TypeOK
  <2>4. QED
    BY <2>2, <2>3
<1>14. CASE UNCHANGED vars
  BY <1>14 DEF vars, TypeOK, HandInv
<1>15. QED
  BY <1>1, <1>2, <1>3, <1>4, <1>5, <1>6, <1>7, <1>8, <1>9, <1>10, <1>11, <1>12,
     <1>13, <1>14 DEF Next

\* Type correctness of the whole specification.
THEOREM TypeCorrect == Spec => []TypeOK
<1>1. TypeInv => TypeOK
  BY DEF TypeInv
<1>2. QED
  BY <1>1, TypeInit, TypeStep, PTL DEF Spec

-----------------------------------------------------------------------------
(***************************************************************************)
(* No loss.  NoLoss alone is not inductive: why an offset may be committed *)
(* lies in the memory of the process.  Whatever is below the offset that c *)
(* would commit, or below the next one it reads, is in the raw table, or a *)
(* tombstone, or in the buffer of c; and what vider() has dealt with is in *)
(* the raw table.                                                          *)
(***************************************************************************)
Held(c, t, n) ==
  \A o \in 1 .. (n - 1) :
    o \in raw[t] \/ IsTombstone(t, o) \/ o \in Contents(tampon[c][t])

InHand(c, t) == pc[c] = "noted" /\ courant[c] = t

Stored(c, t) == Contents(tampon[c][t]) \subseteq raw[t]

MemberInv(c) ==
  /\ \A t \in Tables : InHand(c, t) => Held(c, t, a_commiter[c][t] - 1)
  /\ \A t \in Tables :
       ~InHand(c, t) => Held(c, t, a_commiter[c][t]) /\ Held(c, t, position[c][t])
  /\ Loading(c) => \A t \in Tables \ restant[c] : Stored(c, t)
  /\ pc[c] = "reset" => \A t \in Tables : Stored(c, t)

SafetyInv == TypeInv /\ NoLoss /\ \A c \in Members : MemberInv(c)

\* A step leaves the memory of d alone.
Same(d) ==
  /\ pc'[d] = pc[d]
  /\ position'[d] = position[d]
  /\ tampon'[d] = tampon[d]
  /\ a_commiter'[d] = a_commiter[d]
  /\ courant'[d] = courant[d]
  /\ restant'[d] = restant[d]

\* Topics and raw tables are append-only.
Grow ==
  \A t \in Tables :
    /\ raw[t] \subseteq raw'[t]
    /\ \A o : IsTombstone(t, o) => IsTombstone(t, o)'

LEMMA SameInv ==
  ASSUME Grow, NEW d \in Members, Same(d), MemberInv(d)
  PROVE  MemberInv(d)'
<1>1. \A t \in Tables : Held(d, t, a_commiter[d][t]) => Held(d, t, a_commiter[d][t])'
  BY DEF Grow, Same, Held
<1>2. \A t \in Tables : Held(d, t, position[d][t]) => Held(d, t, position[d][t])'
  BY DEF Grow, Same, Held
<1>3. \A t \in Tables : Held(d, t, a_commiter[d][t] - 1) => Held(d, t, a_commiter[d][t] - 1)'
  BY DEF Grow, Same, Held
<1>4. \A t \in Tables : InHand(d, t)' <=> InHand(d, t)
  BY DEF Same, InHand
<1>5. \A t \in Tables : Stored(d, t) => Stored(d, t)'
  BY DEF Grow, Same, Stored
<1>6. (Loading(d)' <=> Loading(d)) /\ restant'[d] = restant[d]
  BY DEF Same, Loading
<1>7. (pc[d] = "reset")' <=> pc[d] = "reset"
  BY DEF Same
<1>8. QED
  BY <1>1, <1>2, <1>3, <1>4, <1>5, <1>6, <1>7 DEF MemberInv

LEMMA GrowAppend ==
  ASSUME NEW c \in Members, NEW t \in Tables, TypeOK, AppendRows(c, t)
  PROVE  \A u \in Tables : raw[u] \subseteq raw'[u]
BY DEF AppendRows, TypeOK

LEMMA GrowStep == TypeInv /\ [Next]_vars => Grow
<1> SUFFICES ASSUME TypeInv, [Next]_vars
             PROVE  Grow
  OBVIOUS
<1>1. ASSUME UNCHANGED <<log, raw>>
      PROVE  Grow
  BY <1>1 DEF Grow, IsTombstone
<1>2. ASSUME NEW t \in Tables, NEW k \in Kinds, Produce(t, k)
      PROVE  Grow
  <2>1. \A u \in Tables : Len(log'[u]) >= Len(log[u])
                          /\ \A o \in 1 .. Len(log[u]) : log'[u][o] = log[u][o]
    BY <1>2 DEF Produce, TypeInv, TypeOK
  <2>2. raw' = raw
    BY <1>2 DEF Produce
  <2>3. \A u \in Tables : Len(log[u]) \in Nat /\ Len(log'[u]) \in Nat
    BY <1>2 DEF Produce, TypeInv, TypeOK
  <2>4. QED
    BY <2>1, <2>2, <2>3 DEF Grow, IsTombstone
<1>3. ASSUME NEW c \in Members, NEW t \in Tables, LoadTable(c, t)
      PROVE  Grow
  BY <1>3, GrowAppend DEF LoadTable, TypeInv, Grow, IsTombstone
<1>4. ASSUME NEW c \in Members, InFlight(c), log' = log
      PROVE  Grow
  <2>1. CASE UNCHANGED <<commis, raw, redits>>
    BY <1>1, <1>4, <2>1
  <2>2. CASE \E t \in restant[c] : AppendRows(c, t)
    BY <1>4, <2>2, GrowAppend DEF TypeInv, TypeOK, Grow, IsTombstone
  <2>3. CASE UNCHANGED <<raw, redits>>
    BY <1>1, <1>4, <2>3
  <2>4. QED
    BY <1>4, <2>1, <2>2, <2>3 DEF InFlight
<1>5. ASSUME NEW c \in Members, Interrupt(c) \/ Die(c)
      PROVE  Grow
  BY <1>4, <1>5 DEF Interrupt, Die
<1>6. ASSUME NEW c \in Members,
             \/ Start(c) \/ Join(c) \/ Revoke(c) \/ OnAssign(c) \/ SessionExpire(c)
             \/ Evict(c) \/ \E t \in Tables : PollMessage(c, t)
             \/ Handle(c) \/ HandleFails(c) \/ FlushOnTime(c) \/ IdleExit(c)
             \/ Commit(c) \/ Reset(c) \/ Close(c)
      PROVE  Grow
  <2>1. UNCHANGED <<log, raw>>
    BY <1>6 DEF Start, Join, Revoke, OnAssign, SessionExpire, Evict, PollMessage,
       Handle, HandleFails, FlushOnTime, IdleExit, Commit, Reset, Close, broker
  <2>2. QED
    BY <1>1, <2>1
<1>7. CASE ShareOut
  BY <1>1, <1>7 DEF ShareOut, broker
<1>8. CASE UNCHANGED vars
  BY <1>1, <1>8 DEF vars
<1>9. QED
  BY <1>2, <1>3, <1>5, <1>6, <1>7, <1>8 DEF Next

\* A commit covers what it commits.
LEMMA CommitCovers ==
  ASSUME SafetyInv, NEW c \in Members, MayCommit(c), CommitOffsets(c)
  PROVE  \A t \in Tables : Covered(t, commis'[t])
<1> SUFFICES ASSUME NEW t \in Tables
             PROVE  Covered(t, commis'[t])
  OBVIOUS
<1>1. commis'[t] = IF a_commiter[c][t] # 0 THEN a_commiter[c][t] ELSE commis[t]
  BY DEF CommitOffsets
<1>2. Covered(t, commis[t])
  BY DEF SafetyInv, NoLoss
<1>3. Held(c, t, a_commiter[c][t]) /\ Stored(c, t)
  BY DEF SafetyInv, MemberInv, MayCommit, Loading, InHand
<1>4. Covered(t, a_commiter[c][t])
  BY <1>3 DEF Held, Stored, Covered
<1>5. QED
  BY <1>1, <1>2, <1>4

LEMMA NoLossStep == SafetyInv /\ [Next]_vars => NoLoss'
<1> SUFFICES ASSUME SafetyInv, [Next]_vars
             PROVE  NoLoss'
  OBVIOUS
<1>1. Grow
  BY GrowStep DEF SafetyInv
<1>2. ASSUME \A t \in Tables : Covered(t, commis'[t])
      PROVE  NoLoss'
  BY <1>1, <1>2 DEF NoLoss, Covered, Grow
<1>3. ASSUME commis' = commis
      PROVE  NoLoss'
  BY <1>2, <1>3 DEF SafetyInv, NoLoss
<1>4. ASSUME NEW c \in Members, InFlight(c)
      PROVE  NoLoss'
  BY <1>2, <1>3, <1>4, CommitCovers DEF InFlight
<1>5. ASSUME NEW c \in Members, Commit(c)
      PROVE  NoLoss'
  BY <1>2, <1>5, CommitCovers DEF Commit
<1>6. ASSUME NEW c \in Members, Interrupt(c) \/ Die(c)
      PROVE  NoLoss'
  BY <1>4, <1>6 DEF Interrupt, Die
<1>7. ASSUME NEW c \in Members,
             \/ Start(c) \/ Join(c) \/ Revoke(c) \/ OnAssign(c) \/ SessionExpire(c)
             \/ Evict(c) \/ \E t \in Tables : PollMessage(c, t) \/ LoadTable(c, t)
             \/ Handle(c) \/ HandleFails(c) \/ FlushOnTime(c) \/ IdleExit(c)
             \/ Reset(c) \/ Close(c)
      PROVE  NoLoss'
  <2>1. commis' = commis
    BY <1>7 DEF Start, Join, Revoke, OnAssign, SessionExpire, Evict, PollMessage,
       Handle, HandleFails, FlushOnTime, IdleExit, LoadTable, Reset, Close, broker
  <2>2. QED
    BY <1>3, <2>1
<1>8. CASE ShareOut \/ \E t \in Tables, k \in Kinds : Produce(t, k)
  BY <1>3, <1>8 DEF ShareOut, Produce, broker
<1>9. CASE UNCHANGED vars
  BY <1>3, <1>9 DEF vars
<1>10. QED
  BY <1>5, <1>6, <1>7, <1>8, <1>9 DEF Next

\* What a process remembers after the steps of its own.
LEMMA ContentsAppend ==
  ASSUME NEW S, NEW s \in Seq(S), NEW x \in S
  PROVE  Contents(Append(s, x)) = Contents(s) \cup {x}
<1>1. /\ DOMAIN Append(s, x) = 1 .. (Len(s) + 1)
      /\ DOMAIN s = 1 .. Len(s)
      /\ Len(s) \in Nat
      /\ Append(s, x)[Len(s) + 1] = x
      /\ \A i \in 1 .. Len(s) : Append(s, x)[i] = s[i]
  OBVIOUS
<1>2. 1 .. (Len(s) + 1) = (1 .. Len(s)) \cup {Len(s) + 1}
  BY <1>1
<1>3. QED
  BY <1>1, <1>2 DEF Contents

LEMMA EmptyStored ==
  ASSUME NEW buffer, NEW t \in Tables \ NonEmpty(buffer)
  PROVE  Contents(buffer[t]) = {}
BY DEF NonEmpty, Contents

LEMMA GoneInv ==
  ASSUME TypeOK, NEW c \in Members, NEW how \in {"stopped", "dead"}, Gone(c, how)
  PROVE  /\ MemberInv(c)'
         /\ \A d \in Members \ {c} : Same(d)
<1>1. /\ pc'[c] = how /\ position'[c] = None /\ a_commiter'[c] = None
      /\ tampon'[c] = Empty
  BY DEF Gone, TypeOK
<1>2. \A t \in Tables : Held(c, t, 0)'
  BY DEF Held
<1>3. MemberInv(c)'
  BY <1>1, <1>2 DEF MemberInv, InHand, Loading, None
<1>4. \A d \in Members \ {c} : Same(d)
  BY DEF Gone, Same, TypeOK
<1>5. QED
  BY <1>3, <1>4

LEMMA MemberStep ==
  ASSUME SafetyInv, [Next]_vars, "noted" \notin InterruptPoints
  PROVE  \A d \in Members : MemberInv(d)'
<1> USE DEF SafetyInv, TypeInv
<1>1. Grow
  BY GrowStep
<1>2. ASSUME \A d \in Members : Same(d)
      PROVE  \A d \in Members : MemberInv(d)'
  BY <1>1, <1>2, SameInv
<1>3. ASSUME NEW c \in Members, \A d \in Members \ {c} : Same(d), MemberInv(c)'
      PROVE  \A d \in Members : MemberInv(d)'
  BY <1>1, <1>3, SameInv
<1>4. \* What grows with the raw tables, for a process whose offsets stay.
      ASSUME NEW c \in Members, NEW t \in Tables, tampon'[c][t] = tampon[c][t]
      PROVE  /\ Held(c, t, position[c][t]) /\ position'[c][t] = position[c][t]
                  => Held(c, t, position[c][t])'
             /\ Held(c, t, a_commiter[c][t]) /\ a_commiter'[c][t] = a_commiter[c][t]
                  => Held(c, t, a_commiter[c][t])'
             /\ Stored(c, t) => Stored(c, t)'
  BY <1>1, <1>4 DEF Grow, Held, Stored
<1>5. CASE ShareOut \/ (\E t \in Tables, k \in Kinds : Produce(t, k))
  BY <1>2, <1>5 DEF ShareOut, Produce, memory, Same
<1>6. ASSUME NEW c \in Members, SessionExpire(c) \/ Evict(c)
      PROVE  \A d \in Members : MemberInv(d)'
  BY <1>2, <1>6 DEF SessionExpire, Evict, memory, Same
<1>7. ASSUME NEW c \in Members, Start(c)
      PROVE  \A d \in Members : MemberInv(d)'
  <2>1. \A d \in Members \ {c} : Same(d)
    BY <1>7 DEF Start, memory, Same, TypeOK
  <2>2. pc'[c] = "poll" /\ pc[c] = "absent" /\ UNCHANGED memory
    BY <1>7 DEF Start, TypeOK
  <2>3. MemberInv(c)'
    BY <1>4, <2>2 DEF MemberInv, InHand, Loading, memory
  <2>4. QED
    BY <1>3, <2>1, <2>3
<1>8. ASSUME NEW c \in Members, Join(c) \/ Revoke(c)
      PROVE  \A d \in Members : MemberInv(d)'
  <2>1. \A d \in Members \ {c} : Same(d)
    BY <1>8 DEF Join, Revoke, Same, TypeOK
  <2>2. /\ pc[c] = "poll" /\ pc'[c] = "poll" /\ position'[c] = None
        /\ UNCHANGED <<tampon, a_commiter>>
    BY <1>8 DEF Join, Revoke, TypeOK
  <2>3. \A t \in Tables : position'[c][t] = 0 /\ Held(c, t, 0)'
    BY <2>2 DEF None, Held
  <2>4. MemberInv(c)'
    BY <1>4, <2>2, <2>3 DEF MemberInv, InHand, Loading
  <2>5. QED
    BY <1>3, <2>1, <2>4
<1>9. ASSUME NEW c \in Members, OnAssign(c)
      PROVE  \A d \in Members : MemberInv(d)'
  <2>1. \A d \in Members \ {c} : Same(d)
    BY <1>9 DEF OnAssign, Same, TypeOK
  <2>2. /\ pc[c] = "poll" /\ pc'[c] = "poll"
        /\ \A t \in Tables : position'[c][t] \in {0, 1, commis[t]}
        /\ UNCHANGED <<tampon, a_commiter>>
    BY <1>9 DEF OnAssign, StartOffset, TypeOK
  <2>3. ASSUME NEW t \in Tables
        PROVE  Held(c, t, position[c][t])'
    <3>1. CASE position'[c][t] \in {0, 1}
      BY <3>1 DEF Held
    <3>2. CASE position'[c][t] = commis[t]
      <4>1. Covered(t, commis[t])
        BY DEF NoLoss
      <4>2. QED
        BY <1>1, <3>2, <4>1 DEF Covered, Held, Grow
    <3>3. QED
      BY <2>2, <3>1, <3>2
  <2>4. MemberInv(c)'
    BY <1>4, <2>2, <2>3 DEF MemberInv, InHand, Loading
  <2>5. QED
    BY <1>3, <2>1, <2>4
<1>10. ASSUME NEW c \in Members, NEW t \in Tables, PollMessage(c, t)
       PROVE  \A d \in Members : MemberInv(d)'
  <2>1. \A d \in Members \ {c} : Same(d)
    BY <1>10 DEF PollMessage, Same, TypeOK
  <2>2. /\ pc[c] = "poll" /\ pc'[c] = "noted" /\ courant'[c] = t
        /\ position[c][t] \in Nat
        /\ a_commiter'[c][t] = position[c][t] + 1
        /\ \A u \in Tables \ {t} : /\ position'[c][u] = position[c][u]
                                   /\ a_commiter'[c][u] = a_commiter[c][u]
        /\ tampon' = tampon
    BY <1>10 DEF PollMessage, TypeOK, Offsets
  <2>3. a_commiter'[c][t] - 1 = position[c][t]
    BY <2>2
  <2>4. Held(c, t, position[c][t])
    BY <2>2 DEF MemberInv, InHand
  <2>5. Held(c, t, a_commiter[c][t] - 1)'
    BY <1>1, <2>2, <2>3, <2>4 DEF Held, Grow
  <2>6. \A u \in Tables \ {t} :
          Held(c, u, a_commiter[c][u])' /\ Held(c, u, position[c][u])'
    BY <1>4, <2>2 DEF MemberInv, InHand
  <2>7. MemberInv(c)'
    BY <2>2, <2>5, <2>6 DEF MemberInv, InHand, Loading
  <2>8. QED
    BY <1>3, <2>1, <2>7
<1>11. ASSUME NEW c \in Members, Handle(c)
       PROVE  \A d \in Members : MemberInv(d)'
  <2>1. PICK t \in Tables : courant[c] = t
    BY <1>11 DEF Handle, HandInv
  <2>2. PICK o \in 1 .. Len(log[t]) : a_commiter[c][t] - 1 = o
    BY <1>11, <2>1 DEF Handle, HandInv
  <2>3. /\ Len(log[t]) \in Nat /\ Len(log[t]) <= MaxOffset
        /\ o \in Offsets /\ a_commiter[c][t] = o + 1
        /\ position[c][t] = o + 1
    <3>1. Len(log[t]) \in Nat /\ Len(log[t]) <= MaxOffset /\ a_commiter[c][t] \in Nat
      BY DEF TypeOK, Offsets
    <3>2. position[c][t] = a_commiter[c][t]
      BY <1>11, <2>1 DEF Handle, HandInv
    <3>3. QED
      BY <2>2, <3>1, <3>2, BoundsAssumption DEF Offsets
  <2> DEFINE buffer == IF log[t][o] = "row"
                         THEN [tampon[c] EXCEPT ![t] = Append(@, o)]
                         ELSE tampon[c]
  <2>4. /\ pc[c] = "noted" /\ log[t][o] # "illisible"
        /\ tampon' = [tampon EXCEPT ![c] = buffer]
        /\ courant' = [courant EXCEPT ![c] = NoOne]
        /\ \/ pc' = [pc EXCEPT ![c] = "load"] /\ restant' = [restant EXCEPT ![c] = NonEmpty(buffer)]
           \/ pc' = [pc EXCEPT ![c] = "poll"] /\ restant' = restant
        /\ UNCHANGED <<log, commis, raw, position, a_commiter>>
    BY <1>11, <2>1, <2>2 DEF Handle, BeginFlush, broker
  <2>5. tampon[c] \in [Tables -> Seq(Offsets)] /\ tampon[c][t] \in Seq(Offsets)
    BY DEF TypeOK
  <2>6. /\ tampon'[c] = buffer
        /\ \A u \in Tables \ {t} : tampon'[c][u] = tampon[c][u]
        /\ tampon'[c][t] = IF log[t][o] = "row" THEN Append(tampon[c][t], o)
                                                ELSE tampon[c][t]
    BY <2>4, <2>5 DEF TypeOK
  <2>7. log[t][o] \in {"row", "tombstone"}
    <3>1. log[t][o] \in Kinds
      BY DEF TypeOK
    <3>2. QED
      BY <2>4, <3>1, KindsAssumption DEF AllKinds
  <2>8. Held(c, t, o)
    <3>1. InHand(c, t)
      BY <2>1, <2>4 DEF InHand
    <3>2. QED
      BY <2>2, <3>1 DEF MemberInv
  <2>9. \A u \in Tables \ {t} : ~InHand(c, u)
    BY <2>1 DEF InHand
  <2>10. \A d \in Members \ {c} : Same(d)
    BY <2>4 DEF Same, TypeOK
  <2>11. /\ pc'[c] \in {"load", "poll"}
         /\ pc'[c] = "load" => restant'[c] = NonEmpty(tampon'[c])
    BY <2>4, <2>6 DEF TypeOK
  <2> HIDE DEF buffer
  <2>12. Contents(tampon[c][t]) \subseteq Contents(tampon'[c][t])
         /\ (log[t][o] = "row" => o \in Contents(tampon'[c][t]))
    BY <2>3, <2>5, <2>6, ContentsAppend
  <2>13. Held(c, t, o + 1)'
    <3> SUFFICES ASSUME NEW p \in 1 .. o
                 PROVE  p \in raw'[t] \/ IsTombstone(t, p)' \/ p \in Contents(tampon'[c][t])
      BY DEF Held
    <3>1. CASE p \in 1 .. (o - 1)
      BY <1>1, <2>8, <2>12, <3>1 DEF Held, Grow
    <3>2. CASE p = o
      <4>1. log[t][o] = "tombstone" => IsTombstone(t, o)'
        BY <2>4 DEF IsTombstone
      <4>2. QED
        BY <2>7, <2>12, <3>2, <4>1
    <3>3. QED
      BY <3>1, <3>2
  <2>14. Held(c, t, a_commiter[c][t])' /\ Held(c, t, position[c][t])'
    BY <2>3, <2>4, <2>13
  <2>15. \A u \in Tables \ {t} :
           Held(c, u, a_commiter[c][u])' /\ Held(c, u, position[c][u])'
    BY <1>4, <2>4, <2>6, <2>9 DEF MemberInv
  <2>16. pc'[c] = "load" => \A u \in Tables \ restant'[c] : Stored(c, u)'
    BY <2>11, EmptyStored DEF Stored
  <2>17. MemberInv(c)'
    BY <2>11, <2>14, <2>15, <2>16 DEF MemberInv, InHand, Loading
  <2>18. QED
    BY <1>3, <2>10, <2>17
<1>12. ASSUME NEW c \in Members, HandleFails(c) \/ Close(c) \/ Die(c)
       PROVE  \A d \in Members : MemberInv(d)'
  <2>1. Gone(c, "dead") \/ Gone(c, "stopped")
    BY <1>12 DEF HandleFails, Close, Die
  <2>2. QED
    BY <1>3, <2>1, GoneInv
<1>13. ASSUME NEW c \in Members, FlushOnTime(c) \/ IdleExit(c)
       PROVE  \A d \in Members : MemberInv(d)'
  <2>1. \A d \in Members \ {c} : Same(d)
    BY <1>13 DEF FlushOnTime, IdleExit, Finish, BeginFlush, Same, TypeOK
  <2>2. /\ pc[c] = "poll" /\ pc'[c] \in {"load", "final_load", "closing"}
        /\ pc'[c] # "closing" => restant'[c] = NonEmpty(tampon'[c])
        /\ UNCHANGED <<position, tampon, a_commiter>>
    BY <1>13 DEF FlushOnTime, IdleExit, Finish, BeginFlush, TypeOK
  <2>3. pc'[c] # "closing" => \A t \in Tables \ restant'[c] : Stored(c, t)'
    BY <2>2, EmptyStored DEF Stored
  <2>4. MemberInv(c)'
    BY <1>4, <2>2, <2>3 DEF MemberInv, InHand, Loading
  <2>5. QED
    BY <1>3, <2>1, <2>4
<1>14. ASSUME NEW c \in Members, NEW t \in Tables, LoadTable(c, t)
       PROVE  \A d \in Members : MemberInv(d)'
  <2>1. \A d \in Members \ {c} : Same(d)
    BY <1>14 DEF LoadTable, Same, TypeOK
  <2>2. /\ Loading(c) /\ Loading(c)' /\ restant'[c] = restant[c] \ {t}
        /\ UNCHANGED <<pc, position, tampon, a_commiter, courant>>
        /\ AppendRows(c, t)
    BY <1>14 DEF LoadTable, Loading, TypeOK
  <2>3. Stored(c, t)'
    BY <2>2 DEF AppendRows, Stored, TypeOK
  <2>4. \A u \in Tables \ restant'[c] : Stored(c, u)'
    BY <1>4, <2>2, <2>3 DEF MemberInv
  <2>5. MemberInv(c)'
    BY <1>4, <2>2, <2>4 DEF MemberInv, InHand, Loading
  <2>6. QED
    BY <1>3, <2>1, <2>5
<1>15. ASSUME NEW c \in Members, Commit(c)
       PROVE  \A d \in Members : MemberInv(d)'
  <2>1. \A d \in Members \ {c} : Same(d)
    BY <1>15 DEF Commit, memory, Same, TypeOK
  <2>2. /\ Loading(c) /\ restant[c] = {} /\ pc'[c] \in {"reset", "closing"}
        /\ UNCHANGED <<position, tampon, a_commiter>>
    BY <1>15 DEF Commit, MayCommit, memory, TypeOK
  <2>3. MemberInv(c)'
    BY <1>4, <2>2 DEF MemberInv, InHand, Loading
  <2>4. QED
    BY <1>3, <2>1, <2>3
<1>16. ASSUME NEW c \in Members, Reset(c)
       PROVE  \A d \in Members : MemberInv(d)'
  <2>1. \A d \in Members \ {c} : Same(d)
    BY <1>16 DEF Reset, Same, TypeOK
  <2>2. /\ pc[c] = "reset" /\ pc'[c] = "poll" /\ a_commiter'[c] = None
        /\ UNCHANGED <<position, raw, log>>
    BY <1>16 DEF Reset, broker, TypeOK
  <2>3. \A t \in Tables : Held(c, t, position[c][t]) /\ Stored(c, t)
    BY <2>2 DEF MemberInv, InHand
  <2>4. \A t \in Tables : Held(c, t, position[c][t])' /\ Held(c, t, a_commiter[c][t])'
    BY <2>2, <2>3 DEF Held, Stored, None, IsTombstone
  <2>5. MemberInv(c)'
    BY <2>2, <2>4 DEF MemberInv, InHand, Loading
  <2>6. QED
    BY <1>3, <2>1, <2>5
<1>17. ASSUME NEW c \in Members, Interrupt(c)
       PROVE  \A d \in Members : MemberInv(d)'
  <2>1. \A d \in Members \ {c} : Same(d)
    BY <1>17 DEF Interrupt, Finish, BeginFlush, Same, TypeOK
  <2>2. /\ pc[c] \in {"poll", "load", "reset"} /\ pc'[c] \in {"final_load", "closing"}
        /\ tampon'[c] = tampon[c] \/ (pc[c] = "reset" /\ tampon'[c] = Empty)
        /\ pc'[c] = "final_load" => restant'[c] = NonEmpty(tampon'[c])
        /\ UNCHANGED <<position, a_commiter>>
    BY <1>17, PointsAssumption DEF Interrupt, Finish, BeginFlush, AllPoints, TypeOK
  <2>3. \A t \in Tables : /\ Held(c, t, position[c][t]) /\ Held(c, t, a_commiter[c][t])
                          /\ pc[c] = "reset" => Stored(c, t)
    BY <2>2 DEF MemberInv, InHand
  <2>4. \A t \in Tables : Held(c, t, position[c][t])' /\ Held(c, t, a_commiter[c][t])'
    BY <1>1, <2>2, <2>3 DEF Held, Stored, Grow
  <2>5. pc'[c] = "final_load" => \A t \in Tables \ restant'[c] : Stored(c, t)'
    BY <2>2, EmptyStored DEF Stored
  <2>6. MemberInv(c)'
    BY <2>2, <2>4, <2>5 DEF MemberInv, InHand, Loading
  <2>7. QED
    BY <1>3, <2>1, <2>6
<1>18. CASE UNCHANGED vars
  BY <1>2, <1>18 DEF vars, Same
<1>19. QED
  BY <1>5, <1>6, <1>7, <1>8, <1>9, <1>10, <1>11, <1>12, <1>13, <1>14, <1>15, <1>16,
     <1>17, <1>18 DEF Next

LEMMA SafetyInit == Init => SafetyInv
<1> SUFFICES ASSUME Init
             PROVE  SafetyInv
  OBVIOUS
<1>1. TypeInv
  BY TypeInit
<1>2. NoLoss
  BY DEF Init, None, NoLoss, Covered
<1>3. \A c \in Members, t \in Tables : Held(c, t, 0)
  BY DEF Held
<1>4. \A c \in Members : MemberInv(c)
  BY <1>3 DEF Init, None, MemberInv, InHand, Loading
<1>5. QED
  BY <1>1, <1>2, <1>4 DEF SafetyInv

\* No message below a committed offset is missing from the raw tables, provided
\* that no Ctrl+C lands between the two statements that note the offset of a
\* message (cdc_consumer.py:211) and buffer it (cdc_consumer.py:216).
THEOREM Safety ==
  ASSUME "noted" \notin InterruptPoints
  PROVE  Spec => []NoLoss
<1>1. SafetyInv /\ [Next]_vars => SafetyInv'
  BY TypeStep, NoLossStep, MemberStep DEF SafetyInv
<1>2. SafetyInv => NoLoss
  BY DEF SafetyInv
<1>3. QED
  BY <1>1, <1>2, SafetyInit, PTL DEF Spec

-----------------------------------------------------------------------------
(***************************************************************************)
(* Calm.  While no batch is cut short and no partition changes hands under *)
(* a pending batch, a partition has one reader at most, which reads on     *)
(* from the committed offset, and what lies beyond that offset in the raw  *)
(* table is what this reader is loading.                                   *)
(***************************************************************************)
\* No partition is shared out while a member has yet to give up its own.
RebalanceInv ==
  \A c, d \in Members : etat[c] \in {"sync", "stable"} => etat[d] # "rejoin"

ReaderInv(c) ==
  /\ ~Running(c) => position[c] = None
  /\ \A t \in Tables :
       position[c][t] # 0 =>
         /\ etat[c] \in {"stable", "rejoin"}
         /\ etat[c] = "stable" => owner[t] = c
         /\ StartOffset(t) <= position[c][t]
         /\ \A d \in Members \ {c} : position[d][t] = 0
  /\ \A t \in Tables : a_commiter[c][t] \in {0, position[c][t]}

Increasing(s) == \A i, j \in DOMAIN s : i < j => s[i] < s[j]

\* The rows buffered lie below the offset to commit (below the message in
\* hand), and above the committed one until the batch is committed.
BatchInv(c) ==
  \A t \in Tables :
    /\ Increasing(tampon[c][t])
    /\ InHand(c, t) => StartOffset(t) <= a_commiter[c][t] - 1
    /\ \A o \in Contents(tampon[c][t]) :
         /\ IF InHand(c, t) THEN o < a_commiter[c][t] - 1
                            ELSE o < a_commiter[c][t]
         /\ pc[c] \in {"poll", "noted", "load", "final_load"} =>
              StartOffset(t) <= o

LoadedBy(c, t, o) ==
  Loading(c) /\ t \notin restant[c] /\ o \in Contents(tampon[c][t])

LoadedInv ==
  \A t \in Tables : \A o \in raw[t] :
    o < StartOffset(t) \/ \E c \in Members : LoadedBy(c, t, o)

Calm ==
  /\ \A c \in Members : ReaderInv(c) /\ BatchInv(c)
  /\ LoadedInv
  /\ \A t \in Tables : redits[t] = {}

CalmInv == TypeInv /\ RebalanceInv /\ (~incident => Calm)

LEMMA CalmTypes ==
  ASSUME TypeInv
  PROVE  /\ \A t \in Tables : commis[t] \in Nat /\ StartOffset(t) \in Nat
         /\ \A t \in Tables : commis[t] <= StartOffset(t) /\ StartOffset(t) > 0
         /\ \A c \in Members, t \in Tables :
              /\ position[c][t] \in Nat /\ a_commiter[c][t] \in Nat
              /\ tampon[c][t] \in Seq(Offsets)
              /\ \A o \in Contents(tampon[c][t]) : o \in Nat
         /\ \A t \in Tables : \A o \in raw[t] : o \in Nat
<1>1. Offsets \subseteq Nat
  BY DEF Offsets
<1>2. \A t \in Tables : commis[t] \in Nat
  BY <1>1 DEF TypeInv, TypeOK
<1>3. \A c \in Members, t \in Tables :
        /\ position[c][t] \in Nat /\ a_commiter[c][t] \in Nat
        /\ tampon[c][t] \in Seq(Offsets)
  BY <1>1 DEF TypeInv, TypeOK
<1>4. \A c \in Members, t \in Tables :
        \A o \in Contents(tampon[c][t]) : o \in Nat
  <2> SUFFICES ASSUME NEW c \in Members, NEW t \in Tables,
                      NEW i \in DOMAIN tampon[c][t]
               PROVE  tampon[c][t][i] \in Nat
    BY DEF Contents
  <2> DEFINE s == tampon[c][t]
  <2>1. s \in Seq(Offsets) /\ i \in DOMAIN s
    BY <1>3
  <2> HIDE DEF s
  <2>2. s[i] \in Offsets
    BY <2>1
  <2>3. QED
    BY <1>1, <2>2 DEF s
<1>5. \A t \in Tables : \A o \in raw[t] : o \in Nat
  BY <1>1 DEF TypeInv, TypeOK
<1>6. QED
  BY <1>2, <1>3, <1>4, <1>5 DEF StartOffset

LEMMA RebalanceStep == TypeInv /\ RebalanceInv /\ [Next]_vars => RebalanceInv'
<1> SUFFICES ASSUME TypeInv, RebalanceInv, [Next]_vars
             PROVE  RebalanceInv'
  OBVIOUS
<1>1. etat \in [Members -> Etats]
  BY DEF TypeInv, TypeOK
<1>2. ASSUME etat' = etat
      PROVE  RebalanceInv'
  BY <1>2 DEF RebalanceInv
<1>3. ASSUME NEW c \in Members, NEW new \in {"out", "joined"},
             MembershipChange(c, new)
      PROVE  RebalanceInv'
  BY <1>1, <1>3 DEF MembershipChange, Shaken, RebalanceInv
<1>4. ASSUME NEW c \in Members,
             Join(c) \/ SessionExpire(c) \/ Evict(c) \/ Close(c)
      PROVE  RebalanceInv'
  BY <1>2, <1>3, <1>4 DEF Join, SessionExpire, Evict, Close, group
<1>5. ASSUME NEW c \in Members, Revoke(c) \/ OnAssign(c)
      PROVE  RebalanceInv'
  BY <1>1, <1>5 DEF Revoke, OnAssign, RebalanceInv
<1>6. CASE ShareOut
  BY <1>1, <1>6 DEF ShareOut, RebalanceInv, InGroup
<1>7. ASSUME NEW c \in Members,
             \/ Start(c)
             \/ \E t \in Tables : PollMessage(c, t) \/ LoadTable(c, t)
             \/ Handle(c) \/ HandleFails(c) \/ FlushOnTime(c) \/ IdleExit(c)
             \/ Commit(c) \/ Reset(c) \/ Interrupt(c) \/ Die(c)
      PROVE  RebalanceInv'
  <2>1. etat' = etat
    BY <1>7 DEF Start, PollMessage, LoadTable, Handle, HandleFails, FlushOnTime,
       IdleExit, Commit, Reset, Interrupt, Die, group
  <2>2. QED
    BY <1>2, <2>1
<1>8. CASE UNCHANGED vars \/ \E t \in Tables, k \in Kinds : Produce(t, k)
  BY <1>2, <1>8 DEF vars, Produce, group
<1>9. QED
  BY <1>4, <1>5, <1>6, <1>7, <1>8 DEF Next

\* A process without an offset to commit has nothing in its buffer.
LEMMA EmptyBuffer ==
  ASSUME TypeInv, NEW c \in Members, BatchInv(c),
         NEW t \in Tables, a_commiter[c][t] = 0
  PROVE  Contents(tampon[c][t]) = {} /\ ~InHand(c, t)
<1>1. ASSUME NEW o \in Contents(tampon[c][t])
      PROVE  FALSE
  <2>1. o \in Nat
    BY CalmTypes
  <2>2. QED
    BY <2>1 DEF BatchInv
<1>2. ~InHand(c, t)
  BY CalmTypes DEF BatchInv
<1>3. QED
  BY <1>1, <1>2

\* What a process has buffered or in hand is of a partition that it reads.
LEMMA Reads ==
  ASSUME TypeInv, NEW c \in Members, ReaderInv(c), BatchInv(c),
         NEW t \in Tables,
         InHand(c, t) \/ Contents(tampon[c][t]) # {} \/ a_commiter[c][t] # 0
  PROVE  /\ a_commiter[c][t] # 0 /\ position[c][t] = a_commiter[c][t]
         /\ \A d \in Members \ {c} : position[d][t] = 0
<1>1. a_commiter[c][t] # 0
  BY EmptyBuffer
<1>2. QED
  BY <1>1 DEF ReaderInv

-----------------------------------------------------------------------------
\* The other processes, at a step of c that leaves the group as it is.
LEMMA OthersCalm ==
  ASSUME TypeInv, NEW c \in Members, NEW d \in Members \ {c},
         ReaderInv(d), BatchInv(d), UNCHANGED <<etat, owner>>, Same(d),
         \A x \in Members \ {c} : position'[x] = position[x],
         \A t \in Tables : position'[c][t] # 0 => position[c][t] # 0,
         \A t \in Tables : position[d][t] # 0 => commis'[t] = commis[t]
  PROVE  ReaderInv(d)' /\ BatchInv(d)'
<1>1. \A t \in Tables :
        position[d][t] # 0 => StartOffset(t)' = StartOffset(t)
  BY DEF StartOffset
<1>2. /\ pc'[d] = pc[d] /\ position'[d] = position[d] /\ tampon'[d] = tampon[d]
      /\ a_commiter'[d] = a_commiter[d] /\ courant'[d] = courant[d]
  BY DEF Same
<1>3. ReaderInv(d)'
  <2>1. (~Running(d))' => position'[d] = None
    BY <1>2 DEF ReaderInv, Running
  <2>2. ASSUME NEW t \in Tables, position'[d][t] # 0
        PROVE  /\ etat'[d] \in {"stable", "rejoin"}
               /\ etat'[d] = "stable" => owner'[t] = d
               /\ StartOffset(t)' <= position'[d][t]
               /\ \A x \in Members \ {d} : position'[x][t] = 0
    <3>1. /\ position[d][t] # 0 /\ StartOffset(t)' = StartOffset(t)
      BY <1>1, <1>2, <2>2
    <3>2. \A x \in Members \ {d} : position[x][t] = 0
      BY <3>1 DEF ReaderInv
    <3>3. \A x \in Members \ {d} : position'[x][t] = 0
      BY <3>2
    <3>4. QED
      BY <1>2, <3>1, <3>3 DEF ReaderInv
  <2>3. \A t \in Tables : a_commiter'[d][t] \in {0, position'[d][t]}
    BY <1>2 DEF ReaderInv
  <2>4. QED
    BY <2>1, <2>2, <2>3 DEF ReaderInv
<1>4. BatchInv(d)'
  <2> SUFFICES ASSUME NEW t \in Tables
               PROVE  /\ Increasing(tampon'[d][t])
                      /\ InHand(d, t)' =>
                           StartOffset(t)' <= a_commiter'[d][t] - 1
                      /\ \A o \in Contents(tampon'[d][t]) :
                           /\ IF InHand(d, t)' THEN o < a_commiter'[d][t] - 1
                                               ELSE o < a_commiter'[d][t]
                           /\ pc'[d] \in {"poll", "noted", "load", "final_load"}
                                => StartOffset(t)' <= o
    BY DEF BatchInv, Increasing, Contents
  <2>1. InHand(d, t)' <=> InHand(d, t)
    BY <1>2 DEF InHand
  <2>2. InHand(d, t) \/ Contents(tampon[d][t]) # {} =>
          StartOffset(t)' = StartOffset(t)
    BY <1>1, Reads
  <2>3. QED
    BY <1>2, <2>1, <2>2 DEF BatchInv
<1>5. QED
  BY <1>3, <1>4

\* What c itself keeps when it stays a reader of the same partitions.
LEMMA ReaderStays ==
  ASSUME NEW c \in Members, ReaderInv(c), UNCHANGED <<etat, owner, commis>>,
         UNCHANGED position, a_commiter'[c] \in {a_commiter[c], None},
         Running(c)' \/ ~Running(c)
  PROVE  ReaderInv(c)'
BY DEF ReaderInv, StartOffset, None, Running

\* The raw table, while no batch that is being loaded is given up.
LEMMA LoadedStays ==
  ASSUME LoadedInv, UNCHANGED <<commis, raw>>,
         \A c \in Members, t \in Tables, o \in Nat :
           LoadedBy(c, t, o) => LoadedBy(c, t, o)',
         TypeInv
  PROVE  LoadedInv'
<1>1. \A t \in Tables : \A o \in raw[t] : o \in Nat
  BY CalmTypes
<1>2. \A t \in Tables : StartOffset(t)' = StartOffset(t)
  BY DEF StartOffset
<1>3. QED
  BY <1>1, <1>2 DEF LoadedInv
-----------------------------------------------------------------------------
\* The rebalances touch no batch.
LEMMA BatchesStay ==
  ASSUME Calm, UNCHANGED <<commis, raw, redits, pc, tampon, a_commiter,
                           courant, restant>>
  PROVE  /\ \A c \in Members : BatchInv(c)'
         /\ LoadedInv' /\ \A t \in Tables : redits'[t] = {}
<1>1. \A c \in Members, t \in Tables : InHand(c, t)' <=> InHand(c, t)
  BY DEF InHand
<1>2. \A t \in Tables : StartOffset(t)' = StartOffset(t)
  BY DEF StartOffset
<1>3. \A c \in Members : BatchInv(c)'
  BY <1>1, <1>2 DEF Calm, BatchInv
<1>4. \A c \in Members, t \in Tables : \A o :
        LoadedBy(c, t, o)' <=> LoadedBy(c, t, o)
  BY DEF LoadedBy, Loading
<1>5. LoadedInv'
  BY <1>2, <1>4 DEF Calm, LoadedInv
<1>6. QED
  BY <1>3, <1>5 DEF Calm

\* A change of membership: who reads goes on reading until its next poll().
LEMMA ShakenReaders ==
  ASSUME TypeInv, NEW c \in Members, NEW new, MembershipChange(c, new),
         NEW d \in Members \ {c}, ReaderInv(d), UNCHANGED commis,
         pc'[d] = pc[d], a_commiter'[d] = a_commiter[d],
         position'[c] = None,
         \A x \in Members \ {c} : position'[x] = position[x]
  PROVE  ReaderInv(d)'
<1>1. etat'[d] = CASE etat[d] = "stable" -> "rejoin"
                   [] etat[d] = "sync"   -> "joined"
                   [] OTHER              -> etat[d]
  BY DEF MembershipChange, Shaken, TypeInv, TypeOK
<1>2. position'[d] = position[d] /\ (Running(d)' <=> Running(d))
  BY DEF Running
<1>3. \A t \in Tables : StartOffset(t)' = StartOffset(t)
  BY DEF StartOffset
<1>4. \A t \in Tables : position'[d][t] # 0 =>
        /\ etat'[d] = "rejoin"
        /\ StartOffset(t)' <= position'[d][t]
  BY <1>1, <1>2, <1>3 DEF ReaderInv
<1>5. \A t \in Tables : position'[d][t] # 0 =>
        \A x \in Members \ {d} : position'[x][t] = 0
  <2> SUFFICES ASSUME NEW t \in Tables, position'[d][t] # 0,
                      NEW x \in Members \ {d}
               PROVE  position'[x][t] = 0
    OBVIOUS
  <2>1. CASE x = c
    BY <2>1 DEF None
  <2>2. CASE x # c
    BY <1>2, <2>2 DEF ReaderInv
  <2>3. QED
    BY <2>1, <2>2
<1>6. QED
  BY <1>2, <1>4, <1>5 DEF ReaderInv

\* A process that reads nothing.
LEMMA NoReader ==
  ASSUME NEW c \in Members, position'[c] = None, a_commiter'[c] = None
  PROVE  ReaderInv(c)'
BY DEF ReaderInv, None

LEMMA NoBatch ==
  ASSUME NEW c \in Members, tampon'[c] = Empty, pc'[c] # "noted"
  PROVE  BatchInv(c)'
<1>1. \A t \in Tables : tampon'[c][t] = <<>> /\ ~InHand(c, t)'
  BY DEF Empty, InHand
<1>2. \A t \in Tables : /\ Increasing(tampon'[c][t])
                        /\ Contents(tampon'[c][t]) = {}
  BY <1>1 DEF Increasing, Contents
<1>3. QED
  BY <1>1, <1>2 DEF BatchInv, Increasing

LEMMA GroupCalm ==
  ASSUME CalmInv, Calm, NEW c \in Members, ~incident',
         Join(c) \/ Revoke(c) \/ OnAssign(c) \/ SessionExpire(c)
  PROVE  Calm'
<1> USE DEF CalmInv
<1>1. /\ UNCHANGED <<commis, raw, redits, pc, tampon, a_commiter, courant,
                     restant>>
      /\ \A x \in Members \ {c} : position'[x] = position[x]
  BY DEF Join, Revoke, OnAssign, SessionExpire, broker, memory,
     TypeInv, TypeOK
<1>2. \A t \in Tables : StartOffset(t)' = StartOffset(t)
  BY <1>1 DEF StartOffset
<1>3. ASSUME position'[c] = None
      PROVE  ReaderInv(c)'
  <2>1. SUFFICES a_commiter[c] = None
    BY <1>1, <1>3, NoReader
  <2>2. /\ a_commiter[c] \in [Tables -> Offsets]
        /\ position[c] \in [Tables -> Offsets]
    BY DEF TypeInv, TypeOK
  <2>3. CASE Join(c)
    BY <2>2, <2>3 DEF Join, Calm, ReaderInv, None
  <2>4. CASE Revoke(c)
    <3>1. ~Pending(c)
      BY <2>4 DEF Revoke, TypeInv, TypeOK
    <3>2. QED
      BY <2>2, <3>1 DEF Pending, None
  <2>5. CASE OnAssign(c)
    BY <2>2, <2>5 DEF OnAssign, Calm, ReaderInv, None
  <2>6. CASE SessionExpire(c)
    BY <2>2, <2>6 DEF SessionExpire, Calm, ReaderInv, None, Running
  <2>7. QED
    BY <2>3, <2>4, <2>5, <2>6
<1>4. ASSUME Join(c) \/ SessionExpire(c)
      PROVE  \A d \in Members : ReaderInv(d)'
  <2>1. position'[c] = None
    BY <1>4 DEF Join, SessionExpire, memory, Calm, ReaderInv, Running,
       TypeInv, TypeOK
  <2>2. \E new : MembershipChange(c, new)
    BY <1>4 DEF Join, SessionExpire
  <2>3. QED
    BY <1>1, <1>3, <2>1, <2>2, ShakenReaders DEF Calm
<1>5. ASSUME Revoke(c)
      PROVE  \A d \in Members : ReaderInv(d)'
  <2>1. position'[c] = None /\ owner' = owner
        /\ \A d \in Members \ {c} : etat'[d] = etat[d]
    BY <1>5 DEF Revoke, TypeInv, TypeOK
  <2>2. ReaderInv(c)'
    BY <1>3, <2>1
  <2>3. ASSUME NEW d \in Members \ {c}
        PROVE  ReaderInv(d)'
    BY <1>1, <1>2, <2>1 DEF Calm, ReaderInv, None, Running
  <2>4. QED
    BY <2>2, <2>3
<1>6. ASSUME OnAssign(c)
      PROVE  \A d \in Members : ReaderInv(d)'
  <2>1. /\ etat[c] = "sync" /\ etat'[c] = "stable" /\ owner' = owner
        /\ \A d \in Members \ {c} : etat'[d] = etat[d]
        /\ \A t \in Tables :
             position'[c][t] = IF owner[t] = c THEN StartOffset(t) ELSE 0
        /\ pc[c] = "poll"
    BY <1>6 DEF OnAssign, TypeInv, TypeOK
  <2>2. \A t \in Tables : position[c][t] = 0 /\ a_commiter[c][t] = 0
    BY <2>1 DEF Calm, ReaderInv
  <2>3. ASSUME NEW d \in Members \ {c}, NEW t \in Tables, position[d][t] # 0
        PROVE  owner[t] = d
    <3>1. etat[d] = "stable"
      BY <2>1, <2>3 DEF RebalanceInv, Calm, ReaderInv
    <3>2. QED
      BY <2>3, <3>1 DEF Calm, ReaderInv
  <2>4. ReaderInv(c)'
    <3>1. \A t \in Tables : position'[c][t] # 0 =>
            /\ owner[t] = c /\ StartOffset(t)' <= position'[c][t]
            /\ \A d \in Members \ {c} : position'[d][t] = 0
      BY <1>1, <1>2, <2>1, <2>3, CalmTypes
    <3>2. Running(c)'
      BY <1>1, <2>1 DEF Running
    <3>3. QED
      BY <1>1, <2>1, <2>2, <3>1, <3>2 DEF ReaderInv
  <2>5. ASSUME NEW d \in Members \ {c}
        PROVE  ReaderInv(d)'
    <3>1. ASSUME NEW t \in Tables, position'[d][t] # 0
          PROVE  \A x \in Members \ {d} : position'[x][t] = 0
      <4>1. position[d][t] # 0 /\ owner[t] = d
        BY <1>1, <2>3, <3>1
      <4>2. position'[c][t] = 0
        BY <2>1, <4>1
      <4>3. \A x \in Members \ {d} : position[x][t] = 0
        BY <4>1 DEF Calm, ReaderInv
      <4>4. QED
        BY <1>1, <4>2, <4>3
    <3>2. QED
      BY <1>1, <1>2, <2>1, <3>1 DEF Calm, ReaderInv, Running
  <2>6. QED
    BY <2>4, <2>5
<1>7. QED
  BY <1>1, <1>4, <1>5, <1>6, BatchesStay DEF Calm

LEMMA ShareOutCalm ==
  ASSUME CalmInv, Calm, ShareOut
  PROVE  Calm'
<1>1. UNCHANGED <<commis, raw, redits, pc, position, tampon, a_commiter,
                  courant, restant>>
  BY DEF ShareOut, broker, memory
<1>2. \A c \in Members, t \in Tables : position[c][t] = 0
  <2>1. \A c \in Members : etat[c] \notin {"stable", "rejoin"}
    BY DEF ShareOut, InGroup
  <2>2. QED
    BY <2>1 DEF Calm, ReaderInv
<1>3. \A c \in Members : ReaderInv(c)'
  BY <1>1, <1>2 DEF Calm, ReaderInv, Running
<1>4. QED
  BY <1>1, <1>3, BatchesStay DEF Calm
-----------------------------------------------------------------------------
\* The steps of a process of which the others see nothing but the raw table.
LEMMA OwnCalm ==
  ASSUME CalmInv, Calm, NEW c \in Members,
         UNCHANGED <<etat, owner, commis, redits>>,
         \A d \in Members \ {c} : Same(d),
         \A t \in Tables : position'[c][t] # 0 => position[c][t] # 0,
         ReaderInv(c)', BatchInv(c)', LoadedInv'
  PROVE  Calm'
<1>1. \A d \in Members \ {c} : ReaderInv(d)' /\ BatchInv(d)'
  BY OthersCalm DEF CalmInv, Calm, Same
<1>2. QED
  BY <1>1 DEF Calm

\* A process that is not loading: nothing of the raw table depends on it.
LEMMA NotLoading ==
  ASSUME CalmInv, Calm, NEW c \in Members, UNCHANGED <<commis, raw>>,
         \A d \in Members \ {c} : Same(d), ~Loading(c)
  PROVE  LoadedInv'
<1>1. ASSUME NEW d \in Members, NEW t \in Tables, NEW o \in Nat,
             LoadedBy(d, t, o)
      PROVE  LoadedBy(d, t, o)'
  <2>1. d # c
    BY <1>1 DEF LoadedBy
  <2>2. QED
    BY <1>1, <2>1 DEF LoadedBy, Loading, Same
<1>2. QED
  BY <1>1, LoadedStays DEF CalmInv, Calm

LEMMA PollCalm ==
  ASSUME CalmInv, Calm, NEW c \in Members, NEW t \in Tables, PollMessage(c, t)
  PROVE  Calm'
<1>1. /\ UNCHANGED <<etat, owner, commis, raw, redits>>
      /\ pc[c] = "poll" /\ pc'[c] = "noted" /\ courant'[c] = t
      /\ position[c][t] # 0 /\ position'[c][t] = position[c][t] + 1
      /\ a_commiter'[c][t] = position[c][t] + 1
      /\ \A u \in Tables \ {t} : /\ position'[c][u] = position[c][u]
                                 /\ a_commiter'[c][u] = a_commiter[c][u]
      /\ tampon' = tampon
      /\ \A d \in Members \ {c} : Same(d)
  BY DEF PollMessage, CalmInv, TypeInv, TypeOK, broker, group, Assigned, Same
<1>2. /\ position[c][t] \in Nat /\ a_commiter[c][t] \in Nat
      /\ StartOffset(t) \in Nat
      /\ \A u \in Tables : StartOffset(u)' = StartOffset(u)
  BY <1>1, CalmTypes DEF CalmInv, StartOffset
<1>3. ReaderInv(c)'
  <2>1. /\ StartOffset(t) <= position[c][t] /\ etat[c] \in {"stable", "rejoin"}
        /\ etat[c] = "stable" => owner[t] = c
        /\ \A d \in Members \ {c} : position[d][t] = 0
    BY <1>1 DEF Calm, ReaderInv
  <2>2. \A u \in Tables : \A d \in Members \ {c} :
          position'[c][u] # 0 => position'[d][u] = 0
    BY <1>1, <2>1 DEF Calm, ReaderInv, Same
  <2>3. StartOffset(t)' <= position'[c][t]
    BY <1>1, <1>2, <2>1
  <2>4. Running(c)'
    BY <1>1 DEF Running
  <2>5. ASSUME NEW u \in Tables, position'[c][u] # 0
        PROVE  /\ etat'[c] \in {"stable", "rejoin"}
               /\ etat'[c] = "stable" => owner'[u] = c
               /\ StartOffset(u)' <= position'[c][u]
    BY <1>1, <1>2, <2>1, <2>3, <2>5 DEF Calm, ReaderInv
  <2>6. \A u \in Tables : a_commiter'[c][u] \in {0, position'[c][u]}
    BY <1>1 DEF Calm, ReaderInv
  <2>7. QED
    BY <2>2, <2>4, <2>5, <2>6 DEF ReaderInv
<1>4. BatchInv(c)'
  <2>1. \A u \in Tables : InHand(c, u)' <=> u = t
    BY <1>1 DEF InHand
  <2>2. \A u \in Tables : ~InHand(c, u)
    BY <1>1 DEF InHand
  <2>3. a_commiter'[c][t] - 1 = position[c][t]
    BY <1>1, <1>2
  <2>4. ASSUME NEW o \in Contents(tampon[c][t])
        PROVE  o < position[c][t] /\ StartOffset(t) <= o
    <3>1. a_commiter[c][t] = position[c][t]
      BY Reads DEF CalmInv, Calm
    <3>2. QED
      BY <1>1, <2>2, <3>1 DEF Calm, BatchInv
  <2>5. StartOffset(t) <= position[c][t]
    BY <1>1 DEF Calm, ReaderInv
  <2>6. QED
    BY <1>1, <1>2, <2>1, <2>2, <2>3, <2>4, <2>5 DEF Calm, BatchInv
<1>5. LoadedInv'
  BY <1>1, NotLoading DEF Loading
<1>6. QED
  BY <1>1, <1>3, <1>4, <1>5, OwnCalm

LEMMA IncreasingAppend ==
  ASSUME NEW S, NEW s \in Seq(S), NEW o \in S, Increasing(s),
         \A p \in Contents(s) : p < o
  PROVE  Increasing(Append(s, o))
<1>1. /\ DOMAIN Append(s, o) = 1 .. (Len(s) + 1)
      /\ DOMAIN s = 1 .. Len(s)
      /\ Len(s) \in Nat
      /\ Append(s, o)[Len(s) + 1] = o
      /\ \A i \in 1 .. Len(s) : Append(s, o)[i] = s[i]
  OBVIOUS
<1>2. SUFFICES ASSUME NEW i \in 1 .. (Len(s) + 1), NEW j \in 1 .. (Len(s) + 1),
                      i < j
               PROVE  Append(s, o)[i] < Append(s, o)[j]
  BY <1>1 DEF Increasing
<1>3. i \in 1 .. Len(s) /\ s[i] \in Contents(s)
  BY <1>1, <1>2 DEF Contents
<1>4. CASE j \in 1 .. Len(s)
  BY <1>1, <1>2, <1>3, <1>4 DEF Increasing
<1>5. CASE j = Len(s) + 1
  BY <1>1, <1>3, <1>5
<1>6. QED
  BY <1>1, <1>4, <1>5

LEMMA HandleCalm ==
  ASSUME CalmInv, Calm, NEW c \in Members, Handle(c)
  PROVE  Calm'
<1> USE DEF CalmInv
<1> DEFINE t == courant[c]
           o == a_commiter[c][t] - 1
           buffer == IF log[t][o] = "row"
                       THEN [tampon[c] EXCEPT ![t] = Append(@, o)]
                       ELSE tampon[c]
<1>1. t \in Tables /\ o \in 1 .. Len(log[t]) /\ pc[c] = "noted"
  BY DEF Handle, TypeInv, HandInv
<1>2. /\ o \in Nat /\ o \in Offsets /\ a_commiter[c][t] = o + 1
      /\ tampon[c] \in [Tables -> Seq(Offsets)]
      /\ tampon[c][t] \in Seq(Offsets)
      /\ StartOffset(t) \in Nat
  <2>1. a_commiter[c][t] \in Nat /\ a_commiter[c][t] \in Offsets
    BY <1>1, CalmTypes DEF TypeInv, TypeOK
  <2>2. Len(log[t]) \in Nat
    BY <1>1 DEF TypeInv, TypeOK
  <2>3. o \in Nat /\ a_commiter[c][t] = o + 1
    BY <1>1, <2>1, <2>2
  <2>4. o \in Offsets
    BY <2>1, <2>3, BoundsAssumption DEF Offsets
  <2>5. tampon[c] \in [Tables -> Seq(Offsets)] /\ tampon[c][t] \in Seq(Offsets)
    BY <1>1 DEF TypeInv, TypeOK
  <2>6. QED
    BY <1>1, <2>3, <2>4, <2>5, CalmTypes
<1>3. /\ tampon' = [tampon EXCEPT ![c] = buffer]
      /\ courant' = [courant EXCEPT ![c] = NoOne]
      /\ \/ /\ pc' = [pc EXCEPT ![c] = "load"]
            /\ restant' = [restant EXCEPT ![c] = NonEmpty(buffer)]
         \/ pc' = [pc EXCEPT ![c] = "poll"] /\ restant' = restant
      /\ UNCHANGED <<etat, owner, commis, raw, redits, position, a_commiter>>
  BY DEF Handle, BeginFlush, broker, group
<1>4. /\ \A u \in Tables \ {t} : tampon'[c][u] = tampon[c][u]
      /\ tampon'[c][t] \in {tampon[c][t], Append(tampon[c][t], o)}
  BY <1>1, <1>2, <1>3 DEF TypeInv, TypeOK
<1> HIDE DEF buffer
<1>5. /\ pc'[c] \in {"load", "poll"} /\ \A d \in Members \ {c} : Same(d)
      /\ \A u \in Tables : StartOffset(u)' = StartOffset(u)
  BY <1>3 DEF TypeInv, TypeOK, Same, StartOffset
<1>6. ReaderInv(c)'
  BY <1>1, <1>3, <1>5, ReaderStays DEF Calm, Running
<1>7. InHand(c, t) /\ \A u \in Tables \ {t} : ~InHand(c, u)
  BY <1>1 DEF InHand
<1> HIDE DEF t, o
<1>8. /\ StartOffset(t) <= o
      /\ \A p \in Contents(tampon[c][t]) :
           p \in Nat /\ p < o /\ StartOffset(t) <= p
  <2>1. o = a_commiter[c][t] - 1
    BY <1>2
  <2>2. QED
    BY <1>1, <1>7, <2>1, CalmTypes DEF Calm, BatchInv
<1>9. /\ Increasing(tampon'[c][t])
      /\ \A p \in Contents(tampon'[c][t]) :
           p < a_commiter'[c][t] /\ StartOffset(t) <= p
  <2>1. Increasing(tampon[c][t])
    BY <1>1 DEF Calm, BatchInv
  <2>2. Increasing(Append(tampon[c][t], o))
    BY <1>2, <1>8, <2>1, IncreasingAppend
  <2>3. Contents(tampon'[c][t]) \subseteq Contents(tampon[c][t]) \cup {o}
    <3>1. Contents(Append(tampon[c][t], o)) = Contents(tampon[c][t]) \cup {o}
      BY <1>2, ContentsAppend
    <3>2. QED
      BY <1>4, <3>1
  <2>4. \A p \in Contents(tampon[c][t]) \cup {o} :
          p < a_commiter'[c][t] /\ StartOffset(t) <= p
    BY <1>2, <1>3, <1>8
  <2>5. QED
    BY <1>4, <2>1, <2>2, <2>3, <2>4
<1>10. BatchInv(c)'
  <2>1. \A u \in Tables : ~InHand(c, u)'
    BY <1>5 DEF InHand
  <2>2. ASSUME NEW u \in Tables \ {t}
        PROVE  /\ Increasing(tampon'[c][u])
               /\ \A p \in Contents(tampon'[c][u]) :
                    p < a_commiter'[c][u] /\ StartOffset(u) <= p
    BY <1>1, <1>3, <1>4, <1>7 DEF Calm, BatchInv
  <2>3. QED
    BY <1>5, <1>9, <2>1, <2>2 DEF BatchInv, Increasing
<1>11. LoadedInv'
  BY <1>1, <1>3, <1>5, NotLoading DEF Loading
<1>12. QED
  BY <1>3, <1>5, <1>6, <1>10, <1>11, OwnCalm
-----------------------------------------------------------------------------
LEMMA StartCalm ==
  ASSUME CalmInv, Calm, NEW c \in Members, Start(c)
  PROVE  Calm'
<1> USE DEF CalmInv
<1>1. /\ UNCHANGED <<etat, owner, commis, raw, redits, position, tampon,
                     a_commiter, courant, restant>>
      /\ pc[c] = "absent" /\ pc'[c] = "poll"
      /\ \A d \in Members \ {c} : Same(d)
  BY DEF Start, broker, group, memory, TypeInv, TypeOK, Same
<1>2. position[c] = None /\ a_commiter[c] = None
  <2>1. position[c] = None
    BY <1>1 DEF Calm, ReaderInv, Running
  <2>2. a_commiter[c] \in [Tables -> Offsets]
    BY DEF TypeInv, TypeOK
  <2>3. QED
    BY <2>1, <2>2 DEF Calm, ReaderInv, None
<1>3. ReaderInv(c)'
  BY <1>1, <1>2, NoReader
<1>4. \A t \in Tables : Contents(tampon[c][t]) = {} /\ ~InHand(c, t)'
  BY <1>1, <1>2, EmptyBuffer DEF Calm, None, InHand
<1>5. BatchInv(c)'
  BY <1>1, <1>4 DEF Calm, BatchInv
<1>6. LoadedInv'
  BY <1>1, NotLoading DEF Loading
<1>7. QED
  BY <1>1, <1>3, <1>5, <1>6, OwnCalm

\* The end of a batch decided at poll(), or on a message in hand that is left
\* out of it.
LEMMA EndBatchCalm ==
  ASSUME CalmInv, Calm, NEW c \in Members,
         pc[c] \in {"poll", "noted"},
         pc'[c] \in {"load", "final_load", "closing"},
         UNCHANGED <<etat, owner, commis, raw, redits, position, tampon,
                     a_commiter>>,
         \A d \in Members \ {c} : Same(d)
  PROVE  Calm'
<1>1. ReaderInv(c)'
  BY ReaderStays DEF Calm, Running
<1>2. /\ \A t \in Tables : ~InHand(c, t)'
      /\ \A t \in Tables : StartOffset(t)' = StartOffset(t)
  BY DEF InHand, StartOffset
<1>3. \A t \in Tables : \A o \in Contents(tampon[c][t]) :
        /\ o \in Nat /\ a_commiter[c][t] \in Nat
        /\ StartOffset(t) <= o
        /\ o < a_commiter[c][t] - 1 \/ o < a_commiter[c][t]
  BY CalmTypes DEF CalmInv, Calm, BatchInv
<1>4. BatchInv(c)'
  BY <1>2, <1>3 DEF Calm, BatchInv
<1>5. LoadedInv'
  BY NotLoading DEF Loading
<1>6. QED
  BY <1>1, <1>4, <1>5, OwnCalm

LEMMA FlushCalm ==
  ASSUME CalmInv, Calm, NEW c \in Members, FlushOnTime(c) \/ IdleExit(c)
  PROVE  Calm'
<1>1. /\ pc[c] = "poll" /\ pc'[c] \in {"load", "final_load", "closing"}
      /\ UNCHANGED <<etat, owner, commis, raw, redits, position, tampon,
                     a_commiter>>
      /\ \A d \in Members \ {c} : Same(d)
  BY DEF FlushOnTime, IdleExit, Finish, BeginFlush, CalmInv, TypeInv, TypeOK,
     Same, broker, group
<1>2. QED
  BY <1>1, EndBatchCalm

LEMMA InterruptCalm ==
  ASSUME CalmInv, Calm, NEW c \in Members, Interrupt(c), ~incident'
  PROVE  Calm'
<1>1. pc[c] \in {"poll", "noted"}
  BY PointsAssumption DEF Interrupt, AllPoints
<1>2. UNCHANGED <<commis, raw, redits>> /\ tampon' = tampon
  BY <1>1 DEF Interrupt, InFlight, MayCommit, Loading
<1>3. /\ pc'[c] \in {"final_load", "closing"}
      /\ UNCHANGED <<etat, owner, position, a_commiter>>
      /\ \A d \in Members \ {c} : Same(d)
  BY <1>2 DEF Interrupt, Finish, BeginFlush, CalmInv, TypeInv, TypeOK, Same,
     group
<1>4. QED
  BY <1>1, <1>2, <1>3, EndBatchCalm

LEMMA LoadCalm ==
  ASSUME CalmInv, Calm, NEW c \in Members, NEW t \in Tables, LoadTable(c, t)
  PROVE  Calm'
<1> USE DEF CalmInv
<1>1. /\ UNCHANGED <<etat, owner, commis, pc, position, tampon, a_commiter,
                     courant>>
      /\ Loading(c) /\ t \in restant[c] /\ restant'[c] = restant[c] \ {t}
      /\ \A d \in Members \ {c} : Same(d)
      /\ \A u \in Tables :
           raw'[u] = IF u = t THEN raw[t] \cup Contents(tampon[c][t])
                              ELSE raw[u]
  BY DEF LoadTable, AppendRows, group, TypeInv, TypeOK, Same
<1>2. ReaderInv(c)' /\ BatchInv(c)'
  <2>1. ReaderInv(c)'
    BY <1>1, ReaderStays DEF Calm, Loading, Running
  <2>2. \A u \in Tables : /\ StartOffset(u)' = StartOffset(u)
                          /\ InHand(c, u)' <=> InHand(c, u)
    BY <1>1 DEF StartOffset, InHand
  <2>3. QED
    BY <1>1, <2>1, <2>2 DEF Calm, BatchInv
<1>3. pc[c] \in {"load", "final_load"}
  BY <1>1 DEF Loading
\* No row of the batch is in the raw table: only its reader could have put it
\* there, and has yet to load the table.
<1>4. ASSUME NEW o \in Contents(tampon[c][t]), o \in raw[t]
      PROVE  FALSE
  <2>1. StartOffset(t) <= o /\ o \in Nat /\ StartOffset(t) \in Nat
    BY <1>3, CalmTypes DEF Calm, BatchInv
  <2>2. PICK d \in Members : LoadedBy(d, t, o)
    BY <1>4, <2>1 DEF Calm, LoadedInv
  <2>3. d # c
    BY <1>1, <2>2 DEF LoadedBy
  <2>4. position[d][t] # 0
    BY <2>2, Reads DEF LoadedBy, Calm
  <2>5. \A x \in Members \ {c} : position[x][t] = 0
    BY Reads DEF Calm
  <2>6. QED
    BY <2>3, <2>4, <2>5
<1>5. \A u \in Tables : redits'[u] = {}
  <2>1. Increasing(tampon[c][t])
    BY DEF Calm, BatchInv
  <2>2. ASSUME NEW i \in DOMAIN tampon[c][t], NEW j \in DOMAIN tampon[c][t],
               i # j
        PROVE  tampon[c][t][i] # tampon[c][t][j]
    <3>1. tampon[c][t] \in Seq(Offsets)
      BY CalmTypes
    <3> DEFINE s == tampon[c][t]
    <3>2. s \in Seq(Offsets) /\ i \in DOMAIN s /\ j \in DOMAIN s
          /\ Increasing(s)
      BY <2>1, <2>2, <3>1
    <3> HIDE DEF s
    <3>3. i \in Nat /\ j \in Nat /\ s[i] \in Nat /\ s[j] \in Nat
      <4>1. s[i] \in Offsets /\ s[j] \in Offsets
        BY <3>2
      <4>2. QED
        BY <3>2, <4>1 DEF Offsets
    <3>4. i < j \/ j < i
      BY <2>2, <3>3
    <3>5. s[i] < s[j] \/ s[j] < s[i]
      BY <3>2, <3>4 DEF Increasing
    <3>6. QED
      BY <3>3, <3>5 DEF s
  <2>3. redits' = [redits EXCEPT ![t] = @ \cup {} \cup {}]
    <3>1. Contents(tampon[c][t]) \cap raw[t] = {}
      BY <1>4
    <3>2. {o \in Contents(tampon[c][t]) :
             \E i, j \in DOMAIN tampon[c][t] :
               i # j /\ tampon[c][t][i] = o /\ tampon[c][t][j] = o} = {}
      BY <2>2
    <3>3. QED
      BY <3>1, <3>2 DEF LoadTable, AppendRows
  <2>4. QED
    BY <2>3 DEF Calm, TypeInv, TypeOK
<1>6. LoadedInv'
  <2>1. ASSUME NEW d \in Members, NEW u \in Tables, NEW o, LoadedBy(d, u, o)
        PROVE  LoadedBy(d, u, o)'
    BY <1>1, <2>1 DEF LoadedBy, Loading, Same
  <2>2. \A o \in Contents(tampon[c][t]) : LoadedBy(c, t, o)'
    BY <1>1 DEF LoadedBy, Loading
  <2>3. \A u \in Tables : StartOffset(u)' = StartOffset(u)
    BY <1>1 DEF StartOffset
  <2> SUFFICES ASSUME NEW u \in Tables, NEW o \in raw'[u]
               PROVE  \/ o < StartOffset(u)'
                      \/ \E d \in Members : LoadedBy(d, u, o)'
    BY DEF LoadedInv
  <2>4. CASE o \in raw[u]
    BY <2>1, <2>3, <2>4 DEF Calm, LoadedInv
  <2>5. CASE o \notin raw[u]
    BY <1>1, <2>2, <2>5
  <2>6. QED
    BY <2>4, <2>5
<1>7. \A d \in Members \ {c} : ReaderInv(d)' /\ BatchInv(d)'
  BY <1>1, OthersCalm DEF Calm, Same
<1>8. QED
  BY <1>2, <1>5, <1>6, <1>7 DEF Calm
-----------------------------------------------------------------------------
\* A commit moves the offsets of the partitions that c reads, up to where it
\* reads, and no other.
LEMMA CommitMoves ==
  ASSUME TypeInv, Calm, NEW c \in Members, CommitOffsets(c)
  PROVE  \A t \in Tables :
           /\ commis'[t] = IF a_commiter[c][t] # 0 THEN position[c][t]
                                                    ELSE commis[t]
           /\ commis[t] <= commis'[t]
           /\ StartOffset(t) <= StartOffset(t)'
           /\ StartOffset(t)' \in Nat
           /\ a_commiter[c][t] # 0 =>
                /\ StartOffset(t)' = position[c][t]
                /\ \A d \in Members \ {c} : position[d][t] = 0
           /\ a_commiter[c][t] = 0 => StartOffset(t)' = StartOffset(t)
<1> SUFFICES ASSUME NEW t \in Tables
             PROVE  /\ commis'[t] = IF a_commiter[c][t] # 0 THEN position[c][t]
                                                             ELSE commis[t]
                    /\ commis[t] <= commis'[t]
                    /\ StartOffset(t) <= StartOffset(t)'
                    /\ StartOffset(t)' \in Nat
                    /\ a_commiter[c][t] # 0 =>
                         /\ StartOffset(t)' = position[c][t]
                         /\ \A d \in Members \ {c} : position[d][t] = 0
                    /\ a_commiter[c][t] = 0 => StartOffset(t)' = StartOffset(t)
  OBVIOUS
<1>1. /\ commis[t] \in Nat /\ StartOffset(t) \in Nat /\ position[c][t] \in Nat
      /\ commis[t] <= StartOffset(t)
  BY CalmTypes
<1>2. commis'[t] = IF a_commiter[c][t] # 0 THEN a_commiter[c][t]
                                            ELSE commis[t]
  BY DEF CommitOffsets
<1>3. CASE a_commiter[c][t] = 0
  BY <1>1, <1>2, <1>3 DEF StartOffset
<1>4. CASE a_commiter[c][t] # 0
  <2>1. /\ a_commiter[c][t] = position[c][t] /\ position[c][t] # 0
        /\ \A d \in Members \ {c} : position[d][t] = 0
    BY <1>4, Reads DEF Calm
  <2>2. StartOffset(t) <= position[c][t]
    BY <2>1 DEF Calm, ReaderInv
  <2>3. commis'[t] = position[c][t] /\ StartOffset(t)' = position[c][t]
    BY <1>2, <2>1 DEF StartOffset
  <2>4. QED
    BY <1>1, <1>4, <2>1, <2>2, <2>3
<1>5. QED
  BY <1>3, <1>4

LEMMA CommitCalm ==
  ASSUME CalmInv, Calm, NEW c \in Members, Commit(c)
  PROVE  Calm'
<1> USE DEF CalmInv
<1>1. /\ UNCHANGED <<etat, owner, raw, redits, position, tampon, a_commiter,
                     courant, restant>>
      /\ pc'[c] \in {"reset", "closing"} /\ Loading(c) /\ CommitOffsets(c)
      /\ \A d \in Members \ {c} : Same(d)
  BY DEF Commit, MayCommit, group, memory, TypeInv, TypeOK, Same
<1>2. ReaderInv(c)'
  <2>1. \A t \in Tables :
          position[c][t] # 0 => StartOffset(t)' <= position[c][t]
    <3> SUFFICES ASSUME NEW t \in Tables, position[c][t] # 0
                 PROVE  StartOffset(t)' <= position[c][t]
      OBVIOUS
    <3>1. StartOffset(t) <= position[c][t] /\ position[c][t] \in Nat
      BY CalmTypes DEF Calm, ReaderInv
    <3>2. QED
      BY <1>1, <3>1, CommitMoves
  <2>2. Running(c)'
    BY <1>1 DEF Running
  <2>3. QED
    BY <1>1, <2>1, <2>2 DEF Calm, ReaderInv
<1>3. BatchInv(c)'
  BY <1>1 DEF Calm, BatchInv, InHand, Loading
<1>4. ASSUME NEW d \in Members \ {c}
      PROVE  ReaderInv(d)' /\ BatchInv(d)'
  <2>1. \A t \in Tables : position[d][t] # 0 => commis'[t] = commis[t]
    BY <1>1, CommitMoves
  <2>2. QED
    BY <1>1, <2>1, OthersCalm DEF Calm, Same
<1>5. LoadedInv'
  <2> SUFFICES ASSUME NEW t \in Tables, NEW o \in raw[t]
               PROVE  \/ o < StartOffset(t)'
                      \/ \E d \in Members : LoadedBy(d, t, o)'
    BY <1>1 DEF LoadedInv
  <2>1. o \in Nat /\ StartOffset(t) \in Nat
    BY CalmTypes
  <2>2. StartOffset(t) <= StartOffset(t)' /\ StartOffset(t)' \in Nat
    BY <1>1, CommitMoves
  <2>3. CASE o < StartOffset(t)
    BY <2>1, <2>2, <2>3
  <2>4. ASSUME NEW d \in Members, LoadedBy(d, t, o)
        PROVE  o < StartOffset(t)' \/ LoadedBy(d, t, o)'
    <3>1. CASE d = c
      <4>1. a_commiter[c][t] # 0 /\ position[c][t] = a_commiter[c][t]
        BY <2>4, <3>1, Reads DEF LoadedBy, Calm
      <4>2. o < a_commiter[c][t]
        BY <2>4, <3>1 DEF LoadedBy, Calm, BatchInv, InHand, Loading
      <4>3. StartOffset(t)' = position[c][t]
        BY <1>1, <4>1, CommitMoves
      <4>4. QED
        BY <4>1, <4>2, <4>3
    <3>2. CASE d # c
      BY <1>1, <2>4, <3>2 DEF LoadedBy, Loading, Same
    <3>3. QED
      BY <3>1, <3>2
  <2>5. QED
    BY <2>3, <2>4 DEF Calm, LoadedInv
<1>6. QED
  BY <1>1, <1>2, <1>3, <1>4, <1>5 DEF Calm

LEMMA ResetCalm ==
  ASSUME CalmInv, Calm, NEW c \in Members, Reset(c)
  PROVE  Calm'
<1>1. /\ UNCHANGED <<etat, owner, commis, raw, redits, position>>
      /\ pc[c] = "reset" /\ pc'[c] = "poll"
      /\ tampon'[c] = Empty /\ a_commiter'[c] = None
      /\ \A d \in Members \ {c} : Same(d)
  BY DEF Reset, broker, group, CalmInv, TypeInv, TypeOK, Same
<1>2. ReaderInv(c)'
  BY <1>1, ReaderStays DEF Calm, Running
<1>3. BatchInv(c)'
  BY <1>1, NoBatch
<1>4. LoadedInv'
  BY <1>1, NotLoading DEF Loading
<1>5. QED
  BY <1>1, <1>2, <1>3, <1>4, OwnCalm

LEMMA GoneCalm ==
  ASSUME TypeInv, NEW c \in Members, NEW how \in {"stopped", "dead"},
         Gone(c, how)
  PROVE  /\ ReaderInv(c)' /\ BatchInv(c)'
         /\ position'[c] = None
         /\ \A d \in Members \ {c} : Same(d)
<1>1. /\ pc'[c] = how /\ position'[c] = None /\ a_commiter'[c] = None
      /\ tampon'[c] = Empty
      /\ \A d \in Members \ {c} : Same(d)
  BY DEF Gone, TypeInv, TypeOK, Same
<1>2. QED
  BY <1>1, NoReader, NoBatch

LEMMA CloseCalm ==
  ASSUME CalmInv, Calm, NEW c \in Members, Close(c)
  PROVE  Calm'
<1>1. /\ UNCHANGED <<commis, raw, redits>> /\ pc[c] = "closing"
      /\ Gone(c, "stopped")
  BY DEF Close, broker
<1>2. /\ ReaderInv(c)' /\ BatchInv(c)' /\ position'[c] = None
      /\ \A d \in Members \ {c} : Same(d)
  BY <1>1, GoneCalm DEF CalmInv
<1>3. LoadedInv'
  BY <1>1, <1>2, NotLoading DEF Loading
<1>4. CASE etat[c] = "out"
  <2>1. UNCHANGED <<etat, owner>>
    BY <1>4 DEF Close, group
  <2>2. QED
    BY <1>1, <1>2, <1>3, <2>1, OwnCalm DEF None
<1>5. CASE etat[c] # "out"
  <2>1. MembershipChange(c, "out")
    BY <1>5 DEF Close
  <2>2. ASSUME NEW d \in Members \ {c}
        PROVE  ReaderInv(d)' /\ BatchInv(d)'
    <3>1. ReaderInv(d)'
      BY <1>1, <1>2, <2>1, ShakenReaders DEF CalmInv, Calm, Same
    <3>2. \A t \in Tables : /\ StartOffset(t)' = StartOffset(t)
                            /\ InHand(d, t)' <=> InHand(d, t)
      BY <1>1, <1>2 DEF StartOffset, InHand, Same
    <3>3. BatchInv(d)'
      BY <1>2, <3>2 DEF Calm, BatchInv, Same
    <3>4. QED
      BY <3>1, <3>3
  <2>3. QED
    BY <1>1, <1>2, <1>3, <2>2 DEF Calm
<1>6. QED
  BY <1>4, <1>5

\* A process that dies without a batch leaves no trace.
LEMMA DieCalm ==
  ASSUME CalmInv, Calm, NEW c \in Members, Die(c), ~incident'
  PROVE  Calm'
<1> USE DEF CalmInv
<1>1. Gone(c, "dead") /\ InFlight(c) /\ UNCHANGED <<etat, owner>>
  BY DEF Die, group
<1>2. ~Pending(c) \/ pc[c] = "closing"
  BY DEF Die
<1>3. ~Loading(c) \/ \A t \in Tables : a_commiter[c][t] = 0
  BY <1>2 DEF Loading, Pending
<1>4. \A t \in Tables :
        a_commiter[c][t] = 0 => Contents(tampon[c][t]) = {}
  BY EmptyBuffer DEF Calm
<1>5. UNCHANGED <<commis, raw, redits>>
  <2>1. CASE ~Loading(c)
    BY <1>1, <2>1 DEF InFlight, MayCommit
  <2>2. CASE \A t \in Tables : a_commiter[c][t] = 0
    <3>1. ASSUME NEW t \in Tables, AppendRows(c, t)
          PROVE  UNCHANGED <<raw, redits>>
      <4>1. Contents(tampon[c][t]) = {}
        BY <1>4, <2>2
      <4>2. raw' = [raw EXCEPT ![t] = @ \cup {}]
        BY <3>1, <4>1 DEF AppendRows
      <4>3. redits' = [redits EXCEPT ![t] = @ \cup {} \cup {}]
        BY <3>1, <4>1 DEF AppendRows
      <4>4. QED
        BY <4>2, <4>3 DEF TypeInv, TypeOK
    <3>2. ASSUME CommitOffsets(c)
          PROVE  commis' = commis
      BY <2>2, <3>2 DEF CommitOffsets, TypeInv, TypeOK
    <3>3. restant[c] \subseteq Tables
      BY DEF TypeInv, TypeOK
    <3>4. QED
      BY <1>1, <3>1, <3>2, <3>3 DEF InFlight
  <2>3. QED
    BY <1>3, <2>1, <2>2
<1>6. /\ ReaderInv(c)' /\ BatchInv(c)' /\ position'[c] = None
      /\ \A d \in Members \ {c} : Same(d)
  BY <1>1, GoneCalm
<1>7. LoadedInv'
  <2>1. ASSUME NEW d \in Members, NEW t \in Tables, NEW o \in Nat,
               LoadedBy(d, t, o)
        PROVE  LoadedBy(d, t, o)'
    <3>1. d # c
      BY <1>3, <1>4, <2>1 DEF LoadedBy
    <3>2. QED
      BY <1>6, <2>1, <3>1 DEF LoadedBy, Loading, Same
  <2>2. QED
    BY <1>5, <2>1, LoadedStays DEF Calm
<1>8. QED
  BY <1>1, <1>5, <1>6, <1>7, OwnCalm DEF None

-----------------------------------------------------------------------------
LEMMA CalmInit == Init => CalmInv
<1> SUFFICES ASSUME Init
             PROVE  CalmInv
  OBVIOUS
<1>1. TypeInv
  BY TypeInit
<1>2. RebalanceInv
  BY DEF Init, RebalanceInv
<1>3. \A c \in Members : /\ position[c] = None /\ a_commiter[c] = None
                         /\ tampon[c] = Empty /\ pc[c] = "absent"
  BY DEF Init
<1>4. \A c \in Members : ReaderInv(c)
  BY <1>3 DEF ReaderInv, None
<1>5. ASSUME NEW c \in Members
      PROVE  BatchInv(c)
  <2>1. \A t \in Tables : tampon[c][t] = <<>> /\ ~InHand(c, t)
    BY <1>3 DEF Empty, InHand
  <2>2. \A t \in Tables : /\ Increasing(tampon[c][t])
                          /\ Contents(tampon[c][t]) = {}
    BY <2>1 DEF Increasing, Contents
  <2>3. QED
    BY <2>1, <2>2 DEF BatchInv
<1>6. LoadedInv /\ \A t \in Tables : redits[t] = {}
  BY DEF Init, LoadedInv
<1>7. QED
  BY <1>1, <1>2, <1>4, <1>5, <1>6 DEF CalmInv, Calm

LEMMA CalmStep == CalmInv /\ [Next]_vars => CalmInv'
<1> SUFFICES ASSUME CalmInv, [Next]_vars
             PROVE  CalmInv'
  OBVIOUS
<1>1. TypeInv' /\ RebalanceInv'
  BY TypeStep, RebalanceStep DEF CalmInv
<1>2. SUFFICES ASSUME ~incident'
               PROVE  Calm'
  BY <1>1 DEF CalmInv
<1>3. ~incident
  <2>1. incident => incident'
    BY DEF Next, Produce, ShareOut, Start, Join, Revoke, OnAssign,
       SessionExpire, Evict, PollMessage, Handle, HandleFails, FlushOnTime,
       IdleExit, LoadTable, Commit, Reset, Close, Interrupt, Die, vars
  <2>2. QED
    BY <1>2, <2>1
<1>4. Calm
  BY <1>3 DEF CalmInv
<1>5. ASSUME NEW t \in Tables, NEW k \in Kinds, Produce(t, k)
      PROVE  Calm'
  <2>1. UNCHANGED <<commis, raw, redits, etat, owner, pc, position, tampon,
                    a_commiter, courant, restant>>
    BY <1>5 DEF Produce, group, memory
  <2>2. \A c \in Members : ReaderInv(c)'
    BY <1>4, <2>1 DEF Calm, ReaderInv, Running, StartOffset
  <2>3. QED
    BY <1>4, <2>1, <2>2, BatchesStay DEF Calm
<1>6. CASE ShareOut
  BY <1>4, <1>6, ShareOutCalm
<1>7. ASSUME NEW c \in Members,
             Join(c) \/ Revoke(c) \/ OnAssign(c) \/ SessionExpire(c)
      PROVE  Calm'
  BY <1>2, <1>4, <1>7, GroupCalm
<1>8. ASSUME NEW c \in Members, Evict(c) \/ HandleFails(c)
      PROVE  Calm'
  BY <1>2, <1>8 DEF Evict, HandleFails
<1>9. ASSUME NEW c \in Members, NEW t \in Tables,
             PollMessage(c, t) \/ LoadTable(c, t)
      PROVE  Calm'
  BY <1>4, <1>9, PollCalm, LoadCalm
<1>10. ASSUME NEW c \in Members,
              Start(c) \/ Handle(c) \/ FlushOnTime(c) \/ IdleExit(c)
       PROVE  Calm'
  BY <1>4, <1>10, StartCalm, HandleCalm, FlushCalm
<1>11. ASSUME NEW c \in Members,
              Commit(c) \/ Reset(c) \/ Close(c) \/ Interrupt(c) \/ Die(c)
       PROVE  Calm'
  BY <1>2, <1>4, <1>11, CommitCalm, ResetCalm, CloseCalm, InterruptCalm, DieCalm
<1>12. CASE UNCHANGED vars
  <2>1. UNCHANGED <<commis, raw, redits, etat, owner, pc, position, tampon,
                    a_commiter, courant, restant>>
    BY <1>12 DEF vars
  <2>2. \A c \in Members : ReaderInv(c)'
    BY <1>4, <2>1 DEF Calm, ReaderInv, Running, StartOffset
  <2>3. QED
    BY <1>4, <2>1, <2>2, BatchesStay DEF Calm
<1>13. QED
  BY <1>5, <1>6, <1>7, <1>8, <1>9, <1>10, <1>11, <1>12 DEF Next

LEMMA CalmAlways == Spec => []CalmInv
BY CalmInit, CalmStep, PTL DEF Spec

\* As long as no batch was cut short and no partition changed hands under a
\* pending batch, each row is loaded once, however many processes join, stop or
\* are restarted, and wherever else a Ctrl+C lands.
THEOREM OnceSafe == Spec => []OnceWhenCalm
<1>1. CalmInv => OnceWhenCalm
  BY DEF CalmInv, Calm, OnceWhenCalm
<1>2. QED
  BY <1>1, CalmAlways, PTL

\* As long as it is so, no committed offset goes backwards: an offset is
\* committed only by the one reader of its partition.
THEOREM MonotoneSafe == Spec => MonotoneWhenCalm
<1>1. ASSUME CalmInv, CalmInv', [Next]_vars, ~incident'
      PROVE  \A t \in Tables : commis[t] <= commis'[t]
  <2>1. \A t \in Tables : commis[t] \in Nat
    BY <1>1, CalmTypes DEF CalmInv
  <2>2. ASSUME commis' = commis
        PROVE  \A t \in Tables : commis[t] <= commis'[t]
    BY <2>1, <2>2
  <2>3. CASE incident
    <3>1. incident'
      BY <1>1, <2>3 DEF Next, Produce, ShareOut, Start, Join, Revoke, OnAssign,
         SessionExpire, Evict, PollMessage, Handle, HandleFails, FlushOnTime,
         IdleExit, LoadTable, Commit, Reset, Close, Interrupt, Die, vars
    <3>2. QED
      BY <1>1, <3>1
  <2>4. CASE \E c \in Members : CommitOffsets(c) /\ ~incident
    BY <1>1, <2>4, CommitMoves DEF CalmInv
  <2>5. ASSUME NEW c \in Members, InFlight(c)
        PROVE  commis' = commis \/ CommitOffsets(c)
    BY <2>5 DEF InFlight
  <2>6. commis' = commis \/ \E c \in Members : CommitOffsets(c)
    BY <1>1, <2>5 DEF Next, Produce, ShareOut, Start, Join, Revoke, OnAssign,
       SessionExpire, Evict, PollMessage, Handle, HandleFails, FlushOnTime,
       IdleExit, LoadTable, Commit, Reset, Close, Interrupt, Die, vars, broker
  <2>7. QED
    BY <2>2, <2>3, <2>4, <2>6
<1>2. CalmInv /\ CalmInv' /\ [Next]_vars =>
        [~incident' => \A t \in Tables : commis[t] <= commis'[t]]_vars
  BY <1>1
<1>3. QED
  BY <1>2, CalmAlways, PTL DEF Spec, MonotoneWhenCalm

-----------------------------------------------------------------------------
(***************************************************************************)
(* The rows buffered, and the lag: sums over the tables.                   *)
(***************************************************************************)
LEMMA EnAttenteIsTotal ==
  ASSUME NEW buffer
  PROVE  EnAttente(buffer) = Total([t \in Tables |-> Len(buffer[t])], Tables)
<1> DEFINE f == [t \in Tables |-> Len(buffer[t])]
           IsIter(iter) == iter = [s \in SUBSET Tables |->
              IF s = {} THEN 0
                        ELSE Len(buffer[First(s)]) + iter[s \ {First(s)}]]
<1>1. EnAttente(buffer) = (CHOOSE iter : IsIter(iter))[Tables]
  BY DEF EnAttente, MapThenSumSet, MapThenFoldSet, First
<1>2. \A s \in SUBSET Tables :
        s # {} => First(s) \in Tables /\ s \ {First(s)} \in SUBSET Tables
  BY DEF First
<1>3. \E iter : IsIter(iter)
  <2> DEFINE h == [s \in SUBSET Tables |-> SumOver(f, Tables)[s]]
  <2>1. IsSum(f, SumOver(f, Tables), Tables)
    BY TablesAssumption, SumExists
  <2>2. ASSUME NEW s \in SUBSET Tables
        PROVE  h[s] = IF s = {} THEN 0
                      ELSE Len(buffer[First(s)]) + h[s \ {First(s)}]
    BY <1>2, <2>1 DEF IsSum
  <2>3. IsIter(h)
    BY <2>2
  <2>4. QED
    BY <2>3
<1> DEFINE k == CHOOSE iter : IsIter(iter)
<1>4. IsIter(k)
  BY <1>3
<1>5. IsSum(f, k, Tables)
  <2> HIDE DEF k
  <2>1. QED
    BY <1>2, <1>4 DEF IsSum
<1>6. k[Tables] = Total(f, Tables)
  <2> HIDE DEF k, f
  <2>1. QED
    BY <1>5, TablesAssumption, TotalUnique
<1>7. QED
  BY <1>1, <1>6

LEMMA EnAttenteFacts ==
  /\ EnAttente(Empty) = 0
  /\ \A buffer \in [Tables -> Seq(Offsets)] :
       /\ EnAttente(buffer) \in Nat
       /\ \A t \in Tables, o \in Offsets :
            EnAttente([buffer EXCEPT ![t] = Append(@, o)])
              = EnAttente(buffer) + 1
<1>1. EnAttente(Empty) = 0
  <2> DEFINE f == [t \in Tables |-> Len(Empty[t])]
  <2>1. \A t \in Tables : f[t] \in Nat /\ f[t] = 0
    BY DEF Empty
  <2>2. EnAttente(Empty) = Total(f, Tables)
    BY EnAttenteIsTotal
  <2> HIDE DEF f
  <2>3. QED
    BY <2>1, <2>2, TablesAssumption, TotalZero
<1>2. ASSUME NEW buffer \in [Tables -> Seq(Offsets)]
      PROVE  EnAttente(buffer) \in Nat
  <2> DEFINE f == [t \in Tables |-> Len(buffer[t])]
  <2>1. \A t \in Tables : f[t] \in Nat
    OBVIOUS
  <2>2. EnAttente(buffer) = Total(f, Tables)
    BY EnAttenteIsTotal
  <2> HIDE DEF f
  <2>3. QED
    BY <2>1, <2>2, TablesAssumption, TotalNat
<1>3. ASSUME NEW buffer \in [Tables -> Seq(Offsets)],
             NEW t \in Tables, NEW o \in Offsets
      PROVE  EnAttente([buffer EXCEPT ![t] = Append(@, o)])
               = EnAttente(buffer) + 1
  <2> DEFINE new == [buffer EXCEPT ![t] = Append(@, o)]
             f == [u \in Tables |-> Len(buffer[u])]
             g == [u \in Tables |-> Len(new[u])]
  <2>1. new \in [Tables -> Seq(Offsets)] /\ new[t] = Append(buffer[t], o)
        /\ \A u \in Tables \ {t} : new[u] = buffer[u]
    OBVIOUS
  <2>2. /\ \A u \in Tables : f[u] \in Nat /\ g[u] \in Nat
        /\ \A u \in Tables \ {t} : g[u] = f[u]
        /\ g[t] = f[t] + 1
    <3> HIDE DEF new
    <3>1. QED
      BY <2>1
  <2>3. EnAttente(buffer) = Total(f, Tables) /\ EnAttente(new) = Total(g, Tables)
    BY EnAttenteIsTotal
  <2> HIDE DEF f, g, new
  <2>4. Total(g, Tables) + f[t] = Total(f, Tables) + g[t]
    <3>1. /\ IsFiniteSet(Tables)
          /\ \A u \in Tables : f[u] \in Nat /\ g[u] \in Nat
          /\ \A u \in Tables \ {t} : g[u] = f[u]
      BY <2>2, TablesAssumption
    <3>2. QED
      BY <3>1, TotalChange
  <2>5. f[t] \in Nat
    BY <2>2
  <2>6. Total(f, Tables) \in Nat /\ Total(g, Tables) \in Nat
    BY <2>2, TablesAssumption, TotalNat
  <2>7. EnAttente(new) = EnAttente(buffer) + 1
    BY <2>2, <2>3, <2>4, <2>5, <2>6
  <2>8. QED
    BY <2>7 DEF new
<1>4. QED
  BY <1>1, <1>2, <1>3

LEMMA LagIsTotal ==
  ASSUME NEW c
  PROVE  LagTotal(c) =
           Total([t \in Tables |-> Len(log[t]) + 1 - StartOffset(t)], Tables)
<1> DEFINE f == [t \in Tables |-> Len(log[t]) + 1 - StartOffset(t)]
           IsIter(iter) == iter = [s \in SUBSET Tables |->
              IF s = {} THEN 0
              ELSE Len(log[First(s)]) + 1 - StartOffset(First(s))
                   + iter[s \ {First(s)}]]
<1>1. LagTotal(c) = (CHOOSE iter : IsIter(iter))[Tables]
  BY DEF LagTotal, MapThenSumSet, MapThenFoldSet, First
<1>2. \A s \in SUBSET Tables :
        s # {} => First(s) \in Tables /\ s \ {First(s)} \in SUBSET Tables
  BY DEF First
<1>3. \E iter : IsIter(iter)
  <2> DEFINE h == [s \in SUBSET Tables |-> SumOver(f, Tables)[s]]
  <2>1. IsSum(f, SumOver(f, Tables), Tables)
    BY TablesAssumption, SumExists
  <2>2. ASSUME NEW s \in SUBSET Tables
        PROVE  h[s] = IF s = {} THEN 0
                      ELSE Len(log[First(s)]) + 1 - StartOffset(First(s))
                           + h[s \ {First(s)}]
    BY <1>2, <2>1 DEF IsSum
  <2>3. IsIter(h)
    BY <2>2
  <2>4. QED
    BY <2>3
<1> DEFINE k == CHOOSE iter : IsIter(iter)
<1>4. IsIter(k)
  BY <1>3
<1>5. IsSum(f, k, Tables)
  <2> HIDE DEF k
  <2>1. QED
    BY <1>2, <1>4 DEF IsSum
<1>6. k[Tables] = Total(f, Tables)
  <2> HIDE DEF k, f
  <2>1. QED
    BY <1>5, TablesAssumption, TotalUnique
<1>7. QED
  BY <1>1, <1>6

-----------------------------------------------------------------------------
(***************************************************************************)
(* The buffer.  It may be full only once the flush test has seen it.       *)
(***************************************************************************)
BufferInv(c) ==
  /\ EnAttente(tampon[c]) <= MaxMessages
  /\ pc[c] \in {"absent", "poll", "noted"} => EnAttente(tampon[c]) < MaxMessages

LEMMA BufferInit == Init => \A c \in Members : BufferInv(c)
BY EnAttenteFacts, BoundsAssumption DEF Init, BufferInv

LEMMA BufferStep ==
  ASSUME TypeInv, \A c \in Members : BufferInv(c), [Next]_vars
  PROVE  \A c \in Members : BufferInv(c)'
<1>1. \A c \in Members : /\ tampon[c] \in [Tables -> Seq(Offsets)]
                         /\ EnAttente(tampon[c]) \in Nat
  BY EnAttenteFacts DEF TypeInv, TypeOK
<1>2. MaxMessages \in Nat \ {0} /\ EnAttente(Empty) = 0
  BY BoundsAssumption, EnAttenteFacts
<1>3. ASSUME NEW d \in Members, UNCHANGED <<tampon[d], pc[d]>>
      PROVE  BufferInv(d)'
  BY <1>3 DEF BufferInv
<1>4. ASSUME NEW d \in Members, tampon'[d] = Empty
      PROVE  BufferInv(d)'
  BY <1>2, <1>4 DEF BufferInv
<1>5. ASSUME NEW d \in Members, UNCHANGED tampon[d],
             \/ pc'[d] \notin {"absent", "poll", "noted"}
             \/ pc[d] \in {"absent", "poll", "noted"}
      PROVE  BufferInv(d)'
  BY <1>5 DEF BufferInv
<1>6. ASSUME NEW c \in Members, NEW how, Gone(c, how)
      PROVE  \A d \in Members : BufferInv(d)'
  BY <1>3, <1>4, <1>6 DEF Gone, TypeInv, TypeOK
<1>7. ASSUME UNCHANGED <<tampon, pc>>
      PROVE  \A d \in Members : BufferInv(d)'
  BY <1>3, <1>7
<1>8. ASSUME NEW c \in Members, UNCHANGED tampon,
             \E step \in Steps : pc' = [pc EXCEPT ![c] = step],
             \/ pc[c] \in {"absent", "poll", "noted"}
             \/ pc'[c] \notin {"absent", "poll", "noted"}
      PROVE  \A d \in Members : BufferInv(d)'
  BY <1>3, <1>5, <1>8 DEF TypeInv, TypeOK
<1>9. ASSUME NEW c \in Members, Handle(c)
      PROVE  \A d \in Members : BufferInv(d)'
  <2> DEFINE t == courant[c]
             o == a_commiter[c][t] - 1
             buffer == IF log[t][o] = "row"
                         THEN [tampon[c] EXCEPT ![t] = Append(@, o)]
                         ELSE tampon[c]
  <2>1. t \in Tables /\ o \in Offsets
    <3>1. t \in Tables /\ o \in 1 .. Len(log[t])
      BY <1>9 DEF Handle, TypeInv, HandInv
    <3>2. Len(log[t]) \in Nat /\ Len(log[t]) <= MaxOffset
      BY <3>1 DEF TypeInv, TypeOK
    <3>3. QED
      BY <3>1, <3>2, BoundsAssumption DEF Offsets
  <2>2. EnAttente(buffer) \in {EnAttente(tampon[c]), EnAttente(tampon[c]) + 1}
    BY <1>1, <2>1, EnAttenteFacts
  <2>3. /\ pc[c] = "noted" /\ tampon' = [tampon EXCEPT ![c] = buffer]
        /\ \/ pc' = [pc EXCEPT ![c] = "load"]
           \/ EnAttente(buffer) < MaxMessages /\ pc' = [pc EXCEPT ![c] = "poll"]
    BY <1>9 DEF Handle, BeginFlush
  <2> HIDE DEF buffer, t, o
  <2>4. EnAttente(tampon[c]) < MaxMessages
    BY <2>3 DEF BufferInv
  <2>5. EnAttente(buffer) <= MaxMessages
    BY <1>1, <1>2, <2>2, <2>4
  <2>6. tampon'[c] = buffer /\ \A d \in Members \ {c} : tampon'[d] = tampon[d]
    BY <2>3 DEF TypeInv, TypeOK
  <2>7. BufferInv(c)'
    BY <2>3, <2>5, <2>6 DEF BufferInv, TypeInv, TypeOK
  <2>8. QED
    BY <1>3, <2>3, <2>6, <2>7 DEF TypeInv, TypeOK
<1>10. ASSUME NEW c \in Members, Interrupt(c)
       PROVE  \A d \in Members : BufferInv(d)'
  <2>1. pc'[c] \in {"final_load", "closing"}
        /\ \A d \in Members \ {c} : UNCHANGED <<tampon[d], pc[d]>>
    BY <1>10 DEF Interrupt, Finish, BeginFlush, TypeInv, TypeOK
  <2>2. tampon'[c] = tampon[c] \/ tampon'[c] = Empty
    BY <1>10 DEF Interrupt, TypeInv, TypeOK
  <2>3. QED
    BY <1>3, <1>4, <1>5, <2>1, <2>2
<1>11. ASSUME NEW c \in Members, Reset(c)
       PROVE  \A d \in Members : BufferInv(d)'
  BY <1>3, <1>4, <1>11 DEF Reset, TypeInv, TypeOK
<1>12. ASSUME NEW c \in Members, FlushOnTime(c) \/ IdleExit(c)
       PROVE  \A d \in Members : BufferInv(d)'
  <2>1. /\ UNCHANGED tampon /\ pc[c] = "poll"
        /\ \E step \in Steps : pc' = [pc EXCEPT ![c] = step]
    BY <1>12 DEF FlushOnTime, IdleExit, Finish, BeginFlush, Steps
  <2>2. QED
    BY <1>8, <2>1
<1>13. ASSUME NEW c \in Members,
              Start(c) \/ Commit(c) \/ \E t \in Tables : PollMessage(c, t)
       PROVE  \A d \in Members : BufferInv(d)'
  <2>1. /\ UNCHANGED tampon
        /\ \E step \in Steps : pc' = [pc EXCEPT ![c] = step]
        /\ \/ pc[c] \in {"absent", "poll", "noted"}
           \/ pc'[c] \notin {"absent", "poll", "noted"}
    BY <1>13 DEF Start, Commit, PollMessage, memory, Steps, TypeInv, TypeOK
  <2>2. QED
    BY <1>8, <2>1
<1>14. ASSUME NEW c \in Members, HandleFails(c) \/ Close(c) \/ Die(c)
       PROVE  \A d \in Members : BufferInv(d)'
  BY <1>6, <1>14 DEF HandleFails, Close, Die
<1>15. QED
  BY <1>7, <1>9, <1>10, <1>11, <1>12, <1>13, <1>14
     DEF Next, vars, memory, Produce, ShareOut, Join, Revoke, OnAssign,
         SessionExpire, Evict, LoadTable

\* The buffer never holds more rows than a batch, whatever was polled again.
THEOREM BufferStaysBounded == Spec => []BufferBounded
<1> DEFINE Inv == TypeInv /\ \A c \in Members : BufferInv(c)
<1>1. Init => Inv
  BY TypeInit, BufferInit
<1>2. Inv /\ [Next]_vars => Inv'
  BY TypeStep, BufferStep
<1>3. Inv => BufferBounded
  BY DEF BufferBounded, BufferInv
<1>4. QED
  BY <1>1, <1>2, <1>3, PTL DEF Spec

-----------------------------------------------------------------------------
(***************************************************************************)
(* The lag.  No offset is beyond the end of its topic, so no term of the   *)
(* sum is negative and makes up for another.                               *)
(***************************************************************************)
Within(n, t) == n <= Len(log[t]) + 1

LagInv ==
  \A t \in Tables :
    /\ Within(commis[t], t)
    /\ \A c \in Members : Within(a_commiter[c][t], t) /\ Within(position[c][t], t)

LEMMA LagInit == Init => LagInv
BY DEF Init, LagInv, Within, None

LEMMA LagStep == TypeInv /\ LagInv /\ [Next]_vars => LagInv'
<1> SUFFICES ASSUME TypeInv, LagInv, [Next]_vars
             PROVE  LagInv'
  OBVIOUS
<1>1. \A t \in Tables : Len(log[t]) \in Nat
  BY DEF TypeInv, TypeOK
<1>2. /\ \A t \in Tables : commis[t] \in Nat
      /\ \A c \in Members, t \in Tables :
           a_commiter[c][t] \in Nat /\ position[c][t] \in Nat
  BY DEF TypeInv, TypeOK, Offsets
<1>3. ASSUME UNCHANGED log,
             \A t \in Tables :
               /\ commis'[t] = commis[t]
                  \/ \E c \in Members : commis'[t] = a_commiter[c][t]
               /\ \A c \in Members :
                    /\ a_commiter'[c][t] = a_commiter[c][t]
                       \/ a_commiter'[c][t] = 0
                    /\ position'[c][t] = position[c][t] \/ position'[c][t] = 0
      PROVE  LagInv'
  BY <1>1, <1>2, <1>3 DEF LagInv, Within
<1>4. ASSUME UNCHANGED <<commis, a_commiter, position>>,
             \A t \in Tables : Len(log[t]) <= Len(log'[t]) /\ Len(log'[t]) \in Nat
      PROVE  LagInv'
  BY <1>1, <1>2, <1>4 DEF LagInv, Within
<1>5. ASSUME NEW t \in Tables, NEW k \in Kinds, Produce(t, k)
      PROVE  LagInv'
  <2>1. \A u \in Tables : Len(log[u]) <= Len(log'[u]) /\ Len(log'[u]) \in Nat
    <3>1. log' = [log EXCEPT ![t] = Append(@, k)]
      BY <1>5 DEF Produce
    <3>2. log[t] \in Seq(Kinds)
      BY DEF TypeInv, TypeOK
    <3>3. Len(log'[t]) = Len(log[t]) + 1
          /\ \A u \in Tables \ {t} : log'[u] = log[u]
      BY <3>1, <3>2 DEF TypeInv, TypeOK
    <3>4. QED
      BY <1>1, <3>3
  <2>2. QED
    BY <1>4, <1>5, <2>1 DEF Produce, memory
<1>6. ASSUME NEW c \in Members, NEW t \in Tables, PollMessage(c, t)
      PROVE  LagInv'
  <2>1. /\ UNCHANGED <<log, commis>> /\ position[c][t] <= Len(log[t])
        /\ position' = [position EXCEPT ![c][t] = @ + 1]
        /\ a_commiter' = [a_commiter EXCEPT ![c][t] = position[c][t] + 1]
    BY <1>6 DEF PollMessage, broker
  <2>2. \A d \in Members, u \in Tables :
          /\ position'[d][u] # position[d][u] =>
               u = t /\ position'[d][u] = position[c][t] + 1
          /\ a_commiter'[d][u] # a_commiter[d][u] =>
               u = t /\ a_commiter'[d][u] = position[c][t] + 1
    BY <2>1 DEF TypeInv, TypeOK
  <2>3. Within(position[c][t] + 1, t)
    BY <1>1, <1>2, <2>1 DEF Within
  <2>4. QED
    BY <2>1, <2>2, <2>3 DEF LagInv, Within
<1>7. ASSUME NEW c \in Members, OnAssign(c)
      PROVE  LagInv'
  <2>1. \A t \in Tables : Within(StartOffset(t), t)
    BY <1>1 DEF StartOffset, LagInv, Within
  <2>2. UNCHANGED <<log, commis, a_commiter>>
    BY <1>7 DEF OnAssign, broker
  <2>3. \A d \in Members, t \in Tables :
          position'[d][t] \in {position[d][t], StartOffset(t), 0}
    BY <1>7 DEF OnAssign, TypeInv, TypeOK
  <2>4. \A t \in Tables : Within(0, t)
    BY <1>1 DEF Within
  <2>5. QED
    BY <2>1, <2>2, <2>3, <2>4 DEF LagInv, Within
<1>8. ASSUME NEW c \in Members, NEW how, Gone(c, how), UNCHANGED log,
             UNCHANGED commis \/ CommitOffsets(c)
      PROVE  LagInv'
  <2>1. \A d \in Members, t \in Tables :
          /\ a_commiter'[d][t] = a_commiter[d][t] \/ a_commiter'[d][t] = 0
          /\ position'[d][t] = position[d][t] \/ position'[d][t] = 0
    BY <1>8 DEF Gone, None, TypeInv, TypeOK
  <2>2. \A t \in Tables : commis'[t] \in {commis[t], a_commiter[c][t]}
    BY <1>8 DEF CommitOffsets
  <2>3. QED
    BY <1>3, <1>8, <2>1, <2>2
<1>9. ASSUME NEW c \in Members, HandleFails(c) \/ Close(c) \/ Die(c)
      PROVE  LagInv'
  BY <1>8, <1>9 DEF HandleFails, Close, Die, InFlight, broker
<1>10. ASSUME NEW c \in Members, Commit(c) \/ Interrupt(c)
       PROVE  LagInv'
  <2>1. UNCHANGED <<log, a_commiter, position>>
    BY <1>10 DEF Commit, Interrupt, memory
  <2>2. \A t \in Tables : commis'[t] \in {commis[t], a_commiter[c][t]}
    BY <1>10 DEF Commit, Interrupt, InFlight, CommitOffsets
  <2>3. QED
    BY <1>3, <2>1, <2>2
<1>11. ASSUME NEW c \in Members, Join(c) \/ Revoke(c) \/ Reset(c)
       PROVE  LagInv'
  <2>1. /\ UNCHANGED <<log, commis>>
        /\ \A d \in Members, t \in Tables :
             /\ a_commiter'[d][t] = a_commiter[d][t] \/ a_commiter'[d][t] = 0
             /\ position'[d][t] = position[d][t] \/ position'[d][t] = 0
    <3>1. CASE Join(c) \/ Revoke(c)
      <4>1. /\ position' = [position EXCEPT ![c] = None]
            /\ UNCHANGED <<log, commis, a_commiter>>
        BY <3>1 DEF Join, Revoke, broker
      <4>2. QED
        BY <4>1 DEF None, TypeInv, TypeOK
    <3>2. CASE Reset(c)
      BY <3>2 DEF Reset, broker, None, TypeInv, TypeOK
    <3>3. QED
      BY <1>11, <3>1, <3>2
  <2>2. QED
    BY <1>3, <2>1
<1>12. ASSUME UNCHANGED <<log, commis, a_commiter, position>>
       PROVE  LagInv'
  BY <1>3, <1>12
<1>13. QED
  BY <1>5, <1>6, <1>7, <1>9, <1>10, <1>11, <1>12
     DEF Next, vars, broker, memory, ShareOut, Start, SessionExpire, Evict,
         Handle, FlushOnTime, IdleExit, LoadTable

\* When lag_total() is 0, nothing of the topics is missing from the raw tables,
\* under the same condition as for NoLoss.
THEOREM LagIsTrusted ==
  ASSUME "noted" \notin InterruptPoints
  PROVE  Spec => []LagZeroMeansDelivered
<1> DEFINE Inv == SafetyInv /\ LagInv
<1>1. Init => Inv
  BY SafetyInit, LagInit
<1>2. Inv /\ [Next]_vars => Inv'
  BY TypeStep, NoLossStep, MemberStep, LagStep DEF SafetyInv
<1>3. ASSUME Inv, NEW c \in Members, LagTotal(c) = 0, NEW t \in Tables
      PROVE  Covered(t, Len(log[t]) + 1)
  <2> DEFINE f == [u \in Tables |-> Len(log[u]) + 1 - StartOffset(u)]
  <2>1. ASSUME NEW u \in Tables
        PROVE  f[u] \in Nat /\ Len(log[u]) \in Nat /\ StartOffset(u) \in Nat
    <3>1. Len(log[u]) \in Nat /\ commis[u] \in Nat /\ commis[u] <= Len(log[u]) + 1
      BY <1>3 DEF SafetyInv, TypeInv, TypeOK, LagInv, Within, Offsets
    <3>2. QED
      BY <3>1 DEF StartOffset
  <2>2. Total(f, Tables) = 0
    BY <1>3, LagIsTotal
  <2>3. f[t] = 0
    <3> HIDE DEF f
    <3>1. QED
      BY <2>1, <2>2, TablesAssumption, TotalZero
  <2>4. StartOffset(t) = Len(log[t]) + 1
    BY <2>1, <2>3
  <2>5. Covered(t, commis[t])
    BY <1>3 DEF SafetyInv, NoLoss
  <2>6. CASE commis[t] = 0
    BY <2>1, <2>4, <2>6 DEF StartOffset, Covered
  <2>7. CASE commis[t] # 0
    BY <2>4, <2>5, <2>7 DEF StartOffset
  <2>8. QED
    BY <2>6, <2>7
<1>4. Inv => LagZeroMeansDelivered
  BY <1>3 DEF LagZeroMeansDelivered
<1>5. QED
  BY <1>1, <1>2, <1>4, PTL DEF Spec

=============================================================================
