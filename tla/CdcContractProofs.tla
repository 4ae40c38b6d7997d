------------------------- MODULE CdcContractProofs -------------------------
(***************************************************************************)
(* CdcConsumer implements AtLeastOnce: each of its steps is a step of the  *)
(* contract or leaves topics, raw tables and committed offsets alone.      *)
(***************************************************************************)
EXTENDS CdcConsumerProofs

\* What is buffered are rows of the topic.
RowsInv ==
  \A c \in Members, t \in Tables :
    \A o \in Contents(tampon[c][t]) : o \in 1 .. Len(log[t]) /\ log[t][o] = "row"

LEMMA RowsInit == Init => RowsInv
BY DEF Init, Empty, RowsInv, Contents

LEMMA RowsStep == TypeInv /\ RowsInv /\ [Next]_vars => RowsInv'
<1> SUFFICES ASSUME TypeInv, RowsInv, [Next]_vars
             PROVE  RowsInv'
  OBVIOUS
<1> USE DEF TypeInv
<1>1. ASSUME log' = log, tampon' = tampon
      PROVE  RowsInv'
  BY <1>1 DEF RowsInv, Contents
<1>2. ASSUME NEW c \in Members, log' = log, \A d \in Members \ {c} : tampon'[d] = tampon[d],
             \/ tampon'[c] = Empty
             \/ tampon'[c] = tampon[c]
      PROVE  RowsInv'
  <2>1. \A t \in Tables : Contents(tampon'[c][t]) \subseteq Contents(tampon[c][t])
    BY <1>2 DEF Empty, Contents
  <2>2. QED
    BY <1>2, <2>1 DEF RowsInv
<1>3. ASSUME NEW t \in Tables, NEW k \in Kinds, Produce(t, k)
      PROVE  RowsInv'
  <2>1. \A u \in Tables : /\ Len(log[u]) \in Nat /\ Len(log'[u]) \in Nat
                          /\ Len(log'[u]) >= Len(log[u])
                          /\ \A o \in 1 .. Len(log[u]) : log'[u][o] = log[u][o]
    BY <1>3 DEF Produce, TypeOK
  <2>2. tampon' = tampon
    BY <1>3 DEF Produce, memory
  <2>3. ASSUME NEW c \in Members, NEW u \in Tables, NEW o \in Contents(tampon'[c][u])
        PROVE  o \in 1 .. Len(log'[u]) /\ log'[u][o] = "row"
    <3>1. o \in 1 .. Len(log[u]) /\ log[u][o] = "row"
      BY <2>2 DEF RowsInv
    <3>2. QED
      BY <2>1, <3>1
  <2>4. QED
    BY <2>3 DEF RowsInv
<1>4. ASSUME NEW c \in Members, Handle(c)
      PROVE  RowsInv'
  <2>1. PICK t \in Tables : courant[c] = t
    BY <1>4 DEF Handle, HandInv
  <2>2. PICK o \in 1 .. Len(log[t]) : a_commiter[c][t] - 1 = o
    BY <1>4, <2>1 DEF Handle, HandInv
  <2>3. o \in Offsets /\ tampon[c] \in [Tables -> Seq(Offsets)] /\ tampon[c][t] \in Seq(Offsets)
    BY BoundsAssumption DEF TypeOK, Offsets
  <2>4. /\ log' = log
        /\ \A d \in Members \ {c} : tampon'[d] = tampon[d]
        /\ \A u \in Tables \ {t} : tampon'[c][u] = tampon[c][u]
        /\ tampon'[c][t] = IF log[t][o] = "row" THEN Append(tampon[c][t], o)
                                                ELSE tampon[c][t]
    BY <1>4, <2>1, <2>2, <2>3 DEF Handle, broker, TypeOK
  <2>5. \A p \in Contents(tampon'[c][t]) :
          p \in Contents(tampon[c][t]) \/ (p = o /\ log[t][o] = "row")
    BY <2>3, <2>4, ContentsAppend
  <2>6. ASSUME NEW d \in Members, NEW u \in Tables, NEW p \in Contents(tampon'[d][u])
        PROVE  p \in 1 .. Len(log'[u]) /\ log'[u][p] = "row"
    <3>1. CASE d = c /\ u = t
      BY <2>4, <2>5, <3>1 DEF RowsInv
    <3>2. CASE ~(d = c /\ u = t)
      <4>1. tampon'[d][u] = tampon[d][u]
        BY <2>4, <3>2
      <4>2. QED
        BY <2>4, <2>6, <4>1 DEF RowsInv
    <3>3. QED
      BY <3>1, <3>2
  <2>7. QED
    BY <2>6 DEF RowsInv
<1>5. ASSUME NEW c \in Members,
             HandleFails(c) \/ Close(c) \/ Die(c) \/ Reset(c) \/ Interrupt(c)
      PROVE  RowsInv'
  <2>1. /\ log' = log
        /\ \A d \in Members \ {c} : tampon'[d] = tampon[d]
        /\ tampon'[c] = Empty \/ tampon'[c] = tampon[c]
    BY <1>5 DEF HandleFails, Close, Die, Reset, Interrupt, Gone, broker, TypeOK
  <2>2. QED
    BY <1>2, <2>1
<1>6. ASSUME NEW c \in Members,
             \/ Start(c) \/ Join(c) \/ Revoke(c) \/ OnAssign(c) \/ SessionExpire(c)
             \/ Evict(c) \/ \E t \in Tables : PollMessage(c, t) \/ LoadTable(c, t)
             \/ FlushOnTime(c) \/ IdleExit(c) \/ Commit(c)
      PROVE  RowsInv'
  <2>1. log' = log /\ tampon' = tampon
    BY <1>6 DEF Start, Join, Revoke, OnAssign, SessionExpire, Evict, PollMessage,
       LoadTable, FlushOnTime, IdleExit, Commit, broker, memory
  <2>2. QED
    BY <1>1, <2>1
<1>7. CASE ShareOut \/ UNCHANGED vars
  BY <1>1, <1>7 DEF ShareOut, broker, memory, vars
<1>8. QED
  BY <1>3, <1>4, <1>5, <1>6, <1>7 DEF Next

\* Steps of the contract that the steps of a process are.
LEMMA AppendIsLoad ==
  ASSUME TypeInv, RowsInv, NEW c \in Members, NEW t \in Tables, AppendRows(c, t),
         UNCHANGED <<log, commis>>
  PROVE  Contract!Load(t)
<1> DEFINE S == Contents(tampon[c][t]) \ raw[t]
<1>1. S \in SUBSET (Contract!Rows(t) \ raw[t])
  BY DEF RowsInv, Contract!Rows, Contract!Messages
<1>2. raw' = [raw EXCEPT ![t] = @ \cup Contents(tampon[c][t])]
  BY DEF AppendRows
<1>3. raw' = [raw EXCEPT ![t] = @ \cup S]
  <2>1. raw[t] \cup Contents(tampon[c][t]) = raw[t] \cup S
    OBVIOUS
  <2>2. QED
    BY <1>2, <2>1
<1>4. QED
  BY <1>1, <1>3 DEF Contract!Load

LEMMA CommitIsCommit ==
  ASSUME SafetyInv, NEW c \in Members, MayCommit(c), CommitOffsets(c),
         UNCHANGED <<log, raw>>
  PROVE  Contract!Commit
<1>1. \A t \in Tables : Covered(t, commis'[t])
  BY CommitCovers
<1>2. commis' \in [Tables -> 0 .. (MaxOffset + 1)]
  BY CommitOffsetsTypes DEF SafetyInv, TypeInv, Offsets
<1>3. QED
  BY <1>1, <1>2 DEF Contract!Commit, Contract!Covered, Contract!IsTombstone,
     Contract!Messages, Covered, IsTombstone

LEMMA ContractStep ==
  ASSUME SafetyInv, RowsInv, [Next]_vars
  PROVE  [Contract!Next]_(Contract!vars)
<1> USE DEF SafetyInv
<1>1. ASSUME UNCHANGED <<log, raw, commis>>
      PROVE  [Contract!Next]_(Contract!vars)
  BY <1>1 DEF Contract!vars
<1>2. ASSUME NEW t \in Tables, NEW k \in Kinds, Produce(t, k)
      PROVE  [Contract!Next]_(Contract!vars)
  BY <1>2 DEF Produce, Contract!Produce, Contract!Next
<1>3. ASSUME NEW c \in Members, NEW t \in Tables, LoadTable(c, t)
      PROVE  [Contract!Next]_(Contract!vars)
  BY <1>3, AppendIsLoad DEF LoadTable, Contract!Next
<1>4. ASSUME NEW c \in Members, Commit(c)
      PROVE  [Contract!Next]_(Contract!vars)
  BY <1>4, CommitIsCommit DEF Commit, Contract!Next
<1>5. ASSUME NEW c \in Members, Interrupt(c) \/ Die(c)
      PROVE  [Contract!Next]_(Contract!vars)
  <2>1. InFlight(c) /\ log' = log
    BY <1>5 DEF Interrupt, Die
  <2>2. CASE UNCHANGED <<commis, raw, redits>>
    BY <1>1, <2>1, <2>2
  <2>3. CASE (\E t \in restant[c] : AppendRows(c, t)) /\ UNCHANGED commis
    <3>1. PICK t \in restant[c] : AppendRows(c, t)
      BY <2>3
    <3>2. t \in Tables
      BY DEF TypeInv, TypeOK
    <3>3. QED
      BY <2>1, <2>3, <3>1, <3>2, AppendIsLoad DEF Contract!Next
  <2>4. CASE MayCommit(c) /\ CommitOffsets(c) /\ UNCHANGED <<raw, redits>>
    BY <2>1, <2>4, CommitIsCommit DEF Contract!Next
  <2>5. QED
    BY <2>1, <2>2, <2>3, <2>4 DEF InFlight
<1>6. ASSUME NEW c \in Members,
             \/ Start(c) \/ Join(c) \/ Revoke(c) \/ OnAssign(c) \/ SessionExpire(c)
             \/ Evict(c) \/ \E t \in Tables : PollMessage(c, t)
             \/ Handle(c) \/ HandleFails(c) \/ FlushOnTime(c) \/ IdleExit(c)
             \/ Reset(c) \/ Close(c)
      PROVE  [Contract!Next]_(Contract!vars)
  <2>1. UNCHANGED <<log, raw, commis>>
    BY <1>6 DEF Start, Join, Revoke, OnAssign, SessionExpire, Evict, PollMessage,
       Handle, HandleFails, FlushOnTime, IdleExit, Reset, Close, broker
  <2>2. QED
    BY <1>1, <2>1
<1>7. CASE ShareOut \/ UNCHANGED vars
  BY <1>1, <1>7 DEF ShareOut, broker, vars
<1>8. QED
  BY <1>2, <1>3, <1>4, <1>5, <1>6, <1>7 DEF Next

\* The consumer keeps the contract of its docstring (cdc_consumer.py:3-6) for
\* any number of processes, topics and messages, with the same proviso as
\* Safety on where a Ctrl+C may land.
THEOREM Implementation ==
  ASSUME "noted" \notin InterruptPoints
  PROVE  Spec => ImplementsContract
<1> DEFINE Inv == SafetyInv /\ RowsInv
<1>1. Init => Inv
  BY SafetyInit, RowsInit
<1>2. Inv /\ [Next]_vars => Inv'
  BY TypeStep, NoLossStep, MemberStep, RowsStep DEF SafetyInv
<1>3. Init => Contract!Init
  BY DEF Init, Contract!Init, None
<1>4. Inv /\ [Next]_vars => [Contract!Next]_(Contract!vars)
  BY ContractStep
<1>5. QED
  BY <1>1, <1>2, <1>3, <1>4, PTL DEF Spec, ImplementsContract, Contract!Spec

=============================================================================
