---------------------------- MODULE AtLeastOnce ----------------------------
(***************************************************************************)
(* The delivery contract that ingestion/cdc_consumer.py states in its      *)
(* first lines: every message of the topics reaches the raw table at       *)
(* least once, because an offset is committed only when all that lies      *)
(* below it has been loaded.  How a consumer buffers, flushes, shares the  *)
(* partitions or dies is no part of the contract.                          *)
(***************************************************************************)
EXTENDS Naturals, Sequences

CONSTANTS
  Tables,     \* the topics, one partition each
  Kinds,      \* the kinds of message Debezium may write
  MaxOffset   \* bound on the length of a topic

VARIABLES
  log,        \* log[t]: the messages of topic t, offsets counted from 1
  raw,        \* raw[t]: offsets with at least one row in {t}_cdc
  commis      \* commis[t]: committed offset of t, 0 before the first commit

vars == <<log, raw, commis>>

Messages(t) == 1 .. Len(log[t])

IsTombstone(t, o) == o \in Messages(t) /\ log[t][o] = "tombstone"

Rows(t) == {o \in Messages(t) : log[t][o] = "row"}

\* Everything below offset n of t is in the raw table, tombstones excepted:
\* their deletion is carried by the op='d' row that precedes them.
Covered(t, n) == \A o \in 1 .. (n - 1) : o \in raw[t] \/ IsTombstone(t, o)

Init ==
  /\ log = [t \in Tables |-> <<>>]
  /\ raw = [t \in Tables |-> {}]
  /\ commis = [t \in Tables |-> 0]

Produce(t, k) ==
  /\ Len(log[t]) < MaxOffset
  /\ log' = [log EXCEPT ![t] = Append(@, k)]
  /\ UNCHANGED <<raw, commis>>

\* One WRITE_APPEND load job: rows that exist in the topic, in any number.
Load(t) ==
  /\ UNCHANGED <<log, commis>>
  /\ \E S \in SUBSET (Rows(t) \ raw[t]) : raw' = [raw EXCEPT ![t] = @ \cup S]

\* Offsets may be committed in any order, even backwards, but never past a
\* message that is not in the raw table.
Commit ==
  /\ UNCHANGED <<log, raw>>
  /\ commis' \in [Tables -> 0 .. (MaxOffset + 1)]
  /\ \A t \in Tables : Covered(t, commis'[t])

Next ==
  \/ \E t \in Tables, k \in Kinds : Produce(t, k)
  \/ \E t \in Tables : Load(t)
  \/ Commit

Spec == Init /\ [][Next]_vars

=============================================================================
