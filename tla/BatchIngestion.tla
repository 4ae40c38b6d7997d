--------------------------- MODULE BatchIngestion ---------------------------
(***************************************************************************)
(* The daily batch path of one table: extract, validate and load of each   *)
(* window of a day (airflow/dags/ingestion/ingestion_dag.py, with          *)
(* ingestion/extract.py and load.py), and the snapshot of what precedes    *)
(* the first window (ingestion/snapshot.py), here the window 0.            *)
(*                                                                         *)
(* The tables share nothing but the runs, so one is modelled.  A row of    *)
(* the source is a version of a primary key with the day of its            *)
(* updated_at; its columns are left out, and so are the checks of validate *)
(* that no such row can fail.                                              *)
(***************************************************************************)
EXTENDS Naturals, FiniteSets

CONSTANTS
  Cles,         \* primary keys, never reused
  LastDay,      \* bound: the windows are the days 1 .. LastDay
  MaxVersion,   \* bound on the versions of a row
  Retries,      \* retries of a task
  MaxActive,    \* runs at the same time, snapshot.py included
  Expiration    \* days that the sandbox keeps a partition (60)

ASSUME ClesAssumption == IsFiniteSet(Cles)
ASSUME BoundsAssumption ==
  {LastDay, Retries, Expiration} \subseteq Nat /\ MaxVersion \in Nat \ {0}
ASSUME MaxActiveAssumption == MaxActive \in Nat \ {0}

Windows == 0 .. LastDay
Tasks == {"extract", "validate", "load", "job"}
Steps == Tasks \cup {"none", "done", "skipped"}

VARIABLES
  \* the source
  jour,        \* the current day
  source,      \* source[r]: version and day of updated_at; version 0: no row
  supprimes,   \* rows deleted from the source
  \* the runs
  pc,          \* pc[d]: step that the run of window d is about to take
  echec,       \* runs that ended at that step, failed
  essais,      \* essais[d]: failed attempts of the current task
  geles,       \* runs whose current attempt hangs
  fichiers,    \* windows whose extract returned a file
  amorcage,    \* windows whose load has found no table
  \* the disk and the warehouse
  parquet,     \* parquet[d]: rows of the file of window d, {}: no file
  existe,      \* does the raw table exist?
  partition,   \* partition[d]: rows of the partition of day d
  \* history
  tardives     \* rows dated of a day that was already over

postgres == <<jour, source, supprimes>>
runs == <<pc, echec, essais, geles, fichiers, amorcage>>
raw == <<existe, partition>>
vars == <<jour, source, supprimes, pc, echec, essais, geles, fichiers,
          amorcage, parquet, existe, partition, tardives>>

Lignes == [cle : Cles, version : 1 .. MaxVersion, jour : Windows]

TypeOK ==
  /\ jour \in 1 .. (LastDay + 1)
  /\ source \in [Cles -> [version : 0 .. MaxVersion, jour : Windows]]
  /\ supprimes \subseteq Cles
  /\ pc \in [Windows -> Steps]
  /\ echec \subseteq {d \in Windows : pc[d] \in Tasks}
  /\ essais \in [Windows -> 0 .. Retries]
  /\ geles \subseteq {d \in Windows : pc[d] \in Tasks} \ echec
  /\ fichiers \subseteq Windows
  /\ amorcage \subseteq Windows
  /\ parquet \in [Windows -> SUBSET Lignes]
  /\ existe \in BOOLEAN
  /\ partition \in [Windows -> SUBSET Lignes]
  /\ tardives \subseteq Cles

\* At the start_date some rows are older than it.
Init ==
  /\ jour = 1
  /\ source \in [Cles -> {[version |-> n, jour |-> 0] : n \in {0, 1}}]
  /\ supprimes = {}
  /\ pc = [d \in Windows |-> "none"]
  /\ echec = {}
  /\ essais = [d \in Windows |-> 0]
  /\ geles = {}
  /\ fichiers = {}
  /\ amorcage = {}
  /\ parquet = [d \in Windows |-> {}]
  /\ existe = FALSE
  /\ partition = [d \in Windows |-> {}]
  /\ tardives = {}

-----------------------------------------------------------------------------
(***************************************************************************)
(* The source.                                                             *)
(***************************************************************************)
NextDay ==
  /\ jour <= LastDay
  /\ jour' = jour + 1
  /\ UNCHANGED <<source, supprimes, runs, parquet, raw, tardives>>

\* A version becomes visible.  Its updated_at may be of an earlier day: the
\* clock was read before midnight and the transaction committed after, or the
\* booking is back-dated (late_arriving).  It does not go back from a version
\* to the next: the trigger reads clock_timestamp(), not now(), and it does so
\* once the update holds the lock of the row.
Write(r, d) ==
  /\ r \notin supprimes
  /\ source[r].version < MaxVersion
  /\ d \in source[r].jour .. LastDay
  /\ d <= jour
  /\ source' = [source EXCEPT ![r] = [version |-> @.version + 1, jour |-> d]]
  /\ tardives' = IF d < jour THEN tardives \cup {r} ELSE tardives \ {r}
  /\ UNCHANGED <<jour, supprimes, runs, parquet, raw>>

\* A physical deletion moves no updated_at and leaves no trace.
Delete(r) ==
  /\ source[r].version > 0
  /\ supprimes' = supprimes \cup {r}
  /\ UNCHANGED <<jour, source, runs, parquet, raw, tardives>>

Existing == {r \in Cles : source[r].version > 0} \ supprimes

\* SELECT ... WHERE updated_at >= debut AND updated_at < fin
InWindow(d) ==
  {[cle |-> r, version |-> source[r].version, jour |-> d] :
     r \in {x \in Existing : source[x].jour = d}}

-----------------------------------------------------------------------------
(***************************************************************************)
(* Airflow: which runs are active, and what follows a failed attempt.      *)
(***************************************************************************)
Active(d) == pc[d] \in Tasks /\ d \notin echec

\* Mutant of Slot: a run that has failed keeps its place.
SlotKeptByFailed == Cardinality({d \in Windows : pc[d] \in Tasks}) < MaxActive

Slot == Cardinality({d \in Windows : Active(d)}) < MaxActive
Ended(d) == pc[d] \in {"done", "skipped"} \/ d \in echec

Go(d, step) ==
  /\ pc' = [pc EXCEPT ![d] = step]
  /\ essais' = [essais EXCEPT ![d] = 0]
  /\ UNCHANGED geles

\* A run by the timetable, or by hand at any time with a logical date; for the
\* window 0, `python -m ingestion.snapshot`, which does nothing when its
\* partition holds rows.
Trigger(d) ==
  /\ pc[d] = "none"
  /\ Slot
  /\ d = 0 => partition[0] = {}
  /\ Go(d, "extract")
  /\ UNCHANGED <<postgres, echec, fichiers, amorcage, parquet, raw, tardives>>

\* `airflow tasks clear` of a whole run, or --force of the snapshot.
Clear(d) ==
  /\ Ended(d)
  /\ Slot
  /\ Go(d, "extract")
  /\ echec' = echec \ {d}
  /\ UNCHANGED <<postgres, fichiers, amorcage, parquet, raw, tardives>>

\* `airflow tasks clear --only-failed`: from the task that failed.
ClearFailed(d) ==
  /\ d \in echec \ {0}
  /\ Slot
  /\ Go(d, pc[d])
  /\ echec' = echec \ {d}
  /\ UNCHANGED <<postgres, fichiers, amorcage, parquet, raw, tardives>>

\* AirflowFailException: no retry.
FailForGood(d) ==
  /\ echec' = echec \cup {d}
  /\ UNCHANGED <<pc, essais, geles>>

-----------------------------------------------------------------------------
(***************************************************************************)
(* The tasks of a run.                                                     *)
(***************************************************************************)
\* Mutant of Closed: the window may be the current day.
Begun(d) == d <= jour

\* fenetre() refuses a window that is not over; snapshot.py has no such guard,
\* and its window is over.
Closed(d) == d < jour

ReadWindow(d) ==
  /\ parquet' = [parquet EXCEPT ![d] = IF d = 0 /\ InWindow(d) = {} THEN @
                                        ELSE InWindow(d)]
  /\ tardives' = tardives \ {l.cle : l \in InWindow(d)}

\* extract: the rows of the window replace its file, or remove it when there is
\* none.  The snapshot is not validated.
Extract(d) ==
  /\ pc[d] = "extract"
  /\ d \notin echec \cup geles
  /\ \/ /\ ~Closed(d)
        /\ FailForGood(d)
        /\ UNCHANGED <<fichiers, parquet, tardives>>
     \/ /\ Closed(d)
        /\ ReadWindow(d)
        /\ fichiers' = IF InWindow(d) = {} THEN fichiers \ {d}
                                           ELSE fichiers \cup {d}
        /\ Go(d, IF d > 0 THEN "validate"
                 ELSE IF InWindow(d) = {} THEN "skipped" ELSE "load")
        /\ UNCHANGED echec
  /\ UNCHANGED <<postgres, amorcage, raw>>

\* validate lets the list of files through; `echec_validate` in the
\* configuration of the run makes it refuse.
Validate(d) ==
  /\ pc[d] = "validate"
  /\ d \notin echec \cup geles
  /\ \/ /\ Go(d, "load")
        /\ UNCHANGED echec
     \/ FailForGood(d)
  /\ UNCHANGED <<postgres, fichiers, amorcage, parquet, raw, tardives>>

\* load, no file: the task is skipped and the partition left as it is.
Skip(d) ==
  /\ pc[d] = "load"
  /\ d \notin echec \cup geles \cup fichiers
  /\ Go(d, "skipped")
  /\ UNCHANGED <<postgres, echec, fichiers, amorcage, parquet, raw, tardives>>

\* load, first half: does the table exist?
GetTable(d) ==
  /\ pc[d] = "load"
  /\ d \in fichiers \ (echec \cup geles)
  /\ amorcage' = IF existe THEN amorcage \ {d} ELSE amorcage \cup {d}
  /\ pc' = [pc EXCEPT ![d] = "job"]
  /\ UNCHANGED <<postgres, echec, essais, geles, fichiers, parquet, raw,
                 tardives>>

\* Mutants of WriteTruncate: WRITE_APPEND; no decorator on the table.
WriteAppend(d) ==
  /\ existe' = TRUE
  /\ partition' = [partition EXCEPT ![d] = @ \cup parquet[d]]

WriteBareTable(d) ==
  /\ existe' = TRUE
  /\ partition' = [x \in Windows |-> IF x = d THEN parquet[d] ELSE {}]

\* WRITE_TRUNCATE of table$day, or of the bare table when it did not exist.
WriteTruncate(d) ==
  /\ existe' = TRUE
  /\ partition' = IF d \in amorcage
                    THEN [x \in Windows |-> IF x = d THEN parquet[d] ELSE {}]
                    ELSE [partition EXCEPT ![d] = parquet[d]]

\* load, second half: the load job, waited for.
Job(d) ==
  /\ pc[d] = "job"
  /\ d \notin echec \cup geles
  /\ WriteTruncate(d)
  /\ Go(d, "done")
  /\ UNCHANGED <<postgres, echec, fichiers, amorcage, parquet, tardives>>

\* Mutant of MayRetry: one attempt too many.
MayRetryOnceMore(d) == d > 0 /\ essais[d] <= Retries

\* A failed snapshot is not retried.
MayRetry(d) == d > 0 /\ essais[d] < Retries

\* An attempt fails, or one that hangs is killed, before or after it did its
\* work: the task starts again from its first line, Retries times, then the run
\* has failed.
AttemptFails(d) ==
  LET task == IF pc[d] = "job" THEN "load" ELSE pc[d]
  IN  /\ Active(d)
      /\ \/ UNCHANGED <<parquet, raw, tardives>>
         \/ /\ pc[d] = "extract" /\ Closed(d)
            /\ ReadWindow(d)
            /\ UNCHANGED raw
         \/ /\ pc[d] = "job"
            /\ WriteTruncate(d)
            /\ UNCHANGED <<parquet, tardives>>
      /\ pc' = [pc EXCEPT ![d] = task]
      /\ IF MayRetry(d)
           THEN /\ essais' = [essais EXCEPT ![d] = @ + 1]
                /\ UNCHANGED echec
           ELSE /\ echec' = echec \cup {d}
                /\ UNCHANGED essais
      /\ geles' = geles \ {d}
      /\ UNCHANGED <<postgres, fichiers, amorcage>>

\* A frozen query, a suspended load: nothing in the DAG bounds the time that an
\* attempt takes (no execution_timeout), and its run keeps its slot.
Hang(d) ==
  /\ Active(d)
  /\ d \notin geles
  /\ geles' = geles \cup {d}
  /\ UNCHANGED <<postgres, pc, echec, essais, fichiers, amorcage, parquet, raw,
                 tardives>>

\* What it waited for answers after all.
Resume(d) ==
  /\ d \in geles
  /\ geles' = geles \ {d}
  /\ UNCHANGED <<postgres, pc, echec, essais, fichiers, amorcage, parquet, raw,
                 tardives>>

-----------------------------------------------------------------------------
Expired(d) == d + Expiration <= jour

\* The sandbox of BigQuery deletes a partition some days after its date, even
\* one that a replay has just written.  The table stays.
Expire(d) ==
  /\ Expired(d)
  /\ partition' = [partition EXCEPT ![d] = {}]
  /\ UNCHANGED <<postgres, runs, parquet, existe, tardives>>

-----------------------------------------------------------------------------
Next ==
  \/ NextDay
  \/ \E r \in Cles : Delete(r) \/ \E d \in Windows : Write(r, d)
  \/ \E d \in Windows :
       \/ Trigger(d)
       \/ Clear(d)
       \/ ClearFailed(d)
       \/ Extract(d)
       \/ Validate(d)
       \/ Skip(d)
       \/ GetTable(d)
       \/ Job(d)
       \/ AttemptFails(d)
       \/ Hang(d)
       \/ Resume(d)
       \/ Expire(d)

Spec == Init /\ [][Next]_vars

\* The next step of the task of a run, unless the attempt hangs.
RunTask(d) ==
  Extract(d) \/ Validate(d) \/ Skip(d) \/ GetTable(d) \/ Job(d)

\* The scheduler triggers each window once it is over (catchup=True) and runs
\* the tasks of the runs; nobody is obliged to launch the snapshot, to clear a
\* run or to kill an attempt that hangs.
Fairness ==
  \A d \in Windows :
    /\ WF_vars(Closed(d) /\ d > 0 /\ Trigger(d))
    /\ WF_vars(RunTask(d))

FairSpec == Spec /\ Fairness

-----------------------------------------------------------------------------
\* load.py: the content of a partition depends on the files of its window only,
\* never on the history of the executions, for as long as the sandbox keeps it.
PartitionIsItsFile ==
  \A d \in Windows : pc[d] = "done" =>
    \/ partition[d] = parquet[d]
    \/ Expired(d) /\ partition[d] = {}

\* stg_bookings: the last version of each key in the raw table, by updated_at.
Versions(r) == {l \in UNION {partition[d] : d \in Windows} : l.cle = r}

After(l, m) == l.jour > m.jour \/ (l.jour = m.jour /\ l.version >= m.version)

\* Whatever runs failed, hung, were retried, cleared or skipped: once the window
\* of the last version of an existing row has been loaded, staging shows that
\* version, unless it came late or its partition has outlived Expiration.  A
\* late version waits for a replay; an expired one is out of staging for good,
\* present or not (ADR-041).
StagingIsCurrent ==
  \A r \in Existing \ tardives :
    LET d == source[r].jour
    IN  pc[d] \in {"done", "skipped"} /\ ~Expired(d) =>
          \E l \in Versions(r) :
            /\ l.version = source[r].version
            /\ \A m \in Versions(r) : After(l, m)

\* runbook.md: to replay a window is safe.  What a load, retry or replay takes
\* out of the raw table is not the present version of an existing row, whatever
\* file it loads: the one just read, or an old one when it is load that is
\* retried or cleared.  The versions overtaken since are lost with a replay.
CurrentKept ==
  [][\A d \in Windows :
       \/ partition[d] \cap InWindow(d) \subseteq partition'[d]
       \/ Expire(d)]_vars

\* A load changes no partition but its own.
OthersUntouched ==
  [][\A d \in Windows :
       partition'[d] # partition[d] => pc[d] = "job" \/ Expire(d)]_vars

ClearsCease == <>[][~ \E d \in Windows : Clear(d) \/ ClearFailed(d)]_vars

\* No attempt hangs for ever, nor do attempts hang again and again.
HangsCease == <>[](geles = {})

\* With one slot, a run that fails ends all the same and leaves its place: every
\* window that is over ends, if the runs are not cleared for ever and no attempt
\* hangs for ever.  The code guarantees neither: one run that hangs holds back
\* every other window (ADR-021).
EveryWindowEnds ==
  ClearsCease /\ HangsCease =>
    \A d \in 1 .. LastDay : (jour > d) ~> Ended(d)

=============================================================================
