---------------------------- MODULE EventJournal ----------------------------
(***************************************************************************)
(* The journal of the task events and the two DAGs that load it.           *)
(* airflow/dags/commun/callbacks.py appends one line of JSON per event to  *)
(* a file that all the tasks share.  Two programs load it into BigQuery,   *)
(* one partition a day, each into a table of its own: metriques_dag.py,    *)
(* and commun/metriques.py run by observabilite/pipeline_metrics_dag.py.   *)
(* They share the file only, which they do not write: one of the two is    *)
(* chosen at first, and the properties are those of both.                  *)
(*                                                                         *)
(* The content of an event is left out, but for the day of its horodatage. *)
(* The callbacks of the two DAGs are callbacks like any other.             *)
(***************************************************************************)
EXTENDS Naturals, FiniteSets

CONSTANTS
  Evenements,   \* the events that callbacks may have to write
  NoEvent,      \* no event
  LastDay,      \* bound: the days are 1 .. LastDay
  Retries,      \* retries of a load
  Coupures      \* where a sudden stop may cut the line that is being written

AllCoupures == {"ligne", "fin", "caractere"}

ASSUME EvenementsAssumption ==
  IsFiniteSet(Evenements) /\ NoEvent \notin Evenements
ASSUME BoundsAssumption == LastDay \in Nat /\ Retries \in Nat
ASSUME CoupuresAssumption == Coupures \subseteq AllCoupures

VARIABLES
  programme,   \* the program that loads the file
  jour,        \* the current day
  date,        \* date[e]: day of its horodatage, 0 at first
  ecrits,      \* events whose line has been written, entire or not
  \* the file
  lisibles,    \* events that are alone on their line, entire
  rejets,      \* is there a line that json.loads refuses?
  illisible,   \* is there a line cut in the middle of an accented letter?
  ouverte,     \* event whose line ends the file without a newline
  \* the runs
  pc,          \* pc[d]: step of the run for day d
  essais,      \* essais[d]: failed attempts
  lu,          \* lu[d]: events that the attempt in course has read
  \* BigQuery
  partition,   \* partition[d]: events in the partition of day d
  \* history
  tardifs      \* events written after their day had been read

callbacks == <<date, ecrits>>
fichier == <<lisibles, rejets, illisible, ouverte>>
runs == <<pc, essais, lu>>
vars == <<programme, jour, date, ecrits, lisibles, rejets, illisible, ouverte,
          pc, essais, lu, partition, tardifs>>

Jours == 1 .. LastDay
Programs == {"metriques_dag", "pipeline_metrics"}

\* max_active_runs
MaxActive == [metriques_dag |-> 3, pipeline_metrics |-> 1]

Running == {"lecture", "job"}
Ended == {"fait", "echec", "rejete"}

TypeOK ==
  /\ programme \in Programs
  /\ jour \in 1 .. (LastDay + 1)
  /\ date \in [Evenements -> 0 .. LastDay]
  /\ ecrits \subseteq {e \in Evenements : date[e] # 0}
  /\ lisibles \subseteq ecrits
  /\ rejets \in BOOLEAN
  /\ illisible \in BOOLEAN
  /\ ouverte \in Evenements \cup {NoEvent}
  /\ pc \in [Jours -> Running \cup Ended \cup {"aucun"}]
  /\ essais \in [Jours -> 0 .. Retries]
  /\ lu \in [Jours -> SUBSET Evenements]
  /\ partition \in [Jours -> SUBSET Evenements]
  /\ tardifs \subseteq ecrits

Init ==
  /\ programme \in Programs
  /\ jour = 1
  /\ date = [e \in Evenements |-> 0]
  /\ ecrits = {}
  /\ lisibles = {}
  /\ rejets = FALSE
  /\ illisible = FALSE
  /\ ouverte = NoEvent
  /\ pc = [d \in Jours |-> "aucun"]
  /\ essais = [d \in Jours |-> 0]
  /\ lu = [d \in Jours |-> {}]
  /\ partition = [d \in Jours |-> {}]
  /\ tardifs = {}

NextDay ==
  /\ jour <= LastDay
  /\ jour' = jour + 1
  /\ UNCHANGED <<programme, callbacks, fichier, runs, partition, tardifs>>

-----------------------------------------------------------------------------
(***************************************************************************)
(* callbacks.py, in the process of any task.                               *)
(***************************************************************************)
\* The event is dated when it is observed, not by the day of the run.
ConstruireEvenement(e) ==
  /\ date[e] = 0
  /\ jour <= LastDay
  /\ date' = [date EXCEPT ![e] = jour]
  /\ UNCHANGED <<programme, jour, ecrits, fichier, runs, partition, tardifs>>

\* One write at the end of the file.  When the file ends without a newline the
\* two lines become one, which is no JSON: the event before is lost with this
\* one.  A line cut just before its newline is read like any other until then.
AppendLine(e, cut) ==
  LET alone == ouverte = NoEvent /\ cut \in {"none", "fin"}
  IN  /\ lisibles' = (lisibles \ {ouverte}) \cup (IF alone THEN {e} ELSE {})
      /\ rejets' = (rejets \/ ~alone)
      /\ illisible' = (illisible \/ cut = "caractere")
      /\ ouverte' = IF cut = "none" THEN NoEvent ELSE e

\* The write of the callback of e.  An exception here is logged and goes no
\* further, and the process may end before: the step is then never taken.
Ecrire(e) ==
  /\ date[e] # 0
  /\ e \notin ecrits
  /\ ecrits' = ecrits \cup {e}
  /\ \E cut \in Coupures \cup {"none"} : AppendLine(e, cut)
  /\ tardifs' = IF pc[date[e]] \in {"aucun", "lecture"} THEN tardifs
                                                         ELSE tardifs \cup {e}
  /\ UNCHANGED <<programme, jour, date, runs, partition>>

-----------------------------------------------------------------------------
(***************************************************************************)
(* Airflow.                                                                *)
(***************************************************************************)
Closed(d) == d < jour

Slot == Cardinality({d \in Jours : pc[d] \in Running}) < MaxActive[programme]

Go(d, step) ==
  /\ pc' = [pc EXCEPT ![d] = step]
  /\ essais' = [essais EXCEPT ![d] = 0]

\* By the timetable when the day is over, or by hand before.
Trigger(d) ==
  /\ pc[d] = "aucun"
  /\ d <= jour
  /\ Slot
  /\ Go(d, "lecture")
  /\ UNCHANGED <<programme, jour, callbacks, fichier, lu, partition, tardifs>>

Clear(d) ==
  /\ pc[d] \in Ended
  /\ Slot
  /\ Go(d, "lecture")
  /\ UNCHANGED <<programme, jour, callbacks, fichier, lu, partition, tardifs>>

\* Mutant of RetryOr: one attempt too many.
RetryOnceMoreOr(d, step) ==
  IF essais[d] <= Retries
    THEN /\ pc' = [pc EXCEPT ![d] = "lecture"]
         /\ essais' = [essais EXCEPT ![d] = @ + 1]
    ELSE Go(d, step)

\* An attempt has failed: another one, from the beginning, or the run ends.
RetryOr(d, step) ==
  IF essais[d] < Retries
    THEN /\ pc' = [pc EXCEPT ![d] = "lecture"]
         /\ essais' = [essais EXCEPT ![d] = @ + 1]
    ELSE Go(d, step)

-----------------------------------------------------------------------------
(***************************************************************************)
(* The loads.                                                              *)
(***************************************************************************)
\* Mutant of Readable: metriques_dag does not catch the error of a line either.
ReadableByNone == ~illisible /\ ~rejets

\* metriques_dag counts the lines that json.loads refuses; metriques.py fails.
\* The decoding of a letter cut in two fails outside of the try of both.
Readable == ~illisible /\ (programme = "pipeline_metrics" => ~rejets)

\* pipeline_metrics_dag refuses a day that is not over; metriques_dag refuses
\* an interval that is not of one day, which its timetable never gives.
Refuse(d) ==
  /\ programme = "pipeline_metrics"
  /\ pc[d] = "lecture"
  /\ ~Closed(d)
  /\ pc' = [pc EXCEPT ![d] = "echec"]
  /\ UNCHANGED <<programme, jour, callbacks, fichier, essais, lu, partition,
                 tardifs>>

MayRead(d) ==
  /\ pc[d] = "lecture"
  /\ programme = "pipeline_metrics" => Closed(d)

\* The whole file is read, and the events of the day kept.
LireEvenements(d) ==
  /\ MayRead(d)
  /\ Readable
  /\ lu' = [lu EXCEPT ![d] = {e \in lisibles : date[e] = d}]
  /\ tardifs' = {e \in tardifs : date[e] # d}
  /\ pc' = [pc EXCEPT ![d] = "job"]
  /\ UNCHANGED <<programme, jour, callbacks, fichier, essais, partition>>

ReadFails(d) ==
  /\ MayRead(d)
  /\ ~Readable
  /\ RetryOr(d, "rejete")
  /\ UNCHANGED <<programme, jour, callbacks, fichier, lu, partition, tardifs>>

\* Mutants of Overwrite: a partition that holds rows is left alone, as
\* snapshot.py does; no decorator on the table.
OverwriteIfEmpty(d) ==
  partition' = [partition EXCEPT ![d] = IF @ = {} THEN lu[d] ELSE @]

OverwriteTable(d) ==
  partition' = [x \in Jours |-> IF x = d THEN lu[d] ELSE {}]

\* WRITE_TRUNCATE of the partition.  When there is no event, metriques_dag
\* deletes the partition and metriques.py leaves it as it is.
Overwrite(d) ==
  partition' = IF programme = "pipeline_metrics" /\ lu[d] = {} THEN partition
               ELSE [partition EXCEPT ![d] = lu[d]]

Charger(d) ==
  /\ pc[d] = "job"
  /\ Overwrite(d)
  /\ Go(d, "fait")
  /\ lu' = [lu EXCEPT ![d] = {}]
  /\ UNCHANGED <<programme, jour, callbacks, fichier, tardifs>>

\* An attempt fails for another reason, before or after the load job.
AttemptFails(d) ==
  /\ pc[d] \in Running
  /\ \/ UNCHANGED partition
     \/ pc[d] = "job" /\ Overwrite(d)
  /\ RetryOr(d, "echec")
  /\ lu' = [lu EXCEPT ![d] = {}]
  /\ UNCHANGED <<programme, jour, callbacks, fichier, tardifs>>

Next ==
  \/ NextDay
  \/ \E e \in Evenements : ConstruireEvenement(e) \/ Ecrire(e)
  \/ \E d \in Jours :
       \/ Trigger(d)
       \/ Clear(d)
       \/ Refuse(d)
       \/ LireEvenements(d)
       \/ ReadFails(d)
       \/ Charger(d)
       \/ AttemptFails(d)

Spec == Init /\ [][Next]_vars

\* What the run of day d does next when nothing fails from
\* outside: one of these, and one only, is enabled in each of its steps.
Proceed(d) ==
  \/ LireEvenements(d)
  \/ ReadFails(d)
  \/ Charger(d)
  \/ Refuse(d)

\* The days pass, and the scheduler triggers each day once it is over
\* (catchup=True) and runs the tasks.  Attempts are assumed to end: nothing in
\* the two DAGs bounds the time that one takes.
Fairness ==
  /\ WF_vars(NextDay)
  /\ \A d \in Jours :
       /\ WF_vars(Closed(d) /\ Trigger(d))
       /\ WF_vars(Proceed(d))

FairSpec == Spec /\ Fairness

-----------------------------------------------------------------------------
\* A load that has succeeded leaves nothing out: an event of the day that can be
\* read and is not in the partition was written after the file was read, by a
\* callback that had dated it before.
LoadedIsComplete ==
  \A d \in Jours :
    pc[d] = "fait" =>
      \A e \in lisibles :
        date[e] = d => e \in partition[d] \/ e \in tardifs

\* However runs of several days, retries, clears and callbacks interleave, a
\* partition loses no event that can still be read in the file.
ReplayKeeps ==
  [][\A d \in Jours :
       partition[d] \cap lisibles' \subseteq partition'[d]]_vars

\* metriques_dag.py: a line truncated by a sudden stop is rejected, and the
\* other lines are loaded.  No run fails because of what the file holds.
TruncatedLineIsRejected ==
  \A d \in Jours : programme = "metriques_dag" => pc[d] # "rejete"

ClearsCease == <>[][~ \E d \in Jours : Clear(d)]_vars

\* An event that can be read is eventually in the table of either program, if
\* nobody clears the runs for ever, unless it came late, a later line spoiled
\* it, or the run of its day failed for a reason of its own.  One line that
\* json.loads refuses is enough to stop pipeline_metrics for good, and never
\* stops metriques_dag.
EventuallyLoaded ==
  ClearsCease =>
    \A e \in Evenements :
      (e \in lisibles)
        ~> \/ e \notin lisibles
           \/ e \in tardifs
           \/ programme = "pipeline_metrics" /\ rejets
           \/ \E d \in Jours :
                date[e] = d /\ (e \in partition[d] \/ pc[d] = "echec")

=============================================================================
