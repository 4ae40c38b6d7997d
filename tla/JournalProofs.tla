--------------------------- MODULE JournalProofs ---------------------------
(***************************************************************************)
(* The guarantees of the loads of the journal, for any number of events,   *)
(* days and retries, either program and any place where a line is cut.     *)
(***************************************************************************)
EXTENDS EventJournal, TLAPS

-----------------------------------------------------------------------------
(***************************************************************************)
(* Types.                                                                  *)
(***************************************************************************)
LEMMA GoTypes ==
  ASSUME TypeOK, NEW d \in Jours,
         NEW step \in Running \cup Ended \cup {"aucun"}, Go(d, step)
  PROVE  /\ pc' \in [Jours -> Running \cup Ended \cup {"aucun"}]
         /\ essais' \in [Jours -> 0 .. Retries]
BY BoundsAssumption DEF Go, TypeOK

LEMMA RetryTypes ==
  ASSUME TypeOK, NEW d \in Jours, NEW step \in Ended, RetryOr(d, step)
  PROVE  /\ pc' \in [Jours -> Running \cup Ended \cup {"aucun"}]
         /\ essais' \in [Jours -> 0 .. Retries]
<1>1. CASE essais[d] < Retries
  <2>1. essais[d] + 1 \in 0 .. Retries
    BY <1>1, BoundsAssumption DEF TypeOK
  <2>2. QED
    BY <1>1, <2>1 DEF RetryOr, TypeOK, Running
<1>2. CASE ~(essais[d] < Retries)
  BY <1>2, GoTypes DEF RetryOr
<1>3. QED
  BY <1>1, <1>2

LEMMA OverwriteTypes ==
  ASSUME TypeOK, NEW d \in Jours, Overwrite(d)
  PROVE  partition' \in [Jours -> SUBSET Evenements]
BY DEF Overwrite, TypeOK

LEMMA TypeInit == Init => TypeOK
<1> SUFFICES ASSUME Init
             PROVE  TypeOK
  OBVIOUS
<1>1. jour \in 1 .. (LastDay + 1)
  BY BoundsAssumption DEF Init
<1>2. 0 \in 0 .. LastDay /\ 0 \in 0 .. Retries
  BY BoundsAssumption
<1>3. QED
  BY <1>1, <1>2 DEF Init, TypeOK

LEMMA TypeStep == TypeOK /\ [Next]_vars => TypeOK'
<1> SUFFICES ASSUME TypeOK, [Next]_vars
             PROVE  TypeOK'
  OBVIOUS
<1> USE DEF callbacks, fichier, runs
<1>1. CASE NextDay
  BY <1>1, BoundsAssumption DEF NextDay, TypeOK
<1>2. ASSUME NEW e \in Evenements, ConstruireEvenement(e)
      PROVE  TypeOK'
  <2>1. jour \in 1 .. LastDay
    BY <1>2, BoundsAssumption DEF ConstruireEvenement, TypeOK
  <2>2. date' \in [Evenements -> 0 .. LastDay]
    BY <1>2, <2>1, BoundsAssumption DEF ConstruireEvenement, TypeOK
  <2>3. \A f \in Evenements : date[f] # 0 => date'[f] # 0
    BY <1>2 DEF ConstruireEvenement, TypeOK
  <2>4. QED
    BY <1>2, <2>2, <2>3 DEF ConstruireEvenement, TypeOK
<1>3. ASSUME NEW e \in Evenements, Ecrire(e)
      PROVE  TypeOK'
  <2>1. PICK cut \in Coupures \cup {"none"} : AppendLine(e, cut)
    BY <1>3 DEF Ecrire
  <2>2. /\ lisibles' \subseteq ecrits'
        /\ rejets' \in BOOLEAN /\ illisible' \in BOOLEAN
        /\ ouverte' \in Evenements \cup {NoEvent}
    BY <1>3, <2>1 DEF AppendLine, Ecrire, TypeOK
  <2>3. tardifs' \subseteq ecrits'
    BY <1>3 DEF Ecrire, TypeOK
  <2>4. QED
    BY <1>3, <2>2, <2>3 DEF Ecrire, TypeOK
<1>4. ASSUME NEW d \in Jours, Trigger(d) \/ Clear(d)
      PROVE  TypeOK'
  <2>1. Go(d, "lecture")
    BY <1>4 DEF Trigger, Clear
  <2>2. /\ pc' \in [Jours -> Running \cup Ended \cup {"aucun"}]
        /\ essais' \in [Jours -> 0 .. Retries]
    BY <2>1, GoTypes DEF Running
  <2>3. QED
    BY <1>4, <2>2 DEF Trigger, Clear, TypeOK
<1>5. ASSUME NEW d \in Jours, Refuse(d)
      PROVE  TypeOK'
  BY <1>5 DEF Refuse, TypeOK, Ended
<1>6. ASSUME NEW d \in Jours, LireEvenements(d)
      PROVE  TypeOK'
  <2>1. lu' \in [Jours -> SUBSET Evenements]
    BY <1>6 DEF LireEvenements, TypeOK
  <2>2. QED
    BY <1>6, <2>1 DEF LireEvenements, TypeOK, Running
<1>7. ASSUME NEW d \in Jours, ReadFails(d)
      PROVE  TypeOK'
  <2>1. /\ pc' \in [Jours -> Running \cup Ended \cup {"aucun"}]
        /\ essais' \in [Jours -> 0 .. Retries]
    BY <1>7, RetryTypes DEF ReadFails, Ended
  <2>2. QED
    BY <1>7, <2>1 DEF ReadFails, TypeOK
<1>8. ASSUME NEW d \in Jours, Charger(d)
      PROVE  TypeOK'
  <2>1. /\ pc' \in [Jours -> Running \cup Ended \cup {"aucun"}]
        /\ essais' \in [Jours -> 0 .. Retries]
        /\ partition' \in [Jours -> SUBSET Evenements]
    BY <1>8, GoTypes, OverwriteTypes DEF Charger, Ended
  <2>2. QED
    BY <1>8, <2>1 DEF Charger, TypeOK
<1>9. ASSUME NEW d \in Jours, AttemptFails(d)
      PROVE  TypeOK'
  <2>1. /\ pc' \in [Jours -> Running \cup Ended \cup {"aucun"}]
        /\ essais' \in [Jours -> 0 .. Retries]
    BY <1>9, RetryTypes DEF AttemptFails, Ended
  <2>2. partition' \in [Jours -> SUBSET Evenements]
    BY <1>9, OverwriteTypes DEF AttemptFails, TypeOK
  <2>3. QED
    BY <1>9, <2>1, <2>2 DEF AttemptFails, TypeOK
<1>10. CASE UNCHANGED vars
  BY <1>10 DEF vars, TypeOK
<1>11. QED
  BY <1>1, <1>2, <1>3, <1>4, <1>5, <1>6, <1>7, <1>8, <1>9, <1>10 DEF Next

\* Type correctness of the journal and of its loads.
THEOREM TypeCorrect == Spec => []TypeOK
BY TypeInit, TypeStep, PTL DEF Spec

-----------------------------------------------------------------------------
(***************************************************************************)
(* The inductive invariant.                                                *)
(***************************************************************************)
\* Partitions and runs hold events of their day, already written.
DatedInv ==
  \A d \in Jours : \A e \in partition[d] \cup lu[d] :
    date[e] = d /\ e \in ecrits

\* What a run has read and is about to load: nothing that can still be read is
\* missing, but what came late, and it covers what the partition holds.
JobInv ==
  \A d \in Jours :
    pc[d] = "job" =>
      /\ \A e \in lisibles : date[e] = d => e \in lu[d] \cup tardifs
      /\ partition[d] \cap lisibles \subseteq lu[d]

Inv == TypeOK /\ DatedInv /\ JobInv /\ LoadedIsComplete

LEMMA InvInit == Init => Inv
<1> SUFFICES ASSUME Init
             PROVE  Inv
  OBVIOUS
<1>1. TypeOK
  BY TypeInit
<1>2. DatedInv /\ JobInv /\ LoadedIsComplete
  BY DEF Init, DatedInv, JobInv, LoadedIsComplete
<1>3. QED
  BY <1>1, <1>2 DEF Inv

\* A line may spoil the event before it, and adds an event that nothing has
\* loaded; it is late when the file of its day has been read.
LEMMA EcrireStep ==
  ASSUME Inv, TypeOK', NEW e \in Evenements, Ecrire(e)
  PROVE  Inv' /\ partition' = partition
<1>1. /\ lisibles' \subseteq lisibles \cup {e}
      /\ ecrits' = ecrits \cup {e} /\ e \notin ecrits
      /\ UNCHANGED <<date, pc, lu, partition>>
      /\ tardifs \subseteq tardifs'
      /\ pc[date[e]] \in {"aucun", "lecture"} \/ e \in tardifs'
  BY DEF Ecrire, AppendLine, runs
<1>2. \A d \in Jours :
        pc[d] \in {"job", "fait"} /\ date[e] = d => e \in tardifs'
  BY <1>1
<1>3. DatedInv'
  BY <1>1 DEF Inv, DatedInv
<1>4. JobInv'
  BY <1>1, <1>2 DEF Inv, DatedInv, JobInv
<1>5. LoadedIsComplete'
  BY <1>1, <1>2 DEF Inv, LoadedIsComplete
<1>6. QED
  BY <1>1, <1>3, <1>4, <1>5 DEF Inv

\* A new event is not yet in the file.
LEMMA ConstruireStep ==
  ASSUME Inv, TypeOK', NEW e \in Evenements, ConstruireEvenement(e)
  PROVE  Inv' /\ partition' = partition
<1>1. /\ \A f \in Evenements \ {e} : date'[f] = date[f]
      /\ e \notin ecrits
      /\ UNCHANGED <<ecrits, lisibles, pc, lu, partition, tardifs>>
  BY DEF ConstruireEvenement, Inv, TypeOK, fichier, runs
<1>2. lisibles \subseteq Evenements \ {e}
  BY <1>1 DEF Inv, TypeOK
<1>3. DatedInv'
  BY <1>1 DEF Inv, DatedInv, TypeOK
<1>4. JobInv' /\ LoadedIsComplete'
  BY <1>1, <1>2 DEF Inv, JobInv, LoadedIsComplete
<1>5. QED
  BY <1>1, <1>3, <1>4 DEF Inv

\* The read leaves nothing of the day out, and covers what was loaded before:
\* only events of the day were.
LEMMA LireStep ==
  ASSUME Inv, TypeOK', NEW d \in Jours, LireEvenements(d)
  PROVE  Inv' /\ partition' = partition
<1>1. /\ UNCHANGED <<date, ecrits, lisibles, partition>>
      /\ lu'[d] = {e \in lisibles : date[e] = d} /\ pc'[d] = "job"
      /\ \A x \in Jours \ {d} : lu'[x] = lu[x] /\ pc'[x] = pc[x]
      /\ \A e \in tardifs : date[e] # d => e \in tardifs'
  BY DEF LireEvenements, Inv, TypeOK, callbacks, fichier
<1>2. lisibles \subseteq ecrits
  BY DEF Inv, TypeOK
<1>3. DatedInv'
  BY <1>1, <1>2 DEF Inv, DatedInv
<1>4. JobInv'
  <2>1. ASSUME NEW x \in Jours, pc'[x] = "job"
        PROVE  /\ \A e \in lisibles : date[e] = x => e \in lu'[x] \cup tardifs'
               /\ partition[x] \cap lisibles \subseteq lu'[x]
    <3>1. CASE x = d
      BY <1>1, <3>1 DEF Inv, DatedInv
    <3>2. CASE x # d
      BY <1>1, <2>1, <3>2 DEF Inv, JobInv
    <3>3. QED
      BY <3>1, <3>2
  <2>2. QED
    BY <1>1, <2>1 DEF JobInv
<1>5. LoadedIsComplete'
  BY <1>1 DEF Inv, LoadedIsComplete
<1>6. QED
  BY <1>1, <1>3, <1>4, <1>5 DEF Inv

\* What a load job does to its partition.
LEMMA Written ==
  ASSUME Inv, NEW d \in Jours, pc[d] = "job", Overwrite(d)
  PROVE  /\ \A x \in Jours \ {d} : partition'[x] = partition[x]
         /\ partition'[d] \in {partition[d], lu[d]}
         /\ lu[d] \subseteq partition'[d]
         /\ partition[d] \cap lisibles \subseteq partition'[d]
<1>1. partition \in [Jours -> SUBSET Evenements]
  BY DEF Inv, TypeOK
<1>2. partition[d] \cap lisibles \subseteq lu[d]
  BY DEF Inv, JobInv
<1>3. QED
  BY <1>1, <1>2 DEF Overwrite

LEMMA ChargerStep ==
  ASSUME Inv, TypeOK', NEW d \in Jours, Charger(d)
  PROVE  /\ Inv'
         /\ \A x \in Jours : partition[x] \cap lisibles' \subseteq partition'[x]
<1>1. /\ UNCHANGED <<date, ecrits, lisibles, tardifs>>
      /\ lu'[d] = {} /\ pc[d] = "job" /\ pc'[d] = "fait"
      /\ \A x \in Jours \ {d} : lu'[x] = lu[x] /\ pc'[x] = pc[x]
  BY DEF Charger, Go, Inv, TypeOK, callbacks, fichier
<1>2. /\ \A x \in Jours \ {d} : partition'[x] = partition[x]
      /\ partition'[d] \in {partition[d], lu[d]}
      /\ lu[d] \subseteq partition'[d]
      /\ partition[d] \cap lisibles \subseteq partition'[d]
  BY <1>1, Written DEF Charger
<1>3. DatedInv'
  BY <1>1, <1>2 DEF Inv, DatedInv
<1>4. JobInv'
  BY <1>1, <1>2 DEF Inv, JobInv
<1>5. LoadedIsComplete'
  BY <1>1, <1>2 DEF Inv, JobInv, LoadedIsComplete
<1>6. QED
  BY <1>1, <1>2, <1>3, <1>4, <1>5 DEF Inv

LEMMA FailsStep ==
  ASSUME Inv, TypeOK', NEW d \in Jours, AttemptFails(d)
  PROVE  /\ Inv'
         /\ \A x \in Jours : partition[x] \cap lisibles' \subseteq partition'[x]
<1>1. /\ UNCHANGED <<date, ecrits, lisibles, tardifs>>
      /\ lu'[d] = {} /\ pc'[d] \in {"lecture", "echec"}
      /\ \A x \in Jours \ {d} : lu'[x] = lu[x] /\ pc'[x] = pc[x]
  BY DEF AttemptFails, RetryOr, Go, Inv, TypeOK, callbacks, fichier
<1>2. /\ \A x \in Jours \ {d} : partition'[x] = partition[x]
      /\ partition'[d] \in {partition[d], lu[d]}
      /\ partition[d] \cap lisibles \subseteq partition'[d]
  BY Written DEF AttemptFails
<1>3. DatedInv'
  BY <1>1, <1>2 DEF Inv, DatedInv
<1>4. JobInv' /\ LoadedIsComplete'
  BY <1>1, <1>2 DEF Inv, JobInv, LoadedIsComplete
<1>5. QED
  BY <1>1, <1>2, <1>3, <1>4 DEF Inv

\* The steps that move no event.
LEMMA ControlStep ==
  ASSUME Inv, TypeOK', NEW d \in Jours,
         Trigger(d) \/ Clear(d) \/ Refuse(d) \/ ReadFails(d)
  PROVE  Inv' /\ partition' = partition
<1>1. UNCHANGED <<date, ecrits, lisibles, lu, partition, tardifs>>
  BY DEF Trigger, Clear, Refuse, ReadFails, callbacks, fichier
<1>2. \A x \in Jours : pc'[x] \in {"job", "fait"} => pc[x] = pc'[x]
  BY DEF Trigger, Clear, Refuse, ReadFails, RetryOr, Go, Inv, TypeOK
<1>3. QED
  BY <1>1, <1>2 DEF Inv, DatedInv, JobInv, LoadedIsComplete

LEMMA InvStep ==
  Inv /\ [Next]_vars =>
    /\ Inv'
    /\ \A d \in Jours : partition[d] \cap lisibles' \subseteq partition'[d]
<1> SUFFICES ASSUME Inv, [Next]_vars
             PROVE  /\ Inv'
                    /\ \A d \in Jours :
                         partition[d] \cap lisibles' \subseteq partition'[d]
  OBVIOUS
<1>1. TypeOK'
  BY TypeStep DEF Inv
<1>2. CASE NextDay \/ UNCHANGED vars
  BY <1>1, <1>2 DEF NextDay, vars, callbacks, fichier, runs, Inv, DatedInv,
                    JobInv, LoadedIsComplete
<1>3. ASSUME NEW e \in Evenements, ConstruireEvenement(e) \/ Ecrire(e)
      PROVE  Inv' /\ partition' = partition
  BY <1>1, <1>3, ConstruireStep, EcrireStep
<1>4. ASSUME NEW d \in Jours,
             \/ Trigger(d) \/ Clear(d) \/ Refuse(d) \/ ReadFails(d)
             \/ LireEvenements(d)
      PROVE  Inv' /\ partition' = partition
  BY <1>1, <1>4, ControlStep, LireStep
<1>5. ASSUME NEW d \in Jours, Charger(d) \/ AttemptFails(d)
      PROVE  /\ Inv'
             /\ \A x \in Jours :
                  partition[x] \cap lisibles' \subseteq partition'[x]
  BY <1>1, <1>5, ChargerStep, FailsStep
<1>6. QED
  BY <1>2, <1>3, <1>4, <1>5 DEF Next

-----------------------------------------------------------------------------
\* A run that has loaded its day left out no event that can be read, unless it
\* came late, whatever the retries, the replays and the cuts.
THEOREM LoadsComplete == Spec => []LoadedIsComplete
<1>1. Inv /\ [Next]_vars => Inv'
  BY InvStep
<1>2. Inv => LoadedIsComplete
  BY DEF Inv
<1>3. QED
  BY InvInit, <1>1, <1>2, PTL DEF Spec

\* No load, retry or replay takes out of a partition an event that the file
\* still has.
THEOREM ReplaySafe == Spec => ReplayKeeps
<1>1. Inv /\ [Next]_vars => Inv'
  BY InvStep
<1>2. Inv /\ [Next]_vars =>
        [\A d \in Jours :
           partition[d] \cap lisibles' \subseteq partition'[d]]_vars
  BY InvStep
<1>3. QED
  BY InvInit, <1>1, <1>2, PTL DEF Spec, ReplayKeeps

=============================================================================
