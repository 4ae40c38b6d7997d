---------------------------- MODULE BatchProofs ----------------------------
(***************************************************************************)
(* The guarantees of the batch path, for any number of keys, versions,     *)
(* windows and retries, when one run is active at a time: with two of      *)
(* them the first load of a table may wipe another partition (batch_race). *)
(***************************************************************************)
EXTENDS BatchIngestion, FiniteSetTheorems, TLAPS

Lues == {"validate", "load", "job", "done", "skipped"}

-----------------------------------------------------------------------------
(***************************************************************************)
(* Types.                                                                  *)
(***************************************************************************)
LEMMA Bounds ==
  /\ LastDay \in Nat /\ Retries \in Nat /\ MaxVersion \in Nat \ {0}
  /\ Expiration \in Nat
  /\ 0 \in Windows /\ 0 \in 0 .. Retries /\ Windows \subseteq Nat
  /\ \A n \in 0 .. MaxVersion : n \in Nat
  /\ \A n \in 1 .. MaxVersion : n \in Nat \ {0}
  /\ IsFiniteSet(Windows)
<1>1. /\ LastDay \in Nat /\ Retries \in Nat /\ MaxVersion \in Nat \ {0}
      /\ Expiration \in Nat
  BY BoundsAssumption
<1>2. IsFiniteSet(Windows)
  BY <1>1, FS_Interval DEF Windows
<1>3. QED
  BY <1>1, <1>2 DEF Windows

LEMMA WindowTypes ==
  ASSUME TypeOK, NEW d \in Windows
  PROVE  InWindow(d) \subseteq Lignes
<1>1. ASSUME NEW r \in Existing, source[r].jour = d
      PROVE  [cle |-> r, version |-> source[r].version, jour |-> d] \in Lignes
  BY Bounds DEF Existing, Lignes, TypeOK
<1>2. QED
  BY <1>1 DEF InWindow

LEMMA Numbers ==
  ASSUME TypeOK
  PROVE  /\ jour \in Nat
         /\ \A r \in Cles : source[r].version \in Nat /\ source[r].jour \in Nat
         /\ \A d \in Windows : \A l \in parquet[d] \cup partition[d] :
              /\ l.cle \in Cles
              /\ l.version \in Nat \ {0} /\ l.jour \in Nat
<1>1. jour \in Nat
  BY Bounds DEF TypeOK
<1>2. ASSUME NEW r \in Cles
      PROVE  source[r].version \in Nat /\ source[r].jour \in Nat
  <2>1. source[r] \in [version : 0 .. MaxVersion, jour : Windows]
    BY DEF TypeOK
  <2>2. source[r].version \in 0 .. MaxVersion /\ source[r].jour \in Windows
    BY <2>1
  <2>3. QED
    BY <2>2, Bounds
<1>3. ASSUME NEW d \in Windows, NEW l \in parquet[d] \cup partition[d]
      PROVE  l.cle \in Cles /\ l.version \in Nat \ {0} /\ l.jour \in Nat
  <2>1. l \in [cle : Cles, version : 1 .. MaxVersion, jour : Windows]
    BY DEF TypeOK, Lignes
  <2>2. l.cle \in Cles /\ l.version \in 1 .. MaxVersion /\ l.jour \in Windows
    BY <2>1
  <2>3. QED
    BY <2>2, Bounds
<1>4. QED
  BY <1>1, <1>2, <1>3

LEMMA TypeInit == Init => TypeOK
<1> SUFFICES ASSUME Init
             PROVE  TypeOK
  OBVIOUS
<1>1. source \in [Cles -> [version : 0 .. MaxVersion, jour : Windows]]
  <2>1. ASSUME NEW n \in {0, 1}
        PROVE  [version |-> n, jour |-> 0] \in
                 [version : 0 .. MaxVersion, jour : Windows]
    BY Bounds
  <2>2. QED
    BY <2>1 DEF Init
<1>2. jour \in 1 .. (LastDay + 1)
  BY Bounds DEF Init
<1>3. QED
  BY <1>1, <1>2, Bounds DEF Init, TypeOK, Steps, Tasks

LEMMA WriteTruncateTypes ==
  ASSUME TypeOK, NEW d \in Windows, WriteTruncate(d)
  PROVE  existe' \in BOOLEAN /\ partition' \in [Windows -> SUBSET Lignes]
BY DEF WriteTruncate, TypeOK

LEMMA ReadWindowTypes ==
  ASSUME TypeOK, NEW d \in Windows, ReadWindow(d)
  PROVE  parquet' \in [Windows -> SUBSET Lignes] /\ tardives' \subseteq Cles
BY WindowTypes DEF ReadWindow, TypeOK

LEMMA GoTypes ==
  ASSUME TypeOK, NEW d \in Windows, NEW step \in Steps, Go(d, step)
  PROVE  /\ pc' \in [Windows -> Steps]
         /\ essais' \in [Windows -> 0 .. Retries]
         /\ geles' = geles
         /\ \A e \in Windows \ {d} : pc'[e] = pc[e]
BY Bounds DEF Go, TypeOK

\* A step of the run of window d, which no longer hangs, leaves the others be.
LEMMA GelesTypes ==
  ASSUME TypeOK, NEW d \in Windows, geles' \subseteq geles, d \notin geles',
         echec' \subseteq echec \cup {d},
         \A e \in Windows \ {d} : pc'[e] = pc[e]
  PROVE  geles' \subseteq {e \in Windows : pc'[e] \in Tasks} \ echec'
BY DEF TypeOK

LEMMA TypeStep == TypeOK /\ [Next]_vars => TypeOK'
<1> SUFFICES ASSUME TypeOK, [Next]_vars
             PROVE  TypeOK'
  OBVIOUS
<1> USE DEF postgres, runs, raw
<1>1. CASE NextDay
  BY <1>1, Bounds DEF NextDay, TypeOK
<1>2. ASSUME NEW r \in Cles, NEW d \in Windows, Write(r, d)
      PROVE  TypeOK'
  <2>1. source[r].version + 1 \in 0 .. MaxVersion
    BY <1>2, Bounds DEF Write, TypeOK
  <2>2. source' \in [Cles -> [version : 0 .. MaxVersion, jour : Windows]]
    BY <1>2, <2>1 DEF Write, TypeOK
  <2>3. QED
    BY <1>2, <2>2 DEF Write, TypeOK
<1>3. ASSUME NEW r \in Cles, Delete(r)
      PROVE  TypeOK'
  BY <1>3 DEF Delete, TypeOK
<1>4. ASSUME NEW d \in Windows, Trigger(d) \/ Clear(d) \/ ClearFailed(d)
      PROVE  TypeOK'
  <2>1. PICK step \in Tasks : Go(d, step)
    BY <1>4 DEF Trigger, Clear, ClearFailed, TypeOK, Tasks
  <2>2. pc' \in [Windows -> Steps] /\ essais' \in [Windows -> 0 .. Retries]
    BY <2>1, GoTypes DEF Steps
  <2>3. \A e \in Windows : pc'[e] \in Tasks \/ pc'[e] = pc[e]
    BY <2>1 DEF Go, TypeOK
  <2>4. geles' = geles /\ echec' \subseteq echec
    BY <1>4, <2>1 DEF Go, Trigger, Clear, ClearFailed
  <2>5. geles' \subseteq {e \in Windows : pc'[e] \in Tasks} \ echec'
    BY <2>3, <2>4 DEF TypeOK
  <2>6. QED
    BY <1>4, <2>2, <2>3, <2>5 DEF Trigger, Clear, ClearFailed, TypeOK
<1>5. ASSUME NEW d \in Windows, Extract(d)
      PROVE  TypeOK'
  <2>1. CASE ~Closed(d)
    <3>1. geles' \subseteq {e \in Windows : pc'[e] \in Tasks} \ echec'
      BY <1>5, <2>1, GelesTypes DEF Extract, FailForGood
    <3>2. QED
      BY <1>5, <2>1, <3>1 DEF Extract, FailForGood, TypeOK, Tasks
  <2>2. CASE Closed(d)
    <3>1. PICK step \in Steps : Go(d, step)
      BY <1>5, <2>2 DEF Extract, Steps, Tasks
    <3>2. pc' \in [Windows -> Steps] /\ essais' \in [Windows -> 0 .. Retries]
      BY <3>1, GoTypes
    <3>3. parquet' \in [Windows -> SUBSET Lignes] /\ tardives' \subseteq Cles
      BY <1>5, <2>2, ReadWindowTypes DEF Extract
    <3>4. geles' = geles /\ \A e \in Windows \ {d} : pc'[e] = pc[e]
      BY <3>1, GoTypes
    <3>5. geles' \subseteq {e \in Windows : pc'[e] \in Tasks} \ echec'
      BY <1>5, <2>2, <3>4, GelesTypes DEF Extract
    <3>6. QED
      BY <1>5, <2>2, <3>2, <3>3, <3>4, <3>5 DEF Extract, TypeOK
  <2>3. QED
    BY <2>1, <2>2
<1>6. ASSUME NEW d \in Windows, Validate(d)
      PROVE  TypeOK'
  <2>1. CASE Go(d, "load") /\ UNCHANGED echec
    <3>1. pc' \in [Windows -> Steps] /\ essais' \in [Windows -> 0 .. Retries]
      BY <2>1, GoTypes DEF Steps, Tasks
    <3>2. geles' = geles /\ \A e \in Windows \ {d} : pc'[e] = pc[e]
      BY <2>1, GoTypes DEF Steps, Tasks
    <3>3. geles' \subseteq {e \in Windows : pc'[e] \in Tasks} \ echec'
      BY <1>6, <2>1, <3>2, GelesTypes DEF Validate
    <3>4. QED
      BY <1>6, <2>1, <3>1, <3>2, <3>3 DEF Validate, TypeOK
  <2>2. CASE FailForGood(d)
    <3>1. geles' \subseteq {e \in Windows : pc'[e] \in Tasks} \ echec'
      BY <1>6, <2>2, GelesTypes DEF Validate, FailForGood
    <3>2. QED
      BY <1>6, <2>2, <3>1 DEF Validate, FailForGood, TypeOK, Tasks
  <2>3. QED
    BY <1>6, <2>1, <2>2 DEF Validate
<1>7. ASSUME NEW d \in Windows, Skip(d)
      PROVE  TypeOK'
  <2>1. pc' \in [Windows -> Steps] /\ essais' \in [Windows -> 0 .. Retries]
    BY <1>7, GoTypes DEF Skip, Steps
  <2>2. geles' = geles /\ \A e \in Windows \ {d} : pc'[e] = pc[e]
    BY <1>7, GoTypes DEF Skip, Steps
  <2>3. geles' \subseteq {e \in Windows : pc'[e] \in Tasks} \ echec'
    BY <1>7, <2>2, GelesTypes DEF Skip
  <2>4. QED
    BY <1>7, <2>1, <2>2, <2>3 DEF Skip, TypeOK
<1>8. ASSUME NEW d \in Windows, GetTable(d)
      PROVE  TypeOK'
  BY <1>8 DEF GetTable, TypeOK, Steps, Tasks
<1>9. ASSUME NEW d \in Windows, Job(d)
      PROVE  TypeOK'
  <2>1. pc' \in [Windows -> Steps] /\ essais' \in [Windows -> 0 .. Retries]
    BY <1>9, GoTypes DEF Job, Steps
  <2>2. geles' = geles /\ \A e \in Windows \ {d} : pc'[e] = pc[e]
    BY <1>9, GoTypes DEF Job, Steps
  <2>3. existe' \in BOOLEAN /\ partition' \in [Windows -> SUBSET Lignes]
    BY <1>9, WriteTruncateTypes DEF Job
  <2>4. geles' \subseteq {e \in Windows : pc'[e] \in Tasks} \ echec'
    BY <1>9, <2>2, GelesTypes DEF Job
  <2>5. QED
    BY <1>9, <2>1, <2>2, <2>3, <2>4 DEF Job, TypeOK
<1>10. ASSUME NEW d \in Windows, AttemptFails(d)
       PROVE  TypeOK'
  <2>1. /\ existe' \in BOOLEAN /\ partition' \in [Windows -> SUBSET Lignes]
        /\ parquet' \in [Windows -> SUBSET Lignes] /\ tardives' \subseteq Cles
    <3>1. CASE UNCHANGED <<parquet, raw, tardives>>
      BY <3>1 DEF TypeOK
    <3>2. CASE ReadWindow(d) /\ UNCHANGED raw
      BY <3>2, ReadWindowTypes DEF TypeOK
    <3>3. CASE WriteTruncate(d) /\ UNCHANGED <<parquet, tardives>>
      BY <3>3, WriteTruncateTypes DEF TypeOK
    <3>4. QED
      BY <1>10, <3>1, <3>2, <3>3 DEF AttemptFails
  <2>2. PICK task \in Tasks : pc' = [pc EXCEPT ![d] = task]
    <3> DEFINE t == IF pc[d] = "job" THEN "load" ELSE pc[d]
    <3>1. t \in Tasks
      BY <1>10 DEF AttemptFails, Active, Tasks
    <3>2. pc' = [pc EXCEPT ![d] = t]
      BY <1>10 DEF AttemptFails
    <3>3. QED
      BY <3>1, <3>2
  <2>3. /\ echec' \subseteq echec \cup {d}
        /\ essais' \in [Windows -> 0 .. Retries]
    BY <1>10, Bounds DEF AttemptFails, MayRetry, TypeOK
  <2>4. /\ pc' \in [Windows -> Steps]
        /\ echec' \subseteq {e \in Windows : pc'[e] \in Tasks}
    BY <2>2, <2>3 DEF TypeOK, Steps
  <2>5. UNCHANGED <<jour, source, supprimes, fichiers, amorcage>>
    BY <1>10 DEF AttemptFails
  <2>6. geles' \subseteq {e \in Windows : pc'[e] \in Tasks} \ echec'
    <3>1. geles' = geles \ {d}
      BY <1>10 DEF AttemptFails
    <3>2. \A e \in Windows \ {d} : pc'[e] = pc[e]
      BY <2>2 DEF TypeOK
    <3>3. QED
      BY <2>3, <3>1, <3>2, GelesTypes
  <2>7. QED
    BY <2>1, <2>3, <2>4, <2>5, <2>6 DEF TypeOK
<1>11. ASSUME NEW d \in Windows, Hang(d) \/ Resume(d)
       PROVE  TypeOK'
  BY <1>11 DEF Hang, Resume, Active, TypeOK
<1>12. ASSUME NEW d \in Windows, Expire(d)
       PROVE  TypeOK'
  BY <1>12 DEF Expire, TypeOK
<1>13. CASE UNCHANGED vars
  BY <1>13 DEF vars, TypeOK
<1>14. QED
  BY <1>1, <1>2, <1>3, <1>4, <1>5, <1>6, <1>7, <1>8, <1>9, <1>10, <1>11, <1>12,
     <1>13 DEF Next

\* Type correctness of the batch path.
THEOREM TypeCorrect == Spec => []TypeOK
BY TypeInit, TypeStep, PTL DEF Spec

-----------------------------------------------------------------------------
(***************************************************************************)
(* The inductive invariant.                                                *)
(***************************************************************************)
\* One run at a time, and a load job that is waited for has not failed.
ControlInv ==
  /\ \A d, e \in Windows : Active(d) /\ Active(e) => d = e
  /\ \A d \in Windows : pc[d] = "job" => d \notin echec

\* What the first load finds: while the table does not exist nothing was ever
\* loaded, and a run that saw no table is still right when its job is written.
TableInv ==
  /\ ~existe => \A d \in Windows : partition[d] = {} /\ pc[d] # "done"
  /\ \A d \in amorcage : pc[d] = "job" => ~existe

\* A window is read once it is over.
ReadInv == \A d \in Windows : pc[d] \in Lues => Closed(d)

\* Files and partitions hold past or present versions.
PastInv ==
  \A d \in Windows : \A l \in parquet[d] \cup partition[d] :
    /\ l.version <= source[l.cle].version
    /\ l.jour <= source[l.cle].jour

\* The present versions of a partition are in the file of its window: whatever
\* file is loaded next, they stay.
KeptInv == \A d \in Windows : partition[d] \cap InWindow(d) \subseteq parquet[d]

Ligne(r) ==
  [cle |-> r, version |-> source[r].version, jour |-> source[r].jour]

\* Once the window of a row has been read, its present version is in the file
\* and the run goes on to load it, unless the version came late.
FileInv ==
  \A r \in Existing \ tardives :
    pc[source[r].jour] \in Lues =>
      /\ Ligne(r) \in parquet[source[r].jour]
      /\ source[r].jour \in fichiers
      /\ pc[source[r].jour] # "skipped"

Inv ==
  /\ TypeOK
  /\ ControlInv
  /\ TableInv
  /\ PartitionIsItsFile
  /\ ReadInv
  /\ PastInv
  /\ KeptInv
  /\ FileInv

LEMMA InvInit == Init => Inv
<1> SUFFICES ASSUME Init
             PROVE  Inv
  OBVIOUS
<1>1. TypeOK
  BY TypeInit
<1>2. /\ \A d \in Windows : /\ pc[d] = "none"
                             /\ parquet[d] = {} /\ partition[d] = {}
      /\ amorcage = {}
  BY DEF Init
<1>3. ControlInv
  BY <1>2 DEF ControlInv, Active, Tasks
<1>4. TableInv /\ PartitionIsItsFile
  BY <1>2 DEF TableInv, PartitionIsItsFile
<1>5. ReadInv
  BY <1>2 DEF ReadInv, Lues
<1>6. PastInv /\ KeptInv
  BY <1>2 DEF PastInv, KeptInv
<1>7. FileInv
  <2>1. ASSUME NEW r \in Existing
        PROVE  source[r].jour \in Windows
    BY <1>1 DEF Existing, TypeOK
  <2>2. QED
    BY <1>2, <2>1 DEF FileInv, Lues
<1>8. QED
  BY <1>1, <1>3, <1>4, <1>5, <1>6, <1>7 DEF Inv

-----------------------------------------------------------------------------
(***************************************************************************)
(* Steps of the source.                                                    *)
(***************************************************************************)
LEMMA RowsExist ==
  ASSUME TypeOK, NEW r \in Existing
  PROVE  /\ r \in Cles /\ source[r].jour \in Windows
         /\ Ligne(r) \in InWindow(source[r].jour)
BY DEF Existing, InWindow, Ligne, TypeOK

LEMMA SourceStep ==
  ASSUME Inv, TypeOK', UNCHANGED <<runs, parquet, raw>>,
         jour <= jour',
         \A d \in Windows : \A l \in parquet[d] \cup partition[d] :
           /\ source[l.cle].version <= source'[l.cle].version
           /\ source[l.cle].jour <= source'[l.cle].jour,
         \A d \in Windows :
           partition[d] \cap InWindow(d)' \subseteq InWindow(d),
         \A r \in (Existing \ tardives)' :
           \/ r \in Existing \ tardives /\ source'[r] = source[r]
           \/ ~Closed(source'[r].jour)
  PROVE  Inv'
<1>1. UNCHANGED <<pc, echec, essais, fichiers, amorcage, parquet, existe,
                  partition>>
  BY DEF runs, raw
<1>2. ControlInv' /\ TableInv' /\ PartitionIsItsFile'
  <2>1. jour \in Nat /\ jour' \in Nat
    BY Bounds DEF Inv, TypeOK
  <2>2. \A d \in Windows : Expired(d) => Expired(d)'
    BY <2>1, Bounds DEF Expired
  <2>3. QED
    BY <1>1, <2>2
       DEF Inv, ControlInv, TableInv, PartitionIsItsFile, Active
<1>3. ReadInv'
  <2>1. jour \in Nat /\ jour' \in Nat
    BY Bounds DEF Inv, TypeOK
  <2>2. \A d \in Windows : Closed(d) => Closed(d)'
    BY <2>1, Bounds DEF Closed
  <2>3. QED
    BY <1>1, <2>2 DEF Inv, ReadInv
<1>4. PastInv'
  <2>1. ASSUME NEW d \in Windows, NEW l \in parquet[d] \cup partition[d]
        PROVE  /\ l.version <= source'[l.cle].version
               /\ l.jour <= source'[l.cle].jour
    <3>1. /\ l.cle \in Cles /\ l.version \in Nat /\ l.jour \in Nat
          /\ source[l.cle].version \in Nat /\ source[l.cle].jour \in Nat
      BY Numbers DEF Inv
    <3>2. source'[l.cle].version \in Nat /\ source'[l.cle].jour \in Nat
      <4>1. source'[l.cle] \in [version : 0 .. MaxVersion, jour : Windows]
        BY <3>1 DEF TypeOK
      <4>2. /\ source'[l.cle].version \in 0 .. MaxVersion
            /\ source'[l.cle].jour \in Windows
        BY <4>1
      <4>3. QED
        BY <4>2, Bounds
    <3>3. /\ l.version <= source[l.cle].version
          /\ l.jour <= source[l.cle].jour
      BY DEF Inv, PastInv
    <3>4. QED
      BY <3>1, <3>2, <3>3
  <2>2. QED
    BY <1>1, <2>1 DEF PastInv
<1>5. KeptInv'
  BY <1>1 DEF Inv, KeptInv
<1>6. FileInv'
  <2>1. ASSUME NEW r \in (Existing \ tardives)',
               pc[source'[r].jour] \in Lues
        PROVE  /\ Ligne(r)' \in parquet[source'[r].jour]
               /\ source'[r].jour \in fichiers
               /\ pc[source'[r].jour] # "skipped"
    <3>1. CASE r \in Existing \ tardives /\ source'[r] = source[r]
      BY <2>1, <3>1 DEF Inv, FileInv, Ligne
    <3>2. CASE ~Closed(source'[r].jour)
      <4>1. source'[r].jour \in Windows
        BY DEF Existing, TypeOK
      <4>2. QED
        BY <2>1, <3>2, <4>1 DEF Inv, ReadInv
    <3>3. QED
      BY <3>1, <3>2
  <2>2. QED
    BY <1>1, <2>1 DEF FileInv
<1>7. QED
  BY <1>2, <1>3, <1>4, <1>5, <1>6 DEF Inv

LEMMA NextDayStep == Inv /\ TypeOK' /\ NextDay => Inv'
<1> SUFFICES ASSUME Inv, TypeOK', NextDay
             PROVE  Inv'
  OBVIOUS
<1>1. /\ UNCHANGED <<runs, parquet, raw, tardives, source, supprimes>>
      /\ jour <= jour'
  BY Bounds DEF NextDay, Inv, TypeOK
<1>2. /\ Existing' = Existing
      /\ \A d \in Windows : InWindow(d)' = InWindow(d)
  BY <1>1 DEF Existing, InWindow
<1>3. \A d \in Windows : \A l \in parquet[d] \cup partition[d] :
        /\ source[l.cle].version <= source'[l.cle].version
        /\ source[l.cle].jour <= source'[l.cle].jour
  <2>1. ASSUME NEW d \in Windows, NEW l \in parquet[d] \cup partition[d]
        PROVE  source[l.cle].version \in Nat /\ source[l.cle].jour \in Nat
    BY Numbers DEF Inv
  <2>2. QED
    BY <1>1, <2>1
<1>4. QED
  BY <1>1, <1>2, <1>3, SourceStep

LEMMA DeleteStep ==
  ASSUME Inv, TypeOK', NEW r \in Cles, Delete(r)
  PROVE  Inv'
<1>1. /\ UNCHANGED <<runs, parquet, raw, tardives, source, jour>>
      /\ jour <= jour' /\ supprimes \subseteq supprimes'
  BY Bounds DEF Delete, Inv, TypeOK
<1>2. /\ Existing' \subseteq Existing
      /\ \A d \in Windows : InWindow(d)' \subseteq InWindow(d)
  BY <1>1 DEF Existing, InWindow
<1>3. \A d \in Windows : \A l \in parquet[d] \cup partition[d] :
        /\ source[l.cle].version <= source'[l.cle].version
        /\ source[l.cle].jour <= source'[l.cle].jour
  <2>1. ASSUME NEW d \in Windows, NEW l \in parquet[d] \cup partition[d]
        PROVE  source[l.cle].version \in Nat /\ source[l.cle].jour \in Nat
    BY Numbers DEF Inv
  <2>2. QED
    BY <1>1, <2>1
<1>4. QED
  BY <1>1, <1>2, <1>3, SourceStep

LEMMA WriteStep ==
  ASSUME Inv, TypeOK', NEW r \in Cles, NEW d \in Windows, Write(r, d)
  PROVE  Inv'
<1>1. /\ UNCHANGED <<runs, parquet, raw, jour, supprimes>>
      /\ source'[r] = [version |-> source[r].version + 1, jour |-> d]
      /\ \A x \in Cles \ {r} : source'[x] = source[x]
      /\ tardives' = IF d < jour THEN tardives \cup {r} ELSE tardives \ {r}
      /\ d <= jour
      /\ source[r].jour <= d
  BY Bounds DEF Write, Inv, TypeOK
<1>2. /\ jour \in Nat /\ d \in Nat
      /\ \A x \in Cles : source[x].version \in Nat /\ source[x].jour \in Nat
  BY Numbers, Bounds DEF Inv
<1>3. ASSUME NEW e \in Windows, NEW l \in parquet[e] \cup partition[e]
      PROVE  /\ l.cle \in Cles /\ l.version \in Nat /\ l.version > 0
             /\ l.version <= source[l.cle].version
             /\ source[l.cle].version <= source'[l.cle].version
             /\ source[l.cle].jour <= source'[l.cle].jour
  <2>1. l.cle \in Cles /\ l.version \in Nat /\ l.version > 0
    BY Numbers DEF Inv
  <2>2. l.version <= source[l.cle].version
    BY DEF Inv, PastInv
  <2>3. QED
    BY <1>1, <1>2, <2>1, <2>2
<1>4. ASSUME NEW e \in Windows
      PROVE  partition[e] \cap InWindow(e)' \subseteq InWindow(e)
  <2>1. ASSUME NEW l \in partition[e], l \in InWindow(e)'
        PROVE  l \in InWindow(e)
    <3>1. PICK x \in Existing' :
            /\ source'[x].jour = e
            /\ l = [cle |-> x, version |-> source'[x].version, jour |-> e]
      BY <2>1 DEF InWindow
    <3>2. l.cle = x /\ l.version = source'[x].version /\ x \in Cles
      BY <3>1 DEF Existing
    <3>3. x # r
      BY <1>1, <1>2, <1>3, <3>2
    <3>4. source'[x] = source[x] /\ x \in Existing
      BY <1>1, <3>1, <3>2, <3>3 DEF Existing
    <3>5. QED
      BY <3>1, <3>4 DEF InWindow
  <2>2. QED
    BY <2>1
<1>5. ASSUME NEW x \in (Existing \ tardives)'
      PROVE  \/ x \in Existing \ tardives /\ source'[x] = source[x]
             \/ ~Closed(source'[x].jour)
  <2>1. CASE x = r
    BY <1>1, <1>2, <2>1 DEF Closed
  <2>2. CASE x # r
    BY <1>1, <2>2 DEF Existing
  <2>3. QED
    BY <2>1, <2>2
<1>6. jour <= jour'
  BY <1>1, <1>2
<1>7. QED
  BY <1>1, <1>3, <1>4, <1>5, <1>6, SourceStep

-----------------------------------------------------------------------------
(***************************************************************************)
(* Steps of the runs.                                                      *)
(***************************************************************************)
LEMMA FreeSlot ==
  ASSUME MaxActive = 1, Slot, NEW d \in Windows
  PROVE  ~Active(d)
<1> DEFINE S == {e \in Windows : Active(e)}
<1>1. IsFiniteSet(S) /\ Cardinality(S) \in Nat
  <2>1. IsFiniteSet(S)
    BY Bounds, FS_Subset
  <2>2. QED
    BY <2>1, FS_CardinalityType
<1>2. Cardinality(S) = 0
  BY <1>1 DEF Slot
<1>3. S = {}
  BY <1>1, <1>2, FS_EmptySet
<1>4. QED
  BY <1>3

\* A run starts, or starts again, at its first task or at the one that failed.
LEMMA StartStep ==
  ASSUME MaxActive = 1, Inv, TypeOK', NEW d \in Windows,
         Trigger(d) \/ Clear(d) \/ ClearFailed(d)
  PROVE  Inv'
<1>1. /\ UNCHANGED <<jour, source, supprimes, fichiers, amorcage, parquet,
                     existe, partition, tardives>>
      /\ \A e \in Windows : ~Active(e)
      /\ echec' \subseteq echec
      /\ echec \subseteq echec' \cup {d}
      /\ pc'[d] = "extract" \/ (d \in echec /\ pc'[d] = pc[d])
      /\ \A e \in Windows \ {d} : pc'[e] = pc[e]
  <2>1. Slot
    BY DEF Trigger, Clear, ClearFailed
  <2>2. \A e \in Windows : ~Active(e)
    BY <2>1, FreeSlot
  <2>3. pc \in [Windows -> Steps]
    BY DEF Inv, TypeOK
  <2>4. CASE Trigger(d)
    BY <2>2, <2>3, <2>4 DEF Trigger, Go, postgres, raw
  <2>5. CASE Clear(d)
    BY <2>2, <2>3, <2>5 DEF Clear, Go, postgres, raw
  <2>6. CASE ClearFailed(d)
    BY <2>2, <2>3, <2>6 DEF ClearFailed, Go, postgres, raw
  <2>7. QED
    BY <2>4, <2>5, <2>6
<1>2. ControlInv'
  BY <1>1 DEF Inv, ControlInv, Active
<1>3. TableInv' /\ PartitionIsItsFile'
  BY <1>1 DEF Inv, TableInv, PartitionIsItsFile, Expired, TypeOK
<1>4. ReadInv'
  BY <1>1 DEF Inv, ReadInv, Closed, Lues
<1>5. PastInv' /\ KeptInv'
  BY <1>1 DEF Inv, PastInv, KeptInv, InWindow, Existing
<1>6. FileInv'
  <2>1. ASSUME NEW r \in Existing \ tardives, pc'[source[r].jour] \in Lues
        PROVE  /\ pc[source[r].jour] \in Lues
               /\ pc'[source[r].jour] = pc[source[r].jour]
    BY <1>1, <2>1, RowsExist DEF Inv, Lues
  <2>2. QED
    BY <1>1, <2>1 DEF Inv, FileInv, Existing, Ligne
<1>7. QED
  BY <1>2, <1>3, <1>4, <1>5, <1>6 DEF Inv

\* What reading a window does to the file and to the late versions.
LEMMA ReadStep ==
  ASSUME Inv, NEW d \in Windows, Closed(d), ReadWindow(d), pc[d] = "extract",
         UNCHANGED <<postgres, raw>>
  PROVE  /\ \A l \in parquet'[d] : l \in parquet[d] \/ l \in InWindow(d)
         /\ InWindow(d) \subseteq parquet'[d]
         /\ \A e \in Windows \ {d} : parquet'[e] = parquet[e]
         /\ \A r \in Existing \ tardives' :
              source[r].jour = d \/ r \notin tardives
         /\ PastInv' /\ KeptInv'
<1>1. /\ \A l \in parquet'[d] : l \in parquet[d] \/ l \in InWindow(d)
      /\ InWindow(d) \subseteq parquet'[d]
      /\ \A e \in Windows \ {d} : parquet'[e] = parquet[e]
  BY DEF ReadWindow, Inv, TypeOK
<1>2. \A r \in Existing \ tardives' : source[r].jour = d \/ r \notin tardives
  <2>1. \A l \in InWindow(d) : source[l.cle].jour = d
    BY DEF InWindow
  <2>2. QED
    BY <2>1 DEF ReadWindow
<1>3. ASSUME NEW l \in InWindow(d)
      PROVE  /\ l.version <= source[l.cle].version
             /\ l.jour <= source[l.cle].jour
  <2>1. PICK r \in Existing :
          /\ source[r].jour = d
          /\ l = [cle |-> r, version |-> source[r].version, jour |-> d]
    BY DEF InWindow
  <2>2. /\ l.cle = r /\ l.version = source[r].version
        /\ l.jour = source[r].jour /\ r \in Cles
    BY <2>1 DEF Existing
  <2>3. source[r].version \in Nat /\ source[r].jour \in Nat
    BY <2>2, Numbers DEF Inv
  <2>4. QED
    BY <2>2, <2>3
<1>4. UNCHANGED <<source, supprimes, jour, partition>>
  BY DEF postgres, raw
<1>5. PastInv'
  BY <1>1, <1>3, <1>4 DEF Inv, PastInv
<1>6. KeptInv'
  BY <1>1, <1>4 DEF Inv, KeptInv, InWindow, Existing
<1>7. QED
  BY <1>1, <1>2, <1>5, <1>6

LEMMA ExtractStep ==
  ASSUME Inv, TypeOK', NEW d \in Windows, Extract(d)
  PROVE  Inv'
<1>1. CASE ~Closed(d)
  <2>1. /\ UNCHANGED <<jour, source, supprimes, pc, fichiers, amorcage,
                       parquet, existe, partition, tardives>>
        /\ echec' = echec \cup {d} /\ pc[d] = "extract"
    BY <1>1 DEF Extract, FailForGood, postgres, raw
  <2>2. QED
    BY <2>1 DEF Inv, ControlInv, Active, TableInv, PartitionIsItsFile, Expired,
                ReadInv, PastInv, KeptInv, FileInv, Closed, InWindow, Existing,
                Ligne
<1>2. CASE Closed(d)
  <2>1. /\ UNCHANGED <<jour, source, supprimes, echec, amorcage, existe,
                       partition>>
        /\ ReadWindow(d) /\ pc[d] = "extract" /\ d \notin echec
        /\ pc'[d] \in {"validate", "load", "skipped"}
        /\ InWindow(d) # {} => pc'[d] # "skipped" /\ d \in fichiers'
        /\ \A e \in Windows \ {d} : pc'[e] = pc[e]
        /\ fichiers \subseteq fichiers' \cup {d}
    BY <1>2 DEF Extract, Go, postgres, raw, Inv, TypeOK
  <2>2. /\ InWindow(d) \subseteq parquet'[d]
        /\ \A e \in Windows \ {d} : parquet'[e] = parquet[e]
        /\ \A r \in Existing \ tardives' :
             source[r].jour = d \/ r \notin tardives
        /\ PastInv' /\ KeptInv'
    BY <1>2, <2>1, ReadStep DEF postgres, raw
  <2>3. ControlInv'
    BY <2>1 DEF Inv, ControlInv, Active, Tasks
  <2>4. TableInv' /\ PartitionIsItsFile'
    BY <2>1, <2>2 DEF Inv, TableInv, PartitionIsItsFile, Expired, TypeOK
  <2>5. ReadInv'
    BY <1>2, <2>1 DEF Inv, ReadInv, Closed
  <2>6. FileInv'
    <3>1. ASSUME NEW r \in Existing \ tardives', pc'[source[r].jour] \in Lues
          PROVE  /\ Ligne(r) \in parquet'[source[r].jour]
                 /\ source[r].jour \in fichiers'
                 /\ pc'[source[r].jour] # "skipped"
      <4>1. source[r].jour \in Windows /\ Ligne(r) \in InWindow(source[r].jour)
        BY RowsExist DEF Inv
      <4>2. CASE source[r].jour = d
        BY <2>1, <2>2, <4>1, <4>2
      <4>3. CASE source[r].jour # d
        BY <2>1, <2>2, <3>1, <4>1, <4>3 DEF Inv, FileInv
      <4>4. QED
        BY <4>2, <4>3
    <3>2. QED
      BY <2>1, <3>1 DEF FileInv, Existing, Ligne
  <2>7. QED
    BY <2>2, <2>3, <2>4, <2>5, <2>6 DEF Inv
<1>3. QED
  BY <1>1, <1>2

\* The tasks that move no data.
LEMMA ValidateStep ==
  ASSUME Inv, TypeOK', NEW d \in Windows,
         Validate(d) \/ Skip(d) \/ GetTable(d)
  PROVE  Inv'
<1>1. /\ UNCHANGED <<jour, source, supprimes, fichiers, parquet, existe,
                     partition, tardives>>
      /\ echec' = echec \/ (pc[d] = "validate" /\ echec' = echec \cup {d})
      /\ Active(d) /\ pc[d] \in {"validate", "load"}
      /\ pc'[d] \in {pc[d], "load", "skipped", "job"}
      /\ pc'[d] = "skipped" => d \notin fichiers
      /\ pc'[d] = "job" => /\ d \notin echec'
                           /\ d \in amorcage' => ~existe
      /\ \A e \in Windows \ {d} : /\ pc'[e] = pc[e]
                                  /\ e \in amorcage' <=> e \in amorcage
  <2>1. pc \in [Windows -> Steps]
    BY DEF Inv, TypeOK
  <2>2. CASE Validate(d)
    BY <2>1, <2>2 DEF Validate, Go, FailForGood, postgres, raw, Active, Tasks
  <2>3. CASE Skip(d)
    BY <2>1, <2>3 DEF Skip, Go, postgres, raw, Active, Tasks
  <2>4. CASE GetTable(d)
    BY <2>1, <2>4 DEF GetTable, postgres, raw, Active, Tasks
  <2>5. QED
    BY <2>2, <2>3, <2>4
<1>2. ControlInv'
  BY <1>1 DEF Inv, ControlInv, Active, Tasks
<1>3. TableInv' /\ PartitionIsItsFile'
  BY <1>1 DEF Inv, TableInv, PartitionIsItsFile, Expired, TypeOK
<1>4. ReadInv'
  BY <1>1 DEF Inv, ReadInv, Closed, Lues
<1>5. PastInv' /\ KeptInv'
  BY <1>1 DEF Inv, PastInv, KeptInv, InWindow, Existing
<1>6. FileInv'
  <2>1. ASSUME NEW r \in Existing \ tardives, pc'[source[r].jour] \in Lues
        PROVE  /\ pc[source[r].jour] \in Lues
               /\ source[r].jour \in fichiers =>
                    pc'[source[r].jour] = pc[source[r].jour]
                    \/ pc'[source[r].jour] # "skipped"
    BY <1>1, <2>1, RowsExist DEF Inv, Lues
  <2>2. QED
    BY <1>1, <2>1 DEF Inv, FileInv, Existing, Ligne
<1>7. QED
  BY <1>2, <1>3, <1>4, <1>5, <1>6 DEF Inv

\* With one run at a time, a load writes its partition and no other, even the
\* load that truncates the bare table: there was nothing to lose.
LEMMA LoadWrites ==
  ASSUME Inv, NEW d \in Windows, pc[d] = "job", WriteTruncate(d)
  PROVE  /\ existe' = TRUE
         /\ partition' = [partition EXCEPT ![d] = parquet[d]]
<1>1. CASE d \in amorcage
  <2>1. \A e \in Windows : partition[e] = {}
    BY <1>1 DEF Inv, TableInv
  <2>2. [x \in Windows |-> IF x = d THEN parquet[d] ELSE {}] =
          [partition EXCEPT ![d] = parquet[d]]
    BY <2>1 DEF Inv, TypeOK
  <2>3. QED
    BY <1>1, <2>2 DEF WriteTruncate
<1>2. QED
  BY <1>1 DEF WriteTruncate

LEMMA LoadStep ==
  ASSUME Inv, NEW d \in Windows, pc[d] = "job", WriteTruncate(d),
         UNCHANGED <<postgres, parquet, amorcage>>,
         pc'[d] \in {"done", "load"},
         \A e \in Windows \ {d} : pc'[e] = pc[e]
  PROVE  TableInv' /\ PartitionIsItsFile' /\ PastInv' /\ KeptInv'
<1>1. /\ existe' = TRUE /\ partition'[d] = parquet[d]
      /\ \A e \in Windows \ {d} : partition'[e] = partition[e]
      /\ UNCHANGED <<source, supprimes, jour>>
  BY LoadWrites DEF Inv, TypeOK, postgres
<1>2. \A e \in Windows : pc'[e] # "job"
  BY DEF Inv, ControlInv, Active, Tasks
<1>3. TableInv'
  BY <1>1, <1>2 DEF TableInv, Inv, TypeOK
<1>4. PartitionIsItsFile'
  BY <1>1 DEF Inv, PartitionIsItsFile, Expired
<1>5. PastInv' /\ KeptInv'
  BY <1>1 DEF Inv, PastInv, KeptInv, InWindow, Existing
<1>6. QED
  BY <1>3, <1>4, <1>5

LEMMA JobStep ==
  ASSUME Inv, TypeOK', NEW d \in Windows, Job(d)
  PROVE  Inv'
<1>1. /\ UNCHANGED <<jour, source, supprimes, echec, fichiers, amorcage,
                     parquet, tardives>>
      /\ WriteTruncate(d) /\ pc[d] = "job" /\ pc'[d] = "done"
      /\ \A e \in Windows \ {d} : pc'[e] = pc[e]
  BY DEF Job, Go, postgres, Inv, TypeOK
<1>2. TableInv' /\ PartitionIsItsFile' /\ PastInv' /\ KeptInv'
  BY <1>1, LoadStep DEF postgres
<1>3. ControlInv'
  BY <1>1 DEF Inv, ControlInv, Active, Tasks
<1>4. ReadInv'
  BY <1>1 DEF Inv, ReadInv, Closed, Lues
<1>5. FileInv'
  <2>1. ASSUME NEW r \in Existing \ tardives, pc'[source[r].jour] \in Lues
        PROVE  /\ pc[source[r].jour] \in Lues
               /\ pc[source[r].jour] # "skipped" =>
                    pc'[source[r].jour] # "skipped"
    BY <1>1, <2>1, RowsExist DEF Inv, Lues
  <2>2. QED
    BY <1>1, <2>1 DEF Inv, FileInv, Existing, Ligne
<1>6. QED
  BY <1>2, <1>3, <1>4, <1>5 DEF Inv

LEMMA AttemptStep ==
  ASSUME Inv, TypeOK', NEW d \in Windows, AttemptFails(d)
  PROVE  Inv'
<1>1. /\ UNCHANGED <<jour, source, supprimes, fichiers, amorcage>>
      /\ Active(d)
      /\ pc'[d] = IF pc[d] = "job" THEN "load" ELSE pc[d]
      /\ \A e \in Windows \ {d} : pc'[e] = pc[e]
      /\ echec' = echec \/ echec' = echec \cup {d}
  BY DEF AttemptFails, postgres, Inv, TypeOK
<1>2. ControlInv'
  BY <1>1 DEF Inv, ControlInv, Active, Tasks
<1>3. ReadInv'
  BY <1>1 DEF Inv, ReadInv, Closed, Lues
<1>4. CASE UNCHANGED <<parquet, raw, tardives>>
  <2>1. TableInv' /\ PartitionIsItsFile' /\ PastInv' /\ KeptInv'
    BY <1>1, <1>4 DEF Inv, TableInv, PartitionIsItsFile, Expired, PastInv,
                      KeptInv, raw, InWindow, Existing, TypeOK
  <2>2. FileInv'
    <3>1. ASSUME NEW r \in Existing \ tardives, pc'[source[r].jour] \in Lues
          PROVE  /\ pc[source[r].jour] \in Lues
                 /\ pc[source[r].jour] # "skipped" =>
                      pc'[source[r].jour] # "skipped"
      BY <1>1, <3>1, RowsExist DEF Inv, Lues
    <3>2. QED
      BY <1>1, <1>4, <3>1 DEF Inv, FileInv, Existing, Ligne
  <2>3. QED
    BY <1>2, <1>3, <2>1, <2>2 DEF Inv
<1>5. CASE pc[d] = "extract" /\ Closed(d) /\ ReadWindow(d) /\ UNCHANGED raw
  <2>1. /\ InWindow(d) \subseteq parquet'[d]
        /\ \A e \in Windows \ {d} : parquet'[e] = parquet[e]
        /\ \A r \in Existing \ tardives' :
             source[r].jour = d \/ r \notin tardives
        /\ PastInv' /\ KeptInv'
    BY <1>1, <1>5, ReadStep DEF postgres
  <2>2. TableInv' /\ PartitionIsItsFile'
    BY <1>1, <1>5, <2>1
       DEF Inv, TableInv, PartitionIsItsFile, Expired, raw, TypeOK
  <2>3. FileInv'
    <3>1. ASSUME NEW r \in Existing \ tardives', pc'[source[r].jour] \in Lues
          PROVE  /\ r \notin tardives
                 /\ source[r].jour \in Windows \ {d}
      BY <1>1, <1>5, <2>1, <3>1, RowsExist DEF Inv, Lues
    <3>2. QED
      BY <1>1, <2>1, <3>1 DEF Inv, FileInv, Existing, Ligne
  <2>4. QED
    BY <1>2, <1>3, <2>1, <2>2, <2>3 DEF Inv
<1>6. CASE pc[d] = "job" /\ WriteTruncate(d) /\ UNCHANGED <<parquet, tardives>>
  <2>1. TableInv' /\ PartitionIsItsFile' /\ PastInv' /\ KeptInv'
    BY <1>1, <1>6, LoadStep DEF postgres
  <2>2. FileInv'
    <3>1. ASSUME NEW r \in Existing \ tardives, pc'[source[r].jour] \in Lues
          PROVE  /\ pc[source[r].jour] \in Lues
                 /\ pc[source[r].jour] # "skipped" =>
                      pc'[source[r].jour] # "skipped"
      BY <1>1, <3>1, RowsExist DEF Inv, Lues
    <3>2. QED
      BY <1>1, <1>6, <3>1 DEF Inv, FileInv, Existing, Ligne
  <2>3. QED
    BY <1>2, <1>3, <2>1, <2>2 DEF Inv
<1>7. QED
  BY <1>4, <1>5, <1>6 DEF AttemptFails

\* An attempt that hangs, or goes on, changes none of the data.
LEMMA HangStep ==
  ASSUME Inv, TypeOK', NEW d \in Windows, Hang(d) \/ Resume(d)
  PROVE  Inv'
<1>1. UNCHANGED <<jour, source, supprimes, pc, echec, fichiers, amorcage,
                  parquet, existe, partition, tardives>>
  BY DEF Hang, Resume, postgres, raw
<1>2. ControlInv' /\ TableInv' /\ PartitionIsItsFile'
  BY <1>1 DEF Inv, ControlInv, Active, TableInv, PartitionIsItsFile, Expired
<1>3. ReadInv' /\ PastInv' /\ KeptInv' /\ FileInv'
  BY <1>1 DEF Inv, ReadInv, Closed, PastInv, KeptInv, InWindow, FileInv,
              Existing, Ligne
<1>4. QED
  BY <1>2, <1>3 DEF Inv

LEMMA ExpireStep ==
  ASSUME Inv, TypeOK', NEW d \in Windows, Expire(d)
  PROVE  Inv'
<1>1. /\ UNCHANGED <<jour, source, supprimes, pc, echec, fichiers, amorcage,
                     parquet, existe, tardives>>
      /\ Expired(d) /\ partition'[d] = {}
      /\ \A e \in Windows \ {d} : partition'[e] = partition[e]
  BY DEF Expire, postgres, runs, Inv, TypeOK
<1>2. ControlInv' /\ TableInv' /\ PartitionIsItsFile'
  BY <1>1 DEF Inv, ControlInv, Active, TableInv, PartitionIsItsFile, Expired
<1>3. ReadInv' /\ FileInv'
  BY <1>1 DEF Inv, ReadInv, Closed, FileInv, Existing, Ligne
<1>4. \A e \in Windows : partition'[e] \subseteq partition[e]
  BY <1>1
<1>5. PastInv' /\ KeptInv'
  BY <1>1, <1>4 DEF Inv, PastInv, KeptInv, InWindow, Existing
<1>6. QED
  BY <1>2, <1>3, <1>5 DEF Inv

LEMMA InvStep == MaxActive = 1 /\ Inv /\ [Next]_vars => Inv'
<1> SUFFICES ASSUME MaxActive = 1, Inv, [Next]_vars
             PROVE  Inv'
  OBVIOUS
<1>1. TypeOK'
  BY TypeStep DEF Inv
<1>2. CASE UNCHANGED vars
  BY <1>2 DEF vars, Inv, TypeOK, ControlInv, Active, TableInv,
              PartitionIsItsFile, Expired, ReadInv, Closed, PastInv, KeptInv,
              InWindow, FileInv, Existing, Ligne
<1>3. QED
  BY <1>1, <1>2, NextDayStep, DeleteStep, WriteStep, StartStep, ExtractStep,
     ValidateStep, JobStep, AttemptStep, HangStep, ExpireStep DEF Next

LEMMA InvAlways == ASSUME MaxActive = 1 PROVE Spec => []Inv
<1>1. Inv /\ [Next]_vars => Inv'
  BY InvStep
<1>2. QED
  BY <1>1, InvInit, PTL DEF Spec

-----------------------------------------------------------------------------
(***************************************************************************)
(* Theorems.                                                               *)
(***************************************************************************)
\* With one run at a time, a partition whose run is done is the file of its
\* window, until it expires.
THEOREM PartitionSafe ==
  ASSUME MaxActive = 1 PROVE Spec => []PartitionIsItsFile
BY InvAlways, PTL DEF Inv

LEMMA InvIsCurrent == Inv => StagingIsCurrent
<1> SUFFICES ASSUME Inv, NEW r \in Existing \ tardives,
                    pc[source[r].jour] \in {"done", "skipped"},
                    ~Expired(source[r].jour)
             PROVE  \E l \in Versions(r) :
                      /\ l.version = source[r].version
                      /\ \A m \in Versions(r) : After(l, m)
  BY DEF StagingIsCurrent
<1> DEFINE d == source[r].jour
           l == Ligne(r)
<1>1. d \in Windows /\ r \in Cles
  BY RowsExist DEF Inv
<1>2. l \in partition[d]
  BY <1>1 DEF Inv, FileInv, PartitionIsItsFile, Lues
<1>3. l.cle = r /\ l.version = source[r].version /\ l.jour = source[r].jour
  BY DEF Ligne
<1>4. l \in Versions(r)
  BY <1>1, <1>2, <1>3 DEF Versions
<1>5. ASSUME NEW m \in Versions(r)
      PROVE  After(l, m)
  <2>1. PICK e \in Windows : m \in partition[e]
    BY DEF Versions
  <2>2. m.cle = r /\ m.version \in Nat /\ m.jour \in Nat
    BY <2>1, Numbers DEF Versions, Inv
  <2>3. m.version <= source[r].version /\ m.jour <= source[r].jour
    BY <2>1, <2>2 DEF Inv, PastInv
  <2>4. source[r].version \in Nat /\ source[r].jour \in Nat
    BY <1>1, Numbers DEF Inv
  <2>5. QED
    BY <1>3, <2>2, <2>3, <2>4 DEF After
<1>6. QED
  BY <1>3, <1>4, <1>5

\* Once the window of the last version of a row has been loaded, staging shows
\* that version until its partition expires, unless it came late, whatever runs
\* failed, hung or were replayed.
THEOREM StagingCurrent ==
  ASSUME MaxActive = 1 PROVE Spec => []StagingIsCurrent
BY InvAlways, InvIsCurrent, PTL

\* What a step may do to the partitions.
LEMMA PartitionStep ==
  ASSUME Inv, [Next]_vars, NEW d \in Windows
  PROVE  \/ partition'[d] = partition[d]
         \/ pc[d] = "job" /\ partition'[d] = parquet[d]
         \/ Expire(d)
<1>1. ASSUME NEW e \in Windows, pc[e] = "job", WriteTruncate(e)
      PROVE  \/ partition'[d] = partition[d]
             \/ pc[d] = "job" /\ partition'[d] = parquet[d]
  BY <1>1, LoadWrites DEF Inv, TypeOK
<1>2. CASE UNCHANGED partition
  BY <1>2
<1>3. CASE UNCHANGED vars
  BY <1>3 DEF vars
<1>4. ASSUME NEW e \in Windows, Expire(e)
      PROVE  partition'[d] = partition[d] \/ Expire(d)
  BY <1>4 DEF Expire, Inv, TypeOK
<1>5. QED
  BY <1>1, <1>2, <1>3, <1>4
     DEF Next, NextDay, Delete, Write, Trigger, Clear, ClearFailed, Extract,
         Validate, Skip, GetTable, Job, AttemptFails, Hang, Resume, raw

\* A load changes no partition but its own.
THEOREM OthersSafe == ASSUME MaxActive = 1 PROVE Spec => OthersUntouched
<1>1. Inv /\ [Next]_vars =>
        [\A d \in Windows :
           partition'[d] # partition[d] => pc[d] = "job" \/ Expire(d)]_vars
  BY PartitionStep
<1>2. QED
  BY <1>1, InvAlways, PTL DEF Spec, OthersUntouched

\* What a load, retry or replay takes out of the raw table is not the present
\* version of an existing row.
THEOREM ReplaySafe == ASSUME MaxActive = 1 PROVE Spec => CurrentKept
<1>1. Inv /\ [Next]_vars =>
        [\A d \in Windows :
           \/ partition[d] \cap InWindow(d) \subseteq partition'[d]
           \/ Expire(d)]_vars
  BY PartitionStep DEF Inv, KeptInv
<1>2. QED
  BY <1>1, InvAlways, PTL DEF Spec, CurrentKept

=============================================================================
