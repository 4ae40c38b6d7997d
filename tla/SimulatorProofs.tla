-------------------------- MODULE SimulatorProofs --------------------------
(***************************************************************************)
(* The simulator, for any number of commands, bookings and turns.          *)
(*                                                                         *)
(* No booking with a payment is ever cancelled or deleted, although the    *)
(* commands update rows that they read earlier.  The reason is not that    *)
(* the rows read are fresh: it is that everything ever written for a paid  *)
(* booking, committed or not, and every status that any command has read   *)
(* of it, is confirmed or completed (PaidInv).  It needs that a row read   *)
(* was already written, and that its first status does not change          *)
(* (ReadInv): a payment comes with the insertion only.                     *)
(*                                                                         *)
(* What is in simulation_log.jsonl is then compared with what was written, *)
(* committed or not (Histoire, in the second part), from which the journal *)
(* is the audit, no committed change is untraced, a final status stays and *)
(* a turn closes the stays that had elapsed when it began.                 *)
(***************************************************************************)
EXTENDS Simulator, SequenceTheorems, TLAPS

Ecrits == Seq(Statuts \cup {"D"})
Elts(s) == {s[i] : i \in DOMAIN s}

-----------------------------------------------------------------------------
(***************************************************************************)
(* Sequences.                                                              *)
(***************************************************************************)
LEMMA ConcatElts ==
  ASSUME NEW S, NEW s \in Seq(S), NEW t \in Seq(S)
  PROVE  /\ s \o t \in Seq(S)
         /\ Elts(s \o t) = Elts(s) \cup Elts(t)
         /\ s \o t = <<>> <=> s = <<>> /\ t = <<>>
         /\ s # <<>> => Head(s \o t) = Head(s)
<1>1. /\ s \o t \in Seq(S)
      /\ Len(s \o t) = Len(s) + Len(t)
      /\ \A i \in 1 .. Len(s) + Len(t) :
           (s \o t)[i] = IF i <= Len(s) THEN s[i] ELSE t[i - Len(s)]
  BY ConcatProperties
<1>2. Len(s) \in Nat /\ Len(t) \in Nat
  OBVIOUS
<1>3. /\ DOMAIN s = 1 .. Len(s) /\ DOMAIN t = 1 .. Len(t)
      /\ DOMAIN (s \o t) = 1 .. Len(s) + Len(t)
  BY <1>1
<1>4. Elts(s \o t) \subseteq Elts(s) \cup Elts(t)
  <2>1. ASSUME NEW i \in 1 .. Len(s) + Len(t)
        PROVE  (s \o t)[i] \in Elts(s) \cup Elts(t)
    BY <1>1, <1>2, <1>3 DEF Elts
  <2>2. QED
    BY <1>3, <2>1 DEF Elts
<1>5. Elts(s) \subseteq Elts(s \o t)
  <2>1. ASSUME NEW i \in 1 .. Len(s)
        PROVE  i \in 1 .. Len(s) + Len(t) /\ (s \o t)[i] = s[i]
    BY <1>1, <1>2
  <2>2. QED
    BY <1>3, <2>1 DEF Elts
<1>6. Elts(t) \subseteq Elts(s \o t)
  <2>1. ASSUME NEW i \in 1 .. Len(t)
        PROVE  /\ i + Len(s) \in 1 .. Len(s) + Len(t)
               /\ (s \o t)[i + Len(s)] = t[i]
    BY <1>1, <1>2
  <2>2. QED
    BY <1>3, <2>1 DEF Elts
<1>7. s \o t = <<>> <=> s = <<>> /\ t = <<>>
  BY <1>1, <1>2
<1>8. ASSUME s # <<>>
      PROVE  Head(s \o t) = Head(s)
  <2>1. 1 \in 1 .. Len(s) /\ Head(s) = s[1] /\ Head(s \o t) = (s \o t)[1]
    BY <1>1, <1>2, <1>8
  <2>2. QED
    BY <1>1, <1>2, <2>1
<1>9. QED
  BY <1>1, <1>4, <1>5, <1>6, <1>7, <1>8

LEMMA DernierElt ==
  ASSUME NEW S, NEW s \in Seq(S)
  PROVE  /\ s # <<>> => Dernier(s) \in Elts(s)
         /\ Elts(s) \subseteq S
BY DEF Dernier, Elts

LEMMA HeadElt ==
  ASSUME NEW S, NEW s \in Seq(S), s # <<>>
  PROVE  Head(s) \in Elts(s)
BY DEF Elts

-----------------------------------------------------------------------------
(***************************************************************************)
(* Types.                                                                  *)
(***************************************************************************)
LEMMA TypeInit == Init => TypeOK
<1> SUFFICES ASSUME Init
             PROVE  TypeOK
  OBVIOUS
<1>1. audit \in [Resas -> Seq(Statuts \cup {"D"})]
  <2>1. \A x \in Statuts : <<x>> \in Seq(Statuts \cup {"D"})
    OBVIOUS
  <2>2. ASSUME NEW b \in Resas
        PROVE  audit[b] \in Seq(Statuts \cup {"D"})
    <3>1. CASE audit[b] = <<>>
      BY <3>1
    <3>2. CASE \E x \in Statuts : audit[b] = <<x>>
      BY <2>1, <3>2
    <3>3. audit[b] \in {<<>>} \cup {<<x>> : x \in Statuts}
      BY DEF Init
    <3>4. QED
      BY <3>1, <3>2, <3>3
  <2>3. QED
    BY <2>2 DEF Init
<1>2. journal \in [Resas -> Seq(Statuts \cup {"insert", "D"})]
  <2>1. ASSUME NEW b \in Resas
        PROVE  [i \in DOMAIN audit[b] |-> "insert"] \in
                 Seq(Statuts \cup {"insert", "D"})
    BY <1>1
  <2>2. QED
    BY <2>1 DEF Init
<1>3. QED
  BY <1>1, <1>2, BoundsAssumption DEF Init, TypeOK, Rien, Etapes

LEMMA EcrireTypes ==
  ASSUME TypeOK, NEW p \in Procs, NEW b \in Resas, NEW lu,
         NEW suite \in Ecrits, Ecrire(p, b, lu, suite)
  PROVE  /\ ecrits' \in [Procs -> [Resas -> Ecrits]]
         /\ journal' \in [Resas -> Seq(Statuts \cup {"insert", "D"})]
         /\ trouble' \subseteq Resas
<1>1. ecrits[p][b] \o suite \in Ecrits
  BY ConcatElts DEF TypeOK, Ecrits
<1>2. journal[b] \o suite \in Seq(Statuts \cup {"insert", "D"})
  <2>1. suite \in Seq(Statuts \cup {"insert", "D"})
    BY DEF Ecrits
  <2>2. QED
    BY <2>1, ConcatElts DEF TypeOK
<1>3. QED
  BY <1>1, <1>2 DEF Ecrire, TypeOK, Ecrits

LEMMA InsererTypes ==
  ASSUME TypeOK, NEW p \in Procs, NEW b \in Resas, NEW s \in Statuts,
         Inserer(p, b, s)
  PROVE  /\ ecrits' \in [Procs -> [Resas -> Ecrits]]
         /\ journal' \in [Resas -> Seq(Statuts \cup {"insert", "D"})]
         /\ UNCHANGED <<lus, trouble>>
<1>1. <<s>> \in Ecrits /\ <<"insert">> \in Seq(Statuts \cup {"insert", "D"})
  BY DEF Ecrits
<1>2. QED
  BY <1>1 DEF Inserer, TypeOK, Ecrits

\* Between two turns a command has written nothing: without this, Commencer
\* could read a status of its own past.
IdleInv == \A p \in Procs : pc[p] = "repos" => ecrits[p] = Rien
TypeInv == TypeOK /\ IdleInv

LEMMA VisibleIdle ==
  ASSUME TypeInv, NEW p \in Procs, pc[p] = "repos", NEW b \in Resas
  PROVE  Visible(p, b) = Statut(b)
<1>1. ecrits[p][b] = <<>> /\ audit[b] \in Ecrits
  BY DEF TypeInv, TypeOK, IdleInv, Rien, Ecrits
<1>2. audit[b] \o <<>> = audit[b]
  BY <1>1, ConcatEmptySeq DEF Ecrits
<1>3. QED
  BY <1>1, <1>2 DEF Visible, Statut

LEMMA LusTypes ==
  ASSUME TypeOK, NEW p \in Procs, NEW B \in SUBSET Resas,
         \A b \in B : Visible(p, b) \in Statuts
  PROVE  LuesPar(p, B) \in [Procs -> SUBSET Lignes]
BY DEF LuesPar, Lignes, TypeOK

LEMMA TypeStep == TypeInv /\ [Next]_vars => TypeInv'
<1> SUFFICES ASSUME TypeInv, [Next]_vars
             PROVE  TypeInv'
  OBVIOUS
<1> USE DEF TypeInv, TypeOK, IdleInv
<1>1. ASSUME NEW b \in Resas, PasseDepart(b) \/ Vieillit(b)
      PROVE  TypeInv'
  BY <1>1 DEF PasseDepart, Vieillit, tour
<1>2. ASSUME NEW p \in Procs, Commencer(p)
      PROVE  TypeInv'
  <2>1. \A b \in SejoursEcoules : b \in Resas /\ Visible(p, b) \in Statuts
    BY <1>2, VisibleIdle DEF Commencer, SejoursEcoules, Statuts
  <2>2. lus' \in [Procs -> SUBSET Lignes]
    BY <1>2, <2>1, LusTypes DEF Commencer
  <2>3. tours' \in 0 .. MaxTours
    BY <1>2, BoundsAssumption DEF Commencer
  <2>4. QED
    BY <1>2, <2>2, <2>3 DEF Commencer, Etapes
<1>3. ASSUME NEW p \in Procs, NEW l \in lus[p], NEW suite \in Ecrits,
             Ecrire(p, l.resa, l.statut, suite), lus' = Faite(p, l),
             pc[p] # "repos",
             pc' = pc \/ pc' = [pc EXCEPT ![p] = "defauts"]
      PROVE  TypeInv'
  <2>1. l.resa \in Resas
    BY DEF Lignes
  <2>2. /\ ecrits' \in [Procs -> [Resas -> Ecrits]]
        /\ journal' \in [Resas -> Seq(Statuts \cup {"insert", "D"})]
        /\ trouble' \subseteq Resas
    BY <1>3, <2>1, EcrireTypes
  <2>3. lus' \in [Procs -> SUBSET Lignes]
    BY <1>3 DEF Faite
  <2>4. TypeOK'
    BY <1>3, <2>2, <2>3 DEF Ecrire, Ecrits, Etapes
  <2>5. \A q \in Procs \ {p} : ecrits'[q] = ecrits[q] /\ pc'[q] = pc[q]
    BY <1>3 DEF Ecrire
  <2>6. pc'[p] # "repos"
    BY <1>3
  <2>7. IdleInv'
    BY <2>5, <2>6 DEF Rien
  <2>8. QED
    BY <2>4, <2>7
<1>4. ASSUME NEW p \in Procs, CompletePastStays(p)
      PROVE  TypeInv'
  <2>1. \A l : <<IF l.statut = "confirmed" THEN "completed" ELSE "cancelled">>
                  \in Ecrits
    BY DEF Ecrits, Statuts, Terminaux
  <2>2. QED
    BY <1>3, <1>4, <2>1 DEF CompletePastStays
<1>5. ASSUME NEW p \in Procs, AdvanceStatuses(p)
      PROVE  TypeInv'
  <2>1. Suites \subseteq Ecrits
    BY DEF Suites, Ecrits, Statuts, Ouverts, Terminaux
  <2>2. QED
    BY <1>3, <1>5, <2>1 DEF AdvanceStatuses
<1>6. ASSUME NEW p \in Procs, DeleteOldBookings(p)
      PROVE  TypeInv'
  <2>1. <<"D">> \in Ecrits
    BY DEF Ecrits
  <2>2. QED
    BY <1>3, <1>6, <2>1 DEF DeleteOldBookings
<1>7. ASSUME NEW p \in Procs, FinVieillir(p) \/ FinAvancer(p)
      PROVE  TypeInv'
  BY <1>7 DEF FinVieillir, FinAvancer, Aller, Etapes
<1>8. ASSUME NEW p \in Procs, NEW etape \in Etapes \ {"repos"}, pc[p] # "repos",
             Aller(p, etape),
             \/ UNCHANGED <<journal, lus, ecrits, trouble>>
             \/ \E b \in Resas, s \in Statuts : Inserer(p, b, s)
      PROVE  TypeInv'
  <2>1. CASE UNCHANGED <<journal, lus, ecrits, trouble>>
    BY <1>8, <2>1 DEF Aller
  <2>2. ASSUME NEW b \in Resas, NEW s \in Statuts, Inserer(p, b, s)
        PROVE  TypeInv'
    <3>1. TypeOK'
      BY <1>8, <2>2, InsererTypes DEF Aller, Ecrits
    <3>2. \A q \in Procs \ {p} : ecrits'[q] = ecrits[q] /\ pc'[q] = pc[q]
      BY <1>8, <2>2 DEF Aller, Inserer
    <3>3. pc'[p] # "repos"
      BY <1>8 DEF Aller
    <3>4. QED
      BY <3>1, <3>2, <3>3 DEF Rien
  <2>3. QED
    BY <1>8, <2>1, <2>2
<1>9. ASSUME NEW p \in Procs, InsertBookings(p)
      PROVE  TypeInv'
  BY <1>8, <1>9
     DEF InsertBookings, Etapes, Nouveaux, Statuts, Ouverts, Terminaux
<1>10. ASSUME NEW p \in Procs, LateArriving(p)
       PROVE  TypeInv'
  BY <1>8, <1>10 DEF LateArriving, Etapes, Statuts, Ouverts
<1>11. ASSUME NEW p \in Procs, ChoisirPending(p)
       PROVE  TypeInv'
  <2>1. lus' \in [Procs -> SUBSET Lignes]
    <3>1. ASSUME NEW B \in SUBSET {b \in Resas : Visible(p, b) = "pending"}
          PROVE  LuesPar(p, B) \in [Procs -> SUBSET Lignes]
      BY LusTypes DEF Statuts, Ouverts
    <3>2. QED
      BY <1>11, <3>1 DEF ChoisirPending
  <2>2. QED
    BY <1>11, <2>1 DEF ChoisirPending, Aller, Etapes
<1>12. ASSUME NEW p \in Procs, ChoisirAncienne(p)
       PROVE  TypeInv'
  <2>1. lus' \in [Procs -> SUBSET Lignes]
    <3>1. ASSUME NEW b \in anciennes, Visible(p, b) \in {"pending", "cancelled"}
          PROVE  LuesPar(p, {b}) \in [Procs -> SUBSET Lignes]
      BY <3>1, LusTypes DEF Statuts, Ouverts, Terminaux
    <3>2. QED
      BY <1>12, <3>1 DEF ChoisirAncienne
  <2>2. QED
    BY <1>12, <2>1 DEF ChoisirAncienne, Aller, Etapes
<1>13. ASSUME NEW p \in Procs, Terminer(p), trouble' \subseteq Resas,
              payes' \subseteq Resas,
              audit' \in [Resas -> Seq(Statuts \cup {"D"})]
       PROVE  TypeInv'
  <2>1. Rien \in [Resas -> Seq(Statuts \cup {"D"})]
    BY DEF Rien
  <2>2. TypeOK'
    BY <1>13, <2>1 DEF Terminer, Etapes
  <2>3. IdleInv'
    BY <1>13 DEF Terminer, Rien
  <2>4. QED
    BY <2>2, <2>3
<1>14. ASSUME NEW p \in Procs, Commit(p)
       PROVE  TypeInv'
  <2>1. \A b \in Resas : audit[b] \o ecrits[p][b] \in Seq(Statuts \cup {"D"})
    BY ConcatElts
  <2>2. QED
    BY <1>13, <1>14, <2>1 DEF Commit, Payees
<1>15. ASSUME NEW p \in Procs, Abandonner(p)
       PROVE  TypeInv'
  BY <1>13, <1>15 DEF Abandonner
<1>16. CASE UNCHANGED vars
  BY <1>16 DEF vars, tour, Rien
<1>17. QED
  BY <1>1, <1>2, <1>4, <1>5, <1>6, <1>7, <1>9, <1>10, <1>11, <1>12, <1>14,
     <1>15, <1>16 DEF Next

LEMMA TypeAlways == Spec => []TypeInv
<1>1. Init => TypeInv
  BY TypeInit DEF Init, TypeInv, IdleInv
<1>2. QED
  BY <1>1, TypeStep, PTL DEF Spec

\* Type correctness of the simulator.
THEOREM TypeCorrect == Spec => []TypeOK
BY TypeAlways, PTL DEF TypeInv

-----------------------------------------------------------------------------
(***************************************************************************)
(* The inductive invariant of PaidNeverCancelled.                          *)
(***************************************************************************)
\* One command at most has written a row and not committed it.
LockInv ==
  \A p, q \in Procs, b \in Resas :
    p # q /\ ecrits[p][b] # <<>> => ecrits[q][b] = <<>>

\* What is not in the journal is not in the database, nor paid.
FreshInv ==
  \A b \in Resas :
    journal[b] = <<>> =>
      audit[b] = <<>> /\ b \notin payes /\ \A p \in Procs : ecrits[p][b] = <<>>

PayesInv == \A b \in payes : audit[b] # <<>>

\* A row read was there: committed, or inserted by the reader.
ReadInv ==
  \A p \in Procs : \A l \in lus[p] :
    audit[l.resa] # <<>> \/ ecrits[p][l.resa] # <<>>

\* What a step of a turn works on has the status that step selects.
StepInv ==
  \A p \in Procs : \A l \in lus[p] :
    /\ pc[p] = "vieillir" => l.statut \in Ouverts
    /\ pc[p] = "avancer" => l.statut = "pending"
    /\ pc[p] = "purger" => l.statut \in {"pending", "cancelled"}

Paid(b) == b \in payes \/ \E p \in Procs : b \in Payees(p)

\* All that was written of a paid booking, and all that was read of it.
Sain(b) ==
  /\ Elts(audit[b]) \subseteq Payables
  /\ \A p \in Procs : Elts(ecrits[p][b]) \subseteq Payables
  /\ \A p \in Procs : \A l \in lus[p] : l.resa = b => l.statut \in Payables

PaidInv == \A b \in Resas : Paid(b) => Sain(b)

Core == TypeInv /\ LockInv /\ FreshInv /\ PayesInv /\ ReadInv /\ StepInv
        /\ PaidInv

LEMMA CoreInit == Init => Core
<1> SUFFICES ASSUME Init
             PROVE  Core
  OBVIOUS
<1>1. TypeInv
  BY TypeInit DEF Init, TypeInv, IdleInv
<1>2. /\ \A p \in Procs : lus[p] = {}
      /\ \A p \in Procs, b \in Resas : ecrits[p][b] = <<>>
  BY DEF Init, Rien
<1>3. LockInv /\ ReadInv /\ StepInv
  BY <1>2 DEF LockInv, ReadInv, StepInv
<1>4. ASSUME NEW b \in Resas
      PROVE  audit[b] = <<>> \/ \E x \in Statuts : audit[b] = <<x>>
  BY DEF Init
<1>5. ASSUME NEW b \in Resas, b \in payes
      PROVE  audit[b] # <<>> /\ Elts(audit[b]) \subseteq Payables
  <2>1. Statut(b) \in Payables
    BY <1>5 DEF Init
  <2>2. audit[b] # <<>>
    BY <2>1 DEF Statut, Dernier, Payables
  <2>3. PICK x \in Statuts : audit[b] = <<x>>
    BY <1>4, <2>2
  <2>4. x \in Payables
    BY <2>1, <2>3 DEF Statut, Dernier
  <2>5. QED
    BY <2>2, <2>3, <2>4 DEF Elts
<1>6. PayesInv
  BY <1>5 DEF PayesInv, Init
<1>7. FreshInv
  <2>1. ASSUME NEW b \in Resas, journal[b] = <<>>
        PROVE  audit[b] = <<>>
    <3>1. [i \in DOMAIN audit[b] |-> "insert"] = <<>>
      BY <2>1 DEF Init
    <3>2. DOMAIN [i \in DOMAIN audit[b] |-> "insert"] = DOMAIN audit[b]
      OBVIOUS
    <3>3. DOMAIN audit[b] = {}
      BY <3>1, <3>2
    <3>4. QED
      BY <1>4, <3>3
  <2>2. QED
    BY <1>2, <1>6, <2>1 DEF FreshInv, PayesInv
<1>8. PaidInv
  <2>1. \A b \in Resas : Paid(b) => b \in payes
    BY <1>2 DEF Paid, Payees
  <2>2. \A p \in Procs, b \in Resas : Elts(ecrits[p][b]) = {}
    BY <1>2 DEF Elts
  <2>3. QED
    BY <1>2, <1>5, <2>1, <2>2 DEF PaidInv, Sain
<1>9. QED
  BY <1>1, <1>3, <1>6, <1>7, <1>8 DEF Core

\* A row visible as one in the database was written, and for a paid booking
\* what is visible is payable.
LEMMA VisibleWritten ==
  ASSUME Core, NEW p \in Procs, NEW b \in Resas, Visible(p, b) \in Statuts
  PROVE  /\ audit[b] # <<>> \/ ecrits[p][b] # <<>>
         /\ Paid(b) => Visible(p, b) \in Payables
<1>1. audit[b] \in Ecrits /\ ecrits[p][b] \in Ecrits
  BY DEF Core, TypeInv, TypeOK, Ecrits
<1>2. audit[b] \o ecrits[p][b] # <<>>
  BY DEF Visible, Dernier, Statuts, Ouverts, Terminaux
<1>3. /\ audit[b] \o ecrits[p][b] \in Ecrits
      /\ Elts(audit[b] \o ecrits[p][b]) = Elts(audit[b]) \cup Elts(ecrits[p][b])
      /\ audit[b] # <<>> \/ ecrits[p][b] # <<>>
  BY <1>1, <1>2, ConcatElts DEF Ecrits
<1>4. Visible(p, b) \in Elts(audit[b]) \cup Elts(ecrits[p][b])
  <2>1. Dernier(audit[b] \o ecrits[p][b]) \in Elts(audit[b] \o ecrits[p][b])
    BY <1>2, <1>3, DernierElt DEF Ecrits
  <2>2. QED
    BY <1>3, <2>1 DEF Visible
<1>5. QED
  BY <1>3, <1>4 DEF Core, PaidInv, Sain

\* A step that writes nothing keeps the invariant when the rows that p holds
\* afterwards were held before, or are visible now.
LEMMA Lecture ==
  ASSUME Core, TypeInv', UNCHANGED <<audit, journal, payes, ecrits>>,
         NEW p \in Procs,
         \A q \in Procs \ {p} : pc'[q] = pc[q] /\ lus'[q] = lus[q],
         StepInv',
         \A l \in lus'[p] :
           \/ l \in lus[p]
           \/ l.resa \in Resas /\ l.statut = Visible(p, l.resa)
  PROVE  Core'
<1>1. LockInv' /\ FreshInv' /\ PayesInv'
  BY DEF Core, LockInv, FreshInv, PayesInv
<1>2. ASSUME NEW l \in lus'[p], l \notin lus[p]
      PROVE  /\ l.resa \in Resas
             /\ audit[l.resa] # <<>> \/ ecrits[p][l.resa] # <<>>
             /\ Paid(l.resa) => l.statut \in Payables
  <2>1. l.resa \in Resas /\ l.statut = Visible(p, l.resa)
    BY <1>2
  <2>2. l.statut \in Statuts
    BY DEF TypeInv, TypeOK, Lignes
  <2>3. QED
    BY <2>1, <2>2, VisibleWritten
<1>3. ReadInv'
  BY <1>2 DEF Core, ReadInv
<1>4. PaidInv'
  <2>1. ASSUME NEW b \in Resas, Paid(b)'
        PROVE  Sain(b)'
    <3>1. Paid(b)
      BY <2>1 DEF Paid, Payees
    <3>2. Sain(b)
      BY <3>1 DEF Core, PaidInv
    <3>3. \A q \in Procs : \A l \in lus'[q] :
            l.resa = b => l.statut \in Payables
      BY <1>2, <3>1, <3>2 DEF Sain
    <3>4. QED
      BY <3>2, <3>3 DEF Sain
  <2>2. QED
    BY <2>1 DEF PaidInv
<1>5. QED
  BY <1>1, <1>3, <1>4 DEF Core

\* An update keeps the invariant when it writes for a paid booking only what
\* may be paid.
LEMMA Ecriture ==
  ASSUME Core, TypeInv', NEW p \in Procs, NEW l \in lus[p],
         NEW suite \in Ecrits, suite # <<>>,
         Ecrire(p, l.resa, l.statut, suite), lus' = Faite(p, l),
         UNCHANGED pc \/ pc' = [pc EXCEPT ![p] = "defauts"],
         l.statut \in Payables => Elts(suite) \subseteq Payables
  PROVE  Core'
<1> DEFINE b == l.resa
<1>1. /\ b \in Resas
      /\ \A q \in Procs, c \in Resas : ecrits[q][c] \in Ecrits
      /\ \A c \in Resas : journal[c] \in Seq(Statuts \cup {"insert", "D"})
      /\ suite \in Seq(Statuts \cup {"insert", "D"})
  <2>1. b \in Resas
    <3>1. l \in Lignes
      BY DEF Core, TypeInv, TypeOK
    <3>2. QED
      BY <3>1 DEF Lignes
  <2>2. \A q \in Procs, c \in Resas : ecrits[q][c] \in Ecrits
    BY DEF Core, TypeInv, TypeOK, Ecrits
  <2>3. \A c \in Resas : journal[c] \in Seq(Statuts \cup {"insert", "D"})
    BY DEF Core, TypeInv, TypeOK
  <2>4. suite \in Seq(Statuts \cup {"insert", "D"})
    BY DEF Ecrits
  <2>5. QED
    BY <2>1, <2>2, <2>3, <2>4
<1>2. /\ \A q \in Procs \ {p} : ecrits[q][b] = <<>>
      /\ UNCHANGED <<audit, payes>>
      /\ ecrits'[p][b] = ecrits[p][b] \/ ecrits'[p][b] = ecrits[p][b] \o suite
      /\ \A q \in Procs, c \in Resas :
           q # p \/ c # b => ecrits'[q][c] = ecrits[q][c]
      /\ journal'[b] = journal[b] \o suite
      /\ \A c \in Resas \ {b} : journal'[c] = journal[c]
  BY <1>1 DEF Ecrire, Core, TypeInv, TypeOK
<1>3. /\ Elts(ecrits[p][b] \o suite) = Elts(ecrits[p][b]) \cup Elts(suite)
      /\ ecrits[p][b] # <<>> =>
           Head(ecrits[p][b] \o suite) = Head(ecrits[p][b])
      /\ ecrits[p][b] \o suite # <<>>
      /\ journal[b] \o suite # <<>>
  BY <1>1, ConcatElts DEF Ecrits
<1>4. /\ \A q \in Procs : lus'[q] \subseteq lus[q]
      /\ \A q \in Procs : pc'[q] = pc[q] \/ pc'[q] = "defauts"
  BY DEF Faite, Core, TypeInv, TypeOK
<1>5. audit[b] # <<>> \/ ecrits[p][b] # <<>>
  BY DEF Core, ReadInv
<1>6. LockInv' /\ PayesInv'
  BY <1>2 DEF Core, LockInv, PayesInv
<1>7. FreshInv'
  BY <1>2, <1>3 DEF Core, FreshInv
<1>8. ReadInv'
  <2>1. \A q \in Procs, c \in Resas :
          ecrits[q][c] # <<>> => ecrits'[q][c] # <<>>
    BY <1>2, <1>3
  <2>2. QED
    BY <1>2, <1>4, <2>1 DEF Core, ReadInv, TypeInv, TypeOK, Lignes
<1>9. StepInv'
  BY <1>4 DEF Core, StepInv
<1>10. ASSUME NEW c \in Resas, Paid(c)'
       PROVE  Sain(c)'
  <2>1. Paid(c)
    <3>1. ASSUME NEW q \in Procs, c \in Payees(q)'
          PROVE  c \in Payees(q)
      <4>1. CASE q # p \/ c # b
        BY <1>2, <3>1, <4>1 DEF Payees
      <4>2. CASE q = p /\ c = b
        <5>1. audit[b] = <<>> /\ Head(ecrits'[p][b]) \in Payables
          BY <1>2, <3>1, <4>2 DEF Payees
        <5>2. ecrits[p][b] # <<>>
          BY <1>5, <5>1
        <5>3. Head(ecrits'[p][b]) = Head(ecrits[p][b])
          BY <1>2, <1>3, <5>2
        <5>4. QED
          BY <1>1, <4>2, <5>1, <5>2, <5>3 DEF Payees
      <4>3. QED
        BY <4>1, <4>2
    <3>2. QED
      BY <1>2, <1>10, <3>1 DEF Paid
  <2>2. Sain(c)
    BY <2>1 DEF Core, PaidInv
  <2>3. c = b => Elts(suite) \subseteq Payables
    BY <2>2 DEF Sain
  <2>4. \A q \in Procs : Elts(ecrits'[q][c]) \subseteq Payables
    BY <1>2, <1>3, <2>2, <2>3 DEF Sain
  <2>5. QED
    BY <1>2, <1>4, <2>2, <2>4 DEF Sain
<1>11. QED
  BY <1>6, <1>7, <1>8, <1>9, <1>10 DEF Core, PaidInv

\* An insertion: the booking has neither rows read nor payment yet.
LEMMA Insertion ==
  ASSUME Core, TypeInv', NEW p \in Procs, NEW b \in Resas,
         NEW s \in Statuts, Inserer(p, b, s),
         NEW etape \in {"choisir", "fin"}, Aller(p, etape)
  PROVE  Core'
<1>1. /\ journal[b] = <<>> /\ audit[b] = <<>> /\ b \notin payes
      /\ \A q \in Procs : ecrits[q][b] = <<>>
      /\ \A q \in Procs : \A l \in lus[q] : l.resa # b
  BY DEF Inserer, Core, FreshInv, ReadInv
<1>2. /\ UNCHANGED <<audit, payes, lus>>
      /\ ecrits'[p][b] = <<s>>
      /\ \A q \in Procs, c \in Resas :
           q # p \/ c # b => ecrits'[q][c] = ecrits[q][c]
      /\ journal'[b] = <<"insert">>
      /\ \A c \in Resas \ {b} : journal'[c] = journal[c]
  BY DEF Inserer, Aller, Core, TypeInv, TypeOK
<1>3. \A q \in Procs : pc'[q] = pc[q] \/ pc'[q] \in {"choisir", "fin"}
  BY DEF Aller, Core, TypeInv, TypeOK
<1>4. LockInv' /\ PayesInv'
  BY <1>1, <1>2 DEF Core, LockInv, PayesInv
<1>5. FreshInv'
  <2>1. journal'[b] # <<>>
    BY <1>2
  <2>2. QED
    BY <1>2, <2>1 DEF Core, FreshInv
<1>6. ReadInv'
  BY <1>1, <1>2 DEF Core, ReadInv, TypeInv, TypeOK, Lignes
<1>7. StepInv'
  BY <1>2, <1>3 DEF Core, StepInv
<1>8. ASSUME NEW c \in Resas, Paid(c)'
      PROVE  Sain(c)'
  <2>1. CASE c = b
    <3>1. \E q \in Procs : b \in Payees(q)'
      BY <1>1, <1>2, <1>8, <2>1 DEF Paid
    <3>2. s \in Payables
      <4>1. b \in Payees(p)'
        BY <1>1, <1>2, <3>1 DEF Payees
      <4>2. QED
        BY <1>2, <4>1 DEF Payees
    <3>3. \A q \in Procs : Elts(ecrits'[q][b]) \subseteq Payables
      BY <1>1, <1>2, <3>2 DEF Elts
    <3>4. Elts(audit[b]) = {}
      BY <1>1 DEF Elts
    <3>5. QED
      BY <1>1, <1>2, <2>1, <3>3, <3>4 DEF Sain
  <2>2. CASE c # b
    <3>1. Paid(c)
      BY <1>2, <1>8, <2>2 DEF Paid, Payees
    <3>2. Sain(c)
      BY <3>1 DEF Core, PaidInv
    <3>3. QED
      BY <1>2, <2>2, <3>2 DEF Sain
  <2>3. QED
    BY <2>1, <2>2
<1>9. QED
  BY <1>4, <1>5, <1>6, <1>7, <1>8 DEF Core, PaidInv

\* The end of a turn, committed or not.
LEMMA Fin ==
  ASSUME Core, TypeInv', NEW p \in Procs, Terminer(p),
         \/ UNCHANGED <<audit, payes>>
         \/ /\ audit' = [b \in Resas |-> audit[b] \o ecrits[p][b]]
            /\ payes' = payes \cup Payees(p)
  PROVE  Core'
<1>1. /\ \A b \in Resas : ecrits'[p][b] = <<>>
      /\ \A q \in Procs \ {p} :
           ecrits'[q] = ecrits[q] /\ lus'[q] = lus[q] /\ pc'[q] = pc[q]
      /\ lus'[p] = {} /\ UNCHANGED journal
  BY DEF Terminer, Rien, Core, TypeInv, TypeOK
<1>2. ASSUME NEW b \in Resas
      PROVE  /\ audit[b] \in Ecrits
             /\ audit'[b] = audit[b] \/ audit'[b] = audit[b] \o ecrits[p][b]
             /\ Elts(audit[b] \o ecrits[p][b]) =
                  Elts(audit[b]) \cup Elts(ecrits[p][b])
             /\ audit[b] \o ecrits[p][b] = <<>> <=>
                  audit[b] = <<>> /\ ecrits[p][b] = <<>>
  <2>1. audit[b] \in Ecrits /\ ecrits[p][b] \in Ecrits
    BY DEF Core, TypeInv, TypeOK, Ecrits
  <2>2. /\ Elts(audit[b] \o ecrits[p][b]) =
             Elts(audit[b]) \cup Elts(ecrits[p][b])
        /\ audit[b] \o ecrits[p][b] = <<>> <=>
             audit[b] = <<>> /\ ecrits[p][b] = <<>>
    BY <2>1, ConcatElts DEF Ecrits
  <2>3. QED
    BY <2>1, <2>2
<1>3. ASSUME NEW b \in Resas, audit[b] # <<>>
      PROVE  audit'[b] # <<>>
  BY <1>2, <1>3
<1>4. /\ \A b \in payes' : b \in payes \/ b \in Payees(p)
      /\ \A b \in payes' : audit'[b] # <<>>
  <2>1. payes \subseteq Resas
    BY DEF Core, TypeInv, TypeOK
  <2>2. \A b \in payes : audit'[b] # <<>>
    BY <1>3, <2>1 DEF Core, PayesInv
  <2>3. ASSUME NEW b \in Payees(p),
               audit' = [c \in Resas |-> audit[c] \o ecrits[p][c]]
        PROVE  audit'[b] # <<>>
    <3>1. b \in Resas /\ ecrits[p][b] # <<>>
      BY DEF Payees
    <3>2. QED
      BY <1>2, <2>3, <3>1
  <2>4. QED
    BY <2>2, <2>3
<1>5. LockInv' /\ PayesInv' /\ StepInv'
  BY <1>1, <1>4 DEF Core, LockInv, PayesInv, StepInv
<1>6. FreshInv'
  <2>1. ASSUME NEW b \in Resas, journal'[b] = <<>>
        PROVE  /\ audit'[b] = <<>> /\ b \notin payes'
               /\ \A q \in Procs : ecrits'[q][b] = <<>>
    <3>1. /\ audit[b] = <<>> /\ b \notin payes
          /\ \A q \in Procs : ecrits[q][b] = <<>>
      BY <1>1, <2>1 DEF Core, FreshInv
    <3>2. audit'[b] = <<>>
      BY <1>2, <3>1
    <3>3. b \notin Payees(p)
      BY <3>1 DEF Payees
    <3>4. QED
      BY <1>1, <1>4, <3>1, <3>2, <3>3
  <2>2. QED
    BY <2>1 DEF FreshInv
<1>7. ReadInv'
  <2>1. \A q \in Procs : \A l \in lus[q] : l.resa \in Resas
    BY DEF Core, TypeInv, TypeOK, Lignes
  <2>2. QED
    BY <1>1, <1>3, <2>1 DEF Core, ReadInv
<1>8. ASSUME NEW b \in Resas, Paid(b)'
      PROVE  Sain(b)'
  <2>1. Paid(b)
    <3>1. ASSUME NEW q \in Procs, b \in Payees(q)'
          PROVE  b \in Payees(q)
      <4>1. q # p /\ ecrits'[q] = ecrits[q]
        BY <1>1, <3>1 DEF Payees
      <4>2. audit'[b] = <<>>
        BY <3>1 DEF Payees
      <4>3. audit[b] = <<>>
        BY <1>3, <4>2
      <4>4. QED
        BY <3>1, <4>1, <4>3 DEF Payees
    <3>2. QED
      BY <1>4, <1>8, <3>1 DEF Paid
  <2>2. Sain(b)
    BY <2>1 DEF Core, PaidInv
  <2>3. Elts(audit'[b]) \subseteq Payables
    BY <1>2, <2>2 DEF Sain
  <2>4. \A q \in Procs : Elts(ecrits'[q][b]) \subseteq Payables
    <3>1. Elts(ecrits'[p][b]) = {}
      BY <1>1 DEF Elts
    <3>2. QED
      BY <1>1, <2>2, <3>1 DEF Sain
  <2>5. QED
    BY <1>1, <2>2, <2>3, <2>4 DEF Sain
<1>9. QED
  BY <1>5, <1>6, <1>7, <1>8 DEF Core, PaidInv

LEMMA CoreStep == Core /\ [Next]_vars => Core'
<1> SUFFICES ASSUME Core, [Next]_vars
             PROVE  Core'
  OBVIOUS
<1>1. TypeInv /\ TypeInv'
  BY TypeStep DEF Core
<1>2. /\ DOMAIN pc = Procs /\ DOMAIN lus = Procs
      /\ \A p \in Procs : \A l \in lus[p] : l.resa \in Resas
  BY <1>1 DEF TypeInv, TypeOK, Lignes
<1>3. CASE UNCHANGED vars
  <2>1. UNCHANGED <<audit, journal, payes, pc, lus, ecrits>>
    BY <1>3 DEF vars, tour
  <2>2. QED
    BY <1>1, <2>1 DEF Core, LockInv, FreshInv, PayesInv, ReadInv, StepInv,
                      PaidInv, Paid, Payees, Sain
<1>4. ASSUME NEW b \in Resas, PasseDepart(b) \/ Vieillit(b)
      PROVE  Core'
  <2>1. UNCHANGED <<audit, journal, payes, pc, lus, ecrits>>
    BY <1>4 DEF PasseDepart, Vieillit, tour
  <2>2. QED
    BY <1>1, <2>1 DEF Core, LockInv, FreshInv, PayesInv, ReadInv, StepInv,
                      PaidInv, Paid, Payees, Sain
<1>5. ASSUME NEW p \in Procs, Commencer(p)
      PROVE  Core'
  <2>1. /\ UNCHANGED <<audit, journal, payes, ecrits>>
        /\ \A q \in Procs \ {p} : pc'[q] = pc[q] /\ lus'[q] = lus[q]
        /\ pc'[p] = "vieillir"
        /\ lus'[p] = {[resa |-> b, statut |-> Visible(p, b)] :
                        b \in SejoursEcoules}
    BY <1>2, <1>5 DEF Commencer, LuesPar
  <2>2. \A b \in SejoursEcoules : b \in Resas /\ Visible(p, b) \in Ouverts
    BY <1>1, <1>5, VisibleIdle DEF Commencer, SejoursEcoules, TypeInv, TypeOK
  <2>3. StepInv'
    BY <2>1, <2>2 DEF Core, StepInv
  <2>4. QED
    BY <1>1, <2>1, <2>2, <2>3, Lecture
<1>6. ASSUME NEW p \in Procs, CompletePastStays(p)
      PROVE  Core'
  <2>1. PICK l \in lus[p] :
          /\ Ecrire(p, l.resa, l.statut,
               <<IF l.statut = "confirmed" THEN "completed" ELSE "cancelled">>)
          /\ lus' = Faite(p, l)
    BY <1>6 DEF CompletePastStays
  <2>2. l.statut \in Ouverts
    BY <1>6 DEF CompletePastStays, Core, StepInv
  <2>3. CASE l.statut = "confirmed"
    <3>1. <<"completed">> \in Ecrits /\ Elts(<<"completed">>) \subseteq Payables
      BY DEF Ecrits, Statuts, Terminaux, Elts, Payables
    <3>2. Ecrire(p, l.resa, l.statut, <<"completed">>)
      BY <2>1, <2>3
    <3>3. QED
      BY <1>1, <1>6, <2>1, <3>1, <3>2, Ecriture DEF CompletePastStays
  <2>4. CASE l.statut = "pending"
    <3>1. <<"cancelled">> \in Ecrits /\ l.statut \notin Payables
      BY <2>4 DEF Ecrits, Statuts, Terminaux, Payables
    <3>2. Ecrire(p, l.resa, l.statut, <<"cancelled">>)
      BY <2>1, <2>4
    <3>3. QED
      BY <1>1, <1>6, <2>1, <3>1, <3>2, Ecriture DEF CompletePastStays
  <2>5. QED
    BY <2>2, <2>3, <2>4 DEF Ouverts
<1>7. ASSUME NEW p \in Procs, AdvanceStatuses(p)
      PROVE  Core'
  <2>1. PICK l \in lus[p], suite \in Suites :
          Ecrire(p, l.resa, l.statut, suite) /\ lus' = Faite(p, l)
    BY <1>7 DEF AdvanceStatuses
  <2>2. l.statut \notin Payables
    BY <1>7 DEF AdvanceStatuses, Core, StepInv, Payables
  <2>3. suite \in Ecrits /\ suite # <<>>
    <3>1. /\ <<"confirmed">> \in Ecrits /\ <<"cancelled">> \in Ecrits
          /\ <<"confirmed", "cancelled">> \in Ecrits
      BY DEF Ecrits, Statuts, Ouverts, Terminaux
    <3>2. QED
      BY <3>1 DEF Suites
  <2>4. QED
    BY <1>1, <1>7, <2>1, <2>2, <2>3, Ecriture DEF AdvanceStatuses
<1>8. ASSUME NEW p \in Procs, DeleteOldBookings(p)
      PROVE  Core'
  <2>1. PICK l \in lus[p] :
          Ecrire(p, l.resa, l.statut, <<"D">>) /\ lus' = Faite(p, l)
    BY <1>8 DEF DeleteOldBookings
  <2>2. l.statut \notin Payables
    BY <1>8 DEF DeleteOldBookings, Core, StepInv, Payables
  <2>3. <<"D">> \in Ecrits
    BY DEF Ecrits
  <2>4. QED
    BY <1>1, <1>8, <2>1, <2>2, <2>3, Ecriture DEF DeleteOldBookings
<1>9. ASSUME NEW p \in Procs, FinVieillir(p) \/ FinAvancer(p)
      PROVE  Core'
  <2>1. /\ UNCHANGED <<audit, journal, payes, ecrits, lus>>
        /\ \A q \in Procs \ {p} : pc'[q] = pc[q]
        /\ lus[p] = {}
    BY <1>2, <1>9 DEF FinVieillir, FinAvancer, Aller
  <2>2. StepInv'
    BY <2>1 DEF Core, StepInv
  <2>3. QED
    BY <1>1, <2>1, <2>2, Lecture
<1>10. ASSUME NEW p \in Procs, NEW etape \in {"choisir", "fin"},
              Aller(p, etape), UNCHANGED <<journal, lus, ecrits, trouble>>
       PROVE  Core'
  <2>1. /\ UNCHANGED <<audit, journal, payes, ecrits, lus>>
        /\ \A q \in Procs \ {p} : pc'[q] = pc[q]
        /\ pc'[p] \in {"choisir", "fin"}
    BY <1>2, <1>10 DEF Aller
  <2>2. StepInv'
    BY <2>1 DEF Core, StepInv
  <2>3. /\ UNCHANGED <<audit, journal, payes, ecrits>>
        /\ \A q \in Procs \ {p} : pc'[q] = pc[q] /\ lus'[q] = lus[q]
        /\ \A l \in lus'[p] : l \in lus[p]
    BY <2>1
  <2>4. QED
    BY <1>1, <2>2, <2>3, Lecture
<1>11. ASSUME NEW p \in Procs, InsertBookings(p)
       PROVE  Core'
  BY <1>1, <1>10, <1>11, Insertion
     DEF InsertBookings, Nouveaux, Statuts, Ouverts, Terminaux
<1>12. ASSUME NEW p \in Procs, LateArriving(p)
       PROVE  Core'
  BY <1>1, <1>10, <1>12, Insertion DEF LateArriving, Statuts, Ouverts
<1>13. ASSUME NEW p \in Procs, ChoisirPending(p)
       PROVE  Core'
  <2>1. PICK B \in SUBSET {b \in Resas : Visible(p, b) = "pending"} :
          lus' = LuesPar(p, B)
    BY <1>13 DEF ChoisirPending
  <2>2. /\ UNCHANGED <<audit, journal, payes, ecrits>>
        /\ \A q \in Procs \ {p} : pc'[q] = pc[q] /\ lus'[q] = lus[q]
        /\ pc'[p] = "avancer"
        /\ lus'[p] = {[resa |-> b, statut |-> Visible(p, b)] : b \in B}
    BY <1>2, <1>13, <2>1 DEF ChoisirPending, Aller, LuesPar
  <2>3. StepInv'
    BY <2>2 DEF Core, StepInv
  <2>4. QED
    BY <1>1, <2>2, <2>3, Lecture
<1>14. ASSUME NEW p \in Procs, ChoisirAncienne(p)
       PROVE  Core'
  <2>1. CASE Aller(p, "defauts") /\ UNCHANGED lus
    <3>1. /\ UNCHANGED <<audit, journal, payes, ecrits, lus>>
          /\ \A q \in Procs \ {p} : pc'[q] = pc[q]
          /\ pc'[p] = "defauts"
      BY <1>2, <1>14, <2>1 DEF ChoisirAncienne, Aller
    <3>2. StepInv'
      BY <3>1 DEF Core, StepInv
    <3>3. /\ UNCHANGED <<audit, journal, payes, ecrits>>
          /\ \A q \in Procs \ {p} : pc'[q] = pc[q] /\ lus'[q] = lus[q]
          /\ \A l \in lus'[p] : l \in lus[p]
      BY <3>1
    <3>4. QED
      BY <1>1, <3>2, <3>3, Lecture
  <2>2. ASSUME NEW b \in anciennes,
               Visible(p, b) \in {"pending", "cancelled"},
               lus' = LuesPar(p, {b}), Aller(p, "purger")
        PROVE  Core'
    <3>1. /\ UNCHANGED <<audit, journal, payes, ecrits>>
          /\ \A q \in Procs \ {p} : pc'[q] = pc[q] /\ lus'[q] = lus[q]
          /\ pc'[p] = "purger"
          /\ lus'[p] = {[resa |-> b, statut |-> Visible(p, b)]}
          /\ b \in Resas
      BY <1>1, <1>2, <1>14, <2>2
         DEF ChoisirAncienne, Aller, LuesPar, TypeInv, TypeOK
    <3>2. StepInv'
      BY <2>2, <3>1 DEF Core, StepInv
    <3>3. QED
      BY <1>1, <3>1, <3>2, Lecture
  <2>3. QED
    BY <1>14, <2>1, <2>2 DEF ChoisirAncienne
<1>15. ASSUME NEW p \in Procs, Commit(p) \/ Abandonner(p)
       PROVE  Core'
  BY <1>1, <1>15, Fin DEF Commit, Abandonner
<1>16. QED
  BY <1>3, <1>4, <1>5, <1>6, <1>7, <1>8, <1>9, <1>11, <1>12, <1>13, <1>14,
     <1>15 DEF Next

LEMMA PaidIsPayable == Core => PaidNeverCancelled
<1> SUFFICES ASSUME Core, NEW b \in payes
             PROVE  Statut(b) \in Payables
  BY DEF PaidNeverCancelled
<1>1. b \in Resas /\ audit[b] \in Ecrits /\ audit[b] # <<>>
  BY DEF Core, TypeInv, TypeOK, PayesInv, Ecrits
<1>2. Elts(audit[b]) \subseteq Payables
  BY <1>1 DEF Core, PaidInv, Paid, Sain
<1>3. QED
  BY <1>1, <1>2, DernierElt DEF Statut, Ecrits

\* A booking with a payment is confirmed or completed, for any number of
\* commands that update rows read earlier.
THEOREM PaidSafe == Spec => []PaidNeverCancelled
BY CoreInit, CoreStep, PaidIsPayable, PTL DEF Spec


-----------------------------------------------------------------------------
(***************************************************************************)
(* The journal against the audit, and the statuses that are not left.      *)
(*                                                                         *)
(* What is traced of a booking is what was written, committed or not, and  *)
(* what was written is, for a booking no turn failed on, a way through the *)
(* statuses that ends in a status it keeps.                                *)
(***************************************************************************)
Evenements == Seq(Statuts \cup {"insert", "D"})

\* The events of the changes s.
Suivi(s) == IF s = <<>> THEN <<>> ELSE <<"insert">> \o Tail(s)

\* After "completed" and after the deletion nothing is written, after
\* "cancelled" the deletion only.
Chemin(s) ==
  \A i, j \in DOMAIN s :
    i < j => /\ s[i] \notin {"completed", "D"}
             /\ s[i] = "cancelled" => s[j] = "D"

LEMMA ConcatAt ==
  ASSUME NEW S, NEW s \in Seq(S), NEW t \in Seq(S)
  PROVE  /\ s \o t \in Seq(S)
         /\ Len(s \o t) = Len(s) + Len(t)
         /\ DOMAIN (s \o t) = 1 .. Len(s) + Len(t)
         /\ DOMAIN s = 1 .. Len(s) /\ DOMAIN t = 1 .. Len(t)
         /\ Len(s) \in Nat /\ Len(t) \in Nat
         /\ \A i \in 1 .. Len(s) + Len(t) :
              /\ i <= Len(s) => i \in 1 .. Len(s) /\ (s \o t)[i] = s[i]
              /\ i > Len(s) => /\ i - Len(s) \in 1 .. Len(t)
                               /\ (s \o t)[i] = t[i - Len(s)]
<1>1. /\ s \o t \in Seq(S)
      /\ Len(s \o t) = Len(s) + Len(t)
      /\ \A i \in 1 .. Len(s) + Len(t) :
           (s \o t)[i] = IF i <= Len(s) THEN s[i] ELSE t[i - Len(s)]
  BY ConcatProperties
<1>2. Len(s) \in Nat /\ Len(t) \in Nat
  OBVIOUS
<1>3. /\ DOMAIN (s \o t) = 1 .. Len(s) + Len(t)
      /\ DOMAIN s = 1 .. Len(s) /\ DOMAIN t = 1 .. Len(t)
  BY <1>1
<1>4. QED
  BY <1>1, <1>2, <1>3

LEMMA DernierConcat ==
  ASSUME NEW S, NEW s \in Seq(S), NEW t \in Seq(S)
  PROVE  /\ t # <<>> => Dernier(s \o t) = Dernier(t)
         /\ s \o <<>> = s
<1>1. s \o <<>> = s
  BY ConcatEmptySeq
<1>2. ASSUME t # <<>>
      PROVE  Dernier(s \o t) = Dernier(t)
  <2>1. Len(t) \in Nat /\ Len(t) > 0 /\ Len(s) \in Nat
    BY <1>2
  <2>2. /\ Len(s \o t) = Len(s) + Len(t)
        /\ Len(s) + Len(t) \in 1 .. Len(s) + Len(t)
        /\ Len(s) + Len(t) > Len(s)
        /\ Len(s) + Len(t) - Len(s) = Len(t)
    BY <2>1, ConcatAt
  <2>3. (s \o t)[Len(s) + Len(t)] = t[Len(t)]
    BY <2>2, ConcatAt
  <2>4. s \o t # <<>>
    BY <1>2, ConcatElts
  <2>5. QED
    BY <1>2, <2>2, <2>3, <2>4 DEF Dernier
<1>3. QED
  BY <1>1, <1>2

LEMMA SuiviAt ==
  ASSUME NEW s \in Ecrits, s # <<>>
  PROVE  /\ Suivi(s) \in Evenements
         /\ Len(Suivi(s)) = Len(s)
         /\ \A i \in 1 .. Len(s) :
              Suivi(s)[i] = IF i = 1 THEN "insert" ELSE s[i]
<1> DEFINE E == Statuts \cup {"insert", "D"}
           tete == <<"insert">>
<1>1. /\ s \in Seq(E) /\ tete \in Seq(E) /\ Len(tete) = 1
      /\ tete[1] = "insert"
      /\ Len(s) \in Nat /\ Len(s) > 0
  BY DEF Ecrits
<1>2. /\ Tail(s) \in Seq(E)
      /\ Len(Tail(s)) = Len(s) - 1
      /\ \A i \in 1 .. Len(s) - 1 : Tail(s)[i] = s[i + 1]
  BY <1>1
<1>3. Suivi(s) = tete \o Tail(s)
  BY DEF Suivi
<1>4. Suivi(s) \in Seq(E) /\ Len(Suivi(s)) = Len(s)
  <2>1. /\ tete \o Tail(s) \in Seq(E)
        /\ Len(tete \o Tail(s)) = Len(tete) + Len(Tail(s))
    <3>1. tete \in Seq(E) /\ Tail(s) \in Seq(E)
      BY <1>1, <1>2
    <3> HIDE DEF E, tete
    <3>2. QED
      BY <3>1, ConcatAt
  <2>2. Len(tete) + Len(Tail(s)) = Len(s)
    BY <1>1, <1>2
  <2>3. QED
    BY <1>3, <2>1, <2>2
<1>5. ASSUME NEW i \in 1 .. Len(s)
      PROVE  Suivi(s)[i] = IF i = 1 THEN "insert" ELSE s[i]
  <2>1. i \in 1 .. Len(tete) + Len(Tail(s))
    BY <1>1, <1>2
  <2>2. /\ i <= Len(tete) => (tete \o Tail(s))[i] = tete[i]
        /\ i > Len(tete) => (tete \o Tail(s))[i] = Tail(s)[i - Len(tete)]
    <3>1. tete \in Seq(E) /\ Tail(s) \in Seq(E)
      BY <1>1, <1>2
    <3> HIDE DEF E, tete
    <3>2. QED
      BY <2>1, <3>1, ConcatAt
  <2>3. CASE i = 1
    BY <1>1, <1>3, <2>2, <2>3
  <2>4. CASE i # 1
    <3>1. i > 1 /\ i - 1 \in 1 .. Len(s) - 1 /\ i - 1 + 1 = i
      BY <1>1, <2>4
    <3>2. QED
      BY <1>1, <1>2, <1>3, <2>2, <2>4, <3>1
  <2>5. QED
    BY <2>3, <2>4
<1>6. QED
  BY <1>4, <1>5 DEF Evenements

\* What is traced of further changes is these changes.
LEMMA SuiviConcat ==
  ASSUME NEW s \in Ecrits, s # <<>>, NEW t \in Ecrits
  PROVE  Suivi(s \o t) = Suivi(s) \o t
<1>1. s \o t \in Ecrits /\ s \o t # <<>>
  BY ConcatElts DEF Ecrits
<1>2. t \in Evenements
  BY DEF Ecrits, Evenements
<1>3. /\ Suivi(s) \in Evenements /\ Suivi(s \o t) \in Evenements
      /\ Len(Suivi(s)) = Len(s) /\ Len(Suivi(s \o t)) = Len(s \o t)
  BY <1>1, SuiviAt
<1>4. /\ Len(s \o t) = Len(s) + Len(t)
      /\ Suivi(s) \o t \in Evenements
      /\ Len(Suivi(s) \o t) = Len(s) + Len(t)
      /\ Len(s) \in Nat /\ Len(t) \in Nat /\ Len(s) > 0
  <2>1. Len(s \o t) = Len(s) + Len(t) /\ Len(s) \in Nat /\ Len(t) \in Nat
    BY ConcatAt DEF Ecrits
  <2>2. /\ Suivi(s) \o t \in Evenements
        /\ Len(Suivi(s) \o t) = Len(Suivi(s)) + Len(t)
    <3>1. Suivi(s) \in Evenements /\ t \in Evenements
      BY <1>2, <1>3
    <3>2. QED
      BY <3>1, ConcatAt DEF Evenements
  <2>3. Len(s) > 0
    BY DEF Ecrits
  <2>4. QED
    BY <1>3, <2>1, <2>2, <2>3
<1>5. ASSUME NEW i \in 1 .. Len(s) + Len(t)
      PROVE  Suivi(s \o t)[i] = (Suivi(s) \o t)[i]
  <2>1. Suivi(s \o t)[i] = IF i = 1 THEN "insert" ELSE (s \o t)[i]
    BY <1>1, <1>4, SuiviAt
  <2>2. /\ i <= Len(s) => i \in 1 .. Len(s) /\ (s \o t)[i] = s[i]
        /\ i > Len(s) => (s \o t)[i] = t[i - Len(s)]
    BY ConcatAt DEF Ecrits
  <2>3. /\ i <= Len(s) => (Suivi(s) \o t)[i] = Suivi(s)[i]
        /\ i > Len(s) => (Suivi(s) \o t)[i] = t[i - Len(s)]
    BY <1>2, <1>3, ConcatAt DEF Evenements
  <2>4. CASE i <= Len(s)
    <3>1. Suivi(s)[i] = IF i = 1 THEN "insert" ELSE s[i]
      BY <2>2, <2>4, SuiviAt
    <3>2. QED
      BY <2>1, <2>2, <2>3, <2>4, <3>1
  <2>5. CASE i > Len(s)
    <3>1. i # 1
      BY <1>4, <2>5
    <3>2. QED
      BY <2>1, <2>2, <2>3, <2>5, <3>1
  <2>6. QED
    BY <1>4, <2>4, <2>5
<1>6. QED
  BY <1>3, <1>4, <1>5, SeqEqual DEF Evenements

LEMMA ParmiMeme ==
  ASSUME NEW s \in Evenements
  PROVE  Parmi(s, s) /\ Parmi(<<>>, s)
<1>1. DOMAIN s \subseteq Nat
  BY DEF Evenements
<1>2. Parmi(s, s)
  <2> DEFINE g == [i \in DOMAIN s |-> i]
  <2>1. g \in [DOMAIN s -> DOMAIN s] /\ \A i \in DOMAIN s : g[i] = i
    OBVIOUS
  <2>2. QED
    BY <1>1, <2>1 DEF Parmi
<1>3. Parmi(<<>>, s)
  <2>1. DOMAIN <<>> = {}
    OBVIOUS
  <2>2. [i \in {} |-> i] \in [{} -> DOMAIN s]
    OBVIOUS
  <2>3. QED
    BY <2>1, <2>2 DEF Parmi
<1>4. QED
  BY <1>2, <1>3

LEMMA ParmiConcat ==
  ASSUME NEW t \in Evenements, NEW s \in Evenements, NEW u \in Evenements,
         Parmi(t, s)
  PROVE  Parmi(t, s \o u) /\ Parmi(t \o u, s \o u)
<1>1. PICK g \in [DOMAIN t -> DOMAIN s] :
        /\ \A i, j \in DOMAIN t : i < j => g[i] < g[j]
        /\ \A i \in DOMAIN t : t[i] = s[g[i]]
  BY DEF Parmi
<1>2. /\ DOMAIN s = 1 .. Len(s) /\ DOMAIN t = 1 .. Len(t)
      /\ DOMAIN u = 1 .. Len(u)
      /\ DOMAIN (s \o u) = 1 .. Len(s) + Len(u)
      /\ DOMAIN (t \o u) = 1 .. Len(t) + Len(u)
      /\ Len(s) \in Nat /\ Len(t) \in Nat /\ Len(u) \in Nat
  BY ConcatAt DEF Evenements
<1>3. /\ \A i \in 1 .. Len(s) + Len(u) :
           /\ i <= Len(s) => (s \o u)[i] = s[i]
           /\ i > Len(s) => (s \o u)[i] = u[i - Len(s)]
      /\ \A i \in 1 .. Len(t) + Len(u) :
           /\ i <= Len(t) => i \in 1 .. Len(t) /\ (t \o u)[i] = t[i]
           /\ i > Len(t) => (t \o u)[i] = u[i - Len(t)]
  BY ConcatAt DEF Evenements
<1>4. \A i \in 1 .. Len(t) :
        g[i] \in 1 .. Len(s) + Len(u) /\ g[i] <= Len(s)
  BY <1>1, <1>2
<1>5. Parmi(t, s \o u)
  <2>1. g \in [DOMAIN t -> DOMAIN (s \o u)]
    BY <1>1, <1>2, <1>4
  <2>2. \A i \in DOMAIN t : t[i] = (s \o u)[g[i]]
    BY <1>1, <1>2, <1>3, <1>4
  <2>3. QED
    BY <1>1, <2>1, <2>2 DEF Parmi
<1>6. Parmi(t \o u, s \o u)
  <2> DEFINE h == [i \in DOMAIN (t \o u) |->
                     IF i <= Len(t) THEN g[i] ELSE i - Len(t) + Len(s)]
  <2>1. ASSUME NEW i \in DOMAIN (t \o u)
        PROVE  /\ i <= Len(t) => /\ i \in 1 .. Len(t) /\ h[i] = g[i]
                                 /\ h[i] \in 1 .. Len(s)
               /\ i > Len(t) => /\ h[i] = i - Len(t) + Len(s)
                                /\ h[i] \in Len(s) + 1 .. Len(s) + Len(u)
    BY <1>1, <1>2
  <2>2. h \in [DOMAIN (t \o u) -> DOMAIN (s \o u)]
    <3>1. ASSUME NEW i \in DOMAIN (t \o u)
          PROVE  h[i] \in 1 .. Len(s) + Len(u)
      BY <1>2, <2>1
    <3>2. QED
      BY <1>2, <3>1
  <2>3. ASSUME NEW i \in DOMAIN (t \o u), NEW j \in DOMAIN (t \o u), i < j
        PROVE  h[i] < h[j]
    <3>1. i \in Nat /\ j \in Nat
      BY <1>2
    <3>2. CASE j <= Len(t)
      BY <1>1, <1>2, <2>1, <2>3, <3>1, <3>2
    <3>3. CASE i <= Len(t) /\ j > Len(t)
      <4>1. h[i] \in 1 .. Len(s) /\ h[j] \in Len(s) + 1 .. Len(s) + Len(u)
        BY <2>1, <3>3
      <4>2. QED
        BY <1>2, <4>1
    <3>4. CASE i > Len(t) /\ j > Len(t)
      <4>1. h[i] = i - Len(t) + Len(s) /\ h[j] = j - Len(t) + Len(s)
        BY <2>1, <3>4
      <4>2. QED
        BY <1>2, <2>3, <3>1, <4>1
    <3>5. QED
      BY <1>2, <2>3, <3>1, <3>2, <3>3, <3>4
  <2>4. ASSUME NEW i \in DOMAIN (t \o u)
        PROVE  (t \o u)[i] = (s \o u)[h[i]]
    <3>1. h[i] \in 1 .. Len(s) + Len(u)
      BY <1>2, <2>2
    <3>2. CASE i <= Len(t)
      <4>1. h[i] = g[i] /\ i \in DOMAIN t /\ h[i] <= Len(s)
        BY <1>2, <2>1, <3>2
      <4>2. (t \o u)[i] = t[i] /\ (s \o u)[h[i]] = s[g[i]]
        BY <1>2, <1>3, <3>1, <3>2, <4>1
      <4>3. QED
        BY <1>1, <4>1, <4>2
    <3>3. CASE i > Len(t)
      <4>1. h[i] = i - Len(t) + Len(s) /\ h[i] > Len(s)
        BY <1>2, <2>1, <3>3
      <4>2. h[i] - Len(s) = i - Len(t)
        BY <1>2, <4>1
      <4>3. /\ (t \o u)[i] = u[i - Len(t)]
            /\ (s \o u)[h[i]] = u[h[i] - Len(s)]
        BY <1>2, <1>3, <3>1, <3>3, <4>1
      <4>4. QED
        BY <4>2, <4>3
    <3>4. QED
      BY <1>2, <3>2, <3>3
  <2>5. QED
    <3> HIDE DEF h
    <3>1. QED
      BY <2>2, <2>3, <2>4 DEF Parmi
<1>7. QED
  BY <1>5, <1>6

\* A way goes on from a status that is not final.
LEMMA CheminConcat ==
  ASSUME NEW s \in Ecrits, s # <<>>, NEW t \in Ecrits, t # <<>>,
         Chemin(s), Chemin(t), Dernier(s) \notin {"completed", "D"},
         Dernier(s) = "cancelled" => t = <<"D">>
  PROVE  Chemin(s \o t)
<1>1. /\ DOMAIN s = 1 .. Len(s) /\ DOMAIN t = 1 .. Len(t)
      /\ DOMAIN (s \o t) = 1 .. Len(s) + Len(t)
      /\ Len(s) \in Nat /\ Len(t) \in Nat
      /\ \A i \in 1 .. Len(s) + Len(t) :
           /\ i <= Len(s) => i \in 1 .. Len(s) /\ (s \o t)[i] = s[i]
           /\ i > Len(s) => /\ i - Len(s) \in 1 .. Len(t)
                            /\ (s \o t)[i] = t[i - Len(s)]
  BY ConcatAt DEF Ecrits
<1>2. Dernier(s) = s[Len(s)] /\ Len(s) \in 1 .. Len(s)
  BY <1>1 DEF Dernier, Ecrits
<1> SUFFICES ASSUME NEW i \in 1 .. Len(s) + Len(t),
                    NEW j \in 1 .. Len(s) + Len(t), i < j
             PROVE  /\ (s \o t)[i] \notin {"completed", "D"}
                    /\ (s \o t)[i] = "cancelled" => (s \o t)[j] = "D"
  BY <1>1 DEF Chemin
<1>3. CASE j <= Len(s)
  <2>1. /\ i \in 1 .. Len(s) /\ j \in 1 .. Len(s)
        /\ (s \o t)[i] = s[i] /\ (s \o t)[j] = s[j]
    BY <1>1, <1>3
  <2>2. QED
    BY <1>1, <2>1 DEF Chemin
<1>4. CASE i > Len(s)
  <2>1. /\ i - Len(s) \in 1 .. Len(t) /\ j - Len(s) \in 1 .. Len(t)
        /\ i - Len(s) < j - Len(s)
        /\ (s \o t)[i] = t[i - Len(s)] /\ (s \o t)[j] = t[j - Len(s)]
    BY <1>1, <1>4
  <2>2. QED
    BY <1>1, <2>1 DEF Chemin
<1>5. CASE i <= Len(s) /\ j > Len(s)
  <2>1. /\ i \in 1 .. Len(s) /\ (s \o t)[i] = s[i]
        /\ j - Len(s) \in 1 .. Len(t) /\ (s \o t)[j] = t[j - Len(s)]
    BY <1>1, <1>5
  <2>2. CASE i = Len(s)
    <3>1. ASSUME s[i] = "cancelled"
          PROVE  t[j - Len(s)] = "D"
      <4>1. t = <<"D">>
        BY <1>2, <2>2, <3>1
      <4>2. Len(t) = 1 /\ t[1] = "D"
        BY <4>1
      <4>3. j - Len(s) = 1
        BY <2>1, <4>2
      <4>4. QED
        BY <4>2, <4>3
    <3>2. QED
      BY <1>2, <2>1, <2>2, <3>1
  <2>3. CASE i < Len(s)
    <3>1. /\ s[i] \notin {"completed", "D"}
          /\ s[i] = "cancelled" => s[Len(s)] = "D"
      BY <1>1, <1>2, <2>1, <2>3 DEF Chemin
    <3>2. QED
      BY <1>2, <2>1, <3>1
  <2>4. i = Len(s) \/ i < Len(s)
    <3>1. Len(s) \in Nat /\ Len(t) \in Nat
      BY <1>1
    <3>2. QED
      BY <1>5, <3>1
  <2>5. QED
    BY <2>2, <2>3, <2>4
<1>6. QED
  BY <1>1, <1>3, <1>4, <1>5

\* What follows on a way from a status that is final, or nearly.
LEMMA CheminFin ==
  ASSUME NEW s \in Ecrits, s # <<>>, NEW t \in Ecrits, Chemin(s \o t)
  PROVE  /\ Dernier(s) = "completed" => Dernier(s \o t) = "completed"
         /\ Dernier(s) = "cancelled" =>
              Dernier(s \o t) \in {"cancelled", "D"}
         /\ Dernier(s) = "D" => Dernier(s \o t) = "D"
<1>1. CASE t = <<>>
  BY <1>1, DernierConcat DEF Ecrits
<1>2. CASE t # <<>>
  <2>1. /\ DOMAIN (s \o t) = 1 .. Len(s) + Len(t)
        /\ Len(s) \in Nat /\ Len(t) \in Nat
        /\ Len(s \o t) = Len(s) + Len(t)
        /\ \A i \in 1 .. Len(s) + Len(t) :
             i <= Len(s) => (s \o t)[i] = s[i]
        /\ s \o t # <<>>
    BY ConcatAt, ConcatElts DEF Ecrits
  <2>2. Len(s) > 0 /\ Len(t) > 0
    BY <1>2 DEF Ecrits
  <2>3. /\ Len(s) \in DOMAIN (s \o t) /\ Len(s \o t) \in DOMAIN (s \o t)
        /\ Len(s) < Len(s \o t)
        /\ (s \o t)[Len(s)] = Dernier(s)
        /\ (s \o t)[Len(s \o t)] = Dernier(s \o t)
    BY <2>1, <2>2 DEF Dernier
  <2>4. /\ Dernier(s) \notin {"completed", "D"}
        /\ Dernier(s) = "cancelled" => Dernier(s \o t) = "D"
    BY <2>3 DEF Chemin
  <2>5. QED
    BY <2>4
<1>3. QED
  BY <1>1, <1>2

-----------------------------------------------------------------------------
(***************************************************************************)
(* The inductive invariant of the journal, of the statuses kept and of the *)
(* stays closed.                                                           *)
(***************************************************************************)
\* A stay that has elapsed is one of a booking that was committed.
DateInv ==
  /\ \A b \in passe : audit[b] # <<>>
  /\ \A p \in Procs : /\ date[p] \subseteq passe
                      /\ pc[p] = "repos" => date[p] = {}

\* What is committed, and what would be, is in the journal in its order.
TracedInv ==
  \A b \in Resas :
    /\ Parmi(Suivi(audit[b]), journal[b])
    /\ \A p \in Procs : Parmi(Suivi(audit[b] \o ecrits[p][b]), journal[b])

\* And nothing else is, without trouble.
JournalInv ==
  \A b \in Resas \ trouble :
    /\ (\A p \in Procs : ecrits[p][b] = <<>>) => journal[b] = Suivi(audit[b])
    /\ \A p \in Procs :
         ecrits[p][b] # <<>> =>
           journal[b] = Suivi(audit[b] \o ecrits[p][b])

CheminInv ==
  \A b \in Resas \ trouble :
    /\ Chemin(audit[b])
    /\ \A p \in Procs : Chemin(audit[b] \o ecrits[p][b])

\* An elapsed stay that a turn sees open is one it has still to close.
ClosInv ==
  \A p \in Procs : \A b \in date[p] \ trouble :
    Visible(p, b) \in Ouverts =>
      pc[p] = "vieillir" /\ \E l \in lus[p] : l.resa = b

Histoire == DateInv /\ TracedInv /\ JournalInv /\ CheminInv /\ ClosInv

LEMMA CheminCourt ==
  /\ Chemin(<<>>)
  /\ \A x : Chemin(<<x>>)
BY DEF Chemin

LEMMA HistoireInit == Init => Histoire
<1> SUFFICES ASSUME Init
             PROVE  Histoire
  OBVIOUS
<1>1. /\ \A p \in Procs : date[p] = {}
      /\ \A p \in Procs, b \in Resas : ecrits[p][b] = <<>>
  BY DEF Init, Rien
<1>2. \A b \in Resas : audit[b] = <<>> \/ \E x \in Statuts : audit[b] = <<x>>
  BY DEF Init
<1>3. TypeOK
  BY TypeInit
<1>4. DateInv
  <2>1. ASSUME NEW b \in passe
        PROVE  audit[b] # <<>>
    <3>1. b \in Resas /\ Statut(b) \in Terminaux
      BY DEF Init
    <3>2. QED
      BY <3>1 DEF Statut, Dernier, Terminaux
  <2>2. QED
    BY <1>1, <2>1 DEF DateInv
<1>5. ASSUME NEW b \in Resas
      PROVE  /\ journal[b] = Suivi(audit[b])
             /\ Chemin(audit[b])
             /\ \A p \in Procs : audit[b] \o ecrits[p][b] = audit[b]
             /\ Parmi(Suivi(audit[b]), journal[b])
  <2>1. journal[b] = [i \in DOMAIN audit[b] |-> "insert"]
    BY DEF Init
  <2>2. audit[b] \in Ecrits /\ journal[b] \in Evenements
    BY <1>3 DEF TypeOK, Ecrits, Evenements
  <2>3. \A p \in Procs : audit[b] \o ecrits[p][b] = audit[b]
    BY <1>1, <2>2, DernierConcat DEF Ecrits
  <2>4. CASE audit[b] = <<>>
    <3>1. journal[b] = <<>>
      BY <2>1, <2>4
    <3>2. QED
      BY <2>2, <2>3, <2>4, <3>1, CheminCourt, ParmiMeme DEF Suivi
  <2>5. ASSUME NEW x \in Statuts, audit[b] = <<x>>
        PROVE  journal[b] = Suivi(audit[b]) /\ Chemin(audit[b])
    <3>1. DOMAIN audit[b] = 1 .. 1 /\ Len(audit[b]) = 1 /\ audit[b] # <<>>
      BY <2>5
    <3>2. /\ DOMAIN journal[b] = 1 .. 1
          /\ \A i \in 1 .. 1 : journal[b][i] = "insert"
      BY <2>1, <3>1
    <3>3. Len(journal[b]) = 1
      <4> DEFINE n == Len(journal[b])
      <4>1. n \in Nat /\ DOMAIN journal[b] = 1 .. n
        BY <2>2 DEF Evenements
      <4>2. 1 .. n = 1 .. 1
        BY <3>2, <4>1
      <4>3. n = 1
        <5> HIDE DEF n
        <5>1. 1 \in 1 .. 1 /\ 2 \notin 1 .. 1
          OBVIOUS
        <5>2. 1 \in 1 .. n /\ 2 \notin 1 .. n
          BY <4>2, <5>1
        <5>3. QED
          BY <4>1, <5>2
      <4>4. QED
        BY <4>3
    <3>4. /\ Suivi(audit[b]) \in Evenements /\ Len(Suivi(audit[b])) = 1
          /\ \A i \in 1 .. 1 : Suivi(audit[b])[i] = "insert"
      BY <2>2, <3>1, SuiviAt
    <3>5. journal[b] = Suivi(audit[b])
      BY <2>2, <3>2, <3>3, <3>4, SeqEqual DEF Evenements
    <3>6. QED
      BY <2>5, <3>5, CheminCourt
  <2>6. journal[b] = Suivi(audit[b]) /\ Chemin(audit[b])
    BY <1>2, <2>4, <2>5
  <2>7. QED
    BY <2>2, <2>3, <2>6, ParmiMeme
<1>6. TracedInv /\ JournalInv /\ CheminInv
  BY <1>1, <1>5 DEF TracedInv, JournalInv, CheminInv
<1>7. ClosInv
  BY <1>1 DEF ClosInv
<1>8. QED
  BY <1>4, <1>6, <1>7 DEF Histoire

LEMMA Associatif ==
  ASSUME NEW E, NEW s \in Seq(E), NEW t \in Seq(E), NEW u \in Seq(E)
  PROVE  s \o (t \o u) = (s \o t) \o u
OBVIOUS

LEMMA EcritsAssociatif ==
  ASSUME NEW s \in Ecrits, NEW t \in Ecrits, NEW u \in Ecrits
  PROVE  s \o (t \o u) = (s \o t) \o u
BY Associatif DEF Ecrits

LEMMA EcritsDernier ==
  ASSUME NEW s \in Ecrits, NEW t \in Ecrits, t # <<>>
  PROVE  Dernier(s \o t) = Dernier(t)
BY DernierConcat DEF Ecrits

LEMMA Sequences ==
  ASSUME Core, NEW b \in Resas
  PROVE  /\ audit[b] \in Ecrits /\ journal[b] \in Evenements
         /\ \A p \in Procs :
              /\ ecrits[p][b] \in Ecrits
              /\ audit[b] \o ecrits[p][b] \in Ecrits
              /\ ecrits[p][b] = <<>> => audit[b] \o ecrits[p][b] = audit[b]
              /\ audit[b] \o ecrits[p][b] = <<>> <=>
                   audit[b] = <<>> /\ ecrits[p][b] = <<>>
<1>1. audit[b] \in Ecrits /\ journal[b] \in Evenements
  BY DEF Core, TypeInv, TypeOK, Ecrits, Evenements
<1>2. ASSUME NEW p \in Procs
      PROVE  /\ ecrits[p][b] \in Ecrits
             /\ audit[b] \o ecrits[p][b] \in Ecrits
             /\ ecrits[p][b] = <<>> => audit[b] \o ecrits[p][b] = audit[b]
             /\ audit[b] \o ecrits[p][b] = <<>> <=>
                  audit[b] = <<>> /\ ecrits[p][b] = <<>>
  <2>1. ecrits[p][b] \in Ecrits
    BY DEF Core, TypeInv, TypeOK, Ecrits
  <2>2. QED
    BY <1>1, <2>1, ConcatElts, DernierConcat DEF Ecrits
<1>3. QED
  BY <1>1, <1>2

\* Nothing written, read or committed: the calendar and the end of a step.
LEMMA HistoireSansEcrire ==
  ASSUME Histoire, UNCHANGED <<audit, journal, ecrits, trouble>>,
         DateInv', ClosInv'
  PROVE  Histoire'
BY DEF Histoire, TracedInv, JournalInv, CheminInv

\* An update of a row whose status is not final.
LEMMA HistoireEcriture ==
  ASSUME Core, Histoire, NEW p \in Procs, NEW l \in lus[p],
         NEW suite \in Ecrits, suite # <<>>, Chemin(suite),
         Ecrire(p, l.resa, l.statut, suite), lus' = Faite(p, l),
         \/ UNCHANGED pc
         \/ pc[p] = "purger" /\ pc' = [pc EXCEPT ![p] = "defauts"],
         pc[p] # "repos",
         l.statut # "completed", l.statut = "cancelled" => suite = <<"D">>,
         pc[p] = "vieillir" => Dernier(suite) \notin Ouverts
  PROVE  Histoire'
<1> DEFINE b == l.resa
<1>1. b \in Resas /\ l.statut \in Statuts
  <2>1. l \in Lignes
    BY DEF Core, TypeInv, TypeOK
  <2>2. QED
    BY <2>1 DEF Lignes
<1>2. /\ \A q \in Procs \ {p} : ecrits[q][b] = <<>>
      /\ UNCHANGED <<audit, passe, date>>
      /\ ecrits'[p][b] = IF Visible(p, b) = "D" THEN ecrits[p][b]
                                                ELSE ecrits[p][b] \o suite
      /\ \A q \in Procs, c \in Resas :
           q # p \/ c # b => ecrits'[q][c] = ecrits[q][c]
      /\ journal'[b] = journal[b] \o suite
      /\ \A c \in Resas \ {b} : journal'[c] = journal[c]
      /\ trouble' = IF Visible(p, b) = l.statut THEN trouble
                                                ELSE trouble \cup {b}
  BY <1>1 DEF Ecrire, Core, TypeInv, TypeOK
<1>3. /\ \A q \in Procs \ {p} : pc'[q] = pc[q] /\ lus'[q] = lus[q]
      /\ lus'[p] = lus[p] \ {l}
      /\ pc'[p] # "repos"
      /\ pc[p] = "vieillir" => pc'[p] = "vieillir"
  BY DEF Faite, Core, TypeInv, TypeOK
<1>4. /\ audit[b] \in Ecrits /\ ecrits[p][b] \in Ecrits
      /\ journal[b] \in Evenements /\ suite \in Evenements
      /\ audit[b] \o ecrits[p][b] \in Ecrits
      /\ audit[b] \o ecrits[p][b] # <<>>
  <2>1. audit[b] # <<>> \/ ecrits[p][b] # <<>>
    BY DEF Core, ReadInv
  <2>2. suite \in Evenements
    BY DEF Ecrits, Evenements
  <2>3. QED
    BY <1>1, <2>1, <2>2, Sequences
<1>5. audit[b] \o (ecrits[p][b] \o suite) = (audit[b] \o ecrits[p][b]) \o suite
  <2> HIDE DEF b
  <2>1. QED
    BY <1>4, EcritsAssociatif
<1>6. ASSUME NEW c \in Resas
      PROVE  /\ Suivi(audit[c]) \in Evenements
             /\ \A q \in Procs :
                  Suivi(audit[c] \o ecrits[q][c]) \in Evenements
  <2>1. /\ audit[c] \in Ecrits
        /\ \A q \in Procs : audit[c] \o ecrits[q][c] \in Ecrits
    BY Sequences
  <2>2. ASSUME NEW s \in Ecrits
        PROVE  Suivi(s) \in Evenements
    <3>1. CASE s = <<>>
      BY <3>1 DEF Suivi, Evenements
    <3>2. CASE s # <<>>
      BY <3>2, SuiviAt
    <3>3. QED
      BY <3>1, <3>2
  <2>3. QED
    BY <2>1, <2>2
<1>7. DateInv'
  BY <1>2, <1>3 DEF Histoire, DateInv
<1>8. TracedInv'
  <2>1. ASSUME NEW c \in Resas
        PROVE  /\ Parmi(Suivi(audit[c]), journal'[c])
               /\ \A q \in Procs :
                    Parmi(Suivi(audit[c] \o ecrits'[q][c]), journal'[c])
    <3>1. /\ Parmi(Suivi(audit[c]), journal[c])
          /\ \A q \in Procs :
               Parmi(Suivi(audit[c] \o ecrits[q][c]), journal[c])
      BY DEF Histoire, TracedInv
    <3>2. CASE c # b
      BY <1>2, <3>1, <3>2
    <3>3. CASE c = b
      <4>1. /\ Parmi(Suivi(audit[b]), journal[b] \o suite)
            /\ \A q \in Procs :
                 /\ Parmi(Suivi(audit[b] \o ecrits[q][b]), journal[b] \o suite)
                 /\ Parmi(Suivi(audit[b] \o ecrits[q][b]) \o suite,
                          journal[b] \o suite)
        <5>1. /\ Suivi(audit[b]) \in Evenements
              /\ Parmi(Suivi(audit[b]), journal[b])
          BY <1>1, <1>6, <3>1, <3>3
        <5>2. \A q \in Procs :
                /\ Suivi(audit[b] \o ecrits[q][b]) \in Evenements
                /\ Parmi(Suivi(audit[b] \o ecrits[q][b]), journal[b])
          BY <1>1, <1>6, <3>1, <3>3
        <5>3. journal[b] \in Evenements /\ suite \in Evenements
          BY <1>4
        <5> HIDE DEF b
        <5>4. QED
          BY <5>1, <5>2, <5>3, ParmiConcat
      <4>2. Suivi(audit[b] \o (ecrits[p][b] \o suite)) =
              Suivi(audit[b] \o ecrits[p][b]) \o suite
        BY <1>4, <1>5, SuiviConcat
      <4>3. Parmi(Suivi(audit[b] \o ecrits'[p][b]), journal[b] \o suite)
        BY <1>2, <4>1, <4>2
      <4>4. QED
        BY <1>2, <3>3, <4>1, <4>3
    <3>4. QED
      BY <3>2, <3>3
  <2>2. QED
    BY <1>2, <2>1 DEF TracedInv
<1>9. ASSUME b \notin trouble'
      PROVE  /\ b \notin trouble /\ trouble' = trouble
             /\ Visible(p, b) = l.statut
             /\ ecrits'[p][b] = ecrits[p][b] \o suite
  BY <1>1, <1>2, <1>9 DEF Statuts, Ouverts, Terminaux
<1>10. trouble \subseteq trouble' /\ trouble' \subseteq trouble \cup {b}
  BY <1>2
<1>11. JournalInv'
  <2>1. ASSUME b \notin trouble'
        PROVE  /\ ecrits'[p][b] # <<>>
               /\ journal'[b] = Suivi(audit[b] \o ecrits'[p][b])
    <3>1. journal[b] = Suivi(audit[b] \o ecrits[p][b])
      <4>1. CASE ecrits[p][b] # <<>>
        BY <1>1, <1>9, <2>1, <4>1 DEF Histoire, JournalInv
      <4>2. CASE ecrits[p][b] = <<>>
        <5>1. journal[b] = Suivi(audit[b])
          BY <1>1, <1>2, <1>9, <2>1, <4>2 DEF Histoire, JournalInv
        <5>2. QED
          BY <1>1, <4>2, <5>1, Sequences
      <4>3. QED
        BY <4>1, <4>2
    <3>2. Suivi(audit[b] \o (ecrits[p][b] \o suite)) = journal[b] \o suite
      BY <1>4, <1>5, <3>1, SuiviConcat
    <3>3. ecrits[p][b] \o suite # <<>>
      BY <1>4, ConcatElts DEF Ecrits
    <3>4. QED
      BY <1>2, <1>9, <2>1, <3>2, <3>3
  <2>2. ASSUME NEW c \in Resas, c \notin trouble'
        PROVE  /\ (\A q \in Procs : ecrits'[q][c] = <<>>) =>
                    journal'[c] = Suivi(audit[c])
               /\ \A q \in Procs :
                    ecrits'[q][c] # <<>> =>
                      journal'[c] = Suivi(audit[c] \o ecrits'[q][c])
    <3>1. CASE c # b
      <4>1. c \notin trouble
        BY <1>10, <2>2
      <4>2. QED
        <5>1. /\ journal'[c] = journal[c]
              /\ \A q \in Procs : ecrits'[q][c] = ecrits[q][c]
          BY <1>2, <3>1
        <5>2. /\ (\A q \in Procs : ecrits[q][c] = <<>>) =>
                    journal[c] = Suivi(audit[c])
              /\ \A q \in Procs :
                   ecrits[q][c] # <<>> =>
                     journal[c] = Suivi(audit[c] \o ecrits[q][c])
          BY <4>1 DEF Histoire, JournalInv
        <5>3. QED
          BY <5>1, <5>2
    <3>2. CASE c = b
      <4>1. /\ ecrits'[p][b] # <<>>
            /\ journal'[b] = Suivi(audit[b] \o ecrits'[p][b])
        BY <2>1, <2>2, <3>2
      <4>2. \A q \in Procs \ {p} : ecrits'[q][b] = <<>>
        BY <1>1, <1>2
      <4> HIDE DEF b
      <4>3. QED
        BY <3>2, <4>1, <4>2
    <3>3. QED
      BY <3>1, <3>2
  <2>3. QED
    BY <1>2, <2>2 DEF JournalInv
<1>12. CheminInv'
  <2>1. ASSUME b \notin trouble'
        PROVE  Chemin(audit[b] \o ecrits'[p][b])
    <3>1. /\ Chemin(audit[b] \o ecrits[p][b])
          /\ Dernier(audit[b] \o ecrits[p][b]) = l.statut
      BY <1>1, <1>9, <2>1 DEF Histoire, CheminInv, Visible
    <3>2. l.statut \notin {"completed", "D"}
      BY <1>1 DEF Statuts, Ouverts, Terminaux
    <3>3. Chemin((audit[b] \o ecrits[p][b]) \o suite)
      BY <1>4, <3>1, <3>2, CheminConcat
    <3>4. QED
      BY <1>5, <1>9, <2>1, <3>3
  <2>2. ASSUME NEW c \in Resas, c \notin trouble'
        PROVE  /\ Chemin(audit[c])
               /\ \A q \in Procs : Chemin(audit[c] \o ecrits'[q][c])
    <3>1. /\ Chemin(audit[c])
          /\ \A q \in Procs : Chemin(audit[c] \o ecrits[q][c])
      BY <1>10, <2>2 DEF Histoire, CheminInv
    <3>2. QED
      BY <1>2, <2>1, <2>2, <3>1
  <2>3. QED
    BY <1>2, <2>2 DEF CheminInv
<1>13. ClosInv'
  <2>1. ASSUME NEW q \in Procs, NEW c \in date[q], c \notin trouble',
               Dernier(audit[c] \o ecrits'[q][c]) \in Ouverts
        PROVE  pc'[q] = "vieillir" /\ \E k \in lus'[q] : k.resa = c
    <3>1. c \in Resas /\ c \notin trouble
      BY <1>10, <2>1 DEF Core, TypeInv, TypeOK
    <3>2. Visible(q, c) \in Ouverts =>
            pc[q] = "vieillir" /\ \E k \in lus[q] : k.resa = c
      BY <3>1 DEF Histoire, ClosInv
    <3>3. CASE q # p
      BY <1>2, <1>3, <2>1, <3>1, <3>2, <3>3 DEF Visible
    <3>4. CASE q = p /\ c # b
      BY <1>2, <1>3, <2>1, <3>1, <3>2, <3>4 DEF Visible
    <3>5. CASE q = p /\ c = b
      <4>1. Dernier(audit[b] \o ecrits'[p][b]) = Dernier(suite)
        <5>1. ecrits'[p][b] = ecrits[p][b] \o suite
          BY <1>9, <2>1, <3>5
        <5> HIDE DEF b
        <5>2. Dernier((audit[b] \o ecrits[p][b]) \o suite) = Dernier(suite)
          BY <1>4, EcritsDernier
        <5>3. QED
          BY <1>5, <5>1, <5>2
      <4>2. pc[p] # "vieillir" /\ Dernier(suite) \in Ouverts
        BY <2>1, <3>5, <4>1
      <4>3. l.statut \notin Ouverts
        BY <1>9, <2>1, <3>2, <3>5, <4>2
      <4>4. suite = <<"D">>
        BY <1>1, <4>3 DEF Statuts, Terminaux
      <4>5. Dernier(suite) = "D"
        BY <4>4 DEF Dernier
      <4>6. QED
        BY <4>2, <4>5 DEF Ouverts
    <3>6. QED
      BY <3>3, <3>4, <3>5
  <2>2. QED
    BY <1>2, <2>1 DEF ClosInv, Visible
<1>14. QED
  BY <1>7, <1>8, <1>11, <1>12, <1>13 DEF Histoire

\* An insertion: nothing is known of the booking, nor of its stay.
LEMMA HistoireInsertion ==
  ASSUME Core, Histoire, NEW p \in Procs, NEW b \in Resas, NEW s \in Statuts,
         Inserer(p, b, s), NEW etape \in Etapes \ {"repos"}, Aller(p, etape),
         pc[p] \notin {"repos", "vieillir"}
  PROVE  Histoire'
<1>1. /\ journal[b] = <<>> /\ audit[b] = <<>>
      /\ \A q \in Procs : ecrits[q][b] = <<>>
  BY DEF Inserer, Core, FreshInv
<1>2. /\ UNCHANGED <<audit, lus, trouble, passe, date>>
      /\ ecrits'[p][b] = <<s>>
      /\ \A q \in Procs, c \in Resas :
           q # p \/ c # b => ecrits'[q][c] = ecrits[q][c]
      /\ journal'[b] = <<"insert">>
      /\ \A c \in Resas \ {b} : journal'[c] = journal[c]
      /\ \A q \in Procs \ {p} : pc'[q] = pc[q]
      /\ pc'[p] # "repos"
  BY DEF Inserer, Aller, Core, TypeInv, TypeOK
<1>3. /\ audit[b] \o <<s>> = <<s>>
      /\ audit[b] \o <<>> = <<>>
      /\ Suivi(<<s>>) = <<"insert">> /\ Suivi(<<>>) = <<>>
      /\ <<"insert">> \in Evenements /\ <<s>> # <<>>
  <2>1. <<s>> \in Ecrits /\ <<s>> # <<>> /\ Len(<<s>>) = 1
    BY DEF Ecrits
  <2>2. <<>> \o <<s>> = <<s>> /\ <<>> \o <<>> = <<>>
    BY <2>1, ConcatEmptySeq DEF Ecrits
  <2>3. <<"insert">> \in Evenements /\ Len(<<"insert">>) = 1
    BY DEF Evenements
  <2>4. Suivi(<<s>>) = <<"insert">>
    <3>1. /\ Suivi(<<s>>) \in Evenements /\ Len(Suivi(<<s>>)) = 1
          /\ \A i \in 1 .. 1 : Suivi(<<s>>)[i] = "insert"
      BY <2>1, SuiviAt
    <3>2. \A i \in 1 .. 1 : <<"insert">>[i] = "insert"
      OBVIOUS
    <3>3. QED
      BY <2>3, <3>1, <3>2, SeqEqual DEF Evenements
  <2>5. QED
    BY <1>1, <2>1, <2>2, <2>3, <2>4 DEF Suivi
<1>4. \A q \in Procs :
        audit[b] \o ecrits'[q][b] = IF q = p THEN <<s>> ELSE <<>>
  BY <1>1, <1>2, <1>3
<1>5. DateInv'
  BY <1>2 DEF Histoire, DateInv
<1>6. TracedInv'
  <2>1. /\ Parmi(Suivi(<<s>>), <<"insert">>)
        /\ Parmi(Suivi(<<>>), <<"insert">>)
    BY <1>3, ParmiMeme
  <2>2. QED
    BY <1>1, <1>2, <1>4, <2>1 DEF Histoire, TracedInv
<1>7. JournalInv'
  <2>1. /\ ~ \A q \in Procs : ecrits'[q][b] = <<>>
        /\ \A q \in Procs :
             ecrits'[q][b] # <<>> =>
               journal'[b] = Suivi(audit[b] \o ecrits'[q][b])
    BY <1>1, <1>2, <1>3, <1>4
  <2>2. QED
    BY <1>2, <2>1 DEF Histoire, JournalInv
<1>8. CheminInv'
  <2>1. Chemin(<<s>>) /\ Chemin(<<>>)
    BY CheminCourt
  <2>2. Chemin(audit[b]) /\ \A q \in Procs : Chemin(audit[b] \o ecrits'[q][b])
    BY <1>1, <1>4, <2>1
  <2>3. ASSUME NEW c \in Resas \ trouble, c # b
        PROVE  /\ Chemin(audit[c])
               /\ \A q \in Procs : Chemin(audit[c] \o ecrits'[q][c])
    BY <1>2, <2>3 DEF Histoire, CheminInv
  <2>4. QED
    BY <1>2, <2>2, <2>3 DEF CheminInv
<1>9. ClosInv'
  <2>1. ASSUME NEW q \in Procs, NEW c \in date[q], c \notin trouble
        PROVE  /\ Visible(q, c) \in Ouverts =>
                    pc[q] = "vieillir" /\ \E l \in lus[q] : l.resa = c
               /\ Visible(q, c)' = Visible(q, c)
    <3>1. c \in Resas /\ c # b
      BY <1>1 DEF Core, TypeInv, TypeOK, Histoire, DateInv
    <3>2. QED
      BY <1>2, <2>1, <3>1 DEF Histoire, ClosInv, Visible
  <2>2. QED
    BY <1>2, <2>1 DEF ClosInv
<1>10. QED
  BY <1>5, <1>6, <1>7, <1>8, <1>9 DEF Histoire

\* The end of a turn.
LEMMA HistoireFin ==
  ASSUME Core, Histoire, NEW p \in Procs, Commit(p) \/ Abandonner(p)
  PROVE  Histoire'
<1>1. /\ \A c \in Resas : ecrits'[p][c] = <<>>
      /\ \A q \in Procs \ {p} : /\ ecrits'[q] = ecrits[q] /\ lus'[q] = lus[q]
                                /\ pc'[q] = pc[q] /\ date'[q] = date[q]
      /\ date'[p] = {} /\ UNCHANGED <<journal, passe>>
  BY DEF Commit, Abandonner, Terminer, Rien, Core, TypeInv, TypeOK
<1>2. \A c \in Resas :
        audit'[c] = audit[c] \/ audit'[c] = audit[c] \o ecrits[p][c]
  BY DEF Commit, Abandonner
<1>3. trouble \subseteq trouble'
  BY DEF Commit, Abandonner
\* Either p had not written c, or no other command has.
<1>4. ASSUME NEW c \in Resas, ecrits[p][c] = <<>>
      PROVE  /\ audit'[c] = audit[c]
             /\ \A q \in Procs : ecrits'[q][c] = ecrits[q][c]
  BY <1>1, <1>2, <1>4, Sequences
<1>5. ASSUME NEW c \in Resas, ecrits[p][c] # <<>>
      PROVE  /\ \A q \in Procs : ecrits'[q][c] = <<>>
             /\ \A q \in Procs : audit'[c] \o ecrits'[q][c] = audit'[c]
             /\ \A q \in Procs \ {p} : ecrits[q][c] = <<>>
             /\ c \notin trouble' => audit'[c] = audit[c] \o ecrits[p][c]
  <2>1. \A q \in Procs \ {p} : ecrits[q][c] = <<>>
    BY <1>5 DEF Core, LockInv
  <2>2. \A q \in Procs : ecrits'[q][c] = <<>>
    BY <1>1, <2>1
  <2>3. audit'[c] \in Ecrits
    BY <1>2, Sequences
  <2>4. audit'[c] \o <<>> = audit'[c]
    BY <2>3, DernierConcat DEF Ecrits
  <2>5. c \notin trouble' => audit'[c] = audit[c] \o ecrits[p][c]
    BY <1>5 DEF Commit, Abandonner
  <2>6. QED
    BY <2>1, <2>2, <2>4, <2>5
<1>6. DateInv'
  <2>1. ASSUME NEW c \in passe
        PROVE  audit'[c] # <<>>
    <3>1. c \in Resas /\ audit[c] # <<>>
      BY DEF Core, TypeInv, TypeOK, Histoire, DateInv
    <3>2. QED
      BY <1>2, <3>1, Sequences
  <2>2. QED
    BY <1>1, <2>1 DEF Histoire, DateInv
<1>7. TracedInv'
  <2>1. ASSUME NEW c \in Resas
        PROVE  /\ Parmi(Suivi(audit'[c]), journal[c])
               /\ \A q \in Procs :
                    Parmi(Suivi(audit'[c] \o ecrits'[q][c]), journal[c])
    <3>1. /\ Parmi(Suivi(audit[c]), journal[c])
          /\ \A q \in Procs :
               Parmi(Suivi(audit[c] \o ecrits[q][c]), journal[c])
      BY DEF Histoire, TracedInv
    <3>2. CASE ecrits[p][c] = <<>>
      BY <1>4, <3>1, <3>2
    <3>3. CASE ecrits[p][c] # <<>>
      BY <1>2, <1>5, <3>1, <3>3
    <3>4. QED
      BY <3>2, <3>3
  <2>2. QED
    BY <1>1, <2>1 DEF TracedInv
<1>8. JournalInv'
  <2>1. ASSUME NEW c \in Resas, c \notin trouble'
        PROVE  /\ (\A q \in Procs : ecrits'[q][c] = <<>>) =>
                    journal[c] = Suivi(audit'[c])
               /\ \A q \in Procs :
                    ecrits'[q][c] # <<>> =>
                      journal[c] = Suivi(audit'[c] \o ecrits'[q][c])
    <3>1. /\ (\A q \in Procs : ecrits[q][c] = <<>>) =>
               journal[c] = Suivi(audit[c])
          /\ \A q \in Procs :
               ecrits[q][c] # <<>> =>
                 journal[c] = Suivi(audit[c] \o ecrits[q][c])
      BY <1>3, <2>1 DEF Histoire, JournalInv
    <3>2. CASE ecrits[p][c] = <<>>
      BY <1>4, <3>1, <3>2
    <3>3. CASE ecrits[p][c] # <<>>
      BY <1>5, <2>1, <3>1, <3>3
    <3>4. QED
      BY <3>2, <3>3
  <2>2. QED
    BY <1>1, <2>1 DEF JournalInv
<1>9. CheminInv'
  <2>1. ASSUME NEW c \in Resas, c \notin trouble'
        PROVE  /\ Chemin(audit'[c])
               /\ \A q \in Procs : Chemin(audit'[c] \o ecrits'[q][c])
    <3>1. /\ Chemin(audit[c])
          /\ \A q \in Procs : Chemin(audit[c] \o ecrits[q][c])
      BY <1>3, <2>1 DEF Histoire, CheminInv
    <3>2. CASE ecrits[p][c] = <<>>
      BY <1>4, <3>1, <3>2
    <3>3. CASE ecrits[p][c] # <<>>
      BY <1>5, <2>1, <3>1, <3>3
    <3>4. QED
      BY <3>2, <3>3
  <2>2. QED
    BY <2>1 DEF CheminInv
<1>10. ClosInv'
  <2>1. ASSUME NEW q \in Procs \ {p}, NEW c \in date[q], c \notin trouble',
               Dernier(audit'[c] \o ecrits'[q][c]) \in Ouverts
        PROVE  pc[q] = "vieillir" /\ \E l \in lus[q] : l.resa = c
    <3>1. c \in Resas /\ c \notin trouble /\ audit[c] # <<>>
      BY <1>3, <2>1 DEF Core, TypeInv, TypeOK, Histoire, DateInv
    <3>2. Dernier(audit[c] \o ecrits[q][c]) \in Ouverts
      <4>1. CASE ecrits[p][c] = <<>>
        BY <1>4, <2>1, <3>1, <4>1
      <4>2. CASE ecrits[p][c] # <<>>
        <5>1. /\ Dernier(audit[c] \o ecrits[p][c]) \in Ouverts
              /\ ecrits[q][c] = <<>>
          BY <1>5, <2>1, <3>1, <4>2
        <5>2. /\ audit[c] \in Ecrits /\ ecrits[p][c] \in Ecrits
              /\ audit[c] \o ecrits[q][c] = audit[c]
          BY <3>1, <5>1, Sequences
        <5>3. Chemin(audit[c] \o ecrits[p][c])
          BY <3>1 DEF Histoire, CheminInv
        <5>4. Dernier(audit[c]) \notin {"completed", "cancelled", "D"}
          BY <3>1, <5>1, <5>2, <5>3, CheminFin DEF Ouverts
        <5>5. Dernier(audit[c]) \in Statuts \cup {"D"}
          BY <3>1, <5>2, DernierElt DEF Ecrits
        <5>6. QED
          BY <5>2, <5>4, <5>5 DEF Statuts, Terminaux
      <4>3. QED
        BY <4>1, <4>2
    <3>3. QED
      BY <3>1, <3>2 DEF Histoire, ClosInv, Visible
  <2>2. QED
    BY <1>1, <2>1 DEF ClosInv, Visible
<1>11. QED
  BY <1>6, <1>7, <1>8, <1>9, <1>10 DEF Histoire

LEMMA HistoireStep == Core /\ Histoire /\ [Next]_vars => Histoire'
<1> SUFFICES ASSUME Core, Histoire, [Next]_vars
             PROVE  Histoire'
  OBVIOUS
<1>1. /\ TypeInv /\ DOMAIN pc = Procs /\ DOMAIN lus = Procs
      /\ DOMAIN date = Procs /\ passe \subseteq Resas
      /\ \A p \in Procs : date[p] \subseteq Resas
  BY DEF Core, TypeInv, TypeOK
<1>2. CASE UNCHANGED vars
  <2>1. UNCHANGED <<audit, journal, passe, pc, date, lus, ecrits, trouble>>
    BY <1>2 DEF vars, tour
  <2>2. DateInv' /\ ClosInv'
    BY <2>1 DEF Histoire, DateInv, ClosInv, Visible
  <2>3. QED
    BY <2>1, <2>2, HistoireSansEcrire
<1>3. ASSUME NEW b \in Resas, PasseDepart(b) \/ Vieillit(b)
      PROVE  Histoire'
  <2>1. /\ UNCHANGED <<audit, journal, pc, date, lus, ecrits, trouble>>
        /\ passe' = passe \/ passe' = passe \cup {b}
        /\ Existe(b)
    BY <1>3 DEF PasseDepart, Vieillit, tour
  <2>2. Existe(b) => audit[b] # <<>>
    BY DEF Existe, Statut, Dernier, Statuts, Ouverts, Terminaux
  <2>3. DateInv' /\ ClosInv'
    BY <2>1, <2>2 DEF Histoire, DateInv, ClosInv, Visible
  <2>4. QED
    BY <2>1, <2>3, HistoireSansEcrire
\* A step that moves p on and reads or closes no row.
<1>4. ASSUME NEW p \in Procs, UNCHANGED <<audit, journal, ecrits, trouble>>,
             UNCHANGED <<passe, date>>, pc'[p] # "repos", pc[p] # "repos",
             \A q \in Procs \ {p} : pc'[q] = pc[q] /\ lus'[q] = lus[q],
             pc[p] # "vieillir" \/ lus[p] = {}
      PROVE  Histoire'
  <2>1. DateInv'
    BY <1>4 DEF Histoire, DateInv
  <2>2. \A c \in date[p] \ trouble : Visible(p, c) \notin Ouverts
    BY <1>4 DEF Histoire, ClosInv
  <2>3. ClosInv'
    BY <1>4, <2>2 DEF Histoire, ClosInv, Visible
  <2>4. QED
    BY <1>4, <2>1, <2>3, HistoireSansEcrire
<1>5. ASSUME NEW p \in Procs, Commencer(p)
      PROVE  Histoire'
  <2>1. /\ UNCHANGED <<audit, journal, passe, ecrits, trouble>>
        /\ \A q \in Procs \ {p} : /\ pc'[q] = pc[q] /\ lus'[q] = lus[q]
                                  /\ date'[q] = date[q]
        /\ pc'[p] = "vieillir" /\ date'[p] = passe
        /\ lus'[p] = {[resa |-> b, statut |-> Visible(p, b)] :
                        b \in SejoursEcoules}
    BY <1>1, <1>5 DEF Commencer, LuesPar
  <2>2. DateInv'
    BY <2>1 DEF Histoire, DateInv
  <2>3. ASSUME NEW c \in passe, Visible(p, c) \in Ouverts
        PROVE  \E l \in lus'[p] : l.resa = c
    <3>1. Visible(p, c) = Statut(c)
      BY <1>1, <1>5, VisibleIdle DEF Commencer
    <3>2. c \in SejoursEcoules
      BY <2>3, <3>1 DEF SejoursEcoules
    <3>3. [resa |-> c, statut |-> Visible(p, c)] \in lus'[p]
      BY <2>1, <3>2
    <3>4. QED
      BY <3>3
  <2>4. ClosInv'
    BY <2>1, <2>3 DEF Histoire, ClosInv, Visible
  <2>5. QED
    BY <2>1, <2>2, <2>4, HistoireSansEcrire
<1>6. ASSUME NEW p \in Procs, CompletePastStays(p)
      PROVE  Histoire'
  <2>1. PICK l \in lus[p] :
          /\ Ecrire(p, l.resa, l.statut,
               <<IF l.statut = "confirmed" THEN "completed" ELSE "cancelled">>)
          /\ lus' = Faite(p, l)
    BY <1>6 DEF CompletePastStays
  <2>2. l.statut \in Ouverts
    BY <1>6 DEF CompletePastStays, Core, StepInv
  <2>3. ASSUME NEW x \in Terminaux, Ecrire(p, l.resa, l.statut, <<x>>)
        PROVE  Histoire'
    <3>1. /\ <<x>> \in Ecrits /\ <<x>> # <<>> /\ Chemin(<<x>>)
          /\ Dernier(<<x>>) = x
      BY CheminCourt DEF Ecrits, Statuts, Dernier
    <3>2. x \notin Ouverts /\ l.statut \notin Terminaux
      BY <2>2 DEF Ouverts, Terminaux
    <3>3. /\ UNCHANGED pc /\ pc[p] # "repos"
          /\ l.statut # "completed" /\ l.statut # "cancelled"
      BY <1>6, <3>2 DEF CompletePastStays, Terminaux
    <3>4. QED
      BY <2>1, <2>3, <3>1, <3>2, <3>3, HistoireEcriture
  <2>4. CASE l.statut = "confirmed"
    <3>1. Ecrire(p, l.resa, l.statut, <<"completed">>)
      BY <2>1, <2>4
    <3>2. QED
      BY <2>3, <3>1 DEF Terminaux
  <2>5. CASE l.statut # "confirmed"
    <3>1. Ecrire(p, l.resa, l.statut, <<"cancelled">>)
      BY <2>1, <2>5
    <3>2. QED
      BY <2>3, <3>1 DEF Terminaux
  <2>6. QED
    BY <2>4, <2>5
<1>7. ASSUME NEW p \in Procs, AdvanceStatuses(p)
      PROVE  Histoire'
  <2>1. PICK l \in lus[p], suite \in Suites :
          Ecrire(p, l.resa, l.statut, suite) /\ lus' = Faite(p, l)
    BY <1>7 DEF AdvanceStatuses
  <2>2. l.statut = "pending"
    BY <1>7 DEF AdvanceStatuses, Core, StepInv
  <2>3. suite \in Ecrits /\ suite # <<>> /\ Chemin(suite)
    <3>1. /\ <<"confirmed">> \in Ecrits /\ <<"cancelled">> \in Ecrits
          /\ <<"confirmed", "cancelled">> \in Ecrits
      BY DEF Ecrits, Statuts, Ouverts, Terminaux
    <3>2. Chemin(<<"confirmed", "cancelled">>)
      BY DEF Chemin
    <3>3. QED
      BY <3>1, <3>2, CheminCourt DEF Suites
  <2>4. QED
    <3>1. UNCHANGED pc /\ pc[p] # "repos" /\ pc[p] # "vieillir"
      BY <1>7 DEF AdvanceStatuses
    <3>2. l.statut # "completed" /\ l.statut # "cancelled"
      BY <2>2
    <3>3. QED
      BY <2>1, <2>3, <3>1, <3>2, HistoireEcriture
<1>8. ASSUME NEW p \in Procs, DeleteOldBookings(p)
      PROVE  Histoire'
  <2>1. PICK l \in lus[p] :
          Ecrire(p, l.resa, l.statut, <<"D">>) /\ lus' = Faite(p, l)
    BY <1>8 DEF DeleteOldBookings
  <2>2. l.statut \in {"pending", "cancelled"}
    BY <1>8 DEF DeleteOldBookings, Core, StepInv
  <2>3. <<"D">> \in Ecrits /\ <<"D">> # <<>> /\ Chemin(<<"D">>)
    BY CheminCourt DEF Ecrits
  <2>4. QED
    BY <1>8, <2>1, <2>2, <2>3, HistoireEcriture DEF DeleteOldBookings
<1>9. ASSUME NEW p \in Procs,
             FinVieillir(p) \/ FinAvancer(p) \/ ChoisirPending(p)
             \/ ChoisirAncienne(p)
      PROVE  Histoire'
  <2>1. /\ UNCHANGED <<audit, journal, ecrits, trouble>>
        /\ UNCHANGED <<passe, date>>
        /\ pc[p] # "repos" /\ pc'[p] # "repos"
        /\ pc[p] # "vieillir" \/ lus[p] = {}
    BY <1>1, <1>9
       DEF FinVieillir, FinAvancer, ChoisirPending, ChoisirAncienne, Aller
  <2>2. \A q \in Procs \ {p} : pc'[q] = pc[q] /\ lus'[q] = lus[q]
    BY <1>1, <1>9 DEF FinVieillir, FinAvancer, ChoisirPending,
                      ChoisirAncienne, Aller, LuesPar
  <2>3. QED
    BY <1>4, <2>1, <2>2
<1>10. ASSUME NEW p \in Procs, InsertBookings(p) \/ LateArriving(p)
       PROVE  Histoire'
  <2>1. PICK etape \in {"choisir", "fin"} : Aller(p, etape)
    BY <1>10 DEF InsertBookings, LateArriving
  <2>2. pc[p] \notin {"repos", "vieillir"}
    BY <1>10 DEF InsertBookings, LateArriving
  <2>3. CASE UNCHANGED <<journal, lus, ecrits, trouble>>
    <3>1. /\ UNCHANGED <<audit, journal, ecrits, trouble, passe, date>>
          /\ pc'[p] # "repos"
          /\ \A q \in Procs \ {p} : pc'[q] = pc[q] /\ lus'[q] = lus[q]
      BY <1>1, <2>1, <2>3 DEF Aller
    <3>2. QED
      BY <1>4, <2>2, <3>1
  <2>4. CASE \E b \in Resas, s \in Statuts : Inserer(p, b, s)
    <3>1. etape \in Etapes \ {"repos"}
      BY DEF Etapes
    <3>2. QED
      BY <2>1, <2>2, <2>4, <3>1, HistoireInsertion
  <2>5. Nouveaux \subseteq Statuts /\ "pending" \in Statuts
    BY DEF Nouveaux, Statuts, Ouverts, Terminaux
  <2>6. QED
    BY <1>10, <2>3, <2>4, <2>5 DEF InsertBookings, LateArriving
<1>11. ASSUME NEW p \in Procs, Commit(p) \/ Abandonner(p)
       PROVE  Histoire'
  BY <1>11, HistoireFin
<1>12. QED
  BY <1>2, <1>3, <1>5, <1>6, <1>7, <1>8, <1>9, <1>10, <1>11 DEF Next

LEMMA HistoireAlways == Spec => [](Core /\ Histoire)
BY CoreInit, CoreStep, HistoireInit, HistoireStep, PTL DEF Spec

LEMMA HistoireJournal == Core /\ Histoire => JournalIsAudit
<1> SUFFICES ASSUME Core, Histoire, \A p \in Procs : pc[p] = "repos",
                    NEW b \in Resas, b \notin trouble
             PROVE  journal[b] = Trace(b)
  BY DEF JournalIsAudit
<1>1. \A p \in Procs : ecrits[p][b] = <<>>
  BY DEF Core, TypeInv, IdleInv, Rien
<1>2. QED
  BY <1>1 DEF Histoire, JournalInv, Trace, Suivi

\* Between two turns the journal is the audit, but for the bookings in trouble.
THEOREM JournalSafe == Spec => []JournalIsAudit
BY HistoireAlways, HistoireJournal, PTL

LEMMA HistoireTraced == Histoire => CommittedIsTraced
BY DEF Histoire, TracedInv, CommittedIsTraced, Trace, Suivi

\* Every committed change is in the journal, in its order, whatever failed.
THEOREM TracedSafe == Spec => []CommittedIsTraced
BY HistoireAlways, HistoireTraced, PTL

LEMMA AuditStep ==
  ASSUME [Next]_vars
  PROVE  UNCHANGED audit \/ \E p \in Procs : Commit(p)
<1>1. ASSUME NEW p \in Procs,
             CompletePastStays(p) \/ AdvanceStatuses(p) \/ DeleteOldBookings(p)
      PROVE  UNCHANGED audit
  BY <1>1 DEF CompletePastStays, AdvanceStatuses, DeleteOldBookings, Ecrire
<1>2. ASSUME NEW p \in Procs,
             \/ FinVieillir(p) \/ InsertBookings(p) \/ ChoisirPending(p)
             \/ FinAvancer(p) \/ ChoisirAncienne(p) \/ LateArriving(p)
      PROVE  UNCHANGED audit
  BY <1>2 DEF FinVieillir, InsertBookings, ChoisirPending, FinAvancer,
              ChoisirAncienne, LateArriving, Aller
<1>3. ASSUME NEW p \in Procs, Commencer(p) \/ Abandonner(p)
      PROVE  UNCHANGED audit
  BY <1>3 DEF Commencer, Abandonner
<1>4. ASSUME NEW b \in Resas, PasseDepart(b) \/ Vieillit(b)
      PROVE  UNCHANGED audit
  BY <1>4 DEF PasseDepart, Vieillit
<1>5. CASE UNCHANGED vars
  BY <1>5 DEF vars
<1>6. QED
  BY <1>1, <1>2, <1>3, <1>4, <1>5 DEF Next

\* A booking without trouble that is completed or cancelled stays so, purge
\* excepted.
THEOREM TerminalSafe == Spec => TerminalKept
<1>1. ASSUME Core, Histoire, [Next]_vars, NEW b \in Resas, b \notin trouble'
      PROVE  /\ Statut(b) = "completed" => Dernier(audit'[b]) = "completed"
             /\ Statut(b) = "cancelled" =>
                  Dernier(audit'[b]) \in {"cancelled", "D"}
  <2>1. CASE UNCHANGED audit
    BY <2>1 DEF Statut
  <2>2. ASSUME NEW p \in Procs, Commit(p), audit[b] # <<>>
        PROVE  /\ Statut(b) = "completed" => Dernier(audit'[b]) = "completed"
               /\ Statut(b) = "cancelled" =>
                    Dernier(audit'[b]) \in {"cancelled", "D"}
    <3>1. audit'[b] = audit[b] \o ecrits[p][b] /\ b \notin trouble
      BY <1>1, <2>2 DEF Commit
    <3>2. Chemin(audit[b] \o ecrits[p][b])
      BY <1>1, <3>1 DEF Histoire, CheminInv
    <3>3. audit[b] \in Ecrits /\ ecrits[p][b] \in Ecrits
      BY <1>1, Sequences
    <3>4. QED
      BY <2>2, <3>1, <3>2, <3>3, CheminFin DEF Statut
  <2>3. CASE audit[b] = <<>>
    BY <2>3 DEF Statut, Dernier
  <2>4. QED
    BY <1>1, <2>1, <2>2, <2>3, AuditStep
<1>2. Core /\ Histoire /\ [Next]_vars =>
        [\A b \in Resas \ trouble' :
           /\ Statut(b) = "completed" => Dernier(audit'[b]) = "completed"
           /\ Statut(b) = "cancelled" =>
                Dernier(audit'[b]) \in {"cancelled", "D"}]_vars
  BY <1>1
<1>3. QED
  BY <1>2, HistoireAlways, PTL DEF Spec, TerminalKept

\* A turn that commits leaves no stay open that had elapsed when it began.
THEOREM PastStaysSafe == Spec => PastStaysClosed
<1>1. ASSUME Core, Histoire, NEW p \in Procs, Commit(p),
             NEW b \in date[p] \ trouble
      PROVE  Dernier(audit'[b]) \notin Ouverts
  <2>1. b \in Resas
    BY <1>1 DEF Core, TypeInv, TypeOK
  <2>2. Visible(p, b) \notin Ouverts
    BY <1>1 DEF Histoire, ClosInv, Commit
  <2>3. audit'[b] = audit[b] \o ecrits[p][b]
    BY <1>1, <2>1 DEF Commit
  <2>4. QED
    BY <2>2, <2>3 DEF Visible
<1>2. Core /\ Histoire /\ [Next]_vars =>
        [\A p \in Procs :
           Commit(p) =>
             \A b \in date[p] \ trouble :
               Dernier(audit'[b]) \notin Ouverts]_vars
  BY <1>1
<1>3. QED
  BY <1>2, HistoireAlways, PTL DEF Spec, PastStaysClosed

=============================================================================
