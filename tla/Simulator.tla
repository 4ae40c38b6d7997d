----------------------------- MODULE Simulator -----------------------------
(***************************************************************************)
(* simulator/generate.py against PostgreSQL: the commands simulate and     *)
(* age, each a transaction per turn under READ COMMITTED, which read rows, *)
(* then update them one by one, each update traced at once in              *)
(* simulation_log.jsonl; the trigger audit_bookings writes the same        *)
(* changes into bookings_audit, inside the transaction.                    *)
(*                                                                         *)
(* Of a booking, its status and what the calendar makes of it; of a        *)
(* payment, its booking.  Amounts, customers and the defects that leave    *)
(* both alone are left out.                                                *)
(***************************************************************************)
EXTENDS Integers, SequencesExt

CONSTANTS
  Simulateurs,    \* runs of the command simulate
  Vieillisseurs,  \* runs of the command age
  Resas,
  MaxTours        \* bound on the turns of all commands

ASSUME CommandsAssumption == Simulateurs \cap Vieillisseurs = {}
ASSUME BoundsAssumption == MaxTours \in Nat

Procs == Simulateurs \cup Vieillisseurs
Ouverts == {"pending", "confirmed"}
Terminaux == {"completed", "cancelled"}
Statuts == Ouverts \cup Terminaux
Nouveaux == {"confirmed", "pending", "cancelled"}      \* STATUS_FUTURE
Etapes == {"repos", "vieillir", "inserer", "choisir", "avancer", "supprimer",
           "purger", "defauts", "fin"}

VARIABLES
  audit,      \* audit[b]: statuses committed, "D" for the deletion
  journal,    \* journal[b]: events of simulation_log.jsonl
  payes,      \* bookings with a payment, committed
  passe,      \* bookings with check_out < CURRENT_DATE
  anciennes,  \* bookings made more than 20 days ago
  pc,         \* pc[p]: where the turn of p is
  date,       \* date[p]: passe when the transaction of p began
  lus,        \* lus[p]: rows read and still to be updated
  ecrits,     \* ecrits[p][b]: statuses written, not committed, row locked
  tours,      \* turns begun
  trouble     \* history: bookings of a turn that failed, or updated after
              \* another command changed the row read

tour == <<pc, date, lus, ecrits, tours>>
vars == <<audit, journal, payes, passe, anciennes, tour, trouble>>

Dernier(s) == IF s = <<>> THEN "absente" ELSE s[Len(s)]
Statut(b) == Dernier(audit[b])
Visible(p, b) == Dernier(audit[b] \o ecrits[p][b])
Rien == [b \in Resas |-> <<>>]
Lignes == [resa : Resas, statut : Statuts]

TypeOK ==
  /\ audit \in [Resas -> Seq(Statuts \cup {"D"})]
  /\ journal \in [Resas -> Seq(Statuts \cup {"insert", "D"})]
  /\ payes \subseteq Resas /\ passe \subseteq Resas /\ anciennes \subseteq Resas
  /\ pc \in [Procs -> Etapes]
  /\ date \in [Procs -> SUBSET Resas]
  /\ lus \in [Procs -> SUBSET Lignes]
  /\ ecrits \in [Procs -> [Resas -> Seq(Statuts \cup {"D"})]]
  /\ tours \in 0 .. MaxTours
  /\ trouble \subseteq Resas

\* Mutant of Payables: a booking is paid before it is confirmed.
PayeDavance == {"pending", "confirmed", "completed"}

Payables == {"confirmed", "completed"}

\* The command seed: statuses derived from the dates.  It traces nothing: the
\* journal counts here from the rows it made.
Init ==
  /\ passe \in SUBSET Resas
  /\ audit \in [Resas -> {<<>>} \cup {<<s>> : s \in Statuts}]
  /\ \A b \in Resas :
       Statut(b) \in IF b \in passe THEN Terminaux
                                     ELSE Nouveaux \cup {"absente"}
  /\ journal = [b \in Resas |-> [i \in DOMAIN audit[b] |-> "insert"]]
  /\ payes = {b \in Resas : Statut(b) \in Payables}
  /\ anciennes = {}
  /\ pc = [p \in Procs |-> "repos"]
  /\ date = [p \in Procs |-> {}]
  /\ lus = [p \in Procs |-> {}]
  /\ ecrits = [p \in Procs |-> Rien]
  /\ tours = 0
  /\ trouble = {}

-----------------------------------------------------------------------------
(***************************************************************************)
(* The calendar.                                                           *)
(***************************************************************************)
Existe(b) == Statut(b) \in Statuts

PasseDepart(b) ==
  /\ Existe(b) /\ b \notin passe
  /\ passe' = passe \cup {b}
  /\ UNCHANGED <<audit, journal, payes, anciennes, tour, trouble>>

Vieillit(b) ==
  /\ Existe(b) /\ b \notin anciennes
  /\ anciennes' = anciennes \cup {b}
  /\ UNCHANGED <<audit, journal, payes, passe, tour, trouble>>

-----------------------------------------------------------------------------
(***************************************************************************)
(* A turn.  An update waits for the transaction that has the row, then     *)
(* applies to what that transaction committed, whatever the row read said; *)
(* it finds nothing to update when the row was deleted, and is traced all  *)
(* the same.                                                               *)
(***************************************************************************)
\* Mutant of Ecrire: two changes in a row are one event.
UneTrace(p, b, lu, suite) ==
  /\ \A q \in Procs \ {p} : ecrits[q][b] = <<>>
  /\ ecrits' = [ecrits EXCEPT ![p][b] =
                  IF Visible(p, b) = "D" THEN @ ELSE @ \o suite]
  /\ journal' = [journal EXCEPT ![b] = Append(@, Dernier(suite))]
  /\ trouble' = IF Visible(p, b) = lu THEN trouble ELSE trouble \cup {b}
  /\ UNCHANGED <<audit, payes, passe, anciennes, date, tours>>

Ecrire(p, b, lu, suite) ==
  /\ \A q \in Procs \ {p} : ecrits[q][b] = <<>>
  /\ ecrits' = [ecrits EXCEPT ![p][b] =
                  IF Visible(p, b) = "D" THEN @ ELSE @ \o suite]
  /\ journal' = [journal EXCEPT ![b] = @ \o suite]
  /\ trouble' = IF Visible(p, b) = lu THEN trouble ELSE trouble \cup {b}
  /\ UNCHANGED <<audit, payes, passe, anciennes, date, tours>>

Aller(p, etape) ==
  /\ pc' = [pc EXCEPT ![p] = etape]
  /\ UNCHANGED <<audit, payes, passe, anciennes, date, tours>>

LuesPar(p, B) ==
  [lus EXCEPT ![p] = {[resa |-> b, statut |-> Visible(p, b)] : b \in B}]
Faite(p, l) == [lus EXCEPT ![p] = @ \ {l}]

\* Mutants of SejoursEcoules: no filter on the status; the confirmed only.
ToutStatut == passe
SansPending == {b \in passe : Statut(b) = "confirmed"}

SejoursEcoules == {b \in passe : Statut(b) \in Ouverts}

\* complete_past_stays: CURRENT_DATE is the date the transaction began.
Commencer(p) ==
  /\ pc[p] = "repos"
  /\ tours < MaxTours
  /\ tours' = tours + 1
  /\ pc' = [pc EXCEPT ![p] = "vieillir"]
  /\ date' = [date EXCEPT ![p] = passe]
  /\ lus' = LuesPar(p, SejoursEcoules)
  /\ UNCHANGED <<audit, journal, payes, passe, anciennes, ecrits, trouble>>

CompletePastStays(p) ==
  /\ pc[p] = "vieillir"
  /\ \E l \in lus[p] :
       /\ Ecrire(p, l.resa, l.statut,
            <<IF l.statut = "confirmed" THEN "completed" ELSE "cancelled">>)
       /\ lus' = Faite(p, l)
  /\ UNCHANGED pc

FinVieillir(p) ==
  /\ pc[p] = "vieillir"
  /\ lus[p] = {}
  /\ Aller(p, IF p \in Simulateurs THEN "inserer" ELSE "fin")
  /\ UNCHANGED <<journal, lus, ecrits, trouble>>

\* A new booking: the number that an aborted turn took is not given again.
Inserer(p, b, statut) ==
  /\ journal[b] = <<>>
  /\ ecrits' = [ecrits EXCEPT ![p][b] = <<statut>>]
  /\ journal' = [journal EXCEPT ![b] = <<"insert">>]
  /\ UNCHANGED <<lus, trouble>>

InsertBookings(p) ==
  /\ pc[p] = "inserer"
  /\ \/ \E b \in Resas, s \in Nouveaux : Inserer(p, b, s)
     \/ UNCHANGED <<journal, lus, ecrits, trouble>>
  /\ Aller(p, "choisir")

\* advance_statuses: the SELECT, then the updates.
ChoisirPending(p) ==
  /\ pc[p] = "choisir"
  /\ \E B \in SUBSET {b \in Resas : Visible(p, b) = "pending"} :
       lus' = LuesPar(p, B)
  /\ Aller(p, "avancer")
  /\ UNCHANGED <<journal, ecrits, trouble>>

Suites == {<<"confirmed">>, <<"cancelled">>, <<"confirmed", "cancelled">>}

AdvanceStatuses(p) ==
  /\ pc[p] = "avancer"
  /\ \E l \in lus[p], suite \in Suites :
       /\ Ecrire(p, l.resa, l.statut, suite)
       /\ lus' = Faite(p, l)
  /\ UNCHANGED pc

FinAvancer(p) ==
  /\ pc[p] = "avancer"
  /\ lus[p] = {}
  /\ Aller(p, "supprimer")
  /\ UNCHANGED <<journal, lus, ecrits, trouble>>

\* delete_old_bookings: the SELECT, then the DELETE, of one booking or none.
ChoisirAncienne(p) ==
  /\ pc[p] = "supprimer"
  /\ \/ Aller(p, "defauts") /\ UNCHANGED lus
     \/ \E b \in anciennes :
          /\ Visible(p, b) \in {"pending", "cancelled"}
          /\ lus' = LuesPar(p, {b})
          /\ Aller(p, "purger")
  /\ UNCHANGED <<journal, ecrits, trouble>>

DeleteOldBookings(p) ==
  /\ pc[p] = "purger"
  /\ \E l \in lus[p] :
       /\ Ecrire(p, l.resa, l.statut, <<"D">>)
       /\ lus' = Faite(p, l)
  /\ pc' = [pc EXCEPT ![p] = "defauts"]

\* inject_defects, of its seven the one that makes a booking: late_arriving.
LateArriving(p) ==
  /\ pc[p] = "defauts"
  /\ \/ \E b \in Resas : Inserer(p, b, "pending")
     \/ UNCHANGED <<journal, lus, ecrits, trouble>>
  /\ Aller(p, "fin")

\* insert_payments paid the new bookings by the status they were made with.
Payees(p) ==
  {b \in Resas : audit[b] = <<>> /\ ecrits[p][b] # <<>>
                 /\ Head(ecrits[p][b]) \in Payables}

Terminer(p) ==
  /\ pc' = [pc EXCEPT ![p] = "repos"]
  /\ date' = [date EXCEPT ![p] = {}]
  /\ lus' = [lus EXCEPT ![p] = {}]
  /\ ecrits' = [ecrits EXCEPT ![p] = Rien]
  /\ UNCHANGED <<journal, passe, anciennes, tours>>

Commit(p) ==
  /\ pc[p] = "fin"
  /\ audit' = [b \in Resas |-> audit[b] \o ecrits[p][b]]
  /\ payes' = payes \cup Payees(p)
  /\ UNCHANGED trouble
  /\ Terminer(p)

\* Ctrl+C, a deadlock, a lost connection.
Abandonner(p) ==
  /\ pc[p] # "repos"
  /\ trouble' = trouble \cup {b \in Resas : ecrits[p][b] # <<>>}
  /\ UNCHANGED <<audit, payes>>
  /\ Terminer(p)

Next ==
  \/ \E b \in Resas : PasseDepart(b) \/ Vieillit(b)
  \/ \E p \in Procs :
       \/ Commencer(p) \/ CompletePastStays(p) \/ FinVieillir(p)
       \/ InsertBookings(p)
       \/ ChoisirPending(p) \/ AdvanceStatuses(p) \/ FinAvancer(p)
       \/ ChoisirAncienne(p) \/ DeleteOldBookings(p)
       \/ LateArriving(p)
       \/ Commit(p) \/ Abandonner(p)

Spec == Init /\ [][Next]_vars

-----------------------------------------------------------------------------
(***************************************************************************)
(* Properties.                                                             *)
(***************************************************************************)
\* No booking with a payment is cancelled or deleted, whatever the commands do
\* to each other's rows (docs/limites.md, "Remboursements jamais exerces"): the
\* marts have no case for a refund.
PaidNeverCancelled == \A b \in payes : Statut(b) \in Payables

\* Between two turns, the events of a booking in the journal are the changes of
\* bookings_audit, in their order, unless a turn that touched the booking
\* failed or a command updated it from a row changed since.
Trace(b) == IF audit[b] = <<>> THEN <<>> ELSE <<"insert">> \o Tail(audit[b])

JournalIsAudit ==
  (\A p \in Procs : pc[p] = "repos") =>
    \A b \in Resas \ trouble : journal[b] = Trace(b)

\* What a failed turn leaves in the journal comes in addition: every committed
\* change is there, in its order (generate.py: what really happened).
Parmi(t, s) ==
  \E garde \in [DOMAIN t -> DOMAIN s] :
    /\ \A i, j \in DOMAIN t : i < j => garde[i] < garde[j]
    /\ \A i \in DOMAIN t : t[i] = s[garde[i]]

CommittedIsTraced == \A b \in Resas : Parmi(Trace(b), journal[b])

\* A booking that is completed or cancelled stays so, purge excepted, even
\* across midnight, when one command already sees its stay elapsed and another
\* not, unless a command updated it from a row changed since.
TerminalKept ==
  [][\A b \in Resas \ trouble' :
       /\ Statut(b) = "completed" => Dernier(audit'[b]) = "completed"
       /\ Statut(b) = "cancelled" =>
            Dernier(audit'[b]) \in {"cancelled", "D"}]_vars

\* A turn that commits leaves no stay that had elapsed when it began pending or
\* confirmed (complete_past_stays).
PastStaysClosed ==
  [][\A p \in Procs :
       Commit(p) =>
         \A b \in date[p] \ trouble : Dernier(audit'[b]) \notin Ouverts]_vars

=============================================================================
