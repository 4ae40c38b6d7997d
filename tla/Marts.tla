------------------------------- MODULE Marts -------------------------------
(***************************************************************************)
(* The marts of dbt/booking_analytics: dim_customers (the versions of the  *)
(* customers with their intervals), fct_bookings (one row per booking,     *)
(* joined to the version valid when it was made and to its payments),      *)
(* orphan_payments, and the view rpt_bookings_dashboard over them.         *)
(*                                                                         *)
(* The staging models are views: operators here.  The marts are tables,    *)
(* each rebuilt by a statement of its own while the loads go on: one       *)
(* action each.  Their inputs come by two paths at two speeds: customers   *)
(* and payments by daily windows (BatchIngestion), bookings by CDC         *)
(* (CdcReplica, here through its contract: states in order, with a delay). *)
(* Dates are instants, an instant holds one change of the source.          *)
(***************************************************************************)
EXTENDS Integers, FiniteSets, FiniteSetsExt

CONSTANTS
  Clients, Resas,
  Nul,            \* the NULL of SQL
  Fantome,        \* a booking_id that no booking has
  MaxPaiements,   \* bound on the payments
  LastDay,        \* bound: the windows are 0 .. LastDay, 0 is the snapshot
  ParJour         \* instants in a day

ASSUME NulAssumption == Nul \notin Int \cup Clients
ASSUME FantomeAssumption == Fantome \notin Resas
ASSUME BoundsAssumption ==
  MaxPaiements \in Nat /\ LastDay \in Nat /\ ParJour \in Nat \ {0}

Jour(t) == (t - 1) \div ParJour + 1
Windows == 0 .. LastDay
Instants == 0 .. (LastDay * ParJour)
Modeles == {"dim_customers", "fct_bookings", "orphan_payments"}
Prix == 2
Surencaisse == 3      \* what inject_defects makes of it: half as much again

VARIABLES
  \* the source
  maintenant,     \* instant of the last change
  historique,     \* historique[c]: updated_at of the versions c has had
  resas,          \* resas[b]: customer_id and created_at
  etat,           \* etat[b]: 0 not made yet, 1 in the source, 2 deleted
  paiements,      \* rows of the table payments
  \* the raw tables
  brutClients,    \* brutClients[c]: updated_at of the versions loaded
  brutPaiements,  \* rows of payments loaded
  vue,            \* vue[b]: state of b in the last event loaded
  \* the marts
  dim, fct, orphelins,
  \* history
  frais           \* marts rebuilt since their inputs last changed

source == <<maintenant, historique, resas, etat, paiements>>
raw == <<brutClients, brutPaiements, vue>>
marts == <<dim, fct, orphelins>>
vars == <<maintenant, historique, resas, etat, paiements, brutClients,
          brutPaiements, vue, dim, fct, orphelins, frais>>

Paiement == [id : 1 .. MaxPaiements, resa : Resas \cup {Fantome},
             cle : 1 .. MaxPaiements, montant : {Prix, Surencaisse},
             cree : Instants, maj : Instants]

TypeOK ==
  /\ maintenant \in Instants
  /\ historique \in [Clients -> SUBSET Instants]
  /\ resas \in [Resas -> [client : Clients \cup {Nul}, cree : Instants]]
  /\ etat \in [Resas -> 0 .. 2]
  /\ paiements \subseteq Paiement
  /\ brutClients \in [Clients -> SUBSET Instants]
  /\ brutPaiements \subseteq Paiement
  /\ vue \in [Resas -> 0 .. 2]
  /\ dim \subseteq [client : Clients, observe : Instants,
                    de : Instants \cup {Nul}, a : Instants \cup {Nul}]
  /\ fct \subseteq [resa : Resas, sk : Instants \cup {Nul}, paye : Nat]
  /\ orphelins \subseteq Paiement
  /\ frais \subseteq Modeles

Init ==
  /\ maintenant = 0
  /\ historique \in [Clients -> {{}, {0}}]
  /\ resas = [b \in Resas |-> [client |-> Nul, cree |-> 0]]
  /\ etat = [b \in Resas |-> 0]
  /\ paiements = {}
  /\ brutClients = [c \in Clients |-> {}]
  /\ brutPaiements = {}
  /\ vue = [b \in Resas |-> 0]
  /\ dim = {}
  /\ fct = {}
  /\ orphelins = {}
  /\ frais = {}

-----------------------------------------------------------------------------
(***************************************************************************)
(* The source, as the simulator changes it.  A customer gets a new version *)
(* at each change; a booking may be back-dated, with a customer created    *)
(* now (late_arriving); a booking that has a payment is never deleted.     *)
(***************************************************************************)
Instant ==
  /\ maintenant + 1 \in Instants
  /\ maintenant' = maintenant + 1
  /\ UNCHANGED <<raw, marts, frais>>

NextId == Cardinality(paiements) + 1

AddPayment(p) ==
  /\ NextId <= MaxPaiements
  /\ paiements' = paiements \cup {[p EXCEPT !.id = NextId,
       !.cree = maintenant + 1, !.maj = maintenant + 1]}

NewPayment(b) ==
  AddPayment([id |-> 0, resa |-> b, cle |-> NextId, montant |-> Prix,
              cree |-> 0, maj |-> 0])

ChangeCustomer(c) ==
  /\ Instant
  /\ historique[c] # {}
  /\ historique' = [historique EXCEPT ![c] = @ \cup {maintenant + 1}]
  /\ UNCHANGED <<resas, etat, paiements>>

Book(b, c, cree) ==
  /\ etat[b] = 0
  /\ resas' = [resas EXCEPT ![b] = [client |-> c, cree |-> cree]]
  /\ etat' = [etat EXCEPT ![b] = 1]

InsertBooking(b, c) ==
  /\ Instant
  /\ historique[c] # {}
  /\ Book(b, c, maintenant + 1)
  /\ (UNCHANGED paiements) \/ NewPayment(b)
  /\ UNCHANGED historique

LateArriving(b, c) ==
  /\ Instant
  /\ historique[c] = {}
  /\ historique' = [historique EXCEPT ![c] = {maintenant + 1}]
  /\ \E cree \in 0 .. maintenant : Book(b, c, cree)
  /\ UNCHANGED paiements

DeleteBooking(b) ==
  /\ Instant
  /\ etat[b] = 1
  /\ \A p \in paiements : p.resa # b
  /\ etat' = [etat EXCEPT ![b] = 2]
  /\ UNCHANGED <<historique, resas, paiements>>

\* inject_defects: orphan payment, double submission, overpayment.
PaymentDefect ==
  /\ Instant
  /\ \/ NewPayment(Fantome)
     \/ \E p \in paiements : AddPayment(p)
     \/ \E p \in paiements :
          /\ p.resa # Fantome
          /\ paiements' = (paiements \ {p}) \cup
               {[p EXCEPT !.montant = Surencaisse, !.maj = maintenant + 1]}
  /\ UNCHANGED <<historique, resas, etat>>

-----------------------------------------------------------------------------
(***************************************************************************)
(* The loads.                                                              *)
(***************************************************************************)
Load ==
  /\ raw' # raw
  /\ frais' = {}
  /\ UNCHANGED <<source, marts>>

Closed(d) == d < Jour(maintenant + 1)

InWindow(c, d) == {t \in historique[c] : t = Max(historique[c]) /\ Jour(t) = d}

\* A window that has rows replaces its partition, one that has none is skipped.
LoadCustomers(d) ==
  /\ Closed(d)
  /\ \E c \in Clients : InWindow(c, d) # {}
  /\ brutClients' = [c \in Clients |->
       {t \in brutClients[c] : Jour(t) # d} \cup InWindow(c, d)]
  /\ UNCHANGED <<brutPaiements, vue>>
  /\ Load

LoadPayments(d) ==
  LET lus == {p \in paiements : Jour(p.maj) = d}
  IN  /\ Closed(d)
      /\ lus # {}
      /\ brutPaiements' = {p \in brutPaiements : Jour(p.maj) # d} \cup lus
      /\ UNCHANGED <<brutClients, vue>>
      /\ Load

\* The sandbox of BigQuery deletes a partition 60 days after its date.
Expire(d) ==
  /\ Closed(d)
  /\ \/ /\ brutClients' = [c \in Clients |->
                            {t \in brutClients[c] : Jour(t) # d}]
        /\ UNCHANGED <<brutPaiements, vue>>
     \/ /\ brutPaiements' = {p \in brutPaiements : Jour(p.maj) # d}
        /\ UNCHANGED <<brutClients, vue>>
  /\ Load

Consume(b) ==
  /\ \E e \in (vue[b] + 1) .. etat[b] : vue' = [vue EXCEPT ![b] = e]
  /\ UNCHANGED <<brutClients, brutPaiements>>
  /\ Load

-----------------------------------------------------------------------------
(***************************************************************************)
(* The views of staging and of the intermediate layer.                     *)
(***************************************************************************)
Actives == {b \in Resas : vue[b] = 1}

StgPayments ==
  {p \in brutPaiements :
     \A q \in brutPaiements : q.id = p.id => q.maj <= p.maj}

Avant(q, p) == q.cree < p.cree \/ (q.cree = p.cree /\ q.id < p.id)

\* Mutant of Doublon: the amount is part of the key.
MontantDansLaCle(p) ==
  \E q \in StgPayments :
    /\ q.resa = p.resa /\ q.cle = p.cle /\ q.montant = p.montant
    /\ Avant(q, p)

Doublon(p) ==
  \E q \in StgPayments : q.resa = p.resa /\ q.cle = p.cle /\ Avant(q, p)

Somme(P) == MapThenSumSet(LAMBDA p : p.montant, P)

Encaisses(b) == {p \in StgPayments : p.resa = b}

\* Mutant of AmountPaid: no coalesce, an unpaid booking has a NULL amount.
SansCoalesce(b) ==
  IF Encaisses(b) = {} THEN Nul
  ELSE Somme({p \in Encaisses(b) : ~Doublon(p)})

AmountPaid(b) == Somme({p \in Encaisses(b) : ~Doublon(p)})

-----------------------------------------------------------------------------
(***************************************************************************)
(* The marts.  A version is named by its client and by when it was         *)
(* observed (customer_sk); its interval is from de to a, Nul for no bound. *)
(***************************************************************************)
Lead(V, t) ==
  LET suivantes == {u \in V : u > t}
  IN  IF suivantes = {} THEN Nul ELSE Min(suivantes)

Version(c, V, t) ==
  [client |-> c, observe |-> t,
   de |-> IF \E u \in V : u < t THEN t ELSE Nul, a |-> Lead(V, t)]

\* Mutant of Scd2: the first version starts when it was observed (23/09).
PremiereBornee(c, V) == {[Version(c, V, t) EXCEPT !.de = t] : t \in V}

\* Mutant of Scd2: the lead is not partitioned by customer.
SansPartition(c, V) ==
  {[Version(c, V, t) EXCEPT
      !.a = Lead(UNION {brutClients[o] : o \in Clients}, t)] : t \in V}

Scd2(c, V) == {Version(c, V, t) : t \in V}

BuildDim ==
  /\ dim' = UNION {Scd2(c, brutClients[c]) : c \in Clients}
  /\ frais' = (frais \cup {"dim_customers"}) \ {"fct_bookings"}
  /\ UNCHANGED <<source, raw, fct, orphelins>>

Valide(v, t) ==
  /\ v.de = Nul \/ t >= v.de
  /\ v.a = Nul \/ t < v.a

DuClient(b) == {v \in dim : v.client = resas[b].client}

\* A left join: the customer_sk of the rows found, NULL when there is none.
Gauche(lignes) ==
  IF lignes = {} THEN {Nul} ELSE {v.observe : v \in lignes}

\* Mutant of Jointure: an inner join.
Interne(b) == {v.observe : v \in {w \in DuClient(b) : Valide(w, resas[b].cree)}}

Jointure(b) == Gauche({v \in DuClient(b) : Valide(v, resas[b].cree)})

BuildFct ==
  /\ fct' = UNION {{[resa |-> b, sk |-> k, paye |-> AmountPaid(b)] :
                      k \in Jointure(b)} : b \in Actives}
  /\ frais' = frais \cup {"fct_bookings"}
  /\ UNCHANGED <<source, raw, dim, orphelins>>

\* Mutant of BuildOrphans: a second definition of the bookings that exist,
\* those of a batch loaded just now (03/10).
DeuxDefinitions ==
  /\ orphelins' = {p \in StgPayments :
                     p.resa \notin {b \in Resas : etat[b] = 1}}
  /\ frais' = frais \cup {"orphan_payments"}
  /\ UNCHANGED <<source, raw, dim, fct>>

BuildOrphans ==
  /\ orphelins' = {p \in StgPayments : p.resa \notin Actives}
  /\ frais' = frais \cup {"orphan_payments"}
  /\ UNCHANGED <<source, raw, dim, fct>>

Alors(r) == {v \in DuClient(r.resa) : v.observe = r.sk}

\* Mutant of Courantes: the dashboard joins every version of the customer.
ToutesVersions(b) == DuClient(b)

Courantes(b) == {v \in DuClient(b) : v.a = Nul}

\* rpt_bookings_dashboard, a view: it reads the two tables as they are stored.
Tableau ==
  UNION {{[resa |-> r.resa, alors |-> h, actuel |-> k] :
            h \in Gauche(Alors(r)),
            k \in Gauche(Courantes(r.resa))} : r \in fct}

Next ==
  \/ \E c \in Clients : ChangeCustomer(c)
  \/ \E b \in Resas, c \in Clients : InsertBooking(b, c) \/ LateArriving(b, c)
  \/ \E b \in Resas : DeleteBooking(b) \/ Consume(b)
  \/ PaymentDefect
  \/ \E d \in Windows : LoadCustomers(d) \/ LoadPayments(d) \/ Expire(d)
  \/ BuildDim
  \/ BuildFct
  \/ BuildOrphans

Spec == Init /\ [][Next]_vars

-----------------------------------------------------------------------------
(***************************************************************************)
(* Properties.                                                             *)
(***************************************************************************)
\* The intervals of the versions of a customer cover each instant exactly
\* once, whatever windows were loaded, replayed or expired before the build:
\* a gap loses bookings, an overlap counts them twice
\* (assert_dim_customers_versions_continues).
VersionsCoverOnce ==
  \A v \in dim, t \in Instants :
    \E w \in dim :
      /\ w.client = v.client /\ Valide(w, t)
      /\ \A x \in dim : x.client = v.client /\ Valide(x, t) => x = w

\* The fact and the dashboard keep one row per booking, though they join the
\* dimension on two conditions and though the tables they join were built at
\* different instants, the fact from a dimension rebuilt since.
OneRowPerBooking ==
  /\ \A r, s \in fct : r.resa = s.resa => r = s
  /\ \A r, s \in Tableau : r.resa = s.resa => r = s

\* A fact built since the last load has every booking of the CDC that exists,
\* its customer unknown, late or replayed, and no other
\* (assert_fct_bookings_reconcilie_staging).
FactIsWhole ==
  "fct_bookings" \in frais => {r.resa : r \in fct} = Actives

\* Once the dimension and then the fact are built, a booking has the version
\* its customer had when it was made, whenever a load saw that version (the
\* first one, for a booking older than its customer), and the dashboard shows
\* beside it the last version loaded; only a customer no load has is unknown.
Detenue(b) ==
  LET H == historique[resas[b].client]
      connues == {t \in H : t <= resas[b].cree}
  IN  IF connues = {} THEN Min(H) ELSE Max(connues)

TierAtBooking ==
  {"dim_customers", "fct_bookings"} \subseteq frais =>
    \A r \in Tableau :
      LET V == brutClients[resas[r.resa].client]
      IN  /\ (r.alors = Nul) = (V = {})
          /\ Detenue(r.resa) \in V => r.alors = Detenue(r.resa)
          /\ r.actuel = IF V = {} THEN Nul ELSE Max(V)

\* No money disappears between two layers: every payment of staging is in the
\* fact, or is a double submission, or is in orphan_payments, and only one of
\* these, once both are built from the same inputs
\* (assert_montants_encaisses_conserves).
AmountsConserved ==
  {"fct_bookings", "orphan_payments"} \subseteq frais =>
    Somme(StgPayments) =
      MapThenSumSet(LAMBDA r : r.paye, fct)
      + Somme({p \in StgPayments : Doublon(p)})
      + Somme({p \in orphelins : ~Doublon(p)})

\* A booking paid once is counted as paid once, though the form was submitted
\* twice, either row overpaid since, and though the loads may have seen the two
\* rows at different versions or only one of them.
PaidOnce == \A r \in fct : r.paye \in {0, Prix, Surencaisse}

=============================================================================
