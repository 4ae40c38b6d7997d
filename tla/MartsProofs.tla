---------------------------- MODULE MartsProofs ----------------------------
(***************************************************************************)
(* The marts, for any number of customers, bookings, payments and days:    *)
(*                                                                         *)
(* - the intervals of dim_customers cover each instant once, and the fact  *)
(*   and the dashboard keep one row per booking.  Both rest on one fact    *)
(*   about the SCD2 intervals (CoverOnce): the versions that Scd2 makes of *)
(*   any nonempty set of instants cover every instant exactly once.  What  *)
(*   the loads and their replays did to the raw table does not matter: the *)
(*   dimension, as long as it is stored, is Scd2 of SOME versions of each  *)
(*   customer (DimInv);                                                    *)
(* - a booking has the version its customer had when it was made, no money *)
(*   is lost between staging and the marts, and a booking paid once is     *)
(*   counted once.  These need what the source and the loads may put in    *)
(*   the raw tables (PaymentsInv, HeldInv) and what a table built from     *)
(*   inputs that have not changed since still says (FreshInv).             *)
(***************************************************************************)
EXTENDS Marts, SumTheorems, TLAPS

-----------------------------------------------------------------------------
(***************************************************************************)
(* Smallest and largest instants.                                          *)
(***************************************************************************)
LEMMA Smallest ==
  ASSUME NEW S \in SUBSET Nat, S # {}
  PROVE  \E m \in S : \A n \in S : m <= n
<1>1. PICK m \in S : \A n \in S : ~ (<<n, m>> \in OpToRel(<, Nat))
  BY NatLessThanWellFounded, WFMin
<1>2. \A n \in S : ~ (n < m)
  BY <1>1 DEF OpToRel
<1>3. QED
  BY <1>2

LEMMA InstantsAreNat ==
  \E N \in Nat : Instants = 0 .. N
<1>1. LastDay * ParJour \in Nat
  BY BoundsAssumption
<1>2. QED
  BY <1>1 DEF Instants

LEMMA Largest ==
  ASSUME NEW S \in SUBSET Instants, S # {}
  PROVE  \E m \in S : \A n \in S : n <= m
<1>1. PICK N \in Nat : Instants = 0 .. N
  BY InstantsAreNat
<1> DEFINE R == {N - n : n \in S}
<1>2. R \in SUBSET Nat /\ R # {}
  <2>1. \A n \in S : n \in Nat /\ N - n \in Nat
    BY <1>1
  <2>2. R \in SUBSET Nat
    BY <2>1
  <2>3. PICK n \in S : TRUE
    OBVIOUS
  <2>4. N - n \in R
    OBVIOUS
  <2>5. QED
    BY <2>2, <2>4
<1>3. PICK r \in R : \A q \in R : r <= q
  BY <1>2, Smallest
<1>4. PICK m \in S : r = N - m
  BY <1>3
<1>5. ASSUME NEW n \in S
      PROVE  n <= m
  <2>1. N - m <= N - n
    BY <1>3, <1>4
  <2>2. QED
    BY <1>1, <2>1
<1>6. QED
  BY <1>5

\* lead(): the next instant of V, if there is one.
LEMMA LeadIsNext ==
  ASSUME NEW V \in SUBSET Instants, NEW t \in V
  PROVE  \/ Lead(V, t) = Nul /\ \A u \in V : u <= t
         \/ /\ Lead(V, t) \in V /\ Lead(V, t) # Nul /\ t < Lead(V, t)
            /\ \A u \in V : u <= t \/ Lead(V, t) <= u
<1> DEFINE S == {u \in V : u > t}
<1>1. V \subseteq Nat
  BY InstantsAreNat
<1>2. CASE S = {}
  <2>1. Lead(V, t) = Nul
    BY <1>2 DEF Lead
  <2>2. QED
    BY <1>1, <1>2, <2>1
<1>3. CASE S # {}
  <2>1. \E m \in S : \A n \in S : m <= n
    BY <1>1, <1>3, Smallest
  <2>2. Min(S) \in S /\ \A n \in S : Min(S) <= n
    BY <2>1 DEF Min
  <2>3. Lead(V, t) = Min(S)
    BY <1>3 DEF Lead
  <2>4. Min(S) \in V /\ Min(S) \in Nat /\ Min(S) > t
    BY <1>1, <2>2
  <2>5. \A u \in V : u <= t \/ Min(S) <= u
    BY <1>1, <2>2
  <2>6. Min(S) # Nul
    BY <2>4, NulAssumption
  <2>7. QED
    BY <1>1, <2>3, <2>4, <2>5, <2>6
<1>4. QED
  BY <1>2, <1>3

-----------------------------------------------------------------------------
(***************************************************************************)
(* The intervals.                                                          *)
(***************************************************************************)
\* The version of V that holds at t: the last one observed by then, or the
\* first one.
LEMMA CoverOnce ==
  ASSUME NEW c, NEW V \in SUBSET Instants, V # {}, NEW t \in Instants
  PROVE  \E w \in Scd2(c, V) :
           Valide(w, t) /\ \A x \in Scd2(c, V) : Valide(x, t) => x = w
<1>1. V \subseteq Nat /\ t \in Nat
  BY InstantsAreNat
<1> DEFINE connues == {u \in V : u <= t}
<1>2. \E m \in V : /\ (\E u \in V : u < m) => m <= t
                   /\ \A u \in V : u <= m \/ t < u
  <2>1. CASE connues # {}
    <3>1. PICK m \in connues : \A u \in connues : u <= m
      BY <2>1, Largest
    <3>2. QED
      BY <1>1, <3>1
  <2>2. CASE connues = {}
    <3>1. PICK m \in V : \A u \in V : m <= u
      BY <1>1, Smallest
    <3>2. QED
      BY <1>1, <2>2, <3>1
  <2>3. QED
    BY <2>1, <2>2
<1>3. PICK m \in V : /\ (\E u \in V : u < m) => m <= t
                     /\ \A u \in V : u <= m \/ t < u
  BY <1>2
<1>4. Version(c, V, m) \in Scd2(c, V)
  BY DEF Scd2
<1>5. Valide(Version(c, V, m), t)
  <2>1. Lead(V, m) = Nul \/ t < Lead(V, m)
    <3>1. \/ Lead(V, m) = Nul
          \/ Lead(V, m) \in V /\ m < Lead(V, m)
      BY LeadIsNext
    <3>2. ASSUME NEW l \in V, m < l
          PROVE  t < l
      BY <1>1, <1>3, <3>2
    <3>3. QED
      BY <3>1, <3>2
  <2>2. (\E u \in V : u < m) => t >= m
    BY <1>1, <1>3
  <2>3. QED
    BY <2>1, <2>2 DEF Valide, Version
<1>6. ASSUME NEW u \in V, Valide(Version(c, V, u), t)
      PROVE  u = m
  <2>1. (\E n \in V : n < u) => u <= t
    BY <1>1, <1>6, NulAssumption DEF Valide, Version
  <2>2. Lead(V, u) = Nul \/ t < Lead(V, u)
    BY <1>6 DEF Valide, Version
  <2>3. CASE u < m
    <3>1. m <= t
      BY <1>3, <2>3
    <3>2. Lead(V, u) \in V /\ Lead(V, u) # Nul /\ Lead(V, u) <= m
      BY <1>1, <2>3, LeadIsNext
    <3>3. m \in Nat /\ Lead(V, u) \in Nat
      BY <1>1, <3>2
    <3>4. QED
      BY <1>1, <2>2, <3>1, <3>2, <3>3
  <2>4. CASE m < u
    BY <1>1, <1>3, <2>1, <2>4
  <2>5. QED
    BY <1>1, <2>3, <2>4
<1>7. QED
  BY <1>4, <1>5, <1>6 DEF Scd2

\* A customer has one current version, and one version per customer_sk.
LEMMA KeysOfScd2 ==
  ASSUME NEW c, NEW V \in SUBSET Instants,
         NEW x \in Scd2(c, V), NEW y \in Scd2(c, V),
         x.observe = y.observe \/ (x.a = Nul /\ y.a = Nul)
  PROVE  x = y
<1>1. PICK s \in V : x = Version(c, V, s)
  BY DEF Scd2
<1>2. PICK t \in V : y = Version(c, V, t)
  BY DEF Scd2
<1>3. V \subseteq Nat
  BY InstantsAreNat
<1>4. x.observe = s /\ y.observe = t /\ x.a = Lead(V, s) /\ y.a = Lead(V, t)
  BY <1>1, <1>2 DEF Version
<1>5. CASE x.a = Nul /\ y.a = Nul
  <2>1. s <= t /\ t <= s
    BY <1>4, <1>5, LeadIsNext
  <2>2. QED
    BY <1>1, <1>2, <1>3, <2>1
<1>6. QED
  BY <1>1, <1>2, <1>4, <1>5

-----------------------------------------------------------------------------
(***************************************************************************)
(* The inductive invariant.                                                *)
(***************************************************************************)
\* What the source and the loads give BuildDim: instants.
VersionsInv ==
  /\ maintenant \in Instants
  /\ historique \in [Clients -> SUBSET Instants]
  /\ resas \in [Resas -> [client : Clients \cup {Nul}, cree : Instants]]
  /\ brutClients \in [Clients -> SUBSET Instants]

\* The dimension is the SCD2 of some versions of each customer.
DimOf(W) == dim = UNION {Scd2(c, W[c]) : c \in Clients}
DimInv == \E W \in [Clients -> SUBSET Instants] : DimOf(W)

FctInv ==
  /\ \A r \in fct : r.resa \in Resas
  /\ \A r, s \in fct : r.resa = s.resa => r = s

Inv == VersionsInv /\ DimInv /\ FctInv

\* The rows of one customer in the dimension.
LEMMA RowsOfClient ==
  ASSUME NEW W \in [Clients -> SUBSET Instants], DimOf(W), NEW c
  PROVE  {v \in dim : v.client = c} =
           IF c \in Clients THEN Scd2(c, W[c]) ELSE {}
<1>1. \A d \in Clients : \A v \in Scd2(d, W[d]) : v.client = d
  BY DEF Scd2, Version
<1>2. QED
  BY <1>1 DEF DimOf

LEMMA InvInit == Init => Inv
<1> SUFFICES ASSUME Init
             PROVE  Inv
  OBVIOUS
<1>1. 0 \in Instants
  BY BoundsAssumption, InstantsAreNat
<1>2. VersionsInv
  BY <1>1 DEF Init, VersionsInv
<1>3. DimInv
  <2> DEFINE W == [c \in Clients |-> {}]
  <2>1. UNION {Scd2(c, W[c]) : c \in Clients} = {}
    BY DEF Scd2
  <2>2. W \in [Clients -> SUBSET Instants] /\ DimOf(W)
    BY <2>1 DEF Init, DimOf
  <2>3. QED
    BY <2>2 DEF DimInv
<1>4. QED
  BY <1>2, <1>3 DEF Init, Inv, FctInv

\* Only BuildDim and BuildFct write the tables of the invariant.
LEMMA OthersKeep ==
  ASSUME Inv, VersionsInv', UNCHANGED <<dim, fct>>
  PROVE  Inv'
BY DEF Inv, DimInv, DimOf, Scd2, Version, Lead, FctInv

LEMMA VersionsStep == VersionsInv /\ [Next]_vars => VersionsInv'
<1> SUFFICES ASSUME VersionsInv, [Next]_vars
             PROVE  VersionsInv'
  OBVIOUS
<1> USE DEF VersionsInv
<1>1. ASSUME NEW c \in Clients, ChangeCustomer(c)
      PROVE  VersionsInv'
  BY <1>1 DEF ChangeCustomer, Instant, raw
<1>2. ASSUME NEW b \in Resas, NEW c \in Clients, InsertBooking(b, c)
      PROVE  VersionsInv'
  BY <1>2 DEF InsertBooking, Book, Instant, raw
<1>3. ASSUME NEW b \in Resas, NEW c \in Clients, LateArriving(b, c)
      PROVE  VersionsInv'
  <2>1. PICK N \in Nat : Instants = 0 .. N
    BY InstantsAreNat
  <2>2. 0 .. maintenant \subseteq Instants
    BY <2>1
  <2>3. QED
    BY <1>3, <2>2 DEF LateArriving, Book, Instant, raw
<1>4. ASSUME NEW b \in Resas, DeleteBooking(b)
      PROVE  VersionsInv'
  BY <1>4 DEF DeleteBooking, Instant, raw
<1>5. ASSUME PaymentDefect
      PROVE  VersionsInv'
  BY <1>5 DEF PaymentDefect, Instant, raw
<1>6. ASSUME NEW d \in Windows, LoadCustomers(d)
      PROVE  VersionsInv'
  <2>1. \A c \in Clients : InWindow(c, d) \subseteq Instants
    BY DEF InWindow
  <2>2. QED
    BY <1>6, <2>1 DEF LoadCustomers, Load, source
<1>7. ASSUME NEW d \in Windows, LoadPayments(d)
      PROVE  VersionsInv'
  BY <1>7 DEF LoadPayments, Load, source
<1>8. ASSUME NEW d \in Windows, Expire(d)
      PROVE  VersionsInv'
  BY <1>8 DEF Expire, Load, source
<1>9. ASSUME NEW b \in Resas, Consume(b)
      PROVE  VersionsInv'
  BY <1>9 DEF Consume, Load, source
<1>10. ASSUME BuildDim \/ BuildFct \/ BuildOrphans \/ UNCHANGED vars
       PROVE  VersionsInv'
  BY <1>10 DEF BuildDim, BuildFct, BuildOrphans, source, raw, vars
<1>11. QED
  BY <1>1, <1>2, <1>3, <1>4, <1>5, <1>6, <1>7, <1>8, <1>9, <1>10 DEF Next

\* A rebuilt fact joins each booking to one version at most.
LEMMA JointureIsOne ==
  ASSUME VersionsInv, DimInv, NEW b \in Resas,
         NEW j \in Jointure(b), NEW k \in Jointure(b)
  PROVE  j = k
<1>1. PICK W \in [Clients -> SUBSET Instants] : DimOf(W)
  BY DEF DimInv
<1> DEFINE c == resas[b].client
           V == {v \in DuClient(b) : Valide(v, resas[b].cree)}
<1>2. resas[b].cree \in Instants
  BY DEF VersionsInv
<1>3. \A x, y \in V : x = y
  <2>1. CASE c \in Clients /\ W[c] # {}
    <3>1. DuClient(b) = Scd2(c, W[c])
      BY <1>1, <2>1, RowsOfClient DEF DuClient
    <3>2. \E w \in Scd2(c, W[c]) :
            \A x \in Scd2(c, W[c]) : Valide(x, resas[b].cree) => x = w
      BY <1>2, <2>1, CoverOnce
    <3>3. QED
      BY <3>1, <3>2
  <2>2. CASE ~ (c \in Clients /\ W[c] # {})
    <3>1. DuClient(b) = {}
      BY <1>1, <2>2, RowsOfClient DEF DuClient, Scd2
    <3>2. QED
      BY <3>1
  <2>3. QED
    BY <2>1, <2>2
<1>4. QED
  BY <1>3 DEF Jointure, Gauche

LEMMA InvStep == Inv /\ [Next]_vars => Inv'
<1> SUFFICES ASSUME Inv, [Next]_vars
             PROVE  Inv'
  OBVIOUS
<1>1. VersionsInv'
  BY VersionsStep DEF Inv
<1>2. CASE BuildDim
  <2>1. DimInv'
    BY <1>2 DEF BuildDim, Inv, VersionsInv, DimInv, DimOf, Scd2, Version, Lead
  <2>2. QED
    BY <1>1, <1>2, <2>1 DEF BuildDim, Inv, FctInv
<1>3. CASE BuildFct
  <2>1. DimInv'
    BY <1>3 DEF BuildFct, Inv, DimInv, DimOf, Scd2, Version, Lead
  <2>2. \A r \in fct' :
          /\ r.resa \in Resas
          /\ r.sk \in Jointure(r.resa)
          /\ r = [resa |-> r.resa, sk |-> r.sk, paye |-> AmountPaid(r.resa)]
    BY <1>3 DEF BuildFct, Actives
  <2>3. \A r, s \in fct' : r.resa = s.resa => r = s
    BY <2>2, JointureIsOne DEF Inv
  <2>4. QED
    BY <1>1, <2>1, <2>2, <2>3 DEF Inv, FctInv
<1>4. CASE UNCHANGED <<dim, fct>>
  BY <1>1, <1>4, OthersKeep
<1>5. QED
  BY <1>2, <1>3, <1>4
     DEF Next, vars, marts, Instant, ChangeCustomer, InsertBooking,
         LateArriving, DeleteBooking, PaymentDefect, Load, LoadCustomers,
         LoadPayments, Expire, Consume, BuildOrphans

-----------------------------------------------------------------------------
(***************************************************************************)
(* The theorems.                                                           *)
(***************************************************************************)
LEMMA InvAlways == Spec => []Inv
BY InvInit, InvStep, PTL DEF Spec

\* The intervals of dim_customers cover each instant once, in every state.
THEOREM VersionsCovered == Spec => []VersionsCoverOnce
<1>1. Inv => VersionsCoverOnce
  <2> SUFFICES ASSUME Inv, NEW v \in dim, NEW t \in Instants
               PROVE  \E w \in dim :
                        /\ w.client = v.client /\ Valide(w, t)
                        /\ \A x \in dim :
                             x.client = v.client /\ Valide(x, t) => x = w
    BY DEF VersionsCoverOnce
  <2>1. PICK W \in [Clients -> SUBSET Instants] : DimOf(W)
    BY DEF Inv, DimInv
  <2> DEFINE c == v.client
  <2>2. c \in Clients /\ v \in Scd2(c, W[c])
    BY <2>1, RowsOfClient
  <2>3. \E w \in Scd2(c, W[c]) :
          Valide(w, t) /\ \A x \in Scd2(c, W[c]) : Valide(x, t) => x = w
    <3>1. W[c] # {}
      BY <2>2 DEF Scd2
    <3>2. QED
      BY <2>2, <3>1, CoverOnce
  <2>4. {x \in dim : x.client = c} = Scd2(c, W[c])
    BY <2>1, <2>2, RowsOfClient
  <2>5. QED
    BY <2>3, <2>4
<1>2. QED
  BY <1>1, InvAlways, PTL

\* The fact and the dashboard keep one row per booking, in every state.
THEOREM DashboardGrain == Spec => []OneRowPerBooking
<1>1. ASSUME Inv, NEW b \in Resas, NEW x \in DuClient(b), NEW y \in DuClient(b),
             x.observe = y.observe \/ (x.a = Nul /\ y.a = Nul)
      PROVE  x = y
  <2>1. PICK W \in [Clients -> SUBSET Instants] : DimOf(W)
    BY <1>1 DEF Inv, DimInv
  <2> DEFINE c == resas[b].client
  <2>2. c \in Clients /\ x \in Scd2(c, W[c]) /\ y \in Scd2(c, W[c])
    BY <2>1, RowsOfClient DEF DuClient
  <2>3. QED
    BY <1>1, <2>2, KeysOfScd2
<1>2. ASSUME Inv, NEW p \in fct
      PROVE  /\ \A g, h \in Gauche(Alors(p)) : g = h
             /\ \A g, h \in Gauche(Courantes(p.resa)) : g = h
  <2>1. p.resa \in Resas
    BY <1>2 DEF Inv, FctInv
  <2>2. /\ \A x, y \in Alors(p) : x = y
        /\ \A x, y \in Courantes(p.resa) : x = y
    BY <1>1, <1>2, <2>1 DEF Alors, Courantes
  <2>3. QED
    BY <2>2 DEF Gauche
<1>3. ASSUME Inv, NEW r \in Tableau, NEW s \in Tableau, r.resa = s.resa
      PROVE  r = s
  <2>1. PICK p \in fct :
          /\ r.alors \in Gauche(Alors(p))
          /\ r.actuel \in Gauche(Courantes(p.resa))
          /\ r = [resa |-> p.resa, alors |-> r.alors, actuel |-> r.actuel]
    BY DEF Tableau
  <2>2. PICK q \in fct :
          /\ s.alors \in Gauche(Alors(q))
          /\ s.actuel \in Gauche(Courantes(q.resa))
          /\ s = [resa |-> q.resa, alors |-> s.alors, actuel |-> s.actuel]
    BY DEF Tableau
  <2>3. p = q /\ p.resa \in Resas
    <3>1. p.resa = q.resa
      BY <1>3, <2>1, <2>2
    <3>2. QED
      BY <1>3, <3>1 DEF Inv, FctInv
  <2>4. r.alors = s.alors
    <3>1. \A g, h \in Gauche(Alors(p)) : g = h
      BY <1>2, <1>3, <2>3
    <3>2. QED
      BY <2>1, <2>2, <2>3, <3>1
  <2>5. r.actuel = s.actuel
    <3>1. \A g, h \in Gauche(Courantes(p.resa)) : g = h
      BY <1>2, <1>3, <2>3
    <3>2. QED
      BY <2>1, <2>2, <2>3, <3>1
  <2>6. QED
    BY <2>1, <2>2, <2>3, <2>4, <2>5
<1>4. Inv => OneRowPerBooking
  BY <1>3 DEF OneRowPerBooking, Inv, FctInv
<1>5. QED
  BY <1>4, InvAlways, PTL

\* A fact built since the last load has exactly the bookings that exist.
THEOREM FactWhole == Spec => []FactIsWhole
<1>1. Init => FactIsWhole
  BY DEF Init, FactIsWhole
<1>2. ASSUME FactIsWhole, [Next]_vars
      PROVE  FactIsWhole'
  <2>1. CASE BuildFct
    <3>1. \A b \in Resas : Jointure(b) # {}
      BY DEF Jointure, Gauche
    <3>2. {r.resa : r \in fct'} = Actives
      <4>1. \A r \in fct' : r.resa \in Actives
        BY <2>1 DEF BuildFct
      <4>2. ASSUME NEW b \in Actives
            PROVE  \E r \in fct' : r.resa = b
        <5>1. PICK k \in Jointure(b) : TRUE
          BY <3>1 DEF Actives
        <5>2. [resa |-> b, sk |-> k, paye |-> AmountPaid(b)] \in fct'
          BY <2>1, <5>1 DEF BuildFct
        <5>3. QED
          BY <5>2
      <4>3. QED
        BY <4>1, <4>2
    <3>3. Actives' = Actives
      BY <2>1 DEF BuildFct, Actives, raw
    <3>4. QED
      BY <3>2, <3>3 DEF FactIsWhole
  <2>2. CASE "fct_bookings" \notin frais'
    BY <2>2 DEF FactIsWhole
  <2>3. CASE /\ UNCHANGED <<fct, vue>>
             /\ "fct_bookings" \in frais' => "fct_bookings" \in frais
    BY <1>2, <2>3 DEF FactIsWhole, Actives
  <2>4. QED
    BY <1>2, <2>1, <2>2, <2>3
       DEF Next, vars, marts, raw, Instant, ChangeCustomer, InsertBooking,
           LateArriving, DeleteBooking, PaymentDefect, Load, LoadCustomers,
           LoadPayments, Expire, Consume, BuildDim, BuildOrphans
<1>3. QED
  BY <1>1, <1>2, PTL DEF Spec

-----------------------------------------------------------------------------
(***************************************************************************)
(* The payments.                                                           *)
(***************************************************************************)
\* The bookings made are finitely many, and those the loads saw were made.
BookingsInv ==
  /\ etat \in [Resas -> 0 .. 2]
  /\ vue \in [Resas -> 0 .. 2]
  /\ \A b \in Resas : vue[b] <= etat[b]
  /\ IsFiniteSet({b \in Resas : etat[b] # 0})

\* The rows of payments, in the source or loaded: an old version of a payment
\* may be in the raw table only.
Rows == paiements \cup brutPaiements

RowInv(p) ==
  /\ p \in Paiement
  /\ p.id <= Cardinality(paiements)
  /\ p.maj <= maintenant
  /\ p.resa \in Resas => etat[p.resa] # 0

\* The rows of a booking come from one form (cle), and a payment has one row
\* for each instant at which it changed.
PaymentsInv ==
  /\ IsFiniteSet(paiements) /\ IsFiniteSet(brutPaiements)
  /\ \A p \in Rows : RowInv(p)
  /\ \A p, q \in Rows : p.resa = q.resa /\ p.resa \in Resas => p.cle = q.cle
  /\ \A p, q \in Rows : p.id = q.id /\ p.maj = q.maj => p = q

LEMMA BookingsInit == Init => BookingsInv /\ PaymentsInv
<1> SUFFICES ASSUME Init
             PROVE  BookingsInv /\ PaymentsInv
  OBVIOUS
<1>1. {b \in Resas : etat[b] # 0} = {}
  BY DEF Init
<1>2. BookingsInv
  BY <1>1, FS_EmptySet DEF Init, BookingsInv
<1>3. PaymentsInv
  BY FS_EmptySet DEF Init, PaymentsInv, Rows
<1>4. QED
  BY <1>2, <1>3

LEMMA BookStep ==
  ASSUME BookingsInv, NEW b \in Resas, NEW c, NEW cree, Book(b, c, cree),
         vue' = vue
  PROVE  BookingsInv'
<1>1. etat' = [etat EXCEPT ![b] = 1] /\ etat[b] = 0
  BY DEF Book
<1>2. {a \in Resas : etat'[a] # 0} = {a \in Resas : etat[a] # 0} \cup {b}
  BY <1>1 DEF BookingsInv
<1>3. IsFiniteSet({a \in Resas : etat'[a] # 0})
  BY <1>2, FS_AddElement DEF BookingsInv
<1>4. etat' \in [Resas -> 0 .. 2] /\ \A a \in Resas : etat[a] <= etat'[a]
  BY <1>1 DEF BookingsInv
<1>5. \A a \in Resas : vue'[a] <= etat'[a]
  <2> TAKE a \in Resas
  <2>1. vue[a] \in 0 .. 2 /\ etat[a] \in 0 .. 2 /\ etat'[a] \in 0 .. 2
    BY <1>4 DEF BookingsInv
  <2>2. vue[a] <= etat[a] /\ etat[a] <= etat'[a]
    BY <1>4 DEF BookingsInv
  <2>3. QED
    BY <2>1, <2>2
<1>6. QED
  BY <1>3, <1>4, <1>5 DEF BookingsInv

LEMMA BookingsStep == BookingsInv /\ [Next]_vars => BookingsInv'
<1> SUFFICES ASSUME BookingsInv, [Next]_vars
             PROVE  BookingsInv'
  OBVIOUS
<1>1. ASSUME UNCHANGED <<etat, vue>>
      PROVE  BookingsInv'
  BY <1>1 DEF BookingsInv
<1>2. ASSUME NEW b \in Resas, NEW c \in Clients,
             InsertBooking(b, c) \/ LateArriving(b, c)
      PROVE  BookingsInv'
  BY <1>2, BookStep DEF InsertBooking, LateArriving, Instant, raw
<1>3. ASSUME NEW b \in Resas, DeleteBooking(b)
      PROVE  BookingsInv'
  <2>1. etat' = [etat EXCEPT ![b] = 2] /\ etat[b] = 1 /\ vue' = vue
    BY <1>3 DEF DeleteBooking, Instant, raw
  <2>2. {a \in Resas : etat'[a] # 0} = {a \in Resas : etat[a] # 0}
    BY <2>1 DEF BookingsInv
  <2>3. \A a \in Resas : vue'[a] <= etat'[a]
    BY <2>1 DEF BookingsInv
  <2>4. QED
    BY <2>1, <2>2, <2>3 DEF BookingsInv
<1>4. ASSUME NEW b \in Resas, Consume(b)
      PROVE  BookingsInv'
  <2>1. PICK e \in (vue[b] + 1) .. etat[b] : vue' = [vue EXCEPT ![b] = e]
    BY <1>4 DEF Consume
  <2>2. etat' = etat
    BY <1>4 DEF Consume, Load, source
  <2>3. e \in 0 .. 2 /\ e <= etat[b]
    BY <2>1 DEF BookingsInv
  <2>4. QED
    BY <2>1, <2>2, <2>3 DEF BookingsInv
<1>5. QED
  BY <1>1, <1>2, <1>3, <1>4
     DEF Next, vars, source, raw, Instant, ChangeCustomer, PaymentDefect,
         Load, LoadCustomers, LoadPayments, Expire, BuildDim, BuildFct,
         BuildOrphans

\* No row is new but those the source already has.
LEMMA RowsKept ==
  ASSUME PaymentsInv, paiements' = paiements, brutPaiements' \subseteq Rows,
         VersionsInv, VersionsInv', maintenant <= maintenant',
         \A b \in Resas : etat[b] # 0 => etat'[b] # 0
  PROVE  PaymentsInv'
<1>1. Rows' \subseteq Rows
  BY DEF Rows
<1>2. IsFiniteSet(paiements') /\ IsFiniteSet(brutPaiements')
  <2>1. IsFiniteSet(Rows)
    BY FS_Union DEF PaymentsInv, Rows
  <2>2. QED
    BY <2>1, FS_Subset DEF PaymentsInv
<1>3. ASSUME NEW p \in Rows
      PROVE  RowInv(p)'
  <2>1. RowInv(p)
    BY DEF PaymentsInv
  <2>2. p.maj \in Nat /\ maintenant \in Nat /\ maintenant' \in Nat
    BY <2>1, InstantsAreNat DEF RowInv, Paiement, VersionsInv
  <2>3. QED
    BY <2>1, <2>2 DEF RowInv, Paiement, Instants
<1>4. QED
  BY <1>1, <1>2, <1>3 DEF PaymentsInv

\* A row that the source has just written, at an instant of its own.
LEMMA RowWritten ==
  ASSUME PaymentsInv, VersionsInv, VersionsInv',
         maintenant' = maintenant + 1, brutPaiements' = brutPaiements,
         \A b \in Resas : etat[b] # 0 => etat'[b] # 0,
         NEW S \in SUBSET paiements, NEW n \in Paiement,
         paiements' = S \cup {n}, n.maj = maintenant + 1,
         Cardinality(paiements) <= Cardinality(paiements'),
         n.id <= Cardinality(paiements'),
         n.resa \in Resas => etat'[n.resa] # 0,
         \A q \in Rows : q.resa = n.resa /\ q.resa \in Resas => q.cle = n.cle
  PROVE  PaymentsInv'
<1>1. maintenant \in Nat /\ Cardinality(paiements) \in Nat
  BY InstantsAreNat, FS_CardinalityType DEF VersionsInv, PaymentsInv
<1>2. Rows' \subseteq Rows \cup {n}
  BY DEF Rows
<1>3. /\ IsFiniteSet(paiements') /\ IsFiniteSet(brutPaiements')
      /\ Cardinality(paiements') \in Nat
  BY FS_Subset, FS_AddElement, FS_CardinalityType DEF PaymentsInv
<1>4. ASSUME NEW p \in Rows
      PROVE  RowInv(p)' /\ p.maj < n.maj
  <2>1. RowInv(p)
    BY DEF PaymentsInv
  <2>2. p.maj \in Nat /\ p.id \in Nat
    BY <2>1, InstantsAreNat DEF RowInv, Paiement
  <2>3. QED
    BY <1>1, <1>3, <2>1, <2>2 DEF RowInv, Paiement, Instants
<1>5. RowInv(n)'
  BY <1>1 DEF RowInv, Paiement, Instants
<1>6. \A p \in Rows : p.maj # n.maj
  <2>1. n.maj \in Nat /\ \A p \in Rows : p.maj \in Nat
    BY InstantsAreNat DEF Paiement, PaymentsInv, RowInv
  <2>2. QED
    BY <1>4, <2>1
<1>7. \A p, q \in Rows' : p.resa = q.resa /\ p.resa \in Resas => p.cle = q.cle
  BY <1>2 DEF PaymentsInv
<1>8. \A p, q \in Rows' : p.id = q.id /\ p.maj = q.maj => p = q
  BY <1>2, <1>6 DEF PaymentsInv
<1>9. QED
  BY <1>2, <1>3, <1>4, <1>5, <1>7, <1>8 DEF PaymentsInv

\* insert: the new row takes the next id.
LEMMA PaymentAdded ==
  ASSUME PaymentsInv, VersionsInv, VersionsInv',
         maintenant' = maintenant + 1, brutPaiements' = brutPaiements,
         \A b \in Resas : etat[b] # 0 => etat'[b] # 0,
         NEW i, NEW b \in Resas \cup {Fantome}, NEW k \in 1 .. MaxPaiements,
         NEW a \in {Prix, Surencaisse}, NEW t, NEW u,
         AddPayment([id |-> i, resa |-> b, cle |-> k, montant |-> a,
                     cree |-> t, maj |-> u]),
         b \in Resas => etat'[b] # 0,
         \A q \in Rows : q.resa = b /\ q.resa \in Resas => q.cle = k
  PROVE  PaymentsInv'
<1> DEFINE p == [id |-> i, resa |-> b, cle |-> k, montant |-> a,
                 cree |-> t, maj |-> u]
           n == [p EXCEPT !.id = NextId, !.cree = maintenant + 1,
                          !.maj = maintenant + 1]
<1>1. /\ Cardinality(paiements) \in Nat /\ IsFiniteSet(paiements)
      /\ maintenant + 1 \in Instants
  BY FS_CardinalityType DEF PaymentsInv, VersionsInv
<1>2. NextId = Cardinality(paiements) + 1 /\ NextId \in 1 .. MaxPaiements
  BY <1>1, BoundsAssumption DEF AddPayment, NextId
<1>3. /\ p \in [id : {i}, resa : Resas \cup {Fantome}, cle : 1 .. MaxPaiements,
               montant : {Prix, Surencaisse}, cree : {t}, maj : {u}]
      /\ p.resa = b /\ p.cle = k
  OBVIOUS
<1>4. n \in Paiement /\ n.maj = maintenant + 1 /\ n.id = NextId
      /\ n.resa = b /\ n.cle = k
  <2> HIDE DEF p
  <2>1. QED
    BY <1>1, <1>2, <1>3 DEF Paiement
<1>5. paiements' = paiements \cup {n}
  BY DEF AddPayment
<1>6. n \notin paiements
  <2>1. \A q \in paiements : q.id <= Cardinality(paiements)
    BY DEF PaymentsInv, Rows, RowInv
  <2> HIDE DEF n
  <2>2. QED
    BY <1>1, <1>2, <1>4, <2>1
<1>7. Cardinality(paiements') = Cardinality(paiements) + 1
  <2> HIDE DEF n
  <2>1. QED
    BY <1>1, <1>5, <1>6, FS_AddElement
<1>8. QED
  <2> HIDE DEF n
  <2>1. /\ Cardinality(paiements) <= Cardinality(paiements')
        /\ n.id <= Cardinality(paiements')
    BY <1>1, <1>2, <1>4, <1>7
  <2>2. /\ n.resa \in Resas => etat'[n.resa] # 0
        /\ \A q \in Rows : q.resa = n.resa /\ q.resa \in Resas => q.cle = n.cle
    BY <1>4
  <2>3. QED
    BY <1>4, <1>5, <2>1, <2>2, RowWritten

\* inject_defects: a row is overpaid, which is a change of it.
LEMMA PaymentOverpaid ==
  ASSUME PaymentsInv, VersionsInv, VersionsInv',
         maintenant' = maintenant + 1, brutPaiements' = brutPaiements,
         etat' = etat, NEW p \in paiements,
         paiements' = (paiements \ {p}) \cup
           {[p EXCEPT !.montant = Surencaisse, !.maj = maintenant + 1]}
  PROVE  PaymentsInv'
<1> DEFINE n == [p EXCEPT !.montant = Surencaisse, !.maj = maintenant + 1]
<1>1. RowInv(p) /\ p \in Rows
  BY DEF PaymentsInv, Rows
<1>2. maintenant + 1 \in Instants /\ maintenant \in Nat
  BY InstantsAreNat DEF VersionsInv
<1>3. /\ n \in Paiement /\ n.maj = maintenant + 1 /\ n.id = p.id
      /\ n.resa = p.resa /\ n.cle = p.cle
  BY <1>1, <1>2 DEF RowInv, Paiement
<1>4. n \notin paiements
  <2>1. \A q \in paiements : q.maj \in Nat /\ q.maj <= maintenant
    BY InstantsAreNat DEF PaymentsInv, Rows, RowInv, Paiement
  <2> HIDE DEF n
  <2>2. QED
    BY <1>2, <1>3, <2>1
<1>5. Cardinality(paiements') = Cardinality(paiements)
      /\ Cardinality(paiements) \in Nat
  <2>1. /\ IsFiniteSet(paiements) /\ Cardinality(paiements) \in Nat
    BY FS_CardinalityType DEF PaymentsInv
  <2>2. /\ IsFiniteSet(paiements \ {p})
        /\ Cardinality(paiements \ {p}) = Cardinality(paiements) - 1
    BY <2>1, FS_RemoveElement
  <2> HIDE DEF n
  <2>3. paiements' = (paiements \ {p}) \cup {n} /\ n \notin paiements \ {p}
    BY <1>4 DEF n
  <2>4. Cardinality(paiements') = Cardinality(paiements) - 1 + 1
    BY <2>2, <2>3, FS_AddElement
  <2>5. QED
    BY <2>1, <2>4
<1>6. QED
  <2>1. /\ Cardinality(paiements) <= Cardinality(paiements')
        /\ n.id <= Cardinality(paiements')
        /\ n.resa \in Resas => etat'[n.resa] # 0
    BY <1>1, <1>3, <1>5 DEF RowInv
  <2>2. \A q \in Rows : q.resa = n.resa /\ q.resa \in Resas => q.cle = n.cle
    BY <1>1, <1>3 DEF PaymentsInv
  <2>3. paiements' = (paiements \ {p}) \cup {n}
    OBVIOUS
  <2> HIDE DEF n
  <2>4. QED
    BY <1>3, <2>1, <2>2, <2>3, RowWritten

LEMMA PaymentsStep ==
  BookingsInv /\ VersionsInv /\ PaymentsInv /\ [Next]_vars => PaymentsInv'
<1> SUFFICES ASSUME BookingsInv, VersionsInv, PaymentsInv, [Next]_vars
             PROVE  PaymentsInv'
  OBVIOUS
<1>1. VersionsInv' /\ maintenant \in Nat
  BY VersionsStep, InstantsAreNat DEF VersionsInv
<1>2. ASSUME UNCHANGED <<paiements, brutPaiements, etat>>,
             maintenant' \in {maintenant, maintenant + 1}
      PROVE  PaymentsInv'
  BY <1>1, <1>2, RowsKept DEF Rows
<1>3. ASSUME NEW b \in Resas, NEW c \in Clients, InsertBooking(b, c)
      PROVE  PaymentsInv'
  <2>1. /\ maintenant' = maintenant + 1 /\ brutPaiements' = brutPaiements
        /\ etat[b] = 0 /\ etat' = [etat EXCEPT ![b] = 1]
    BY <1>3 DEF InsertBooking, Instant, Book, raw
  <2>2. etat'[b] # 0 /\ \A a \in Resas : etat[a] # 0 => etat'[a] # 0
    BY <2>1 DEF BookingsInv
  <2>3. CASE UNCHANGED paiements
    BY <1>1, <2>1, <2>2, <2>3, RowsKept DEF Rows
  <2>4. CASE NewPayment(b)
    <3>1. AddPayment([id |-> 0, resa |-> b, cle |-> NextId,
                      montant |-> Prix, cree |-> 0, maj |-> 0])
      BY <2>4 DEF NewPayment
    <3>2. NextId \in 1 .. MaxPaiements
      BY <3>1, FS_CardinalityType, BoundsAssumption
         DEF AddPayment, NextId, PaymentsInv
    <3>3. \A q \in Rows : q.resa # b
      BY <2>1 DEF PaymentsInv, RowInv
    <3>4. QED
      BY <1>1, <2>1, <2>2, <3>1, <3>2, <3>3, PaymentAdded
  <2>5. QED
    BY <1>3, <2>3, <2>4 DEF InsertBooking
<1>4. ASSUME NEW b \in Resas, NEW c \in Clients, LateArriving(b, c)
      PROVE  PaymentsInv'
  <2>1. /\ maintenant' = maintenant + 1 /\ brutPaiements' = brutPaiements
        /\ etat' = [etat EXCEPT ![b] = 1] /\ paiements' = paiements
    BY <1>4 DEF LateArriving, Instant, Book, raw
  <2>2. \A a \in Resas : etat[a] # 0 => etat'[a] # 0
    BY <2>1 DEF BookingsInv
  <2>3. QED
    BY <1>1, <2>1, <2>2, RowsKept DEF Rows
<1>5. ASSUME NEW b \in Resas, DeleteBooking(b)
      PROVE  PaymentsInv'
  <2>1. /\ maintenant' = maintenant + 1 /\ brutPaiements' = brutPaiements
        /\ etat' = [etat EXCEPT ![b] = 2] /\ paiements' = paiements
    BY <1>5 DEF DeleteBooking, Instant, raw
  <2>2. \A a \in Resas : etat[a] # 0 => etat'[a] # 0
    BY <2>1 DEF BookingsInv
  <2>3. QED
    BY <1>1, <2>1, <2>2, RowsKept DEF Rows
<1>6. ASSUME PaymentDefect
      PROVE  PaymentsInv'
  <2>1. /\ maintenant' = maintenant + 1 /\ brutPaiements' = brutPaiements
        /\ etat' = etat
    BY <1>6 DEF PaymentDefect, Instant, raw
  <2>2. CASE NewPayment(Fantome)
    <3>1. AddPayment([id |-> 0, resa |-> Fantome, cle |-> NextId,
                      montant |-> Prix, cree |-> 0, maj |-> 0])
      BY <2>2 DEF NewPayment
    <3>2. NextId \in 1 .. MaxPaiements
      BY <3>1, FS_CardinalityType, BoundsAssumption
         DEF AddPayment, NextId, PaymentsInv
    <3>3. QED
      BY <1>1, <2>1, <3>1, <3>2, FantomeAssumption, PaymentAdded
  <2>3. ASSUME NEW p \in paiements, AddPayment(p)
        PROVE  PaymentsInv'
    <3>1. p \in Rows /\ RowInv(p)
      BY DEF PaymentsInv, Rows
    <3>2. p = [id |-> p.id, resa |-> p.resa, cle |-> p.cle,
               montant |-> p.montant, cree |-> p.cree, maj |-> p.maj]
      BY <3>1 DEF RowInv, Paiement
    <3>3. AddPayment([id |-> p.id, resa |-> p.resa, cle |-> p.cle,
                      montant |-> p.montant, cree |-> p.cree,
                      maj |-> p.maj])
      BY <2>3, <3>2
    <3>4. /\ p.resa \in Resas \cup {Fantome} /\ p.cle \in 1 .. MaxPaiements
          /\ p.montant \in {Prix, Surencaisse}
          /\ p.resa \in Resas => etat[p.resa] # 0
      BY <3>1 DEF RowInv, Paiement
    <3>5. \A q \in Rows : q.resa = p.resa /\ q.resa \in Resas => q.cle = p.cle
      BY <3>1 DEF PaymentsInv
    <3>6. QED
      BY <1>1, <2>1, <3>3, <3>4, <3>5, PaymentAdded
  <2>4. ASSUME NEW p \in paiements,
               paiements' = (paiements \ {p}) \cup
                 {[p EXCEPT !.montant = Surencaisse, !.maj = maintenant + 1]}
        PROVE  PaymentsInv'
    BY <1>1, <2>1, <2>4, PaymentOverpaid
  <2>5. QED
    BY <1>6, <2>2, <2>3, <2>4 DEF PaymentDefect
<1>7. ASSUME NEW d \in Windows, LoadPayments(d) \/ Expire(d)
      PROVE  PaymentsInv'
  <2>1. /\ UNCHANGED <<maintenant, etat, paiements>>
        /\ brutPaiements' \subseteq Rows
    BY <1>7 DEF LoadPayments, Expire, Load, source, Rows
  <2>2. QED
    BY <1>1, <2>1, RowsKept
<1>8. QED
  BY <1>2, <1>3, <1>4, <1>5, <1>6, <1>7
     DEF Next, vars, source, raw, Instant, ChangeCustomer, Load,
         LoadCustomers, Consume, BuildDim, BuildFct, BuildOrphans

-----------------------------------------------------------------------------
(***************************************************************************)
(* The amounts.                                                            *)
(***************************************************************************)
\* Somme is a sum, in the sense of the lemmas.
LEMMA SommeIsTotal ==
  ASSUME NEW U, NEW P \in SUBSET U, IsFiniteSet(P)
  PROVE  Somme(P) = Total([p \in U |-> p.montant], P)
<1> DEFINE f == [p \in U |-> p.montant]
           IsIter(iter) == iter = [s \in SUBSET P |->
              IF s = {} THEN 0 ELSE First(s).montant + iter[s \ {First(s)}]]
<1>1. Somme(P) = (CHOOSE iter : IsIter(iter))[P]
  BY DEF Somme, MapThenSumSet, MapThenFoldSet, First
<1>2. \A s \in SUBSET P : s # {} => First(s) \in P /\ s \ {First(s)} \in SUBSET P
  BY DEF First
<1>3. \E iter : IsIter(iter)
  <2> DEFINE h == [s \in SUBSET P |-> SumOver(f, P)[s]]
  <2>1. IsSum(f, SumOver(f, P), P)
    BY SumExists
  <2>2. ASSUME NEW s \in SUBSET P
        PROVE  h[s] = IF s = {} THEN 0 ELSE First(s).montant + h[s \ {First(s)}]
    BY <1>2, <2>1 DEF IsSum
  <2>3. IsIter(h)
    BY <2>2
  <2>4. QED
    BY <2>3
<1> DEFINE k == CHOOSE iter : IsIter(iter)
<1>4. IsIter(k)
  BY <1>3
<1>5. IsSum(f, k, P)
  <2> HIDE DEF k
  <2>1. QED
    BY <1>2, <1>4 DEF IsSum
<1>6. k[P] = Total(f, P)
  <2> HIDE DEF k, f
  <2>1. QED
    BY <1>5, TotalUnique
<1>7. QED
  BY <1>1, <1>6

LEMMA PayeIsTotal ==
  ASSUME NEW U, NEW P \in SUBSET U, IsFiniteSet(P)
  PROVE  MapThenSumSet(LAMBDA r : r.paye, P) = Total([p \in U |-> p.paye], P)
<1> DEFINE f == [p \in U |-> p.paye]
           IsIter(iter) == iter = [s \in SUBSET P |->
              IF s = {} THEN 0 ELSE First(s).paye + iter[s \ {First(s)}]]
<1>1. MapThenSumSet(LAMBDA r : r.paye, P) = (CHOOSE iter : IsIter(iter))[P]
  BY DEF MapThenSumSet, MapThenFoldSet, First
<1>2. \A s \in SUBSET P : s # {} => First(s) \in P /\ s \ {First(s)} \in SUBSET P
  BY DEF First
<1>3. \E iter : IsIter(iter)
  <2> DEFINE h == [s \in SUBSET P |-> SumOver(f, P)[s]]
  <2>1. IsSum(f, SumOver(f, P), P)
    BY SumExists
  <2>2. ASSUME NEW s \in SUBSET P
        PROVE  h[s] = IF s = {} THEN 0 ELSE First(s).paye + h[s \ {First(s)}]
    BY <1>2, <2>1 DEF IsSum
  <2>3. IsIter(h)
    BY <2>2
  <2>4. QED
    BY <2>3
<1> DEFINE k == CHOOSE iter : IsIter(iter)
<1>4. IsIter(k)
  BY <1>3
<1>5. IsSum(f, k, P)
  <2> HIDE DEF k
  <2>1. QED
    BY <1>2, <1>4 DEF IsSum
<1>6. k[P] = Total(f, P)
  <2> HIDE DEF k, f
  <2>1. QED
    BY <1>5, TotalUnique
<1>7. QED
  BY <1>1, <1>6

Cents == [p \in Rows |-> p.montant]

LEMMA StagingFacts ==
  ASSUME PaymentsInv
  PROVE  /\ IsFiniteSet(Rows) /\ \A p \in Rows : Cents[p] \in Nat
         /\ \A P \in SUBSET Rows :
              /\ IsFiniteSet(P) /\ Total(Cents, P) \in Nat
              /\ Somme(P) = Total(Cents, P)
         /\ StgPayments \subseteq Rows
<1>1. IsFiniteSet(Rows)
  BY FS_Union DEF PaymentsInv, Rows
<1>2. \A p \in Rows : Cents[p] \in Nat
  BY DEF PaymentsInv, RowInv, Paiement, Cents, Prix, Surencaisse
<1>3. ASSUME NEW P \in SUBSET Rows
      PROVE  /\ IsFiniteSet(P) /\ Total(Cents, P) \in Nat
             /\ Somme(P) = Total(Cents, P)
  <2>1. IsFiniteSet(P)
    BY <1>1, FS_Subset
  <2>2. \A p \in P : Cents[p] \in Nat
    BY <1>2
  <2>3. QED
    BY <2>1, <2>2, TotalNat, SommeIsTotal DEF Cents
<1>4. StgPayments \subseteq Rows
  BY DEF StgPayments, Rows
<1>5. QED
  BY <1>1, <1>2, <1>3, <1>4

Retenus(b) == {p \in Encaisses(b) : ~Doublon(p)}

\* Of the rows of a booking, at most one is no double submission.
LEMMA RetenuIsOne ==
  ASSUME PaymentsInv, NEW b \in Resas, NEW p \in Retenus(b), NEW q \in Retenus(b)
  PROVE  p = q
<1>1. /\ p \in StgPayments /\ q \in StgPayments /\ p \in Rows /\ q \in Rows
      /\ p.resa = b /\ q.resa = b
  BY StagingFacts DEF Retenus, Encaisses
<1>2. p.cle = q.cle
  BY <1>1 DEF PaymentsInv
<1>3. ~ Avant(p, q) /\ ~ Avant(q, p)
  BY <1>1, <1>2 DEF Retenus, Doublon
<1>4. \A r \in {p, q} : r.cree \in Nat /\ r.id \in Nat /\ r.maj \in Nat
  BY <1>1, InstantsAreNat DEF PaymentsInv, RowInv, Paiement
<1>5. p.id = q.id
  BY <1>3, <1>4 DEF Avant
<1>6. p.maj <= q.maj /\ q.maj <= p.maj
  BY <1>1, <1>5 DEF StgPayments
<1>7. p.maj = q.maj
  BY <1>4, <1>6
<1>8. QED
  BY <1>1, <1>5, <1>7 DEF PaymentsInv

LEMMA AmountPaidFacts ==
  ASSUME PaymentsInv, NEW b \in Resas
  PROVE  AmountPaid(b) \in {0, Prix, Surencaisse}
<1>1. Retenus(b) \in SUBSET Rows
  BY StagingFacts DEF Retenus, Encaisses
<1>2. AmountPaid(b) = Total(Cents, Retenus(b)) /\ IsFiniteSet(Retenus(b))
  BY <1>1, StagingFacts DEF AmountPaid, Retenus
<1>3. CASE Retenus(b) = {}
  BY <1>2, <1>3, TotalEmpty
<1>4. CASE Retenus(b) # {}
  <2>1. PICK p \in Retenus(b) : TRUE
    BY <1>4
  <2>2. Retenus(b) \ {p} = {}
    BY RetenuIsOne
  <2>3. \A q \in Retenus(b) : Cents[q] \in Nat
    BY <1>1, StagingFacts
  <2>4. Total(Cents, Retenus(b)) = Cents[p] + 0
    BY <1>2, <2>1, <2>2, <2>3, TotalSplit, TotalEmpty
  <2>5. Cents[p] \in {Prix, Surencaisse}
    BY <1>1, <2>1 DEF Cents, PaymentsInv, RowInv, Paiement
  <2>6. QED
    BY <1>2, <2>4, <2>5 DEF Prix, Surencaisse
<1>5. QED
  BY <1>3, <1>4

-----------------------------------------------------------------------------
(***************************************************************************)
(* The tables as they are stored, and as they are when they are fresh.     *)
(***************************************************************************)
TablesInv ==
  /\ dim \subseteq [client : Clients, observe : Instants,
                    de : Instants \cup {Nul}, a : Instants \cup {Nul}]
  /\ fct \subseteq [resa : Resas, sk : Instants \cup {Nul},
                    paye : {0, Prix, Surencaisse}]
  /\ orphelins \subseteq Paiement
  /\ frais \subseteq Modeles

Faits == UNION {{[resa |-> b, sk |-> k, paye |-> AmountPaid(b)] :
                   k \in Jointure(b)} : b \in Actives}

FreshInv ==
  /\ "dim_customers" \in frais => DimOf(brutClients)
  /\ "fct_bookings" \in frais => fct = Faits
  /\ "orphan_payments" \in frais =>
       orphelins = {p \in StgPayments : p.resa \notin Actives}

LEMMA TablesInit == Init => TablesInv /\ FreshInv
BY DEF Init, TablesInv, FreshInv

LEMMA TablesStep ==
  VersionsInv /\ PaymentsInv /\ TablesInv /\ [Next]_vars => TablesInv'
<1> SUFFICES ASSUME VersionsInv, PaymentsInv, TablesInv, [Next]_vars
             PROVE  TablesInv'
  OBVIOUS
<1>1. ASSUME UNCHANGED marts, frais' \subseteq frais
      PROVE  TablesInv'
  BY <1>1 DEF TablesInv, marts
<1>2. CASE BuildDim
  <2>1. ASSUME NEW c \in Clients, NEW t \in brutClients[c]
        PROVE  Version(c, brutClients[c], t) \in
                 [client : Clients, observe : Instants,
                  de : Instants \cup {Nul}, a : Instants \cup {Nul}]
    <3>1. brutClients[c] \in SUBSET Instants
      BY DEF VersionsInv
    <3>2. Lead(brutClients[c], t) \in Instants \cup {Nul}
      BY <3>1, LeadIsNext
    <3>3. QED
      BY <3>1, <3>2 DEF Version
  <2>2. dim' \subseteq [client : Clients, observe : Instants,
                        de : Instants \cup {Nul}, a : Instants \cup {Nul}]
    BY <1>2, <2>1 DEF BuildDim, Scd2
  <2>3. QED
    BY <1>2, <2>2 DEF BuildDim, TablesInv, Modeles
<1>3. CASE BuildFct
  <2>1. ASSUME NEW b \in Resas
        PROVE  Jointure(b) \subseteq Instants \cup {Nul}
    BY DEF Jointure, Gauche, DuClient, TablesInv
  <2>2. fct' \subseteq [resa : Resas, sk : Instants \cup {Nul},
                        paye : {0, Prix, Surencaisse}]
    BY <1>3, <2>1, AmountPaidFacts DEF BuildFct, Actives
  <2>3. QED
    BY <1>3, <2>2 DEF BuildFct, TablesInv, Modeles
<1>4. CASE BuildOrphans
  <2>1. StgPayments \subseteq Paiement
    BY StagingFacts DEF PaymentsInv, RowInv
  <2>2. QED
    BY <1>4, <2>1 DEF BuildOrphans, TablesInv, Modeles
<1>5. QED
  BY <1>1, <1>2, <1>3, <1>4
     DEF Next, vars, marts, Instant, ChangeCustomer, InsertBooking,
         LateArriving, DeleteBooking, PaymentDefect, Load, LoadCustomers,
         LoadPayments, Expire, Consume

\* A booking that is made now was not yet among those of the fact.
LEMMA FaitsKept ==
  ASSUME BookingsInv, UNCHANGED <<brutPaiements, vue, dim>>,
         \A b \in Resas : resas'[b] = resas[b] \/ etat[b] = 0
  PROVE  Faits' = Faits
<1>1. Actives' = Actives
  BY DEF Actives
<1>2. \A b \in Actives : Jointure(b)' = Jointure(b)
  <2>1. \A b \in Actives : etat[b] # 0 /\ b \in Resas
    BY DEF Actives, BookingsInv
  <2>2. QED
    BY <2>1 DEF Jointure, DuClient, Valide
<1>3. \A b \in Actives : AmountPaid(b)' = AmountPaid(b)
  BY DEF AmountPaid, Encaisses, Doublon, StgPayments
<1>4. QED
  BY <1>1, <1>2, <1>3 DEF Faits

LEMMA FreshStep ==
  VersionsInv /\ BookingsInv /\ TablesInv /\ FreshInv /\ [Next]_vars
    => FreshInv'
<1> SUFFICES ASSUME VersionsInv, BookingsInv, TablesInv, FreshInv, [Next]_vars
             PROVE  FreshInv'
  OBVIOUS
<1>1. ASSUME UNCHANGED <<raw, marts, frais>>,
             \A b \in Resas : resas'[b] = resas[b] \/ etat[b] = 0
      PROVE  FreshInv'
  <2>1. Faits' = Faits
    BY <1>1, FaitsKept DEF raw, marts
  <2>2. DimOf(brutClients)' = DimOf(brutClients)
    BY <1>1 DEF raw, marts, DimOf, Scd2, Version, Lead
  <2>3. /\ StgPayments' = StgPayments /\ Actives' = Actives
        /\ UNCHANGED <<fct, orphelins, frais>>
    BY <1>1 DEF raw, marts, StgPayments, Actives
  <2>4. QED
    BY <2>1, <2>2, <2>3 DEF FreshInv
<1>2. ASSUME Load
      PROVE  FreshInv'
  BY <1>2 DEF Load, FreshInv
<1>3. CASE BuildDim
  <2>1. DimOf(brutClients)'
    BY <1>3 DEF BuildDim, DimOf, Scd2, Version, Lead, raw
  <2>2. /\ StgPayments' = StgPayments /\ Actives' = Actives
        /\ orphelins' = orphelins
        /\ frais' = (frais \cup {"dim_customers"}) \ {"fct_bookings"}
    BY <1>3 DEF BuildDim, raw, StgPayments, Actives
  <2>3. QED
    BY <2>1, <2>2 DEF FreshInv
<1>4. CASE BuildFct
  <2>1. Faits' = Faits
    BY <1>4, FaitsKept DEF BuildFct, raw, source
  <2>2. /\ StgPayments' = StgPayments /\ Actives' = Actives
        /\ DimOf(brutClients)' = DimOf(brutClients)
        /\ orphelins' = orphelins /\ frais' = frais \cup {"fct_bookings"}
    BY <1>4 DEF BuildFct, raw, StgPayments, Actives, DimOf, Scd2, Version, Lead
  <2>3. fct' = Faits
    BY <1>4 DEF BuildFct, Faits
  <2>4. QED
    BY <2>1, <2>2, <2>3 DEF FreshInv
<1>5. CASE BuildOrphans
  <2>1. Faits' = Faits
    BY <1>5, FaitsKept DEF BuildOrphans, raw, source
  <2>2. /\ StgPayments' = StgPayments /\ Actives' = Actives
        /\ DimOf(brutClients)' = DimOf(brutClients)
        /\ fct' = fct /\ frais' = frais \cup {"orphan_payments"}
        /\ orphelins' = {p \in StgPayments : p.resa \notin Actives}
    BY <1>5 DEF BuildOrphans, raw, StgPayments, Actives, DimOf, Scd2, Version,
       Lead
  <2>3. QED
    BY <2>1, <2>2 DEF FreshInv
<1>6. ASSUME Instant, NEW b \in Resas, NEW c, NEW cree, Book(b, c, cree)
      PROVE  FreshInv'
  <2>1. \A a \in Resas : resas'[a] = resas[a] \/ etat[a] = 0
    BY <1>6 DEF Book, VersionsInv
  <2>2. QED
    BY <1>1, <1>6, <2>1 DEF Instant
<1>7. ASSUME Instant \/ UNCHANGED vars, UNCHANGED resas
      PROVE  FreshInv'
  BY <1>1, <1>7 DEF Instant, vars, raw, marts
<1>8. QED
  BY <1>2, <1>3, <1>4, <1>5, <1>6, <1>7
     DEF Next, vars, ChangeCustomer, InsertBooking, LateArriving,
         DeleteBooking, PaymentDefect, LoadCustomers, LoadPayments, Expire,
         Consume

-----------------------------------------------------------------------------
(***************************************************************************)
(* The versions that the loads saw.                                        *)
(***************************************************************************)
HeldInv ==
  /\ \A b \in Resas : etat[b] # 0 => resas[b].client \in Clients
  /\ \A c \in Clients : brutClients[c] \subseteq historique[c]

LEMMA HeldInit == Init => HeldInv
BY DEF Init, HeldInv

LEMMA HeldStep ==
  VersionsInv /\ BookingsInv /\ HeldInv /\ [Next]_vars => HeldInv'
<1> SUFFICES ASSUME VersionsInv, BookingsInv, HeldInv, [Next]_vars
             PROVE  HeldInv'
  OBVIOUS
<1>1. ASSUME UNCHANGED <<etat, resas, brutClients>>,
             \A c \in Clients : historique[c] \subseteq historique'[c]
      PROVE  HeldInv'
  BY <1>1 DEF HeldInv
<1>2. ASSUME NEW c \in Clients, ChangeCustomer(c)
      PROVE  HeldInv'
  <2>1. \A d \in Clients : historique[d] \subseteq historique'[d]
    BY <1>2 DEF ChangeCustomer, VersionsInv
  <2>2. QED
    BY <1>1, <1>2, <2>1 DEF ChangeCustomer, Instant, raw
<1>3. ASSUME NEW b \in Resas, NEW c \in Clients, NEW cree, Book(b, c, cree),
             UNCHANGED brutClients,
             \A d \in Clients : historique[d] \subseteq historique'[d]
      PROVE  HeldInv'
  BY <1>3 DEF Book, HeldInv, BookingsInv, VersionsInv
<1>4. ASSUME NEW b \in Resas, NEW c \in Clients,
             InsertBooking(b, c) \/ LateArriving(b, c)
      PROVE  HeldInv'
  <2>1. \A d \in Clients : historique[d] \subseteq historique'[d]
    BY <1>4 DEF InsertBooking, LateArriving, VersionsInv
  <2>2. QED
    BY <1>3, <1>4, <2>1 DEF InsertBooking, LateArriving, Instant, raw
<1>5. ASSUME NEW b \in Resas, DeleteBooking(b)
      PROVE  HeldInv'
  BY <1>5 DEF DeleteBooking, Instant, raw, HeldInv, BookingsInv
<1>6. ASSUME NEW d \in Windows, LoadCustomers(d)
      PROVE  HeldInv'
  BY <1>6 DEF LoadCustomers, Load, source, HeldInv, InWindow
<1>7. ASSUME NEW d \in Windows, Expire(d)
      PROVE  HeldInv'
  BY <1>7 DEF Expire, Load, source, HeldInv
<1>8. ASSUME UNCHANGED <<etat, resas, historique, brutClients>>
      PROVE  HeldInv'
  BY <1>8 DEF HeldInv
<1>9. QED
  BY <1>2, <1>4, <1>5, <1>6, <1>7, <1>8
     DEF Next, vars, source, raw, Instant, PaymentDefect, Load, LoadPayments,
         Consume, BuildDim, BuildFct, BuildOrphans

\* The last version observed by cree, or the first one, is the one of V that is
\* valid at cree, when V has it.
LEMMA DetenueIsValid ==
  ASSUME VersionsInv, HeldInv, NEW b \in Resas, resas[b].client \in Clients,
         Detenue(b) \in brutClients[resas[b].client]
  PROVE  Valide(Version(resas[b].client, brutClients[resas[b].client],
                        Detenue(b)), resas[b].cree)
<1> DEFINE c == resas[b].client
           V == brutClients[c]
           H == historique[c]
           cree == resas[b].cree
           D == Detenue(b)
           connues == {t \in H : t <= cree}
<1>1. /\ V \subseteq H /\ H \in SUBSET Instants /\ V \in SUBSET Instants
      /\ Instants \subseteq Nat /\ cree \in Nat /\ D \in V
  BY InstantsAreNat DEF VersionsInv, HeldInv
<1>2. D = IF connues = {} THEN Min(H) ELSE Max(connues)
  BY DEF Detenue
<1> HIDE DEF V, H, cree, D, c
<1>3. \/ (\A u \in H : D <= u /\ cree < u)
      \/ D <= cree /\ \A u \in H : u <= cree => u <= D
  <2>1. CASE connues = {}
    <3>1. \E m \in H : \A n \in H : m <= n
      BY <1>1, Smallest
    <3>2. \A n \in H : Min(H) <= n
      BY <3>1 DEF Min
    <3>3. QED
      BY <1>1, <1>2, <2>1, <3>2
  <2>2. CASE connues # {}
    <3>1. connues \in SUBSET Instants
      BY <1>1
    <3>2. \E m \in connues : \A n \in connues : n <= m
      BY <2>2, <3>1, Largest
    <3>3. \E m \in connues : \A n \in connues : m >= n
      BY <1>1, <3>1, <3>2
    <3>4. Max(connues) \in connues /\ \A n \in connues : Max(connues) >= n
      BY <3>3 DEF Max
    <3>5. QED
      BY <1>1, <1>2, <2>2, <3>4
  <2>3. QED
    BY <2>1, <2>2
<1>4. (\E u \in V : u < D) => cree >= D
  BY <1>1, <1>3
<1>5. Lead(V, D) = Nul \/ cree < Lead(V, D)
  <2>1. Lead(V, D) = Nul \/ (Lead(V, D) \in V /\ D < Lead(V, D))
    BY <1>1, LeadIsNext
  <2>2. ASSUME NEW l \in V, D < l
        PROVE  cree < l
    BY <1>1, <1>3, <2>2
  <2>3. QED
    BY <2>1, <2>2
<1>6. Valide(Version(c, V, D), cree)
  BY <1>4, <1>5 DEF Valide, Version
<1>7. QED
  BY <1>6 DEF c, V, D, cree

\* The current version is the last one loaded.
LEMMA CouranteIsLast ==
  ASSUME NEW c, NEW V \in SUBSET Instants, V # {}
  PROVE  {v.observe : v \in {w \in Scd2(c, V) : w.a = Nul}} = {Max(V)}
<1>1. V \subseteq Nat
  BY InstantsAreNat
<1>2. \E m \in V : \A n \in V : m >= n
  BY <1>1, Largest
<1>3. Max(V) \in V /\ \A n \in V : Max(V) >= n
  BY <1>2 DEF Max
<1>4. \A n \in V : n = Max(V) <=> Lead(V, n) = Nul
  <2> TAKE n \in V
  <2>1. \/ Lead(V, n) = Nul /\ \A u \in V : u <= n
        \/ Lead(V, n) \in V /\ Lead(V, n) # Nul /\ n < Lead(V, n)
    BY LeadIsNext
  <2>2. ASSUME \A u \in V : u <= n
        PROVE  n = Max(V)
    <3>1. Max(V) <= n /\ n <= Max(V) /\ n \in Nat /\ Max(V) \in Nat
      BY <1>1, <1>3, <2>2
    <3>2. QED
      BY <3>1
  <2>3. ASSUME NEW l \in V, n < l
        PROVE  n # Max(V)
    <3>1. l <= Max(V) /\ l \in Nat /\ n \in Nat
      BY <1>1, <1>3
    <3>2. QED
      BY <2>3, <3>1
  <2>4. QED
    BY <2>1, <2>2, <2>3
<1>5. \A n \in V : /\ Version(c, V, n).observe = n
                   /\ Version(c, V, n).a = Lead(V, n)
  BY DEF Version
<1>6. QED
  BY <1>3, <1>4, <1>5 DEF Scd2

-----------------------------------------------------------------------------
(***************************************************************************)
(* All of it is invariant, and what follows from it.                       *)
(***************************************************************************)
StateInv ==
  /\ Inv
  /\ BookingsInv
  /\ PaymentsInv
  /\ HeldInv
  /\ TablesInv
  /\ FreshInv

LEMMA StateAlways == Spec => []StateInv
<1>1. Init => StateInv
  BY InvInit, BookingsInit, HeldInit, TablesInit DEF StateInv
<1>2. StateInv /\ [Next]_vars => StateInv'
  BY InvStep, BookingsStep, PaymentsStep, HeldStep, TablesStep, FreshStep
     DEF StateInv, Inv
<1>3. QED
  BY <1>1, <1>2, PTL DEF Spec

\* Every table keeps its type, amounts included.
THEOREM TypeCorrect == Spec => []TypeOK
<1>1. {0, Prix, Surencaisse} \subseteq Nat
  BY DEF Prix, Surencaisse
<1>2. StateInv => TypeOK
  BY <1>1 DEF StateInv, Inv, VersionsInv, BookingsInv, PaymentsInv, TablesInv,
     RowInv, Rows, TypeOK
<1>3. QED
  BY <1>2, StateAlways, PTL

\* A booking paid once is counted once, double submission or not.
THEOREM SinglePayment == Spec => []PaidOnce
<1>1. StateInv => PaidOnce
  BY DEF StateInv, TablesInv, PaidOnce
<1>2. QED
  BY <1>1, StateAlways, PTL

\* A booking of the dashboard has the version its customer had when it was made
\* and, beside it, the last version loaded.
THEOREM TierHeld == Spec => []TierAtBooking
<1>1. ASSUME StateInv, "dim_customers" \in frais, "fct_bookings" \in frais,
             NEW r \in Tableau
      PROVE  LET V == brutClients[resas[r.resa].client]
             IN  /\ (r.alors = Nul) = (V = {})
                 /\ Detenue(r.resa) \in V => r.alors = Detenue(r.resa)
                 /\ r.actuel = IF V = {} THEN Nul ELSE Max(V)
  <2>1. PICK p \in fct :
          /\ r.alors \in Gauche(Alors(p))
          /\ r.actuel \in Gauche(Courantes(p.resa))
          /\ r.resa = p.resa
    BY DEF Tableau
  <2>2. fct = Faits /\ DimOf(brutClients)
    BY <1>1 DEF StateInv, FreshInv
  <2> DEFINE b == r.resa
             c == resas[b].client
             V == brutClients[c]
             cree == resas[b].cree
  <2>3. b \in Actives /\ b \in Resas /\ p.sk \in Jointure(b)
    BY <2>1, <2>2 DEF Faits, Actives
  <2>4. c \in Clients
    BY <1>1, <2>3 DEF StateInv, HeldInv, BookingsInv, Actives
  <2>5. /\ V \in SUBSET Instants /\ cree \in Instants
        /\ brutClients \in [Clients -> SUBSET Instants]
    BY <1>1, <2>3, <2>4 DEF StateInv, Inv, VersionsInv
  <2>6. DuClient(b) = Scd2(c, V)
    BY <2>2, <2>4, <2>5, RowsOfClient DEF DuClient
  <2>7. CASE V = {}
    <3>1. DuClient(b) = {}
      BY <2>6, <2>7 DEF Scd2
    <3>2. /\ Gauche(Alors(p)) = {p.sk} \/ Gauche(Alors(p)) = {Nul}
          /\ Gauche(Alors(p)) = {Nul} /\ Gauche(Courantes(b)) = {Nul}
      BY <2>1, <3>1 DEF Alors, Courantes, Gauche
    <3>3. QED
      BY <2>1, <2>7, <3>2
  <2>8. CASE V # {}
    <3>1. PICK w \in Scd2(c, V) :
            Valide(w, cree) /\ \A x \in Scd2(c, V) : Valide(x, cree) => x = w
      BY <2>5, <2>8, CoverOnce
    <3>2. PICK m \in V : w = Version(c, V, m)
      BY DEF Scd2
    <3>3. w.observe = m /\ m # Nul
      BY <2>5, <3>2, InstantsAreNat, NulAssumption DEF Version
    <3>4. Jointure(b) = {m}
      BY <2>6, <3>1, <3>3 DEF Jointure, Gauche
    <3>5. p.sk = m
      BY <2>3, <3>4
    <3>6. r.alors = m
      <4>1. Alors(p) # {} /\ \A v \in Alors(p) : v.observe = m
        BY <2>1, <2>6, <3>1, <3>3, <3>5 DEF Alors
      <4>2. QED
        BY <2>1, <4>1 DEF Gauche
    <3>7. ASSUME Detenue(b) \in V
          PROVE  m = Detenue(b)
      <4>1. Version(c, V, Detenue(b)) \in Scd2(c, V)
        BY <3>7 DEF Scd2
      <4>2. Valide(Version(c, V, Detenue(b)), cree)
        BY <1>1, <2>3, <2>4, <3>7, DetenueIsValid DEF StateInv, Inv
      <4>3. Version(c, V, Detenue(b)) = Version(c, V, m)
        BY <3>1, <3>2, <4>1, <4>2
      <4>4. QED
        BY <4>3 DEF Version
    <3>8. r.actuel = Max(V)
      <4>1. {v.observe : v \in Courantes(b)} = {Max(V)}
        BY <2>5, <2>6, <2>8, CouranteIsLast DEF Courantes
      <4>2. QED
        BY <2>1, <4>1 DEF Gauche
    <3>9. QED
      BY <2>8, <3>3, <3>6, <3>7, <3>8
  <2>9. QED
    BY <2>7, <2>8
<1>2. StateInv => TierAtBooking
  BY <1>1 DEF TierAtBooking
<1>3. QED
  BY <1>2, StateAlways, PTL

\* What the fact counts: the payments of its bookings that are no double
\* submission.
LEMMA FactAmounts ==
  ASSUME StateInv, "fct_bookings" \in frais
  PROVE  MapThenSumSet(LAMBDA r : r.paye, fct) =
           Total(Cents, {p \in StgPayments : p.resa \in Actives /\ ~Doublon(p)})
<1> DEFINE A == {p \in StgPayments : p.resa \in Actives /\ ~Doublon(p)}
           G == [r \in fct |-> Retenus(r.resa)]
           paye == [r \in fct |-> r.paye]
<1>1. /\ fct = Faits /\ PaymentsInv /\ Actives \subseteq Resas
      /\ \A r, s \in fct : r.resa = s.resa => r = s
  BY DEF StateInv, Inv, FctInv, FreshInv, Actives
<1>2. \A r \in fct : r.resa \in Actives /\ r.paye = AmountPaid(r.resa)
  BY <1>1 DEF Faits
<1>3. \A b \in Actives : \E r \in fct : r.resa = b
  <2> TAKE b \in Actives
  <2>1. PICK k \in Jointure(b) : TRUE
    BY DEF Jointure, Gauche
  <2>2. [resa |-> b, sk |-> k, paye |-> AmountPaid(b)] \in fct
    BY <1>1, <2>1 DEF Faits
  <2>3. QED
    BY <2>2
<1>4. IsFiniteSet(fct)
  <2>1. Actives \in SUBSET {b \in Resas : etat[b] # 0}
    BY DEF Actives, StateInv, BookingsInv
  <2>2. IsFiniteSet(Actives)
    BY <2>1, FS_Subset DEF StateInv, BookingsInv
  <2>3. [r \in fct |-> r.resa] \in Injection(fct, Actives)
    BY <1>1, <1>2 DEF Injection, IsInjective
  <2>4. QED
    BY <2>2, <2>3, FS_Injection
<1>5. \A b \in Resas : /\ Retenus(b) \in SUBSET Rows
                       /\ AmountPaid(b) = Total(Cents, Retenus(b))
  BY <1>1, StagingFacts DEF Retenus, Encaisses, AmountPaid
<1>6. G \in [fct -> SUBSET Rows]
  BY <1>1, <1>2, <1>5
<1>7. \A r \in fct : paye[r] = Total(Cents, G[r])
  BY <1>1, <1>2, <1>5
<1>8. \A r, s \in fct : r # s => G[r] \cap G[s] = {}
  BY <1>1 DEF Retenus, Encaisses
<1>9. UNION {G[r] : r \in fct} = A
  <2>1. \A r \in fct : G[r] = {p \in StgPayments : p.resa = r.resa /\ ~Doublon(p)}
    BY DEF Retenus, Encaisses
  <2> HIDE DEF G
  <2>2. QED
    BY <1>2, <1>3, <2>1
<1>10. Total(paye, fct) = Total(Cents, A)
  <2>1. IsFiniteSet(Rows) /\ \A p \in Rows : Cents[p] \in Nat
    BY <1>1, StagingFacts
  <2> HIDE DEF G, paye, A
  <2>2. QED
    BY <1>4, <1>6, <1>7, <1>8, <1>9, <2>1, TotalByGroup
<1>11. MapThenSumSet(LAMBDA r : r.paye, fct) = Total(paye, fct)
  BY <1>4, PayeIsTotal
<1>12. QED
  BY <1>10, <1>11

\* No money disappears between staging and the marts.
THEOREM AmountsKept == Spec => []AmountsConserved
<1>1. ASSUME StateInv, "fct_bookings" \in frais, "orphan_payments" \in frais
      PROVE  Somme(StgPayments) =
               MapThenSumSet(LAMBDA r : r.paye, fct)
               + Somme({p \in StgPayments : Doublon(p)})
               + Somme({p \in orphelins : ~Doublon(p)})
  <2> DEFINE A == {p \in StgPayments : p.resa \in Actives /\ ~Doublon(p)}
             D == {p \in StgPayments : Doublon(p)}
             O == {p \in orphelins : ~Doublon(p)}
  <2>1. /\ PaymentsInv
        /\ orphelins = {p \in StgPayments : p.resa \notin Actives}
    BY <1>1 DEF StateInv, FreshInv
  <2>2. StgPayments = (A \cup D) \cup O /\ A \cap D = {} /\ (A \cup D) \cap O = {}
    BY <2>1
  <2>3. A \in SUBSET Rows /\ D \in SUBSET Rows /\ O \in SUBSET Rows
    BY <2>1, StagingFacts
  <2>4. MapThenSumSet(LAMBDA r : r.paye, fct) = Total(Cents, A)
    BY <1>1, FactAmounts
  <2> HIDE DEF A, D, O
  <2>5. /\ IsFiniteSet(A) /\ IsFiniteSet(D) /\ IsFiniteSet(O)
        /\ IsFiniteSet(A \cup D) /\ \A p \in Rows : Cents[p] \in Nat
        /\ A \cup D \in SUBSET Rows /\ (A \cup D) \cup O \in SUBSET Rows
    BY <2>1, <2>3, StagingFacts
  <2>6. Total(Cents, A \cup D) = Total(Cents, A) + Total(Cents, D)
    BY <2>2, <2>3, <2>5, TotalUnion
  <2>7. Total(Cents, (A \cup D) \cup O) = Total(Cents, A \cup D) + Total(Cents, O)
    BY <2>2, <2>3, <2>5, TotalUnion
  <2>8. /\ Somme(StgPayments) = Total(Cents, (A \cup D) \cup O)
        /\ Somme(D) = Total(Cents, D) /\ Somme(O) = Total(Cents, O)
    BY <2>1, <2>2, <2>3, <2>5, StagingFacts
  <2>9. Somme(StgPayments) =
          MapThenSumSet(LAMBDA r : r.paye, fct) + Somme(D) + Somme(O)
    BY <2>4, <2>6, <2>7, <2>8
  <2>10. QED
    BY <2>9 DEF D, O
<1>2. StateInv => AmountsConserved
  BY <1>1 DEF AmountsConserved
<1>3. QED
  BY <1>2, StateAlways, PTL

=============================================================================
