---------------------------- MODULE SumTheorems ----------------------------
(***************************************************************************)
(* The sums that the models take with MapThenSumSet of the community       *)
(* modules: rows buffered, lag of the group, amounts in cents.  That fold  *)
(* is a recursive function over the subsets of its set, which removes the  *)
(* element that CHOOSE gives.  Total is this function for the terms f, and *)
(* the lemmas say what a sum is: it does not depend on the order.          *)
(***************************************************************************)
EXTENDS Integers, FiniteSetsExt, FiniteSetTheorems, WellFoundedInduction,
        TLAPS

First(s) == CHOOSE x \in s : TRUE

SumOver(f, S) ==
  CHOOSE sum : sum = [s \in SUBSET S |->
                        IF s = {} THEN 0
                                  ELSE f[First(s)] + sum[s \ {First(s)}]]

Total(f, S) == SumOver(f, S)[S]

\* sum[s] is the sum of f over s, for every part s of S.
IsSum(f, sum, S) ==
  \A s \in SUBSET S :
    sum[s] = IF s = {} THEN 0 ELSE f[First(s)] + sum[s \ {First(s)}]

-----------------------------------------------------------------------------
\* What holds of 0 and of the successor of each number it holds of.
LEMMA InductionOnNat ==
  ASSUME NEW P, 0 \in P, \A n \in Nat : n \in P => n + 1 \in P
  PROVE  Nat \subseteq P
<1> SUFFICES ASSUME Nat \ P # {}
             PROVE  FALSE
  OBVIOUS
<1> DEFINE R == Nat \ P
<1>1. PICK r \in R : \A x \in R : ~ (<<x, r>> \in OpToRel(<, Nat))
  <2>1. R \in SUBSET Nat /\ R # {}
    OBVIOUS
  <2> HIDE DEF R
  <2>2. QED
    BY <2>1, NatLessThanWellFounded, WFMin
<1>2. r # 0 /\ r - 1 \in Nat /\ <<r - 1, r>> \in OpToRel(<, Nat)
  BY DEF OpToRel
<1>3. r - 1 \in P
  BY <1>1, <1>2
<1>4. r - 1 + 1 \in P
  BY <1>2, <1>3
<1>5. QED
  BY <1>4

\* What holds of a set whenever it holds of the set less any of its elements.
LEMMA InductionOnSets ==
  ASSUME NEW S, IsFiniteSet(S), NEW P,
         \A s \in SUBSET S : (\A x \in s : s \ {x} \in P) => s \in P
  PROVE  SUBSET S \subseteq P
<1> DEFINE Q == {n \in Nat : \A s \in SUBSET S : Cardinality(s) = n => s \in P}
<1>1. \A s \in SUBSET S : IsFiniteSet(s) /\ Cardinality(s) \in Nat
  BY FS_Subset, FS_CardinalityType
<1>2. 0 \in Q
  BY <1>1, FS_EmptySet
<1>3. ASSUME NEW n \in Nat, n \in Q
      PROVE  n + 1 \in Q
  <2> SUFFICES ASSUME NEW s \in SUBSET S, Cardinality(s) = n + 1
               PROVE  s \in P
    OBVIOUS
  <2>1. ASSUME NEW x \in s
        PROVE  s \ {x} \in P
    <3>1. Cardinality(s \ {x}) = n + 1 - 1
      BY <1>1, FS_RemoveElement
    <3>2. Cardinality(s \ {x}) = n /\ s \ {x} \in SUBSET S
      BY <3>1
    <3>3. QED
      BY <1>3, <3>2
  <2>2. QED
    BY <2>1
<1>4. Nat \subseteq Q
  <2> HIDE DEF Q
  <2>1. QED
    BY <1>2, <1>3, InductionOnNat
<1>5. QED
  BY <1>1, <1>4

-----------------------------------------------------------------------------
\* The recursive function exists, for every finite set.
LEMMA SumExists ==
  ASSUME NEW f, NEW S, IsFiniteSet(S)
  PROVE  IsSum(f, SumOver(f, S), S)
<1> DEFINE Step(h) == [s \in SUBSET S |->
             IF s = {} THEN 0 ELSE f[First(s)] + h[s \ {First(s)}]]
           Q == {n \in Nat : \E h : \A s \in SUBSET S :
                   Cardinality(s) <= n => h[s] = Step(h)[s]}
<1>1. \A s \in SUBSET S : IsFiniteSet(s) /\ Cardinality(s) \in Nat
                        /\ Cardinality(s) <= Cardinality(S)
  BY FS_Subset, FS_CardinalityType
<1>2. ASSUME NEW s \in SUBSET S, s # {}
      PROVE  /\ First(s) \in s /\ s \ {First(s)} \in SUBSET S
             /\ Cardinality(s \ {First(s)}) = Cardinality(s) - 1
  <2>1. First(s) \in s
    BY <1>2 DEF First
  <2>2. QED
    BY <1>1, <2>1, FS_RemoveElement
<1>3. 0 \in Q
  <2> DEFINE h == [s \in SUBSET S |-> 0]
  <2>1. \A s \in SUBSET S : Cardinality(s) <= 0 => h[s] = Step(h)[s]
    BY <1>1, FS_EmptySet
  <2>2. QED
    BY <2>1
<1>4. ASSUME NEW n \in Nat, n \in Q
      PROVE  n + 1 \in Q
  <2>1. PICK h : \A s \in SUBSET S : Cardinality(s) <= n => h[s] = Step(h)[s]
    BY <1>4
  <2>2. ASSUME NEW s \in SUBSET S, Cardinality(s) <= n + 1
        PROVE  Step(h)[s] = Step(Step(h))[s]
    <3>1. CASE s = {}
      BY <3>1
    <3>2. CASE s # {}
      <4> DEFINE r == s \ {First(s)}
      <4>1. r \in SUBSET S /\ Cardinality(r) <= n
        BY <1>1, <1>2, <2>2, <3>2
      <4>2. h[r] = Step(h)[r]
        BY <2>1, <4>1
      <4>3. Step(h)[s] = f[First(s)] + h[r]
        BY <3>2
      <4>4. Step(Step(h))[s] = f[First(s)] + Step(h)[r]
        BY <3>2
      <4>5. QED
        BY <4>2, <4>3, <4>4
    <3>3. QED
      BY <3>1, <3>2
  <2>3. n + 1 \in Nat /\ \E k : \A s \in SUBSET S :
          Cardinality(s) <= n + 1 => k[s] = Step(k)[s]
    <3> DEFINE k == Step(h)
    <3>1. \A s \in SUBSET S : Cardinality(s) <= n + 1 => k[s] = Step(k)[s]
      BY <2>2
    <3> HIDE DEF k, Step
    <3>2. QED
      BY <3>1
  <2>4. QED
    BY <2>3
<1>5. Cardinality(S) \in Q
  <2>1. Nat \subseteq Q
    <3> HIDE DEF Q
    <3>1. QED
      BY <1>3, <1>4, InductionOnNat
  <2>2. QED
    BY <1>1, <2>1
<1>6. PICK h : \A s \in SUBSET S : h[s] = Step(h)[s]
  BY <1>1, <1>5
<1>7. ASSUME NEW s \in SUBSET S
      PROVE  Step(h)[s] = Step(Step(h))[s]
  BY <1>2, <1>6
<1>8. Step(h) = Step(Step(h))
  BY <1>7
<1>9. \E sum : sum = [s \in SUBSET S |->
                 IF s = {} THEN 0 ELSE f[First(s)] + sum[s \ {First(s)}]]
  BY <1>8
<1>10. SumOver(f, S) = [s \in SUBSET S |->
          IF s = {} THEN 0
                    ELSE f[First(s)] + SumOver(f, S)[s \ {First(s)}]]
  BY <1>9 DEF SumOver
<1> DEFINE sum == SumOver(f, S)
<1> HIDE DEF sum
<1>11. sum = [s \in SUBSET S |->
               IF s = {} THEN 0 ELSE f[First(s)] + sum[s \ {First(s)}]]
  BY <1>10 DEF sum
<1>12. \A s \in SUBSET S :
         sum[s] = IF s = {} THEN 0 ELSE f[First(s)] + sum[s \ {First(s)}]
  BY <1>11
<1>13. QED
  BY <1>12 DEF sum, IsSum

\* The sum over a part is the same, whichever the whole.
LEMMA SumOfPart ==
  ASSUME NEW f, NEW S, IsFiniteSet(S), NEW T \in SUBSET S
  PROVE  SumOver(f, S)[T] = Total(f, T)
<1> DEFINE P == {s \in SUBSET T : SumOver(f, S)[s] = SumOver(f, T)[s]}
<1>1. IsFiniteSet(T)
  BY FS_Subset
<1>2. ASSUME NEW s \in SUBSET T, \A x \in s : s \ {x} \in P
      PROVE  s \in P
  <2>1. s # {} => First(s) \in s
    BY DEF First
  <2>2. SumOver(f, S)[s] =
          IF s = {} THEN 0 ELSE f[First(s)] + SumOver(f, S)[s \ {First(s)}]
    BY SumExists DEF IsSum
  <2>3. SumOver(f, T)[s] =
          IF s = {} THEN 0 ELSE f[First(s)] + SumOver(f, T)[s \ {First(s)}]
    BY <1>1, SumExists DEF IsSum
  <2>4. QED
    BY <1>2, <2>1, <2>2, <2>3
<1>3. SUBSET T \subseteq P
  <2> HIDE DEF P
  <2>1. QED
    BY <1>1, <1>2, InductionOnSets
<1>4. QED
  BY <1>3 DEF Total

LEMMA TotalEmpty ==
  ASSUME NEW f
  PROVE  Total(f, {}) = 0
<1>1. SumOver(f, {})[{}] = 0
  BY FS_EmptySet, SumExists DEF IsSum
<1>2. QED
  BY <1>1 DEF Total

LEMMA TotalFirst ==
  ASSUME NEW f, NEW S, IsFiniteSet(S), S # {}
  PROVE  /\ First(S) \in S
         /\ Total(f, S) = f[First(S)] + Total(f, S \ {First(S)})
<1>1. First(S) \in S
  BY DEF First
<1>2. Total(f, S) = f[First(S)] + SumOver(f, S)[S \ {First(S)}]
  <2>1. S \in SUBSET S
    OBVIOUS
  <2>2. SumOver(f, S)[S] = f[First(S)] + SumOver(f, S)[S \ {First(S)}]
    BY <2>1, SumExists DEF IsSum
  <2>3. QED
    BY <2>2 DEF Total
<1>3. QED
  BY <1>1, <1>2, SumOfPart

-----------------------------------------------------------------------------
LEMMA TotalNat ==
  ASSUME NEW S, IsFiniteSet(S), NEW f, \A x \in S : f[x] \in Nat
  PROVE  Total(f, S) \in Nat
<1> DEFINE P == {s \in SUBSET S : Total(f, s) \in Nat}
<1>1. ASSUME NEW s \in SUBSET S, \A x \in s : s \ {x} \in P
      PROVE  s \in P
  <2>1. IsFiniteSet(s)
    BY FS_Subset
  <2>2. CASE s = {}
    BY <2>2, TotalEmpty
  <2>3. CASE s # {}
    <3>1. First(s) \in s /\ s \ {First(s)} \in P
      BY <1>1, <2>1, <2>3, TotalFirst
    <3>2. Total(f, s) = f[First(s)] + Total(f, s \ {First(s)})
      BY <2>1, <2>3, TotalFirst
    <3>3. QED
      BY <3>1, <3>2
  <2>4. QED
    BY <2>2, <2>3
<1>2. SUBSET S \subseteq P
  <2> HIDE DEF P
  <2>1. QED
    BY <1>1, InductionOnSets
<1>3. QED
  BY <1>2

\* Terms may be taken out in any order.
LEMMA TotalSplit ==
  ASSUME NEW S, IsFiniteSet(S), NEW f, \A x \in S : f[x] \in Nat, NEW x \in S
  PROVE  Total(f, S) = f[x] + Total(f, S \ {x})
<1> DEFINE P == {s \in SUBSET S :
                   \A y \in s : Total(f, s) = f[y] + Total(f, s \ {y})}
<1>1. ASSUME NEW s \in SUBSET S, \A y \in s : s \ {y} \in P
      PROVE  s \in P
  <2> SUFFICES ASSUME NEW y \in s
               PROVE  Total(f, s) = f[y] + Total(f, s \ {y})
    OBVIOUS
  <2> DEFINE z == First(s)
  <2>1. IsFiniteSet(s)
    BY FS_Subset
  <2>2. z \in s /\ Total(f, s) = f[z] + Total(f, s \ {z})
    BY <2>1, TotalFirst
  <2>3. CASE y = z
    BY <2>2, <2>3
  <2>4. CASE y # z
    <3> HIDE DEF z
    <3> DEFINE r == s \ {y, z}
    <3>1. (s \ {z}) \ {y} = r /\ (s \ {y}) \ {z} = r
      OBVIOUS
    <3>2. Total(f, s \ {z}) = f[y] + Total(f, r)
      BY <1>1, <2>2, <2>4, <3>1
    <3>3. Total(f, s \ {y}) = f[z] + Total(f, r)
      BY <1>1, <2>2, <2>4, <3>1
    <3>4. Total(f, r) \in Nat /\ f[y] \in Nat /\ f[z] \in Nat
      <4>1. IsFiniteSet(r) /\ \A u \in r : f[u] \in Nat
        BY FS_Subset
      <4>2. QED
        BY <2>2, <4>1, TotalNat
    <3>5. QED
      BY <2>2, <3>2, <3>3, <3>4
  <2>5. QED
    BY <2>3, <2>4
<1>2. SUBSET S \subseteq P
  <2> HIDE DEF P
  <2>1. QED
    BY <1>1, InductionOnSets
<1>3. QED
  BY <1>2

\* A sum depends on the terms over its set only.
LEMMA TotalSame ==
  ASSUME NEW S, IsFiniteSet(S), NEW f, NEW g, \A x \in S : f[x] = g[x]
  PROVE  Total(f, S) = Total(g, S)
<1> DEFINE P == {s \in SUBSET S : Total(f, s) = Total(g, s)}
<1>1. ASSUME NEW s \in SUBSET S, \A x \in s : s \ {x} \in P
      PROVE  s \in P
  <2>1. IsFiniteSet(s)
    BY FS_Subset
  <2>2. CASE s = {}
    BY <2>2, TotalEmpty
  <2>3. CASE s # {}
    <3>1. First(s) \in s /\ s \ {First(s)} \in P
      BY <1>1, <2>1, <2>3, TotalFirst
    <3>2. /\ Total(f, s) = f[First(s)] + Total(f, s \ {First(s)})
          /\ Total(g, s) = g[First(s)] + Total(g, s \ {First(s)})
      BY <2>1, <2>3, TotalFirst
    <3>3. QED
      BY <3>1, <3>2
  <2>4. QED
    BY <2>2, <2>3
<1>2. SUBSET S \subseteq P
  <2> HIDE DEF P
  <2>1. QED
    BY <1>1, InductionOnSets
<1>3. QED
  BY <1>2

\* A sum of natural numbers is null only if each of them is.
LEMMA TotalZero ==
  ASSUME NEW S, IsFiniteSet(S), NEW f, \A x \in S : f[x] \in Nat
  PROVE  Total(f, S) = 0 <=> \A x \in S : f[x] = 0
<1>1. ASSUME NEW x \in S
      PROVE  Total(f, S) \in Nat /\ Total(f, S) >= f[x]
  <2>1. Total(f, S \ {x}) \in Nat
    <3>1. IsFiniteSet(S \ {x}) /\ \A y \in S \ {x} : f[y] \in Nat
      BY FS_Subset
    <3>2. QED
      BY <3>1, TotalNat
  <2>2. QED
    BY <2>1, TotalSplit
<1>2. ASSUME \A x \in S : f[x] = 0
      PROVE  Total(f, S) = 0
  <2> DEFINE P == {s \in SUBSET S : Total(f, s) = 0}
  <2>1. ASSUME NEW s \in SUBSET S, \A x \in s : s \ {x} \in P
        PROVE  s \in P
    <3>1. IsFiniteSet(s)
      BY FS_Subset
    <3>2. CASE s = {}
      BY <3>2, TotalEmpty
    <3>3. CASE s # {}
      <4>1. First(s) \in s /\ s \ {First(s)} \in P
        BY <2>1, <3>1, <3>3, TotalFirst
      <4>2. Total(f, s) = f[First(s)] + Total(f, s \ {First(s)})
        BY <3>1, <3>3, TotalFirst
      <4>3. QED
        BY <1>2, <4>1, <4>2
    <3>4. QED
      BY <3>2, <3>3
  <2>2. SUBSET S \subseteq P
    <3> HIDE DEF P
    <3>1. QED
      BY <2>1, InductionOnSets
  <2>3. QED
    BY <2>2
<1>3. QED
  BY <1>1, <1>2

-----------------------------------------------------------------------------
\* A function that obeys the recursion is the sum.
LEMMA SumIsUnique ==
  ASSUME NEW S, IsFiniteSet(S), NEW f, NEW h, NEW k,
         IsSum(f, h, S), IsSum(f, k, S)
  PROVE  h[S] = k[S]
<1> DEFINE P == {s \in SUBSET S : h[s] = k[s]}
<1>1. ASSUME NEW s \in SUBSET S, \A x \in s : s \ {x} \in P
      PROVE  s \in P
  <2>1. s # {} => First(s) \in s
    BY DEF First
  <2>2. h[s] = IF s = {} THEN 0 ELSE f[First(s)] + h[s \ {First(s)}]
    BY DEF IsSum
  <2>3. k[s] = IF s = {} THEN 0 ELSE f[First(s)] + k[s \ {First(s)}]
    BY DEF IsSum
  <2>4. QED
    BY <1>1, <2>1, <2>2, <2>3
<1>2. SUBSET S \subseteq P
  <2> HIDE DEF P
  <2>1. QED
    BY <1>1, InductionOnSets
<1>3. QED
  BY <1>2

LEMMA TotalUnique ==
  ASSUME NEW S, IsFiniteSet(S), NEW f, NEW h, IsSum(f, h, S)
  PROVE  h[S] = Total(f, S)
<1>1. IsSum(f, SumOver(f, S), S)
  BY SumExists
<1>2. QED
  BY <1>1, SumIsUnique DEF Total

\* One term changes.
LEMMA TotalChange ==
  ASSUME NEW S, IsFiniteSet(S), NEW f, NEW g, NEW x \in S,
         \A y \in S : f[y] \in Nat /\ g[y] \in Nat,
         \A y \in S \ {x} : g[y] = f[y]
  PROVE  Total(g, S) + f[x] = Total(f, S) + g[x]
<1>1. IsFiniteSet(S \ {x})
  BY FS_RemoveElement
<1>2. Total(f, S \ {x}) = Total(g, S \ {x})
  BY <1>1, TotalSame
<1>3. Total(f, S \ {x}) \in Nat
  <2>1. \A y \in S \ {x} : f[y] \in Nat
    OBVIOUS
  <2>2. QED
    BY <1>1, <2>1, TotalNat
<1>4. Total(f, S) = f[x] + Total(f, S \ {x})
  BY TotalSplit
<1>5. Total(g, S) = g[x] + Total(g, S \ {x})
  BY TotalSplit
<1>6. f[x] \in Nat /\ g[x] \in Nat
  OBVIOUS
<1>7. QED
  BY <1>2, <1>3, <1>4, <1>5, <1>6

\* The sum over two sets without a common element.
LEMMA TotalUnion ==
  ASSUME NEW S, IsFiniteSet(S), NEW T, IsFiniteSet(T), S \cap T = {},
         NEW f, \A x \in S \cup T : f[x] \in Nat
  PROVE  Total(f, S \cup T) = Total(f, S) + Total(f, T)
<1>1. Total(f, T) \in Nat
  BY TotalNat
<1> DEFINE P == {s \in SUBSET S : Total(f, s \cup T) = Total(f, s) + Total(f, T)}
<1>2. ASSUME NEW s \in SUBSET S, \A x \in s : s \ {x} \in P
      PROVE  s \in P
  <2>1. IsFiniteSet(s) /\ IsFiniteSet(s \cup T)
    BY FS_Subset, FS_Union
  <2>2. CASE s = {}
    BY <1>1, <2>2, TotalEmpty
  <2>3. CASE s # {}
    <3>1. PICK x \in s : TRUE
      BY <2>3
    <3>2. Total(f, s) = f[x] + Total(f, s \ {x})
      BY <2>1, TotalSplit
    <3>3. Total(f, s \cup T) = f[x] + Total(f, (s \ {x}) \cup T)
      <4>1. (s \cup T) \ {x} = (s \ {x}) \cup T
        BY <3>1
      <4>2. \A y \in s \cup T : f[y] \in Nat
        OBVIOUS
      <4>3. QED
        BY <2>1, <4>1, <4>2, TotalSplit
    <3>4. Total(f, (s \ {x}) \cup T) = Total(f, s \ {x}) + Total(f, T)
      BY <1>2
    <3>5. Total(f, s \ {x}) \in Nat
      <4>1. IsFiniteSet(s \ {x}) /\ \A y \in s \ {x} : f[y] \in Nat
        BY <2>1, FS_RemoveElement
      <4>2. QED
        BY <4>1, TotalNat
    <3>6. f[x] \in Nat
      OBVIOUS
    <3>7. QED
      BY <1>1, <3>2, <3>3, <3>4, <3>5, <3>6
  <2>4. QED
    BY <2>2, <2>3
<1>3. SUBSET S \subseteq P
  <2> HIDE DEF P
  <2>1. QED
    BY <1>2, InductionOnSets
<1>4. QED
  BY <1>3

\* The sum of the sums over groups without a common element.
LEMMA TotalByGroup ==
  ASSUME NEW S, IsFiniteSet(S), NEW U, IsFiniteSet(U),
         NEW G \in [S -> SUBSET U],
         \A x, y \in S : x # y => G[x] \cap G[y] = {},
         NEW f, \A u \in U : f[u] \in Nat,
         NEW g, \A x \in S : g[x] = Total(f, G[x])
  PROVE  Total(g, S) = Total(f, UNION {G[x] : x \in S})
<1>1. ASSUME NEW V \in SUBSET U
      PROVE  IsFiniteSet(V) /\ Total(f, V) \in Nat
  <2>1. IsFiniteSet(V) /\ \A u \in V : f[u] \in Nat
    BY FS_Subset
  <2>2. QED
    BY <2>1, TotalNat
<1>2. \A x \in S : g[x] \in Nat
  BY <1>1
<1> DEFINE All(s) == UNION {G[x] : x \in s}
           P == {s \in SUBSET S : Total(g, s) = Total(f, All(s))}
<1>3. ASSUME NEW s \in SUBSET S, \A x \in s : s \ {x} \in P
      PROVE  s \in P
  <2>1. CASE s = {}
    <3>1. All(s) = {}
      BY <2>1
    <3>2. QED
      BY <2>1, <3>1, TotalEmpty
  <2>2. CASE s # {}
    <3>1. PICK x \in s : TRUE
      BY <2>2
    <3>2. Total(g, s) = g[x] + Total(g, s \ {x})
      <4>1. IsFiniteSet(s) /\ \A y \in s : g[y] \in Nat
        BY <1>2, FS_Subset
      <4>2. QED
        BY <4>1, TotalSplit
    <3>3. Total(f, All(s)) = Total(f, G[x]) + Total(f, All(s \ {x}))
      <4>1. All(s) = G[x] \cup All(s \ {x})
        OBVIOUS
      <4>2. G[x] \cap All(s \ {x}) = {}
        OBVIOUS
      <4>3. G[x] \in SUBSET U /\ All(s \ {x}) \in SUBSET U
        OBVIOUS
      <4> DEFINE A == G[x]
                 B == All(s \ {x})
      <4> HIDE DEF A, B
      <4>4. /\ IsFiniteSet(A) /\ IsFiniteSet(B) /\ A \cap B = {}
            /\ \A u \in A \cup B : f[u] \in Nat
        BY <1>1, <4>2, <4>3 DEF A, B
      <4>5. Total(f, A \cup B) = Total(f, A) + Total(f, B)
        BY <4>4, TotalUnion
      <4>6. QED
        BY <4>1, <4>5 DEF A, B
    <3>4. QED
      BY <1>3, <3>2, <3>3
  <2>3. QED
    BY <2>1, <2>2
<1>4. SUBSET S \subseteq P
  <2> HIDE DEF P
  <2>1. QED
    BY <1>3, InductionOnSets
<1>5. QED
  BY <1>4
=============================================================================
