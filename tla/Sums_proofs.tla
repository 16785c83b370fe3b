------------------------------ MODULE Sums_proofs ------------------------------
(***************************************************************************)
(* What SumOf is good for: a sum of naturals is a natural, zeros add up to *)
(* zero, and changing one value changes the sum by as much.                *)
(*                                                                         *)
(* Each is an induction on a finite set.  The library states induction for *)
(* a predicate it takes as an operator; here it is stated without one, for *)
(* the set of the cases where a claim fails: LeastNat and SmallestSet say  *)
(* that such a set, if not empty, has a smallest member, and a proof shows *)
(* that no member is smallest.  That PartialSums is a function at all has  *)
(* to be proved the same way, from the functions on the sets of at most n  *)
(* arguments.                                                              *)
(***************************************************************************)
EXTENDS Sums, FiniteSets, FiniteSetTheorems, WellFoundedInduction, TLAPS

-----------------------------------------------------------------------------
(* Least members. *)

\* A set of naturals that is not empty has a least member.
LEMMA LeastNat ==
    ASSUME NEW T, T \subseteq Nat, T # {}
    PROVE  \E x \in T : \A y \in T : x <= y
  <1> DEFINE R == {ss \in Nat \X Nat : ss[1] < ss[2]}
  <1>1. IsWellFoundedOn(R, Nat)
    BY NatLessThanWellFounded DEF OpToRel
  <1>2. \E x \in T : \A y \in T : ~ (<<y, x>> \in R)
    <2> HIDE DEF R
    <2> QED BY <1>1, WFMin, Zenon
  <1>3. PICK x \in T : \A y \in T : ~ (<<y, x>> \in R)
    BY <1>2
  <1>4. ASSUME NEW y \in T
        PROVE  x <= y
    <2>1. <<y, x>> \notin R
      BY <1>3
    <2>2. x \in Nat /\ y \in Nat
      OBVIOUS
    <2>3. ~ (y < x)
      BY <2>1, <2>2
    <2> QED BY <2>2, <2>3
  <1> QED BY <1>4

\* Induction on the sets of a finite collection, by their size: a set where the claim
\* fails has a smaller one.
LEMMA SmallestSet ==
    ASSUME NEW D, IsFiniteSet(D), NEW B, B \subseteq SUBSET D, B # {}
    PROVE  \E S \in B : \A x \in S : S \ {x} \notin B
  <1> DEFINE sizes == {Cardinality(S) : S \in B}
  <1>1. \A S \in B : IsFiniteSet(S) /\ Cardinality(S) \in Nat
    BY FS_Subset, FS_CardinalityType
  <1>2. \E n \in sizes : \A m \in sizes : n <= m
    <2>1. sizes \subseteq Nat /\ sizes # {}
      BY <1>1
    <2> HIDE DEF sizes
    <2> QED BY <2>1, LeastNat
  <1>3. PICK S \in B : \A Z \in B : Cardinality(S) <= Cardinality(Z)
    BY <1>2
  <1>4. ASSUME NEW x \in S
        PROVE  S \ {x} \notin B
    <2>1. Cardinality(S \ {x}) = Cardinality(S) - 1
      BY <1>1, FS_RemoveElement
    <2> QED BY <1>1, <1>3, <2>1
  <1> QED BY <1>4

-----------------------------------------------------------------------------
(* The partial sums exist. *)

\* The recurrence of PartialSums, on the sets D.
IsPartialSums(f, D, s) ==
  s = [S \in D |-> IF S = {} THEN 0 ELSE f[Pick(S)] + s[S \ {Pick(S)}]]

\* The sums over the sets of at most n arguments.
UpTo(D, n) == {S \in SUBSET D : Cardinality(S) <= n}

\* The same for all subsets of D, each entry apart.
AddsUp(f, D, s) ==
  \A S \in SUBSET D : s[S] = IF S = {} THEN 0 ELSE f[Pick(S)] + s[S \ {Pick(S)}]

\* f has sums over the sets of at most n arguments.
HasSums(f, D, n) == \E s \in [UpTo(D, n) -> Nat] : IsPartialSums(f, UpTo(D, n), s)

\* Pick picks a member.
LEMMA PickIn ==
    ASSUME NEW S, S # {}
    PROVE  Pick(S) \in S
  BY DEF Pick

\* Without the picked argument a set has one argument less.
LEMMA UpToStep ==
    ASSUME NEW D, IsFiniteSet(D), NEW n \in Nat, NEW S \in UpTo(D, n + 1), S # {}
    PROVE  S \ {Pick(S)} \in UpTo(D, n)
  <1>1. IsFiniteSet(S) /\ Cardinality(S) \in Nat
    BY FS_Subset, FS_CardinalityType DEF UpTo
  <1>2. Cardinality(S \ {Pick(S)}) = Cardinality(S) - 1
    BY <1>1, FS_RemoveElement, PickIn
  <1> QED BY <1>1, <1>2 DEF UpTo

\* Sums over n arguments extend to sums over n + 1.
LEMMA PartialSumsUpTo ==
    ASSUME NEW D, IsFiniteSet(D), NEW f \in [D -> Nat], NEW n \in Nat
    PROVE  HasSums(f, D, n)
  <1> DEFINE T == {k \in Nat : ~HasSums(f, D, k)}
  <1>1. ASSUME T # {}
        PROVE  FALSE
    <2>1. PICK k \in T : \A j \in T : k <= j
      <3>1. T \subseteq Nat
        OBVIOUS
      <3> HIDE DEF T
      <3> QED BY <1>1, <3>1, LeastNat
    <2>2. k # 0
      <3> SUFFICES ASSUME k = 0 PROVE FALSE
        OBVIOUS
      <3>1. \A S \in UpTo(D, 0) : S = {}
        BY FS_Subset, FS_CardinalityType, FS_EmptySet DEF UpTo
      <3>2. IsPartialSums(f, UpTo(D, 0), [S \in UpTo(D, 0) |-> 0])
        BY <3>1 DEF IsPartialSums
      <3> QED BY <3>2 DEF HasSums
    <2>3. k - 1 \in Nat /\ k - 1 \notin T
      BY <2>1, <2>2
    <2> DEFINE A == UpTo(D, k - 1)
               B == UpTo(D, k)
    <2>4. PICK s \in [A -> Nat] : IsPartialSums(f, A, s)
      BY <2>3 DEF HasSums
    <2> DEFINE t == [S \in B |-> IF S \in A THEN s[S] ELSE f[Pick(S)] + s[S \ {Pick(S)}]]
    <2>5. \A S \in B : S # {} => Pick(S) \in D /\ S \ {Pick(S)} \in A
      <3>1. k = (k - 1) + 1
        BY <2>3
      <3>2. \A S \in B : S # {} => S \ {Pick(S)} \in A
        BY <2>3, <3>1, UpToStep
      <3> QED BY <3>2, PickIn DEF UpTo
    <2>6. A \subseteq B /\ {} \in A
      BY <2>3, FS_EmptySet, FS_Subset, FS_CardinalityType DEF UpTo
    <2>7. \A S \in A : s[S] = IF S = {} THEN 0 ELSE f[Pick(S)] + s[S \ {Pick(S)}]
      BY <2>4 DEF IsPartialSums
    <2> HIDE DEF A, B
    <2>8. t \in [B -> Nat]
      <3>1. ASSUME NEW S \in B
            PROVE  (IF S \in A THEN s[S] ELSE f[Pick(S)] + s[S \ {Pick(S)}]) \in Nat
        <4>1. CASE S \in A
          BY <4>1
        <4>2. CASE S \notin A
          <5>1. f[Pick(S)] \in Nat /\ s[S \ {Pick(S)}] \in Nat
            BY <2>5, <2>6, <4>2
          <5> QED BY <4>2, <5>1
        <4> QED BY <4>1, <4>2
      <3> QED BY <3>1
    <2>9. \A S \in B : t[S] = IF S = {} THEN 0 ELSE f[Pick(S)] + t[S \ {Pick(S)}]
      BY <2>5, <2>6, <2>7
    <2> HIDE DEF t, T
    <2>10. IsPartialSums(f, B, t)
      BY <2>8, <2>9 DEF IsPartialSums
    <2>11. HasSums(f, D, k)
      BY <2>8, <2>10 DEF B, HasSums
    <2> QED BY <2>1, <2>11 DEF T
  <1> QED BY <1>1

\* PartialSums gives a natural to every set of arguments, by its recurrence.
LEMMA PartialSumsWork ==
    ASSUME NEW D, IsFiniteSet(D), NEW f \in [D -> Nat]
    PROVE  /\ PartialSums(f) \in [SUBSET D -> Nat]
           /\ AddsUp(f, D, PartialSums(f))
  <1>1. Cardinality(D) \in Nat
    BY FS_CardinalityType
  <1>2. UpTo(D, Cardinality(D)) = SUBSET D
    BY FS_Subset DEF UpTo
  <1>3. HasSums(f, D, Cardinality(D))
    BY <1>1, PartialSumsUpTo
  <1>4. \E s \in [SUBSET D -> Nat] : IsPartialSums(f, SUBSET D, s)
    BY <1>2, <1>3 DEF HasSums
  <1>5. PartialSums(f) = CHOOSE z : IsPartialSums(f, SUBSET DOMAIN f, z)
    BY Zenon DEF PartialSums, IsPartialSums
  <1>6. IsPartialSums(f, SUBSET D, PartialSums(f))
    BY <1>4, <1>5, DOMAIN f = D
  <1> DEFINE z == PartialSums(f)
  <1>7. z = [S \in SUBSET D |-> IF S = {} THEN 0 ELSE f[Pick(S)] + z[S \ {Pick(S)}]]
    BY <1>6 DEF IsPartialSums
  <1> HIDE DEF z
  <1>8. \A S \in SUBSET D : z[S] = IF S = {} THEN 0 ELSE f[Pick(S)] + z[S \ {Pick(S)}]
    BY <1>7, Zenon
  <1>9. z = [S \in SUBSET D |-> z[S]]
    BY <1>7
  <1>10. \A S \in SUBSET D : z[S] \in Nat
    <2> DEFINE B == {S \in SUBSET D : z[S] \notin Nat}
    <2>1. ASSUME B # {} PROVE FALSE
      <3>1. PICK S \in B : \A x \in S : S \ {x} \notin B
        <4>1. B \subseteq SUBSET D
          OBVIOUS
        <4> HIDE DEF B
        <4> QED BY <2>1, <4>1, SmallestSet
      <3>2. S \in SUBSET D /\ z[S] \notin Nat
        BY DEF B
      <3>3. \A x \in S : z[S \ {x}] \in Nat
        BY <3>1, <3>2
      <3> HIDE DEF B
      <3>4. z[S] = IF S = {} THEN 0 ELSE f[Pick(S)] + z[S \ {Pick(S)}]
        BY <1>8, <3>2
      <3>5. CASE S = {}
        BY <3>2, <3>4, <3>5
      <3>6. CASE S # {}
        <4>1. Pick(S) \in S /\ Pick(S) \in D
          BY <3>2, <3>6, PickIn
        <4>2. f[Pick(S)] \in Nat /\ z[S \ {Pick(S)}] \in Nat
          BY <3>3, <4>1
        <4> QED BY <3>2, <3>4, <3>6, <4>2
      <3> QED BY <3>5, <3>6
    <2> QED BY <2>1
  <1>11. z \in [SUBSET D -> Nat]
    BY <1>9, <1>10
  <1>12. AddsUp(f, D, z)
    BY <1>8 DEF AddsUp
  <1> QED BY <1>11, <1>12 DEF z

-----------------------------------------------------------------------------
(* What a sum is used for. *)

\* The type alone.
LEMMA PartialSumsType ==
    ASSUME NEW D, IsFiniteSet(D), NEW f \in [D -> Nat]
    PROVE  PartialSums(f) \in [SUBSET D -> Nat]
  BY PartialSumsWork

\* A sum of naturals is a natural.
LEMMA SumType ==
    ASSUME NEW D, IsFiniteSet(D), NEW f \in [D -> Nat]
    PROVE  SumOf(f) \in Nat
  <1>1. PartialSums(f) \in [SUBSET D -> Nat]
    BY PartialSumsType
  <1>2. DOMAIN f = D
    OBVIOUS
  <1> QED BY <1>1, <1>2 DEF SumOf

\* Nothing adds up to nothing.
LEMMA SumOfZeros ==
    ASSUME NEW D, IsFiniteSet(D), NEW f \in [D -> Nat], \A x \in D : f[x] = 0
    PROVE  SumOf(f) = 0
  <1> DEFINE F == PartialSums(f)
             B == {S \in SUBSET D : F[S] # 0}
  <1>1. AddsUp(f, D, F)
    BY PartialSumsWork
  <1>2. B \subseteq SUBSET D
    OBVIOUS
  <1> HIDE DEF F
  <1>3. ASSUME NEW S \in SUBSET D, \A x \in S : S \ {x} \notin B
        PROVE  S \notin B
    <2>1. \A x \in S : F[S \ {x}] = 0
      BY <1>3
    <2>2. CASE S # {}
      <3>1. Pick(S) \in S /\ Pick(S) \in D
        BY <2>2, PickIn
      <3>2. F[S] = f[Pick(S)] + F[S \ {Pick(S)}]
        BY <1>1, <2>2 DEF AddsUp
      <3>3. f[Pick(S)] = 0 /\ F[S \ {Pick(S)}] = 0
        BY <2>1, <3>1
      <3> QED BY <3>2, <3>3
    <2> QED BY <1>1, <2>2 DEF AddsUp
  <1> HIDE DEF B
  <1>4. B = {}
    BY <1>2, <1>3, SmallestSet
  <1>5. F[D] = 0
    BY <1>4 DEF B
  <1> QED BY <1>5 DEF F, SumOf

\* A sum changes by what one entry changes.
LEMMA SumChange ==
    ASSUME NEW D, IsFiniteSet(D), NEW f \in [D -> Nat], NEW g \in [D -> Nat],
           NEW c \in D, \A x \in D \ {c} : g[x] = f[x]
    PROVE  SumOf(g) + f[c] = SumOf(f) + g[c]
  <1> DEFINE F == PartialSums(f)
             G == PartialSums(g)
             Agree(S) == IF c \in S THEN G[S] + f[c] = F[S] + g[c] ELSE G[S] = F[S]
             B == {S \in SUBSET D : ~Agree(S)}
  <1>1. AddsUp(f, D, F)
    BY PartialSumsWork
  <1>2. F \in [SUBSET D -> Nat]
    BY PartialSumsType
  <1>3. AddsUp(g, D, G)
    BY PartialSumsWork
  <1>4. G \in [SUBSET D -> Nat]
    BY PartialSumsType
  <1>5. B \subseteq SUBSET D
    OBVIOUS
  <1> HIDE DEF F, G
  <1>6. ASSUME NEW S \in SUBSET D, \A x \in S : S \ {x} \notin B
        PROVE  S \notin B
    <2>1. \A x \in S : Agree(S \ {x})
      BY <1>6
    <2> HIDE DEF B
    <2>2. CASE S = {}
      BY <1>1, <1>3, <2>2 DEF B, AddsUp
    <2>3. CASE S # {}
      <3> DEFINE x == Pick(S)
      <3>1. x \in S /\ x \in D
        BY <2>3, PickIn
      <3>2. /\ F[S] = f[x] + F[S \ {x}]
            /\ G[S] = g[x] + G[S \ {x}]
        BY <1>1, <1>3, <2>3 DEF AddsUp
      <3>3. Agree(S \ {x})
        BY <2>1, <3>1
      <3> HIDE DEF x
      <3>4. /\ F[S] \in Nat /\ F[S \ {x}] \in Nat /\ G[S] \in Nat /\ G[S \ {x}] \in Nat
            /\ f[x] \in Nat /\ g[x] \in Nat /\ f[c] \in Nat /\ g[c] \in Nat
        BY <1>2, <1>4, <3>1
      <3>5. CASE x = c
        <4>1. G[S \ {x}] = F[S \ {x}]
          BY <3>3, <3>5
        <4>2. G[S] + f[c] = F[S] + g[c]
          BY <3>2, <3>4, <3>5, <4>1
        <4> QED BY <3>1, <3>5, <4>2 DEF B
      <3>6. CASE x # c
        <4>1. g[x] = f[x]
          BY <3>1, <3>6
        <4>2. CASE c \in S
          <5>1. G[S \ {x}] + f[c] = F[S \ {x}] + g[c]
            BY <3>3, <3>6, <4>2
          <5>2. G[S] + f[c] = F[S] + g[c]
            BY <3>2, <3>4, <4>1, <5>1
          <5> QED BY <4>2, <5>2 DEF B
        <4>3. CASE c \notin S
          <5>1. G[S \ {x}] = F[S \ {x}]
            BY <3>3, <4>3
          <5>2. G[S] = F[S]
            BY <3>2, <4>1, <5>1
          <5> QED BY <4>3, <5>2 DEF B
        <4> QED BY <4>2, <4>3
      <3> QED BY <3>5, <3>6
    <2> QED BY <2>2, <2>3
  <1> HIDE DEF B
  <1>7. B = {}
    BY <1>5, <1>6, SmallestSet
  <1>8. Agree(D)
    BY <1>7 DEF B
  <1>9. G[D] + f[c] = F[D] + g[c]
    BY <1>8
  <1>10. DOMAIN f = D /\ DOMAIN g = D
    OBVIOUS
  <1> QED BY <1>9, <1>10 DEF SumOf, F, G
===============================================================================
