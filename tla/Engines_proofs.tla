---------------------------- MODULE Engines_proofs ----------------------------
(***************************************************************************)
(* The two engines that run a schema in Go, for schemas of any size and    *)
(* any bindings: what Contracts checks of them on twelve schemas.  Each    *)
(* moves tokens by one change after another (TokensAfter), so each fact    *)
(* about a firing is an induction on the number of changes made, which the *)
(* provers do as in Sums_proofs: the least number at which the fact fails  *)
(* is no such number.                                                      *)
(***************************************************************************)
EXTENDS NetRuntime, Sums_proofs, SequenceTheorems

-----------------------------------------------------------------------------
(* One change after another. *)

\* After holds the counts after each of the first n changes.
Changes(tokens, changes, n, After) ==
    \A k \in 0 .. n : After[k] = IF k = 0 THEN tokens ELSE AddToken(After[k - 1], changes[k])

CanChange(D, tokens, changes, n) ==
    \E After \in [0 .. n -> [D -> Int]] : Changes(tokens, changes, n, After)

\* A list of changes, those of a place in D by an integer.
ChangesOf(D, changes) ==
    /\ Len(changes) \in Nat
    /\ \A k \in 1 .. Len(changes) : changes[k].place \in D => changes[k].n \in Int

\* What c makes of t, entry by entry.
Changed(D, t, c, result) ==
    /\ result \in [D -> Int]
    /\ \A x \in D : result[x] = IF x = c.place THEN t[x] + c.n ELSE t[x]

\* A change of a place changes its entry.
LEMMA AddTokenEntries ==
    ASSUME NEW D, NEW t \in [D -> Int], NEW c, c.place \in D => c.n \in Int
    PROVE  Changed(D, t, c, AddToken(t, c))
  <1>1. CASE c.place \in D /\ c.n # 0
    BY <1>1 DEF AddToken, Changed
  <1>2. CASE ~(c.place \in D /\ c.n # 0)
    <2>1. AddToken(t, c) = t
      BY <1>2 DEF AddToken
    <2>2. \A x \in D : x = c.place => t[x] = t[x] + c.n
      BY <1>2
    <2> QED BY <2>1, <2>2 DEF Changed
  <1> QED BY <1>1, <1>2

\* Every part of every list of changes can be made: a shortest one that cannot would
\* extend the counts before its last change.
LEMMA ChangesExist ==
    ASSUME NEW D, NEW tokens \in [D -> Int], NEW changes, ChangesOf(D, changes),
           NEW n \in 0 .. Len(changes)
    PROVE  CanChange(D, tokens, changes, n)
  <1> DEFINE T == {k \in 0 .. Len(changes) : ~CanChange(D, tokens, changes, k)}
  <1>0. Len(changes) \in Nat
    BY DEF ChangesOf
  <1>1. ASSUME NEW k \in T, \A j \in T : k <= j
        PROVE  FALSE
    <2>1. k \in 0 .. Len(changes) /\ ~CanChange(D, tokens, changes, k)
      OBVIOUS
    <2>2. k # 0
      <3>1. [j \in 0 .. 0 |-> tokens] \in [0 .. 0 -> [D -> Int]]
        OBVIOUS
      <3>2. Changes(tokens, changes, 0, [j \in 0 .. 0 |-> tokens])
        BY DEF Changes
      <3> QED BY <2>1, <3>1, <3>2 DEF CanChange
    <2>3. k \in Nat /\ k \in 1 .. Len(changes)
      BY <1>0, <2>1, <2>2
    <2>4. k - 1 \in 0 .. Len(changes) /\ k - 1 \notin T
      BY <1>0, <1>1, <2>3
    <2>5. PICK s \in [0 .. (k - 1) -> [D -> Int]] : Changes(tokens, changes, k - 1, s)
      BY <2>4 DEF CanChange
    <2> DEFINE next == AddToken(s[k - 1], changes[k])
               r == [j \in 0 .. k |-> IF j < k THEN s[j] ELSE next]
    <2>6. s[k - 1] \in [D -> Int] /\ (changes[k].place \in D => changes[k].n \in Int)
      BY <2>3 DEF ChangesOf
    <2>7. next \in [D -> Int]
      BY <2>6, AddTokenEntries DEF Changed
    <2>8. r \in [0 .. k -> [D -> Int]]
      <3> HIDE DEF next
      <3> QED BY <2>3, <2>7
    <2>9. Changes(tokens, changes, k, r)
      <3> SUFFICES ASSUME NEW j \in 0 .. k
                   PROVE  r[j] = IF j = 0 THEN tokens ELSE AddToken(r[j - 1], changes[j])
        BY DEF Changes
      <3>1. CASE j = k
        <4>1. r[j] = next /\ r[j - 1] = s[k - 1]
          BY <2>3, <3>1
        <4> QED BY <2>2, <3>1, <4>1
      <3>2. CASE j # k
        <4>1. j \in 0 .. (k - 1) /\ (j # 0 => j - 1 \in 0 .. (k - 1))
          BY <2>3, <3>2
        <4>2. s[j] = IF j = 0 THEN tokens ELSE AddToken(s[j - 1], changes[j])
          BY <2>5, <4>1 DEF Changes
        <4>3. r[j] = s[j] /\ (j # 0 => r[j - 1] = s[j - 1])
          BY <2>3, <4>1
        <4> QED BY <4>2, <4>3
      <3> QED BY <3>1, <3>2
    <2> QED BY <2>1, <2>8, <2>9 DEF CanChange
  <1>2. T \subseteq Nat
    BY <1>0
  <1>3. n \notin T
    <2> HIDE DEF T
    <2> QED BY <1>1, <1>2, LeastNat
  <1> QED BY <1>3

\* So TokensAfter holds the counts after every change.
LEMMA TokensAfterWork ==
    ASSUME NEW D, NEW tokens \in [D -> Int], NEW changes, ChangesOf(D, changes)
    PROVE  Changes(tokens, changes, Len(changes), TokensAfter(tokens, changes))
  <1> DEFINE Is(s) == s = [k \in 0 .. Len(changes) |->
                             IF k = 0 THEN tokens ELSE AddToken(s[k - 1], changes[k])]
  <1>1. Len(changes) \in 0 .. Len(changes)
    BY DEF ChangesOf
  <1>2. PICK s \in [0 .. Len(changes) -> [D -> Int]] : Changes(tokens, changes, Len(changes), s)
    BY <1>1, ChangesExist DEF CanChange
  <1>3. Is(s)
    BY <1>2 DEF Changes
  <1>4. TokensAfter(tokens, changes) = CHOOSE z : Is(z)
    BY Zenon DEF TokensAfter
  <1>5. Is(TokensAfter(tokens, changes))
    <2> HIDE DEF Is
    <2> QED BY <1>3, <1>4
  <1> QED BY <1>5, Zenon DEF Changes

\* Counts, and lists of changes, that agree on the places of P.
Agree(P, t, u) == \A x \in P : t[x] = u[x]
AgreeChanges(P, c, d) ==
    /\ Len(c) = Len(d)
    /\ \A k \in 1 .. Len(c) : /\ c[k].place = d[k].place
                              /\ c[k].place \in P => c[k].n = d[k].n

\* Counts that agree on the places of P do so after changes that agree on them.
LEMMA ChangesAgree ==
    ASSUME NEW D, NEW t \in [D -> Int], NEW c, ChangesOf(D, c),
           NEW E, NEW u \in [E -> Int], NEW d, ChangesOf(E, d),
           NEW P, P \subseteq D, P \subseteq E, Agree(P, t, u), AgreeChanges(P, c, d)
    PROVE  /\ AddTokens(t, c) \in [D -> Int]
           /\ AddTokens(u, d) \in [E -> Int]
           /\ Agree(P, AddTokens(t, c), AddTokens(u, d))
  <1> DEFINE n == Len(c)
             A == TokensAfter(t, c)
             B == TokensAfter(u, d)
             Same(k) == /\ A[k] \in [D -> Int]
                        /\ B[k] \in [E -> Int]
                        /\ Agree(P, A[k], B[k])
             T == {k \in 0 .. n : ~Same(k)}
  <1>0. n \in Nat /\ Changes(t, c, n, A) /\ Changes(u, d, n, B)
    BY TokensAfterWork DEF ChangesOf, AgreeChanges
  <1> HIDE DEF A, B
  <1>1. ASSUME NEW k \in T, \A j \in T : k <= j
        PROVE  FALSE
    <2>1. k \in 0 .. n /\ ~Same(k)
      OBVIOUS
    <2>2. /\ A[k] = IF k = 0 THEN t ELSE AddToken(A[k - 1], c[k])
          /\ B[k] = IF k = 0 THEN u ELSE AddToken(B[k - 1], d[k])
      BY <1>0, <2>1 DEF Changes
    <2>3. CASE k = 0
      BY <2>1, <2>2, <2>3
    <2>4. CASE k # 0
      <3>1. k - 1 \in 0 .. n /\ ~(k <= k - 1) /\ k \in 1 .. n
        BY <1>0, <2>1, <2>4
      <3>2. k - 1 \notin T
        BY <1>1, <3>1
      <3>3. /\ A[k - 1] \in [D -> Int]
            /\ B[k - 1] \in [E -> Int]
            /\ Agree(P, A[k - 1], B[k - 1])
        BY <3>1, <3>2
      <3>4. /\ c[k].place \in D => c[k].n \in Int
            /\ d[k].place \in E => d[k].n \in Int
        BY <3>1 DEF ChangesOf, AgreeChanges
      <3>5. A[k] = AddToken(A[k - 1], c[k]) /\ B[k] = AddToken(B[k - 1], d[k])
        BY <2>2, <2>4
      <3>6. c[k].place = d[k].place /\ (c[k].place \in P => c[k].n = d[k].n)
        BY <3>1 DEF AgreeChanges
      <3>7. /\ AddToken(A[k - 1], c[k]) \in [D -> Int]
            /\ AddToken(B[k - 1], d[k]) \in [E -> Int]
            /\ Agree(P, AddToken(A[k - 1], c[k]), AddToken(B[k - 1], d[k]))
        <4> HIDE DEF T
        <4> DEFINE a == A[k - 1]
                   b == B[k - 1]
                   e == c[k]
                   f == d[k]
        <4>1. a \in [D -> Int] /\ b \in [E -> Int] /\ Agree(P, a, b)
          BY <3>3
        <4>2. /\ e.place \in D => e.n \in Int
              /\ f.place \in E => f.n \in Int
              /\ e.place = f.place
              /\ e.place \in P => e.n = f.n
          BY <3>4, <3>6
        <4> HIDE DEF a, b, e, f
        <4>3. Changed(D, a, e, AddToken(a, e)) /\ Changed(E, b, f, AddToken(b, f))
          <5>1. a \in [D -> Int] /\ (e.place \in D => e.n \in Int)
            BY <4>1, <4>2
          <5>2. b \in [E -> Int] /\ (f.place \in E => f.n \in Int)
            BY <4>1, <4>2
          <5>3. Changed(D, a, e, AddToken(a, e))
            BY <5>1, AddTokenEntries
          <5>4. Changed(E, b, f, AddToken(b, f))
            BY <5>2, AddTokenEntries
          <5> QED BY <5>3, <5>4
        <4>4. Agree(P, AddToken(a, e), AddToken(b, f))
          <5> SUFFICES ASSUME NEW x \in P
                       PROVE  AddToken(a, e)[x] = AddToken(b, f)[x]
            BY DEF Agree
          <5>1. a[x] = b[x] /\ x \in D /\ x \in E
            BY <4>1 DEF Agree
          <5>2. /\ AddToken(a, e)[x] = IF x = e.place THEN a[x] + e.n ELSE a[x]
                /\ AddToken(b, f)[x] = IF x = f.place THEN b[x] + f.n ELSE b[x]
            BY <4>3, <5>1 DEF Changed
          <5>3. CASE x = e.place
            BY <4>2, <5>1, <5>2, <5>3
          <5>4. CASE x # e.place
            BY <4>2, <5>1, <5>2, <5>4
          <5> QED BY <5>3, <5>4
        <4> QED BY <4>3, <4>4 DEF a, b, e, f, Changed
      <3> QED BY <2>1, <3>5, <3>7
    <2> QED BY <2>3, <2>4
  <1>2. T \subseteq Nat
    BY <1>0
  <1>3. n \notin T
    <2> HIDE DEF T, n
    <2> QED BY <1>1, <1>2, LeastNat
  <1>4. Same(n)
    BY <1>0, <1>3
  <1> QED BY <1>4 DEF A, B, AddTokens, AgreeChanges

-----------------------------------------------------------------------------
(* The arcs of an action. *)

\* Every arc of the schema is one change among the inputs and one among the outputs.
ArcLists(s) == s.arcs \in Seq(ToSet(s.arcs))

\* What Taken and Given are made of.
LEMMA ArcChanges ==
    ASSUME NEW s, ArcLists(s), NEW f, NEW w
    PROVE  /\ Len(s.arcs) \in Nat /\ DOMAIN s.arcs = 1 .. Len(s.arcs)
           /\ Len(Taken(s, f, w)) = Len(s.arcs)
           /\ Len(Given(s, f, w)) = Len(s.arcs)
           /\ \A k \in 1 .. Len(s.arcs) :
                /\ Taken(s, f, w)[k].place = s.arcs[k].source
                /\ Taken(s, f, w)[k].n = IF s.arcs[k].target = f THEN 0 - w[k] ELSE 0
                /\ Given(s, f, w)[k].place = s.arcs[k].target
                /\ Given(s, f, w)[k].n = IF s.arcs[k].source = f THEN w[k] ELSE 0
  <1>1. Len(s.arcs) \in Nat /\ DOMAIN s.arcs = 1 .. Len(s.arcs)
    BY LenProperties DEF ArcLists
  <1>2. ASSUME NEW n \in Nat, NEW q, DOMAIN q = 1 .. n, q = [k \in 1 .. n |-> q[k]]
        PROVE  Len(q) = n
    <2>1. q \in Seq({q[k] : k \in 1 .. n})
      BY <1>2
    <2>2. Len(q) \in Nat /\ 1 .. n = 1 .. Len(q)
      BY <1>2, <2>1, LenProperties
    <2> QED BY <2>2
  <1>3. Len(Taken(s, f, w)) = Len(s.arcs)
    BY <1>1, <1>2 DEF Taken
  <1>4. Len(Given(s, f, w)) = Len(s.arcs)
    BY <1>1, <1>2 DEF Given
  <1>5. ASSUME NEW k \in 1 .. Len(s.arcs)
        PROVE  /\ Taken(s, f, w)[k].place = s.arcs[k].source
               /\ Taken(s, f, w)[k].n = IF s.arcs[k].target = f THEN 0 - w[k] ELSE 0
    BY <1>1 DEF Taken
  <1>6. ASSUME NEW k \in 1 .. Len(s.arcs)
        PROVE  /\ Given(s, f, w)[k].place = s.arcs[k].target
               /\ Given(s, f, w)[k].n = IF s.arcs[k].source = f THEN w[k] ELSE 0
    BY <1>1 DEF Given
  <1> QED BY <1>1, <1>3, <1>4, <1>5, <1>6

\* Integer weights on the arcs of the places in D.
Weighs(s, D, w) ==
    \A k \in DOMAIN s.arcs : s.arcs[k].source \in D \/ s.arcs[k].target \in D => w[k] \in Int

\* With such weights both are lists of changes.
LEMMA ArcChangesOf ==
    ASSUME NEW s, ArcLists(s), NEW f, NEW D, NEW w, Weighs(s, D, w)
    PROVE  ChangesOf(D, Taken(s, f, w)) /\ ChangesOf(D, Given(s, f, w))
  <1>1. ASSUME NEW k \in 1 .. Len(s.arcs)
        PROVE  /\ Taken(s, f, w)[k].place \in D => Taken(s, f, w)[k].n \in Int
               /\ Given(s, f, w)[k].place \in D => Given(s, f, w)[k].n \in Int
    <2>1. s.arcs[k].source \in D \/ s.arcs[k].target \in D => w[k] \in Int
      BY ArcChanges DEF Weighs
    <2>2. /\ Taken(s, f, w)[k].place = s.arcs[k].source
          /\ Taken(s, f, w)[k].n = IF s.arcs[k].target = f THEN 0 - w[k] ELSE 0
          /\ Given(s, f, w)[k].place = s.arcs[k].target
          /\ Given(s, f, w)[k].n = IF s.arcs[k].source = f THEN w[k] ELSE 0
      BY ArcChanges
    <2>3. CASE w[k] \in Int
      <3>1. 0 - w[k] \in Int
        BY <2>3
      <3> QED BY <2>2, <2>3, <3>1
    <2>4. CASE w[k] \notin Int
      BY <2>1, <2>2, <2>4
    <2> QED BY <2>3, <2>4
  <1>2. /\ Len(Taken(s, f, w)) = Len(s.arcs) /\ Len(Given(s, f, w)) = Len(s.arcs)
        /\ Len(s.arcs) \in Nat
    BY ArcChanges
  <1> QED BY <1>1, <1>2 DEF ChangesOf

\* Weights that agree on the arcs of the places of P.
AgreeWeights(s, P, w, v) ==
    \A k \in DOMAIN s.arcs : s.arcs[k].source \in P \/ s.arcs[k].target \in P => w[k] = v[k]

\* Two counts that agree on the places of P, moved by weights that agree on the arcs
\* of P, agree on P afterwards.
LEMMA MovesAgree ==
    ASSUME NEW s, ArcLists(s), NEW f,
           NEW D, NEW t \in [D -> Int], NEW w, Weighs(s, D, w),
           NEW E, NEW u \in [E -> Int], NEW v, Weighs(s, E, v),
           NEW P, P \subseteq D, P \subseteq E, Agree(P, t, u), AgreeWeights(s, P, w, v)
    PROVE  /\ MoveTokens(s, t, f, w) \in [D -> Int]
           /\ MoveTokens(s, u, f, v) \in [E -> Int]
           /\ Agree(P, MoveTokens(s, t, f, w), MoveTokens(s, u, f, v))
  <1> DEFINE c == Taken(s, f, w)
             d == Taken(s, f, v)
             g == Given(s, f, w)
             h == Given(s, f, v)
  <1>1. /\ ChangesOf(D, c) /\ ChangesOf(D, g)
        /\ ChangesOf(E, d) /\ ChangesOf(E, h)
    BY ArcChangesOf
  <1>2. /\ Len(c) = Len(d) /\ Len(g) = Len(h)
        /\ Len(c) = Len(s.arcs) /\ Len(g) = Len(s.arcs) /\ DOMAIN s.arcs = 1 .. Len(s.arcs)
    BY ArcChanges
  <1>3. ASSUME NEW k \in 1 .. Len(s.arcs)
        PROVE  /\ c[k].place = d[k].place /\ (c[k].place \in P => c[k].n = d[k].n)
               /\ g[k].place = h[k].place /\ (g[k].place \in P => g[k].n = h[k].n)
    <2>1. s.arcs[k].source \in P \/ s.arcs[k].target \in P => w[k] = v[k]
      BY <1>2 DEF AgreeWeights
    <2>2. /\ c[k].place = s.arcs[k].source /\ d[k].place = s.arcs[k].source
          /\ c[k].n = IF s.arcs[k].target = f THEN 0 - w[k] ELSE 0
          /\ d[k].n = IF s.arcs[k].target = f THEN 0 - v[k] ELSE 0
      BY ArcChanges
    <2>3. /\ g[k].place = s.arcs[k].target /\ h[k].place = s.arcs[k].target
          /\ g[k].n = IF s.arcs[k].source = f THEN w[k] ELSE 0
          /\ h[k].n = IF s.arcs[k].source = f THEN v[k] ELSE 0
      BY ArcChanges
    <2> HIDE DEF c, d, g, h
    <2> QED BY <2>1, <2>2, <2>3
  <1> HIDE DEF c, d, g, h
  <1>4. AgreeChanges(P, c, d) /\ AgreeChanges(P, g, h)
    BY <1>2, <1>3 DEF AgreeChanges
  <1> DEFINE tt == AddTokens(t, c)
             uu == AddTokens(u, d)
  <1>5. tt \in [D -> Int] /\ uu \in [E -> Int] /\ Agree(P, tt, uu)
    BY <1>1, <1>4, ChangesAgree
  <1> HIDE DEF tt, uu
  <1>6. /\ AddTokens(tt, g) \in [D -> Int]
        /\ AddTokens(uu, h) \in [E -> Int]
        /\ Agree(P, AddTokens(tt, g), AddTokens(uu, h))
    BY <1>1, <1>4, <1>5, ChangesAgree
  <1> QED BY <1>6 DEF tt, uu, c, d, g, h, MoveTokens

-----------------------------------------------------------------------------
(* Counts stay naturals. *)

\* Changes that take one from a place that has one, and from no place twice.
Takes(D, t, c) ==
    /\ Len(c) \in Nat
    /\ \A k \in 1 .. Len(c) :
         c[k].place \in D => c[k].n = 0 \/ (c[k].n = 0 - 1 /\ t[c[k].place] >= 1)
    /\ \A j, k \in 1 .. Len(c) :
         c[j].place = c[k].place /\ c[k].place \in D /\ c[j].n # 0 /\ c[k].n # 0 => j = k

\* After k changes a place has all it had, or one less if it is among those changed.
TookOnce(D, t, c, k, a) ==
    /\ a \in [D -> Int]
    /\ \A x \in D : \/ a[x] = t[x]
                    \/ a[x] = t[x] - 1 /\ \E j \in 1 .. k : c[j].place = x /\ c[j].n # 0

\* One more change: if it takes from a place, no change before it did.
LEMMA TakeOnceMore ==
    ASSUME NEW D, NEW t \in [D -> Nat], NEW c, Takes(D, t, c),
           NEW k \in 1 .. Len(c), NEW a, TookOnce(D, t, c, k - 1, a)
    PROVE  TookOnce(D, t, c, k, AddToken(a, c[k]))
  <1> DEFINE e == c[k]
             r == AddToken(a, e)
  <1>1. e.place \in D => e.n = 0 \/ (e.n = 0 - 1 /\ t[e.place] >= 1)
    BY DEF Takes
  <1>2. a \in [D -> Int] /\ (e.place \in D => e.n \in Int)
    BY <1>1 DEF TookOnce
  <1>3. Len(c) \in Nat
    BY DEF Takes
  <1>4. \A j \in 1 .. k - 1 : c[j].place = e.place /\ e.place \in D /\ c[j].n # 0 => e.n = 0
    BY <1>3 DEF Takes
  <1> HIDE DEF e
  <1>5. Changed(D, a, e, r)
    BY <1>2, AddTokenEntries
  <1> HIDE DEF r
  <1>6. ASSUME NEW x \in D
        PROVE  \/ r[x] = t[x]
               \/ r[x] = t[x] - 1 /\ \E j \in 1 .. k : c[j].place = x /\ c[j].n # 0
    <2>1. \/ a[x] = t[x]
          \/ a[x] = t[x] - 1 /\ \E j \in 1 .. k - 1 : c[j].place = x /\ c[j].n # 0
      BY DEF TookOnce
    <2>2. a[x] \in Int /\ t[x] \in Nat
      BY <1>2
    <2>3. CASE x = e.place /\ e.n # 0
      <3>1. r[x] = a[x] + e.n /\ e.n = 0 - 1
        BY <1>1, <1>5, <2>3 DEF Changed
      <3>2. a[x] = t[x]
        BY <1>4, <2>1, <2>3
      <3>3. r[x] = t[x] - 1
        BY <2>2, <3>1, <3>2
      <3>4. k \in 1 .. k /\ c[k].place = x /\ c[k].n # 0
        BY <1>3, <2>3 DEF e
      <3> QED BY <3>3, <3>4
    <2>4. CASE ~(x = e.place /\ e.n # 0)
      <3>1. r[x] = a[x]
        BY <1>5, <2>2, <2>4 DEF Changed
      <3>2. 1 .. k - 1 \subseteq 1 .. k
        BY <1>3
      <3> QED BY <2>1, <3>1, <3>2
    <2> QED BY <2>3, <2>4
  <1>7. r \in [D -> Int]
    BY <1>5 DEF Changed
  <1> QED BY <1>6, <1>7 DEF TookOnce, r, e

\* So a place has one less than it had at most, and had one.
LEMMA TakesStayNatural ==
    ASSUME NEW D, NEW t \in [D -> Nat], NEW c, Takes(D, t, c)
    PROVE  AddTokens(t, c) \in [D -> Nat]
  <1> DEFINE n == Len(c)
             A == TokensAfter(t, c)
             T == {k \in 0 .. n : ~TookOnce(D, t, c, k, A[k])}
  <1>1. ChangesOf(D, c)
    BY DEF Takes, ChangesOf
  <1>2. n \in Nat /\ Changes(t, c, n, A)
    BY <1>1, TokensAfterWork DEF Takes
  <1> HIDE DEF A
  <1>3. ASSUME NEW k \in T, \A j \in T : k <= j
        PROVE  FALSE
    <2>1. k \in 0 .. n /\ ~TookOnce(D, t, c, k, A[k])
      OBVIOUS
    <2>2. A[k] = IF k = 0 THEN t ELSE AddToken(A[k - 1], c[k])
      BY <1>2, <2>1 DEF Changes
    <2>3. CASE k = 0
      BY <2>1, <2>2, <2>3 DEF TookOnce
    <2>4. CASE k # 0
      <3>1. k - 1 \in 0 .. n /\ ~(k <= k - 1) /\ k \in 1 .. n
        BY <1>2, <2>1, <2>4
      <3>2. k - 1 \notin T
        BY <1>3, <3>1
      <3>3. TookOnce(D, t, c, k - 1, A[k - 1])
        BY <3>1, <3>2
      <3>4. TookOnce(D, t, c, k, AddToken(A[k - 1], c[k]))
        BY <3>1, <3>3, TakeOnceMore
      <3> QED BY <2>1, <2>2, <2>4, <3>4
    <2> QED BY <2>3, <2>4
  <1>4. T \subseteq Nat
    BY <1>2
  <1>5. n \notin T
    <2> HIDE DEF T, n
    <2> QED BY <1>3, <1>4, LeastNat
  <1>6. TookOnce(D, t, c, n, A[n])
    BY <1>2, <1>5
  <1>7. ASSUME NEW x \in D
        PROVE  A[n][x] \in Nat
    <2>1. \/ A[n][x] = t[x]
          \/ A[n][x] = t[x] - 1 /\ \E j \in 1 .. n : c[j].place = x /\ c[j].n # 0
      BY <1>6 DEF TookOnce
    <2>2. CASE \E j \in 1 .. n : c[j].place = x /\ c[j].n # 0
      <3>1. t[x] >= 1
        BY <2>2 DEF Takes
      <3> QED BY <2>1, <3>1
    <2> QED BY <2>1, <2>2
  <1>8. A[n] \in [D -> Nat]
    BY <1>6, <1>7 DEF TookOnce
  <1> QED BY <1>8 DEF A, AddTokens

\* Changes that only give.
Gives(D, c) ==
    /\ Len(c) \in Nat
    /\ \A k \in 1 .. Len(c) : c[k].place \in D => c[k].n \in Nat

\* Giving never takes a count below 0.
LEMMA GivesStayNatural ==
    ASSUME NEW D, NEW t \in [D -> Nat], NEW c, Gives(D, c)
    PROVE  AddTokens(t, c) \in [D -> Nat]
  <1> DEFINE n == Len(c)
             A == TokensAfter(t, c)
             T == {k \in 0 .. n : ~(A[k] \in [D -> Nat])}
  <1>1. ChangesOf(D, c)
    BY DEF Gives, ChangesOf
  <1>2. n \in Nat /\ Changes(t, c, n, A)
    BY <1>1, TokensAfterWork DEF Gives
  <1> HIDE DEF A
  <1>3. ASSUME NEW k \in T, \A j \in T : k <= j
        PROVE  FALSE
    <2>1. k \in 0 .. n /\ ~(A[k] \in [D -> Nat])
      OBVIOUS
    <2>2. A[k] = IF k = 0 THEN t ELSE AddToken(A[k - 1], c[k])
      BY <1>2, <2>1 DEF Changes
    <2>3. CASE k = 0
      BY <2>1, <2>2, <2>3
    <2>4. CASE k # 0
      <3>1. k - 1 \in 0 .. n /\ ~(k <= k - 1) /\ k \in 1 .. n
        BY <1>2, <2>1, <2>4
      <3>2. k - 1 \notin T
        BY <1>3, <3>1
      <3>3. A[k - 1] \in [D -> Nat] /\ (c[k].place \in D => c[k].n \in Nat)
        BY <3>1, <3>2 DEF Gives
      <3> DEFINE a == A[k - 1]
                 e == c[k]
                 r == AddToken(a, e)
      <3>4. a \in [D -> Nat] /\ a \in [D -> Int] /\ (e.place \in D => e.n \in Nat /\ e.n \in Int)
        BY <3>3
      <3> HIDE DEF a, e
      <3>5. Changed(D, a, e, r)
        BY <3>4, AddTokenEntries
      <3> HIDE DEF r
      <3>6. r \in [D -> Nat]
        BY <3>4, <3>5 DEF Changed
      <3> QED BY <2>1, <2>2, <2>4, <3>6 DEF a, e, r
    <2> QED BY <2>3, <2>4
  <1>4. T \subseteq Nat
    BY <1>2
  <1>5. n \notin T
    <2> HIDE DEF T, n
    <2> QED BY <1>3, <1>4, LeastNat
  <1> QED BY <1>2, <1>5 DEF A, AddTokens

-----------------------------------------------------------------------------
(* The two engines. *)

\* Names are unique, so StateByID finds the state of a name.
LEMMA StateFound ==
    ASSUME NEW s, Sound(s), NEW k \in DOMAIN s.states
    PROVE  StateByID(s, s.states[k].id) = s.states[k]
  <1> DEFINE id == s.states[k].id
             Is(j) == s.states[j].id = id /\ \A m \in 1 .. j - 1 : s.states[m].id # id
             found == CHOOSE j \in DOMAIN s.states : Is(j)
  <1>1. DOMAIN s.states = 1 .. Len(s.states) /\ Len(s.states) \in Nat
    BY LenProperties DEF Sound
  <1>2. \A i, j \in DOMAIN s.states : s.states[i].id = s.states[j].id => i = j
    BY DEF Sound, Validate, NoRepeats
  <1>3. Is(k)
    <2>1. ASSUME NEW m \in 1 .. k - 1
          PROVE  m \in DOMAIN s.states /\ m # k
      BY <1>1
    <2> QED BY <1>2, <2>1
  <1>4. found \in DOMAIN s.states /\ Is(found)
    <2> HIDE DEF Is
    <2> QED BY <1>3
  <1>5. found = k
    BY <1>2, <1>4
  <1> QED BY <1>5, Zenon DEF StateByID

\* An arc with no weight written weighs 1.
LEMMA UnitWeight ==
    ASSUME NEW arc, NEW b, arc.value = <<>>
    PROVE  arcWeight(arc, b) = 1
  <1>1. ~isNumericLiteral(<<>>)
    BY DEF isNumericLiteral, Decimals
  <1> QED BY <1>1 DEF arcWeight

\* Both engines count every place in integers.
Counting(s, snap, net) ==
    /\ snap.tokens \in [TokenPlaces(s) -> Int]
    /\ net \in [StateIDs(s) -> Int]

\* The runtime's token places are places of the petri model.
LEMMA PlacesAreStates ==
    ASSUME NEW s
    PROVE  TokenPlaces(s) \subseteq StateIDs(s)
  BY DEF TokenPlaces, StateIDs

\* With the same counts both engines enable the same actions: the input arcs they
\* look at are the same.
LEMMA EnabledAlike ==
    ASSUME NEW s, Sound(s), PlainTokens(s), NEW snap, NEW net,
           Agree(TokenPlaces(s), snap.tokens, net), NEW f \in ActionIDs(s)
    PROVE  Enabled(s, snap, f) <=> PetriEnabled(s, net, f)
  <1>1. ASSUME NEW k \in DOMAIN s.arcs, IsInput(s, k, f)
        PROVE  s.arcs[k].keys = <<>> <=> s.arcs[k].source \in TokenPlaces(s)
    <2>1. s.arcs[k].target \in ActionIDs(s)
      BY <1>1 DEF IsInput
    <2>2. /\ s.arcs[k].source \in StateIDs(s) \cup ActionIDs(s)
          /\ ~(s.arcs[k].source \in StateIDs(s) /\ s.arcs[k].target \in StateIDs(s))
          /\ ~(s.arcs[k].source \in ActionIDs(s) /\ s.arcs[k].target \in ActionIDs(s))
      BY DEF Sound, Validate
    <2>3. s.arcs[k].target \notin TokenPlaces(s)
      BY <2>1, <2>2, PlacesAreStates
    <2> QED BY <2>3 DEF PlainTokens, TouchesTokens
  <1>2. ASSUME NEW k \in DOMAIN s.arcs, s.arcs[k].source \in TokenPlaces(s)
        PROVE  snap.tokens[s.arcs[k].source] = net[s.arcs[k].source]
    BY <1>2 DEF Agree
  <1> QED BY <1>1, <1>2 DEF Enabled, PetriEnabled

\* So agreeing counts are all that SameTokens needs.
LEMMA AgreeingIsSame ==
    ASSUME NEW s, Sound(s), PlainTokens(s), NEW snap, NEW net,
           Agree(TokenPlaces(s), snap.tokens, net)
    PROVE  SameTokens(s, snap, net)
  BY EnabledAlike DEF SameTokens, Agree

\* A new runtime and a new petri state of a schema whose token states are a plain net
\* count the same tokens and enable the same actions (EnginesAgree, at the start).
THEOREM EnginesStartAlike ==
    ASSUME NEW s, Sound(s), PlainTokens(s)
    PROVE  /\ Counting(s, NewSnapshot(s), NewState(s))
           /\ SameTokens(s, NewSnapshot(s), NewState(s))
  <1> DEFINE snap == NewSnapshot(s)
             net == NewState(s)
  <1>1. ASSUME NEW k \in DOMAIN s.states
        PROVE  /\ StateByID(s, s.states[k].id) = s.states[k]
               /\ s.states[k].initial \in Nat
               /\ IsToken(s.states[k]) => ~IsMap(s.states[k].type)
    BY StateFound DEF Sound
  <1>2. ASSUME NEW id \in StateIDs(s)
        PROVE  StateByID(s, id).initial \in Int
    <2>1. PICK k \in DOMAIN s.states : id = s.states[k].id
      BY DEF StateIDs
    <2> QED BY <1>1, <2>1
  <1>3. ASSUME NEW id \in TokenPlaces(s)
        PROVE  /\ InitialTokens(StateByID(s, id)) \in Int
               /\ InitialTokens(StateByID(s, id)) = StateByID(s, id).initial
    <2>1. PICK k \in DOMAIN s.states : IsToken(s.states[k]) /\ id = s.states[k].id
      BY DEF TokenPlaces
    <2> QED BY <1>1, <2>1 DEF InitialTokens
  <1>4. snap.tokens = [id \in TokenPlaces(s) |-> InitialTokens(StateByID(s, id))]
    BY DEF NewSnapshot
  <1>5. net = [id \in StateIDs(s) |-> StateByID(s, id).initial]
    BY DEF NewState
  <1>6. Counting(s, snap, net)
    <2> HIDE DEF snap, net
    <2> QED BY <1>2, <1>3, <1>4, <1>5 DEF Counting
  <1>7. Agree(TokenPlaces(s), snap.tokens, net)
    <2> HIDE DEF snap, net
    <2> QED BY <1>3, <1>4, <1>5, PlacesAreStates DEF Agree
  <1> QED BY <1>6, <1>7, AgreeingIsSame

\* An action executed with any bindings, and with none, and fired in the petri state,
\* leaves both with the same tokens and the same actions enabled, so they stay alike
\* in every sequence of actions (EnginesAgree, at every step).
THEOREM EnginesStayAlike ==
    ASSUME NEW s, Sound(s), PlainTokens(s), NEW snap, NEW net,
           Counting(s, snap, net), SameTokens(s, snap, net),
           NEW f \in ActionIDs(s), NEW b
    PROVE  /\ Counting(s, ExecuteWithBindings(s, snap, f, b), Fire(s, net, f))
           /\ SameTokens(s, ExecuteWithBindings(s, snap, f, b), Fire(s, net, f))
           /\ ExecuteWithBindings(s, snap, f, b).tokens = Execute(s, snap, f).tokens
  <1> DEFINE D == TokenPlaces(s)
             E == StateIDs(s)
             one == [k \in DOMAIN s.arcs |-> 1]
             w == Weights(s, b)
             v == Unkeyed(s)
             t == snap.tokens
  <1>1. D \subseteq E
    BY PlacesAreStates
  <1>2. ASSUME NEW k \in DOMAIN s.arcs
        PROVE  /\ TouchesTokens(s, k) => w[k] = 1 /\ v[k] = 1
               /\ one[k] = 1 /\ v[k] \in Int
    <2>1. TouchesTokens(s, k) => s.arcs[k].value = <<>> /\ s.arcs[k].keys = <<>>
      BY DEF PlainTokens
    <2>2. TouchesTokens(s, k) => w[k] = 1
      BY <2>1, UnitWeight DEF Weights
    <2> QED BY <2>1, <2>2 DEF Unkeyed
  <1>3. /\ Weighs(s, D, w) /\ Weighs(s, D, one) /\ Weighs(s, E, v)
        /\ AgreeWeights(s, D, w, v) /\ AgreeWeights(s, D, w, one)
    <2> HIDE DEF w, v, one
    <2> QED BY <1>2 DEF Weighs, AgreeWeights, TouchesTokens
  <1>4. /\ t \in [D -> Int] /\ net \in [E -> Int] /\ D \subseteq D
        /\ Agree(D, t, net) /\ Agree(D, t, t)
    BY DEF Counting, SameTokens, Agree
  <1>5. Enabled(s, snap, f) <=> PetriEnabled(s, net, f)
    BY DEF SameTokens
  <1>6. ArcLists(s)
    BY DEF Sound, ArcLists
  <1>7. CASE Enabled(s, snap, f)
    <2>1. /\ ExecuteWithBindings(s, snap, f, b).tokens = MoveTokens(s, t, f, w)
          /\ Execute(s, snap, f).tokens = MoveTokens(s, t, f, one)
          /\ Fire(s, net, f) = MoveTokens(s, net, f, v)
      BY <1>5, <1>7 DEF ExecuteWithBindings, applyArcs, Execute, Fire
    <2> HIDE DEF D, E, w, v, one, t
    <2>2. /\ MoveTokens(s, t, f, w) \in [D -> Int]
          /\ MoveTokens(s, net, f, v) \in [E -> Int]
          /\ Agree(D, MoveTokens(s, t, f, w), MoveTokens(s, net, f, v))
      <3>1. t \in [D -> Int] /\ net \in [E -> Int] /\ Agree(D, t, net)
        BY <1>4
      <3>2. Weighs(s, D, w) /\ Weighs(s, E, v) /\ AgreeWeights(s, D, w, v)
        BY <1>3
      <3> QED BY <1>1, <1>6, <3>1, <3>2, MovesAgree, SMTT(20)
    <2>3. /\ MoveTokens(s, t, f, one) \in [D -> Int]
          /\ Agree(D, MoveTokens(s, t, f, w), MoveTokens(s, t, f, one))
      <3>1. t \in [D -> Int] /\ D \subseteq D /\ Agree(D, t, t)
        BY <1>4
      <3>2. Weighs(s, D, w) /\ Weighs(s, D, one) /\ AgreeWeights(s, D, w, one)
        BY <1>3
      <3> QED BY <1>6, <3>1, <3>2, MovesAgree, SMTT(20)
    <2>4. MoveTokens(s, t, f, w) = MoveTokens(s, t, f, one)
      BY <2>2, <2>3 DEF Agree
    <2> QED BY <2>1, <2>2, <2>4, AgreeingIsSame DEF Counting, D, E
  <1>8. CASE ~Enabled(s, snap, f)
    BY <1>5, <1>8 DEF ExecuteWithBindings, Execute, Fire
  <1> QED BY <1>7, <1>8

\* While token arcs weigh 1 and no action has two inputs from one token place
\* (OneArcEach), no action takes a count below 0 (TypeOK of Contracts, for every schema of the
\* kind): the runtime tests each input place for one token only.
THEOREM TokensStayNatural ==
    ASSUME NEW s, ArcLists(s), OneArcEach(s), NEW snap, NEW f, NEW b,
           snap.tokens \in [TokenPlaces(s) -> Nat]
    PROVE  ExecuteWithBindings(s, snap, f, b).tokens \in [TokenPlaces(s) -> Nat]
  <1> DEFINE D == TokenPlaces(s)
             t == snap.tokens
             w == Weights(s, b)
             c == Taken(s, f, w)
             g == Given(s, f, w)
  <1>1. CASE Enabled(s, snap, f)
    <2>1. ASSUME NEW k \in DOMAIN s.arcs, s.arcs[k].source \in D \/ s.arcs[k].target \in D
          PROVE  w[k] = 1
      BY <2>1, UnitWeight DEF OneArcEach, TouchesTokens, Weights
    <2>2. ASSUME NEW k \in DOMAIN s.arcs, s.arcs[k].target = f, s.arcs[k].source \in D
          PROVE  t[s.arcs[k].source] >= 1
      BY <1>1, <2>2 DEF Enabled, IsInput
    <2>3. /\ Len(s.arcs) \in Nat /\ DOMAIN s.arcs = 1 .. Len(s.arcs)
          /\ Len(c) = Len(s.arcs) /\ Len(g) = Len(s.arcs)
      BY ArcChanges
    <2>4. ASSUME NEW k \in 1 .. Len(s.arcs)
          PROVE  /\ c[k].place = s.arcs[k].source
                 /\ c[k].n = IF s.arcs[k].target = f THEN 0 - w[k] ELSE 0
                 /\ g[k].place = s.arcs[k].target
                 /\ g[k].n = IF s.arcs[k].source = f THEN w[k] ELSE 0
      BY ArcChanges
    <2> HIDE DEF c, g, w
    <2>5. ASSUME NEW k \in 1 .. Len(c), c[k].place \in D
          PROVE  c[k].n = 0 \/ (c[k].n = 0 - 1 /\ t[c[k].place] >= 1)
      BY <2>1, <2>2, <2>3, <2>4, <2>5
    <2>6. ASSUME NEW j \in 1 .. Len(c), NEW k \in 1 .. Len(c),
                 c[j].place = c[k].place, c[k].place \in D, c[j].n # 0, c[k].n # 0
          PROVE  j = k
      <3>1. s.arcs[j].target = f /\ s.arcs[k].target = f
        BY <2>3, <2>4, <2>6
      <3>2. s.arcs[j].source = s.arcs[k].source /\ s.arcs[j].source \in TokenPlaces(s)
        BY <2>3, <2>4, <2>6
      <3> QED BY <2>3, <3>1, <3>2 DEF OneArcEach
    <2>7. Takes(D, t, c)
      BY <2>3, <2>5, <2>6 DEF Takes
    <2>8. Gives(D, g)
      <3>1. ASSUME NEW k \in 1 .. Len(g), g[k].place \in D
            PROVE  g[k].n \in Nat
        BY <2>1, <2>3, <2>4, <3>1
      <3> QED BY <2>3, <3>1 DEF Gives
    <2>9. AddTokens(AddTokens(t, c), g) \in [D -> Nat]
      <3> HIDE DEF D
      <3>1. AddTokens(t, c) \in [D -> Nat]
        BY <2>7, TakesStayNatural DEF D
      <3> QED BY <2>8, <3>1, GivesStayNatural
    <2>10. ExecuteWithBindings(s, snap, f, b).tokens = AddTokens(AddTokens(t, c), g)
      BY <1>1 DEF ExecuteWithBindings, applyArcs, MoveTokens, c, g, w
    <2> QED BY <2>9, <2>10
  <1>2. CASE ~Enabled(s, snap, f)
    BY <1>2 DEF ExecuteWithBindings
  <1> QED BY <1>1, <1>2
=============================================================================
