----------------------------- MODULE Amounts_proofs -----------------------------
(***************************************************************************)
(* What holds of amounts, for every set of accounts, every limit and every *)
(* field: the amounts of the abstract ledger, which the contracts of the   *)
(* token templates implement, add up to what was issued and not retired,   *)
(* and the range check of a circuit is exactly the comparison it stands    *)
(* for.                                                                    *)
(***************************************************************************)
EXTENDS Ledger, RangeCheck, Sums_proofs

-----------------------------------------------------------------------------
(* The ledger. *)

\* Nothing is made or lost by a move.
Conserved == SumOf(kept) = issued

\* Neither part is inductive alone: what is issued stays a natural because no account
\* has more than all of them together, and that is known of amounts only.
LedgerInv == LedgerTypeOK /\ Conserved

\* No account has more than all of them together.
LEMMA EntryWithinSum ==
    ASSUME NEW D, IsFiniteSet(D), NEW f \in [D -> Nat], NEW c \in D
    PROVE  f[c] <= SumOf(f)
  <1> DEFINE g == [f EXCEPT ![c] = 0]
  <1>1. g \in [D -> Nat] /\ g[c] = 0 /\ \A x \in D \ {c} : g[x] = f[x]
    OBVIOUS
  <1> HIDE DEF g
  <1>2. SumOf(g) + f[c] = SumOf(f) + g[c]
    BY <1>1, SumChange
  <1>3. SumOf(g) \in Nat /\ SumOf(f) \in Nat
    BY <1>1, SumType
  <1> QED BY <1>1, <1>2, <1>3

\* Setting one account, to what it can hold, changes the sum by as much as the account.
LEMMA SumAfter ==
    ASSUME IsFiniteSet(Accounts), Limit \in Nat, NEW f \in [Accounts -> 0 .. Limit],
           NEW c \in Accounts, NEW n \in 0 .. Limit, NEW g \in [Accounts -> 0 .. Limit],
           g[c] = n, \A x \in Accounts \ {c} : g[x] = f[x]
    PROVE  /\ SumOf(g) + f[c] = SumOf(f) + n
           /\ f[c] <= SumOf(f)
           /\ SumOf(g) \in Nat /\ SumOf(f) \in Nat /\ f[c] \in Nat
  <1>1. f \in [Accounts -> Nat] /\ g \in [Accounts -> Nat] /\ f[c] \in Nat
    OBVIOUS
  <1>2. SumOf(g) + f[c] = SumOf(f) + g[c]
    BY <1>1, SumChange
  <1>3. SumOf(g) \in Nat /\ SumOf(f) \in Nat
    BY <1>1, SumType
  <1>4. f[c] <= SumOf(f)
    BY <1>1, EntryWithinSum
  <1> QED BY <1>1, <1>2, <1>3, <1>4

\* Every step changes the accounts by what it issues, also a move of an account to
\* itself.
LEMMA LedgerStep ==
    ASSUME IsFiniteSet(Accounts), Limit \in Nat, LedgerInv, [LNext]_lvars
    PROVE  LedgerInv'
  <1>1. /\ kept \in [Accounts -> 0 .. Limit]
        /\ issued \in Nat /\ SumOf(kept) = issued
    BY DEF LedgerInv, LedgerTypeOK, Conserved
  <1>2. ASSUME NEW a \in Accounts, NEW n \in 1 .. Limit, Issue(a, n)
        PROVE  LedgerInv'
    <2>1. kept[a] + n \in 0 .. Limit /\ issued' = issued + n
      BY <1>1, <1>2 DEF Issue
    <2>2. /\ kept' \in [Accounts -> 0 .. Limit]
          /\ kept'[a] = kept[a] + n
          /\ \A x \in Accounts \ {a} : kept'[x] = kept[x]
      BY <1>1, <1>2, <2>1 DEF Issue
    <2>3. /\ SumOf(kept') + kept[a] = SumOf(kept) + (kept[a] + n)
          /\ SumOf(kept') \in Nat /\ kept[a] \in Nat
      BY <1>1, <2>1, <2>2, SumAfter
    <2> QED BY <1>1, <2>1, <2>2, <2>3 DEF LedgerInv, LedgerTypeOK, Conserved
  <1>3. ASSUME NEW a \in Accounts, NEW n \in 1 .. Limit, Retire(a, n)
        PROVE  LedgerInv'
    <2>1. kept[a] - n \in 0 .. Limit /\ n <= kept[a] /\ issued' = issued - n
      BY <1>1, <1>3 DEF Retire
    <2>2. /\ kept' \in [Accounts -> 0 .. Limit]
          /\ kept'[a] = kept[a] - n
          /\ \A x \in Accounts \ {a} : kept'[x] = kept[x]
      BY <1>1, <1>3, <2>1 DEF Retire
    <2>3. /\ SumOf(kept') + kept[a] = SumOf(kept) + (kept[a] - n)
          /\ kept[a] <= SumOf(kept)
          /\ SumOf(kept') \in Nat /\ kept[a] \in Nat
      BY <1>1, <2>1, <2>2, SumAfter
    <2> QED BY <1>1, <2>1, <2>2, <2>3 DEF LedgerInv, LedgerTypeOK, Conserved
  <1>4. ASSUME NEW a \in Accounts, NEW b \in Accounts, NEW n \in 1 .. Limit, Move(a, b, n)
        PROVE  LedgerInv'
    <2> DEFINE left == [kept EXCEPT ![a] = kept[a] - n]
    <2>1. /\ kept[a] - n \in 0 .. Limit
          /\ left[b] + n <= Limit
          /\ issued' = issued
      BY <1>1, <1>4 DEF Move
    <2>2. kept' = [left EXCEPT ![b] = left[b] + n]
      BY <1>4 DEF Move
    <2>3. /\ left \in [Accounts -> 0 .. Limit]
          /\ left[a] = kept[a] - n
          /\ \A x \in Accounts \ {a} : left[x] = kept[x]
      BY <1>1, <2>1
    <2> HIDE DEF left
    <2>4. /\ SumOf(left) + kept[a] = SumOf(kept) + (kept[a] - n)
          /\ SumOf(left) \in Nat /\ kept[a] \in Nat
      BY <1>1, <2>1, <2>3, SumAfter
    <2>5. left[b] + n \in 0 .. Limit
      BY <2>1, <2>3
    <2>6. /\ kept' \in [Accounts -> 0 .. Limit]
          /\ kept'[b] = left[b] + n
          /\ \A x \in Accounts \ {b} : kept'[x] = left[x]
      BY <2>2, <2>3, <2>5
    <2>7. /\ SumOf(kept') + left[b] = SumOf(left) + (left[b] + n)
          /\ SumOf(kept') \in Nat /\ left[b] \in Nat
      BY <2>3, <2>5, <2>6, SumAfter
    <2> QED BY <1>1, <2>1, <2>4, <2>6, <2>7 DEF LedgerInv, LedgerTypeOK, Conserved
  <1>5. CASE UNCHANGED lvars
    BY <1>5 DEF LedgerInv, LedgerTypeOK, Conserved, lvars
  <1> QED BY <1>2, <1>3, <1>4, <1>5 DEF LNext

\* A new ledger has nothing and has issued nothing.
LEMMA LedgerInit ==
    ASSUME IsFiniteSet(Accounts), Limit \in Nat, LInit
    PROVE  LedgerInv
  <1>1. kept \in [Accounts -> Nat] /\ \A a \in Accounts : kept[a] = 0
    BY DEF LInit
  <1>2. SumOf(kept) = 0
    BY <1>1, SumOfZeros
  <1> QED BY <1>2 DEF LInit, LedgerInv, LedgerTypeOK, Conserved

\* The amounts of all accounts always add up to what was issued and not retired, and
\* no amount or total leaves its range: what every token template promises, since its
\* contract implements the ledger.
THEOREM LedgerConserves ==
    ASSUME IsFiniteSet(Accounts), Limit \in Nat
    PROVE  LSpec => [](LedgerTypeOK /\ Conserved)
  <1>1. LInit => LedgerInv
    BY LedgerInit
  <1>2. LedgerInv /\ [LNext]_lvars => LedgerInv'
    BY LedgerStep
  <1>3. LedgerInv => LedgerTypeOK /\ Conserved
    BY DEF LedgerInv
  <1> QED BY <1>1, <1>2, <1>3, PTL DEF LSpec

-----------------------------------------------------------------------------
(* Range checks. *)

\* In the field a difference is itself, or what is left of the field's order.
LEMMA FieldDifference ==
    ASSUME NEW left \in 0 .. Prime - 1, NEW right \in 0 .. Prime - 1
    PROVE  /\ left >= right => (left - right) % Prime = left - right
           /\ left < right  => (left - right) % Prime = Prime - (right - left)
  <1>1. ASSUME NEW p \in Nat, NEW d \in 0 .. p - 1
        PROVE  d % p = d
    OBVIOUS
  <1>2. ASSUME NEW p \in Nat, NEW d \in 1 .. p - 1
        PROVE  (-d) % p = p - d
    OBVIOUS
  <1>3. Prime \in Nat
    BY FieldAssumption
  <1>4. CASE left >= right
    <2>1. left - right \in 0 .. Prime - 1
      BY <1>3, <1>4
    <2> QED BY <1>1, <1>3, <1>4, <2>1
  <1>5. CASE left < right
    <2>1. right - left \in 1 .. Prime - 1
      BY <1>3, <1>5
    <2>2. (-(right - left)) % Prime = Prime - (right - left)
      BY <1>2, <1>3, <2>1
    <2>3. -(right - left) = left - right
      BY <1>3
    <2> QED BY <1>3, <1>5, <2>2, <2>3
  <1> QED BY <1>3, <1>4, <1>5

\* A circuit's range check of two numbers that fit its bits is exactly left >= right,
\* for every width and every field that is at least twice as large: a guard that
\* passes leaves a provable circuit, and one that fails leaves none.  It is the
\* arithmetic that RangeChecksMatch rests on.
THEOREM RangeCheckExact ==
    ASSUME NEW left \in 0 .. Span - 1, NEW right \in 0 .. Span - 1
    PROVE  rangeCheckHolds(left, right) <=> left >= right
  <1>1. Span \in Nat /\ Prime \in Nat /\ Prime >= 2 * Span
    BY FieldAssumption
  <1>2. left \in 0 .. Prime - 1 /\ right \in 0 .. Prime - 1
    BY <1>1
  <1>3. CASE left >= right
    BY <1>1, <1>2, <1>3, FieldDifference DEF rangeCheckHolds
  <1>4. CASE left < right
    BY <1>1, <1>2, <1>4, FieldDifference DEF rangeCheckHolds
  <1> QED BY <1>1, <1>3, <1>4
===============================================================================
