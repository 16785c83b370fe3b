---------------------------- MODULE Contracts_proofs ----------------------------
(***************************************************************************)
(* What holds of every contract that the generator makes of a schema of    *)
(* any size (WellTyped), called by any user with any arguments, and of the *)
(* Go engines that run the same calls: what Contracts checks of twelve     *)
(* contracts.                                                              *)
(*                                                                         *)
(* A transaction and an execution are loops over the same arcs, a          *)
(* statement and a change of counts for each.  So a fact about both is an  *)
(* induction on the number of arcs done, as in Engines_proofs.             *)
(*                                                                         *)
(* Supplies and the ledger are about sums of entries: from what each body  *)
(* moves in one call, which Supplied and MovesAmounts say of a contract,   *)
(* follows what its storage adds up to after any number of them.           *)
(***************************************************************************)
EXTENDS Contracts, Engines_proofs

-----------------------------------------------------------------------------
(* One change of an entry, or one statement, after another. *)

\* Entries holds the data after each of the first n changes, and Results the result
\* after each of the first n statements.
EntryChanges(data, changes, n, Entries) ==
    /\ DOMAIN Entries = 0 .. n
    /\ \A k \in 0 .. n : Entries[k] = IF k = 0 THEN data ELSE AddEntry(Entries[k - 1], changes[k])
Statements(e, r, ops, n, Results) ==
    /\ DOMAIN Results = 0 .. n
    /\ \A k \in 0 .. n : Results[k] = IF k = 0 THEN r ELSE OneMore(e, Results[k - 1], ops[k])

CanEnter(data, changes, n) == \E Entries : EntryChanges(data, changes, n, Entries)
CanRun(e, r, ops, n) == \E Results : Statements(e, r, ops, n, Results)

\* A part that can be done extends by one more change.
LEMMA EntryExtends ==
    ASSUME NEW data, NEW changes, NEW k \in Nat \ {0}, CanEnter(data, changes, k - 1)
    PROVE  CanEnter(data, changes, k)
  <1>1. PICK s : EntryChanges(data, changes, k - 1, s)
    BY DEF CanEnter
  <1> DEFINE next == AddEntry(s[k - 1], changes[k])
             r == [j \in 0 .. k |-> IF j < k THEN s[j] ELSE next]
  <1>2. r[k] = next /\ r[k - 1] = s[k - 1] /\ DOMAIN r = 0 .. k
    <2> HIDE DEF next
    <2> QED OBVIOUS
  <1>3. ASSUME NEW j \in 0 .. k, j # k
        PROVE  r[j] = s[j] /\ j \in 0 .. (k - 1) /\ (j # 0 => r[j - 1] = s[j - 1])
    <2> HIDE DEF next
    <2> QED BY <1>3
  <1> HIDE DEF r
  <1>4. ASSUME NEW j \in 0 .. k
        PROVE  r[j] = IF j = 0 THEN data ELSE AddEntry(r[j - 1], changes[j])
    <2>1. CASE j = k
      BY <1>2, <2>1
    <2>2. CASE j # k
      BY <1>1, <1>3, <2>2 DEF EntryChanges
    <2> QED BY <2>1, <2>2
  <1>5. EntryChanges(data, changes, k, r)
    BY <1>2, <1>4 DEF EntryChanges
  <1> QED BY <1>5 DEF CanEnter

\* And so does a part of a body by one more statement.
LEMMA RunExtends ==
    ASSUME NEW e, NEW res, NEW ops, NEW k \in Nat \ {0}, CanRun(e, res, ops, k - 1)
    PROVE  CanRun(e, res, ops, k)
  <1>1. PICK s : Statements(e, res, ops, k - 1, s)
    BY DEF CanRun
  <1> DEFINE next == OneMore(e, s[k - 1], ops[k])
             r == [j \in 0 .. k |-> IF j < k THEN s[j] ELSE next]
  <1>2. r[k] = next /\ r[k - 1] = s[k - 1] /\ DOMAIN r = 0 .. k
    <2> HIDE DEF next
    <2> QED OBVIOUS
  <1>3. ASSUME NEW j \in 0 .. k, j # k
        PROVE  r[j] = s[j] /\ j \in 0 .. (k - 1) /\ (j # 0 => r[j - 1] = s[j - 1])
    <2> HIDE DEF next
    <2> QED BY <1>3
  <1> HIDE DEF r
  <1>4. ASSUME NEW j \in 0 .. k
        PROVE  r[j] = IF j = 0 THEN res ELSE OneMore(e, r[j - 1], ops[j])
    <2>1. CASE j = k
      BY <1>2, <2>1
    <2>2. CASE j # k
      BY <1>1, <1>3, <2>2 DEF Statements
    <2> QED BY <2>1, <2>2
  <1>5. Statements(e, res, ops, k, r)
    BY <1>2, <1>4 DEF Statements
  <1> QED BY <1>5 DEF CanRun

\* So every part can be done: a shortest that cannot is no such part.
LEMMA PartsExist ==
    ASSUME NEW data, NEW changes, NEW e, NEW res, NEW ops, NEW n \in Nat
    PROVE  CanEnter(data, changes, n) /\ CanRun(e, res, ops, n)
  <1> DEFINE Can(k) == CanEnter(data, changes, k) /\ CanRun(e, res, ops, k)
             T == {k \in Nat : ~Can(k)}
  <1>1. ASSUME NEW k \in T, \A j \in T : k <= j
        PROVE  FALSE
    <2>1. k \in Nat /\ ~Can(k)
      OBVIOUS
    <2>2. Can(0)
      <3> DEFINE z == [j \in 0 .. 0 |-> data]
                 y == [j \in 0 .. 0 |-> res]
      <3>1. EntryChanges(data, changes, 0, z)
        BY DEF EntryChanges
      <3>2. Statements(e, res, ops, 0, y)
        BY DEF Statements
      <3> QED BY <3>1, <3>2 DEF CanEnter, CanRun
    <2>3. CASE k # 0
      <3>1. k - 1 \in Nat /\ ~(k <= k - 1) /\ k \in Nat \ {0}
        BY <2>1, <2>3
      <3>2. Can(k - 1)
        BY <1>1, <3>1
      <3> QED BY <2>1, <3>1, <3>2, EntryExtends, RunExtends
    <2> QED BY <2>1, <2>2, <2>3
  <1>2. n \notin T
    <2> HIDE DEF Can
    <2>1. T \subseteq Nat
      OBVIOUS
    <2> HIDE DEF T
    <2> QED BY <1>1, <2>1, LeastNat
  <1> QED BY <1>2

\* DataAfter and ResultsAfter are what is left by each change and each statement.
LEMMA DataAfterWork ==
    ASSUME NEW data, NEW changes, Len(changes) \in Nat
    PROVE  EntryChanges(data, changes, Len(changes), DataAfter(data, changes))
  <1> DEFINE Is(s) == s = [k \in 0 .. Len(changes) |->
                             IF k = 0 THEN data ELSE AddEntry(s[k - 1], changes[k])]
  <1>1. PICK s : EntryChanges(data, changes, Len(changes), s)
    BY PartsExist DEF CanEnter
  <1> DEFINE t == [k \in 0 .. Len(changes) |-> s[k]]
  <1>2. \A k \in 0 .. Len(changes) : t[k] = IF k = 0 THEN data ELSE AddEntry(t[k - 1], changes[k])
    BY <1>1 DEF EntryChanges
  <1>3. Is(t)
    BY <1>2
  <1>4. DataAfter(data, changes) = CHOOSE z : Is(z)
    BY Zenon DEF DataAfter
  <1>5. Is(DataAfter(data, changes))
    <2> HIDE DEF Is, t
    <2> QED BY <1>3, <1>4
  <1> QED BY <1>5, Zenon DEF EntryChanges

LEMMA ResultsAfterWork ==
    ASSUME NEW e, NEW res, NEW ops, Len(ops) \in Nat
    PROVE  Statements(e, res, ops, Len(ops), ResultsAfter(e, res, ops))
  <1> DEFINE Is(s) == s = [k \in 0 .. Len(ops) |->
                             IF k = 0 THEN res ELSE OneMore(e, s[k - 1], ops[k])]
  <1>1. PICK s : Statements(e, res, ops, Len(ops), s)
    BY PartsExist DEF CanRun
  <1> DEFINE t == [k \in 0 .. Len(ops) |-> s[k]]
  <1>2. \A k \in 0 .. Len(ops) : t[k] = IF k = 0 THEN res ELSE OneMore(e, t[k - 1], ops[k])
    BY <1>1 DEF Statements
  <1>3. Is(t)
    BY <1>2
  <1>4. ResultsAfter(e, res, ops) = CHOOSE z : Is(z)
    BY Zenon DEF ResultsAfter
  <1>5. Is(ResultsAfter(e, res, ops))
    <2> HIDE DEF Is, t
    <2> QED BY <1>3, <1>4
  <1> QED BY <1>5, Zenon DEF Statements

-----------------------------------------------------------------------------
(* One statement. *)

TypeOf(s, id) == StateByID(s, id).type

\* Storage that has every state of a schema, with values of their types.
Stored(s, st) == StateIDs(s) \subseteq DOMAIN st /\ StorageTyped(s, st)

\* A statement that can be made of a call.
Makes(s, e, op) ==
    \/ op.do = "none"
    \/ /\ op.place \in StateIDs(s)
       /\ KeyOf(e, op) \in KeySpace(TypeOf(s, op.place))
       /\ \/ op.do \in {"-=", "+="} /\ Numeric(TypeOf(s, op.place)) /\ OperandOf(e, op.value) \in Nat
          \/ op.do = "=" /\ OperandOf(e, op.value) \in ValuesOf(TypeOf(s, op.place))
          \/ op.do = "delete" /\ VestingSchedule(0, 0, 0, 0, FALSE) \in ValuesOf(TypeOf(s, op.place))
          \/ op.do = "schedule" /\ ScheduleOf(e) \in ValuesOf(TypeOf(s, op.place))

\* By how much a statement changes a number.
Amount(e, op) == IF op.do = "-=" THEN 0 - OperandOf(e, op.value) ELSE OperandOf(e, op.value)

LEMMA NumericValues ==
    ASSUME NEW type, Numeric(type)
    PROVE  ValuesOf(type) = 0 .. Word
  BY DEF Numeric, ValuesOf

\* A state of storage has a value of V for every key of K.
Has(st, p, K, V) == p \in DOMAIN st /\ st[p] \in [K -> V]

\* What a new value of an entry leaves.
LEMMA PutEntry ==
    ASSUME NEW st, NEW p, NEW K, NEW V, Has(st, p, K, V), NEW key \in K, NEW v \in V
    PROVE  /\ DOMAIN Put(st, p, key, v) = DOMAIN st
           /\ Put(st, p, key, v)[p][key] = v
           /\ \A k \in K : k # key => Put(st, p, key, v)[p][k] = st[p][k]
           /\ Has(Put(st, p, key, v), p, K, V)
           /\ \A q \in DOMAIN st : q # p => Put(st, p, key, v)[q] = st[q]
  <1> DEFINE m == [st[p] EXCEPT ![key] = v]
  <1>1. /\ m \in [K -> V] /\ p \in DOMAIN st
        /\ m[key] = v /\ \A k \in K : k # key => m[k] = st[p][k]
    BY DEF Has
  <1>2. Put(st, p, key, v) = [st EXCEPT ![p] = m]
    BY DEF Put
  <1> HIDE DEF m
  <1>3. /\ DOMAIN [st EXCEPT ![p] = m] = DOMAIN st
        /\ [st EXCEPT ![p] = m][p] = m
        /\ \A q \in DOMAIN st : q # p => [st EXCEPT ![p] = m][q] = st[q]
    BY <1>1
  <1> QED BY <1>1, <1>2, <1>3 DEF Has

\* A statement that does not revert writes one value of the entry's type; a number by
\* the statement's amount.
LEMMA DoWrites ==
    ASSUME NEW s, NEW e, NEW op, Makes(s, e, op), op.do # "none",
           NEW st, Stored(s, st), Do(e, st, op).ok
    PROVE  \E v \in ValuesOf(TypeOf(s, op.place)) :
             /\ Do(e, st, op).v = Put(st, op.place, KeyOf(e, op), v)
             /\ op.do \in {"-=", "+="} => v = st[op.place][KeyOf(e, op)] + Amount(e, op)
  <1> DEFINE key == KeyOf(e, op)
             n == OperandOf(e, op.value)
             old == st[op.place][key]
             V == ValuesOf(TypeOf(s, op.place))
  <1>1. op.place \in StateIDs(s) /\ key \in KeySpace(TypeOf(s, op.place))
    BY DEF Makes
  <1>2. old \in V
    BY <1>1 DEF Stored, StorageTyped, TypeOf
  <1>3. ASSUME NEW v, PutNumber(st, op.place, key, v).ok
        PROVE  v \in 0 .. Word /\ PutNumber(st, op.place, key, v).v = Put(st, op.place, key, v)
    BY <1>3 DEF PutNumber, Checked, Good, Reverted
  <1>4. CASE op.do = "-="
    <2>1. Numeric(TypeOf(s, op.place)) /\ n \in Nat
      BY <1>4 DEF Makes
    <2>2. Do(e, st, op) = PutNumber(st, op.place, key, old - n)
      BY <1>4 DEF Do
    <2>3. V = 0 .. Word
      BY <2>1, NumericValues
    <2>4. old - n \in V /\ Do(e, st, op).v = Put(st, op.place, key, old - n)
      BY <1>3, <2>2, <2>3
    <2>5. old - n = old + Amount(e, op)
      BY <1>2, <1>4, <2>1, <2>3, WordAssumption DEF Amount
    <2> QED BY <2>4, <2>5
  <1>5. CASE op.do = "+="
    <2>1. Numeric(TypeOf(s, op.place)) /\ n \in Nat
      BY <1>5 DEF Makes
    <2>2. Do(e, st, op) = PutNumber(st, op.place, key, old + n)
      BY <1>5 DEF Do
    <2>3. V = 0 .. Word
      BY <2>1, NumericValues
    <2>4. old + n \in V /\ Do(e, st, op).v = Put(st, op.place, key, old + n)
      BY <1>3, <2>2, <2>3
    <2>5. old + n = old + Amount(e, op)
      BY <1>5 DEF Amount
    <2> QED BY <2>4, <2>5
  <1>6. CASE op.do = "="
    BY <1>6 DEF Makes, Do, Good
  <1>7. CASE op.do = "delete"
    BY <1>7 DEF Makes, Do, Good
  <1>8. CASE op.do = "schedule"
    BY <1>8 DEF Makes, Do, Good
  <1> QED BY <1>4, <1>5, <1>6, <1>7, <1>8 DEF Makes

\* A new value of its type for an entry leaves storage typed.
LEMMA PutStored ==
    ASSUME NEW s, NEW st, Stored(s, st), NEW p \in StateIDs(s),
           NEW key \in KeySpace(TypeOf(s, p)), NEW v \in ValuesOf(TypeOf(s, p))
    PROVE  /\ Stored(s, Put(st, p, key, v))
           /\ DOMAIN Put(st, p, key, v) = DOMAIN st
           /\ Put(st, p, key, v)[p][key] = v
           /\ \A k \in KeySpace(TypeOf(s, p)) : k # key => Put(st, p, key, v)[p][k] = st[p][k]
           /\ \A q \in DOMAIN st : q # p => Put(st, p, key, v)[q] = st[q]
  <1> DEFINE K == KeySpace(TypeOf(s, p))
             V == ValuesOf(TypeOf(s, p))
             new == Put(st, p, key, v)
  <1>1. Has(st, p, K, V) /\ key \in K /\ v \in V
    BY DEF Stored, StorageTyped, TypeOf, Has
  <1> HIDE DEF K, V
  <1>2. /\ DOMAIN new = DOMAIN st
        /\ Has(new, p, K, V)
        /\ new[p][key] = v /\ \A k \in K : k # key => new[p][k] = st[p][k]
        /\ \A q \in DOMAIN st : q # p => new[q] = st[q]
    BY <1>1, PutEntry
  <1> HIDE DEF new
  <1>3. ASSUME NEW id \in StateIDs(s)
        PROVE  new[id] \in [KeySpace(StateByID(s, id).type) -> ValuesOf(StateByID(s, id).type)]
    <2>1. st[id] \in [KeySpace(StateByID(s, id).type) -> ValuesOf(StateByID(s, id).type)]
          /\ id \in DOMAIN st
      BY DEF Stored, StorageTyped
    <2>2. CASE id = p
      BY <1>2, <2>2 DEF K, V, TypeOf, Has
    <2>3. CASE id # p
      BY <1>2, <2>1, <2>3
    <2> QED BY <2>2, <2>3
  <1>4. StateIDs(s) \subseteq DOMAIN new
    BY <1>2 DEF Stored
  <1> QED BY <1>2, <1>3, <1>4 DEF Stored, StorageTyped, K, new

\* So storage stays typed, and a statement changes its own state only.
LEMMA DoStored ==
    ASSUME NEW s, NEW e, NEW op, Makes(s, e, op),
           NEW st, Stored(s, st), Do(e, st, op).ok
    PROVE  /\ Stored(s, Do(e, st, op).v)
           /\ DOMAIN Do(e, st, op).v = DOMAIN st
           /\ \A q \in DOMAIN st : op.do = "none" \/ q # op.place => Do(e, st, op).v[q] = st[q]
  <1>1. CASE op.do = "none"
    <2>1. Do(e, st, op).v = st
      BY <1>1 DEF Do, Good
    <2> QED BY <2>1
  <1>2. CASE op.do # "none"
    <2>1. op.place \in StateIDs(s) /\ KeyOf(e, op) \in KeySpace(TypeOf(s, op.place))
      BY <1>2 DEF Makes
    <2>2. PICK v \in ValuesOf(TypeOf(s, op.place)) :
            Do(e, st, op).v = Put(st, op.place, KeyOf(e, op), v)
      BY <1>2, DoWrites
    <2> QED BY <1>2, <2>1, <2>2, PutStored
  <1> QED BY <1>1, <1>2

-----------------------------------------------------------------------------
(* A body. *)

\* The statements can be made, one after another: S holds the storage after each.
Running(e, st, ops, S) ==
    /\ Len(ops) \in Nat
    /\ S[0] = st
    /\ \A k \in 1 .. Len(ops) : Do(e, S[k - 1], ops[k]).ok /\ S[k] = Do(e, S[k - 1], ops[k]).v

\* A result that reverts stays reverted.
LEMMA GoodBefore ==
    ASSUME NEW e, NEW res, NEW ops, NEW n \in Nat, NEW R, Statements(e, res, ops, n, R), R[n].ok,
           NEW k \in 0 .. n
    PROVE  R[k].ok
  <1> SUFFICES ASSUME ~R[k].ok
               PROVE  FALSE
    OBVIOUS
  <1> DEFINE T == {j \in k .. n : R[j].ok}
  <1>1. ASSUME NEW j \in T, \A i \in T : j <= i
        PROVE  FALSE
    <2>1. j \in k .. n /\ R[j].ok
      OBVIOUS
    <2>2. j # k
      BY <2>1
    <2>3. j - 1 \in k .. n /\ ~(j <= j - 1) /\ j \in 0 .. n /\ j # 0
      BY <2>1, <2>2
    <2>4. ~R[j - 1].ok
      BY <1>1, <2>3
    <2>5. R[j] = OneMore(e, R[j - 1], ops[j])
      BY <2>3 DEF Statements
    <2> QED BY <2>1, <2>4, <2>5 DEF OneMore
  <1>2. n \notin T
    <2>1. T \subseteq Nat
      OBVIOUS
    <2> HIDE DEF T
    <2> QED BY <1>1, <2>1, LeastNat
  <1> QED BY <1>2

\* So a body that does not revert runs.
LEMMA PerformRuns ==
    ASSUME NEW e, NEW res, NEW ops, Len(ops) \in Nat, Perform(e, res, ops).ok
    PROVE  /\ res.ok
           /\ \E S : Running(e, res.v, ops, S) /\ S[Len(ops)] = Perform(e, res, ops).v
  <1> DEFINE n == Len(ops)
             R == ResultsAfter(e, res, ops)
             S == [k \in 0 .. n |-> R[k].v]
  <1>1. Statements(e, res, ops, n, R)
    BY ResultsAfterWork
  <1>2. R[n].ok /\ Perform(e, res, ops).v = R[n].v
    BY DEF Perform
  <1> HIDE DEF R
  <1>3. S[0] = res.v /\ res.ok
    <2>1. R[0] = res /\ 0 \in 0 .. n
      BY <1>1 DEF Statements
    <2>2. R[0].ok
      BY <1>1, <1>2, <2>1, GoodBefore
    <2> QED BY <2>1, <2>2
  <1>4. ASSUME NEW k \in 1 .. n
        PROVE  Do(e, S[k - 1], ops[k]).ok /\ S[k] = Do(e, S[k - 1], ops[k]).v
    <2>1. k - 1 \in 0 .. n /\ k \in 0 .. n /\ k # 0
      OBVIOUS
    <2>2. R[k] = OneMore(e, R[k - 1], ops[k])
      BY <1>1, <2>1 DEF Statements
    <2>3. R[k - 1].ok /\ R[k].ok
      BY <1>1, <1>2, <2>1, GoodBefore
    <2>4. Do(e, R[k - 1].v, ops[k]).ok /\ Do(e, R[k - 1].v, ops[k]).v = R[k].v
      <3>1. CASE ops[k].do = "none"
        BY <2>2, <3>1 DEF OneMore, Do, Good
      <3>2. CASE ops[k].do # "none"
        BY <2>2, <2>3, <3>2 DEF OneMore
      <3> QED BY <3>1, <3>2
    <2>5. S[k - 1] = R[k - 1].v /\ S[k] = R[k].v
      BY <2>1
    <2> QED BY <2>4, <2>5
  <1>5. Running(e, res.v, ops, S)
    BY <1>3, <1>4 DEF Running
  <1>6. S[n] = R[n].v
    OBVIOUS
  <1> QED BY <1>2, <1>3, <1>5, <1>6

\* Statements that can all be made of a call.
AllMake(s, e, ops) == \A k \in 1 .. Len(ops) : Makes(s, e, ops[k])
\* A list of statements with none about a state.
Leaves(ops, q) == \A k \in 1 .. Len(ops) : ops[k].do = "none" \/ ops[k].place # q

\* What a part of a body keeps: types, and what is no statement's.
Keeps(s, st, ops, now) ==
    /\ Stored(s, now)
    /\ DOMAIN now = DOMAIN st
    /\ \A q \in DOMAIN st : Leaves(ops, q) => now[q] = st[q]

LEMMA RunKeeps ==
    ASSUME NEW s, NEW e, NEW ops, AllMake(s, e, ops), NEW st, Stored(s, st),
           NEW S, Running(e, st, ops, S), NEW k \in 0 .. Len(ops)
    PROVE  Keeps(s, st, ops, S[k])
  <1> DEFINE n == Len(ops)
             T == {j \in 0 .. n : ~Keeps(s, st, ops, S[j])}
  <1>0. n \in Nat /\ S[0] = st
    BY DEF Running
  <1>1. ASSUME NEW j \in T, \A i \in T : j <= i
        PROVE  FALSE
    <2>1. j \in 0 .. n /\ ~Keeps(s, st, ops, S[j])
      OBVIOUS
    <2>2. CASE j = 0
      BY <1>0, <2>1, <2>2 DEF Keeps
    <2>3. CASE j # 0
      <3>1. j - 1 \in 0 .. n /\ ~(j <= j - 1) /\ j \in 1 .. n
        BY <1>0, <2>1, <2>3
      <3>2. Keeps(s, st, ops, S[j - 1])
        BY <1>1, <3>1
      <3> DEFINE now == S[j - 1]
                 op == ops[j]
      <3>3. Do(e, now, op).ok /\ S[j] = Do(e, now, op).v /\ Makes(s, e, op)
        BY <3>1 DEF Running, AllMake
      <3>4. \A q : Leaves(ops, q) => op.do = "none" \/ q # op.place
        BY <3>1 DEF Leaves
      <3>5. Keeps(s, st, ops, now)
        BY <3>2
      <3> HIDE DEF now, op
      <3>6. /\ Stored(s, Do(e, now, op).v)
            /\ DOMAIN Do(e, now, op).v = DOMAIN now
            /\ \A q \in DOMAIN now : op.do = "none" \/ q # op.place => Do(e, now, op).v[q] = now[q]
        BY <3>3, <3>5, DoStored DEF Keeps
      <3>7. Keeps(s, st, ops, S[j])
        BY <3>3, <3>4, <3>5, <3>6 DEF Keeps
      <3> QED BY <2>1, <3>7
    <2> QED BY <2>2, <2>3
  <1>2. k \notin T
    <2>1. T \subseteq Nat
      BY <1>0
    <2> HIDE DEF T
    <2> QED BY <1>1, <2>1, LeastNat
  <1> QED BY <1>2

-----------------------------------------------------------------------------
(* A statement and the changes that the engine makes for the same arc. *)

\* The runtime counts the same tokens as storage, and in the maps of M the same words
\* beyond those it started with.
CountsMatch(s, tokens, st) == \A p \in TokenPlaces(s) : tokens[p] = st[p][<<>>]
EntriesMatch(s, M, data, st) ==
    \A m \in M :
      /\ m \in DOMAIN data /\ data[m] \in [KeySpace(TypeOf(s, m)) -> Int]
      /\ \A k \in KeySpace(TypeOf(s, m)) : data[m][k] = st[m][k] + InitialWord(StateByID(s, m), k)

\* Token states are one number; a map of words has a number for every key, none of
\* which is empty, and starts with numbers.
NumberStates(s) ==
    /\ \A p \in TokenPlaces(s) : /\ p \in StateIDs(s)
                                 /\ KeySpace(TypeOf(s, p)) = {<<>>}
                                 /\ ValuesOf(TypeOf(s, p)) = 0 .. Word
    /\ \A m \in WordMaps(s) : /\ m \in StateIDs(s)
                              /\ <<>> \notin KeySpace(TypeOf(s, m))
                              /\ ValuesOf(TypeOf(s, m)) = 0 .. Word
                              /\ \A k \in KeySpace(TypeOf(s, m)) : InitialWord(StateByID(s, m), k) \in Nat

LEMMA PlaceStored ==
    ASSUME NEW s, NumberStates(s), NEW st, Stored(s, st), NEW p \in TokenPlaces(s)
    PROVE  /\ p \in DOMAIN st
           /\ Has(st, p, KeySpace(TypeOf(s, p)), ValuesOf(TypeOf(s, p)))
           /\ KeySpace(TypeOf(s, p)) = {<<>>}
           /\ st[p][<<>>] \in 0 .. Word
  BY DEF NumberStates, Stored, StorageTyped, TypeOf, Has

\* A statement about a state of Q.
Touches(op, Q) == op.do # "none" /\ op.place \in Q

\* A change of tokens, and one of entries, that is of the amount of a statement.
TokenAlike(s, e, op, c) ==
    /\ Touches(op, TokenPlaces(s)) =>
         op.do \in {"-=", "+="} /\ c.place = op.place /\ c.n = Amount(e, op)
    /\ ~Touches(op, TokenPlaces(s)) /\ c.place \in TokenPlaces(s) => c.n = 0
EntryAlike(M, e, op, g) ==
    /\ Touches(op, M) =>
         op.do \in {"-=", "+="} /\ g.place = op.place /\ g.keys = KeyOf(e, op) /\ g.n = Amount(e, op)
    /\ ~Touches(op, M) /\ g.place \in M => g.n = 0

\* A change of nothing.
LEMMA NothingChanged ==
    ASSUME NEW K, NEW f \in [K -> Int], NEW key
    PROVE  [f EXCEPT ![key] = f[key] + 0] = f
  <1>1. ASSUME NEW k \in K
        PROVE  [f EXCEPT ![key] = f[key] + 0][k] = f[k]
    <2>1. CASE k = key
      BY <2>1
    <2>2. CASE k # key
      BY <2>2
    <2> QED BY <2>1, <2>2
  <1> QED BY <1>1

\* What a change makes of the map of m.
MapAfter(g, m, f) ==
    IF m = g.place /\ g.keys # <<>> THEN [f EXCEPT ![g.keys] = f[g.keys] + g.n] ELSE f

LEMMA AddEntryMaps ==
    ASSUME NEW data, NEW g
    PROVE  /\ DOMAIN AddEntry(data, g) = DOMAIN data
           /\ \A m \in DOMAIN data : (\E K : data[m] \in [K -> Int])
                                     => AddEntry(data, g)[m] = MapAfter(g, m, data[m])
  <1> DEFINE m1 == [data[g.place] EXCEPT ![g.keys] = data[g.place][g.keys] + g.n]
  <1>1. AddEntry(data, g) =
          IF g.n # 0 /\ g.place \in DOMAIN data /\ g.keys # <<>>
          THEN [data EXCEPT ![g.place] = m1] ELSE data
    BY DEF AddEntry
  <1>2. ASSUME NEW m \in DOMAIN data, NEW K, data[m] \in [K -> Int]
        PROVE  AddEntry(data, g)[m] = MapAfter(g, m, data[m])
    <2>1. CASE g.n # 0 /\ m = g.place /\ g.keys # <<>>
      <3>1. AddEntry(data, g)[m] = m1
        <4> HIDE DEF m1
        <4> QED BY <1>1, <2>1
      <3>2. MapAfter(g, m, data[m]) = m1
        BY <2>1 DEF MapAfter
      <3> QED BY <3>1, <3>2
    <2>2. CASE g.n = 0
      <3>1. AddEntry(data, g)[m] = data[m]
        <4> HIDE DEF m1
        <4> QED BY <1>1, <2>2
      <3>2. MapAfter(g, m, data[m]) = data[m]
        BY <1>2, <2>2, NothingChanged DEF MapAfter
      <3> QED BY <3>1, <3>2
    <2>3. CASE ~(m = g.place /\ g.keys # <<>>)
      <3> HIDE DEF m1
      <3> QED BY <1>1, <2>3 DEF MapAfter
    <2> QED BY <2>1, <2>2, <2>3
  <1>3. DOMAIN AddEntry(data, g) = DOMAIN data
    <2> HIDE DEF m1
    <2> QED BY <1>1
  <1> QED BY <1>2, <1>3

\* After a statement and its change of tokens the counts are still the same.
LEMMA TokenStep ==
    ASSUME NEW s, NumberStates(s), NEW e, NEW op, Makes(s, e, op),
           NEW st, Stored(s, st), Do(e, st, op).ok,
           NEW t \in [TokenPlaces(s) -> Int], CountsMatch(s, t, st),
           NEW c, c.place \in TokenPlaces(s) => c.n \in Int, TokenAlike(s, e, op, c)
    PROVE  CountsMatch(s, AddToken(t, c), Do(e, st, op).v)
  <1> DEFINE new == Do(e, st, op).v
             P == TokenPlaces(s)
  <1>1. Changed(P, t, c, AddToken(t, c))
    BY AddTokenEntries
  <1>2. /\ DOMAIN new = DOMAIN st
        /\ \A q \in DOMAIN st : op.do = "none" \/ q # op.place => new[q] = st[q]
    BY DoStored
  <1> SUFFICES ASSUME NEW p \in P
               PROVE  AddToken(t, c)[p] = new[p][<<>>]
    BY DEF CountsMatch
  <1>3. /\ p \in StateIDs(s) /\ p \in DOMAIN st
        /\ Has(st, p, KeySpace(TypeOf(s, p)), ValuesOf(TypeOf(s, p)))
        /\ KeySpace(TypeOf(s, p)) = {<<>>}
        /\ t[p] = st[p][<<>>] /\ t[p] \in Int
    BY DEF NumberStates, Stored, StorageTyped, TypeOf, Has, CountsMatch
  <1>4. AddToken(t, c)[p] = IF p = c.place THEN t[p] + c.n ELSE t[p]
    BY <1>1 DEF Changed
  <1>5. CASE Touches(op, P) /\ p = op.place
    <2>1. op.do \in {"-=", "+="} /\ c.place = op.place /\ c.n = Amount(e, op) /\ op.do # "none"
      BY <1>5 DEF TokenAlike, Touches
    <2>2. KeyOf(e, op) \in KeySpace(TypeOf(s, p))
      BY <1>5, <2>1 DEF Makes
    <2>3. PICK v \in ValuesOf(TypeOf(s, p)) :
            new = Put(st, p, KeyOf(e, op), v) /\ v = st[p][KeyOf(e, op)] + Amount(e, op)
      BY <1>5, <2>1, DoWrites
    <2>4. KeyOf(e, op) = <<>>
      BY <1>3, <2>2
    <2>5. new[p][<<>>] = v
      <3> DEFINE K == KeySpace(TypeOf(s, p))
                 V == ValuesOf(TypeOf(s, p))
                 key == KeyOf(e, op)
      <3>1. Has(st, p, K, V) /\ key \in K /\ v \in V /\ new = Put(st, p, key, v) /\ key = <<>>
        BY <1>3, <2>2, <2>3, <2>4
      <3> HIDE DEF K, V, key, new
      <3> QED BY <3>1, PutEntry
    <2> QED BY <1>3, <1>4, <1>5, <2>1, <2>3, <2>4, <2>5
  <1>6. CASE ~(Touches(op, P) /\ p = op.place)
    <2>1. new[p] = st[p]
      BY <1>2, <1>3, <1>6 DEF Touches
    <2>2. p = c.place => c.n = 0
      BY <1>6 DEF TokenAlike
    <2> QED BY <1>3, <1>4, <2>1, <2>2
  <1> QED BY <1>5, <1>6

\* And after its change of entries the words are.
LEMMA EntryStep ==
    ASSUME NEW s, NumberStates(s), NEW M, M \subseteq WordMaps(s),
           NEW e, NEW op, Makes(s, e, op),
           NEW st, Stored(s, st), Do(e, st, op).ok,
           NEW data, EntriesMatch(s, M, data, st),
           NEW g, EntryAlike(M, e, op, g)
    PROVE  EntriesMatch(s, M, AddEntry(data, g), Do(e, st, op).v)
  <1> DEFINE new == Do(e, st, op).v
  <1>1. /\ DOMAIN new = DOMAIN st
        /\ \A q \in DOMAIN st : op.do = "none" \/ q # op.place => new[q] = st[q]
    BY DoStored
  <1>2. ASSUME NEW m \in M
        PROVE  /\ AddEntry(data, g)[m] \in [KeySpace(TypeOf(s, m)) -> Int]
               /\ \A k \in KeySpace(TypeOf(s, m)) :
                    AddEntry(data, g)[m][k] = new[m][k] + InitialWord(StateByID(s, m), k)
    <2> DEFINE K == KeySpace(TypeOf(s, m))
               V == ValuesOf(TypeOf(s, m))
               key == KeyOf(e, op)
               old == data[m]
               first(k) == InitialWord(StateByID(s, m), k)
    <2>1. /\ m \in DOMAIN st /\ st[m] \in [K -> V]
          /\ V = 0 .. Word /\ <<>> \notin K
          /\ m \in DOMAIN data /\ old \in [K -> Int]
          /\ \A k \in K : first(k) \in Nat /\ old[k] = st[m][k] + first(k)
      BY DEF NumberStates, Stored, StorageTyped, TypeOf, EntriesMatch
    <2>2. AddEntry(data, g)[m] = MapAfter(g, m, old)
      <3> HIDE DEF K
      <3> QED BY <2>1, AddEntryMaps
    <2>3. CASE Touches(op, M) /\ m = op.place
      <3>1. /\ op.do \in {"-=", "+="} /\ op.do # "none"
            /\ m = g.place /\ g.keys = key /\ g.n = Amount(e, op)
        BY <2>3 DEF EntryAlike, Touches
      <3>2. key \in K /\ Amount(e, op) \in Int
        <4>1. key \in KeySpace(TypeOf(s, op.place)) /\ OperandOf(e, op.value) \in Nat
          BY <3>1 DEF Makes
        <4>2. Amount(e, op) \in Int
          BY <4>1 DEF Amount
        <4> QED BY <2>3, <4>1, <4>2
      <3>3. PICK v \in V : new = Put(st, m, key, v) /\ v = st[m][key] + Amount(e, op)
        <4>1. PICK w \in ValuesOf(TypeOf(s, op.place)) :
                /\ Do(e, st, op).v = Put(st, op.place, key, w)
                /\ op.do \in {"-=", "+="} => w = st[op.place][key] + Amount(e, op)
          BY <3>1, DoWrites
        <4> QED BY <2>3, <3>1, <4>1
      <3>4. new[m] = [st[m] EXCEPT ![key] = v]
        <4> DEFINE f == [st[m] EXCEPT ![key] = v]
        <4>1. new = [st EXCEPT ![m] = f]
          BY <3>3 DEF Put
        <4> HIDE DEF f, new
        <4>2. new[m] = f
          BY <2>1, <4>1
        <4> QED BY <4>2 DEF f
      <3>5. key # <<>>
        BY <2>1, <3>2
      <3>6. AddEntry(data, g)[m] = [old EXCEPT ![key] = old[key] + Amount(e, op)]
        BY <2>2, <3>1, <3>5 DEF MapAfter
      <3> DEFINE x == Amount(e, op)
                 now == new[m]
                 was == st[m]
      <3> HIDE DEF K, V, key, old, first, x, new, now, was
      <3>7. /\ AddEntry(data, g)[m] \in [K -> Int]
            /\ \A k \in K : AddEntry(data, g)[m][k] = IF k = key THEN old[k] + x ELSE old[k]
        BY <2>1, <3>2, <3>6 DEF x
      <3>8. \A k \in K : /\ was[k] \in Int
                         /\ now[k] = IF k = key THEN was[k] + x ELSE was[k]
        <4>1. was \in [K -> V] /\ V \subseteq Int
          BY <2>1, WordAssumption DEF was
        <4>2. now = [was EXCEPT ![key] = was[key] + x]
          BY <3>3, <3>4 DEF now, was, x
        <4> QED BY <3>2, <4>1, <4>2
      <3>9. \A k \in K : first(k) \in Nat /\ old[k] = was[k] + first(k)
        BY <2>1 DEF was
      <3>10. \A k \in K : AddEntry(data, g)[m][k] = now[k] + first(k)
        BY <3>2, <3>7, <3>8, <3>9 DEF x
      <3> QED BY <3>7, <3>10 DEF K, first, now
    <2>4. CASE ~(Touches(op, M) /\ m = op.place)
      <3>1. new[m] = st[m]
        BY <1>1, <2>1, <2>4 DEF Touches
      <3>2. m = g.place => g.n = 0
        BY <2>4 DEF EntryAlike
      <3>3. AddEntry(data, g)[m] = old
        <4>1. CASE m = g.place /\ g.keys # <<>>
          <5>1. AddEntry(data, g)[m] = [old EXCEPT ![g.keys] = old[g.keys] + 0]
            BY <2>2, <3>2, <4>1 DEF MapAfter
          <5> HIDE DEF K, old
          <5> QED BY <2>1, <5>1, NothingChanged
        <4>2. CASE ~(m = g.place /\ g.keys # <<>>)
          BY <2>2, <4>2 DEF MapAfter
        <4> QED BY <4>1, <4>2
      <3> QED BY <2>1, <3>1, <3>3
    <2> QED BY <2>3, <2>4
  <1>3. DOMAIN AddEntry(data, g) = DOMAIN data
    BY AddEntryMaps
  <1> QED BY <1>2, <1>3 DEF EntriesMatch

-----------------------------------------------------------------------------
(* A body and the changes that the engine makes for the same arcs. *)

TokensAlike(s, e, ops, c) ==
    /\ ChangesOf(TokenPlaces(s), c) /\ Len(c) = Len(ops)
    /\ \A k \in 1 .. Len(ops) : TokenAlike(s, e, ops[k], c[k])
EntriesAlike(M, e, ops, g) ==
    /\ Len(g) = Len(ops)
    /\ \A k \in 1 .. Len(ops) : EntryAlike(M, e, ops[k], g[k])

\* What the runtime counts and what the contract stores are the same.
Matches(s, M, tokens, data, st) ==
    /\ tokens \in [TokenPlaces(s) -> Int]
    /\ CountsMatch(s, tokens, st)
    /\ EntriesMatch(s, M, data, st)

LEMMA RunMatches ==
    ASSUME NEW s, NumberStates(s), NEW M, M \subseteq WordMaps(s),
           NEW e, NEW ops, AllMake(s, e, ops), NEW st, Stored(s, st),
           NEW S, Running(e, st, ops, S),
           NEW tokens, NEW data, Matches(s, M, tokens, data, st),
           NEW c, TokensAlike(s, e, ops, c), NEW g, EntriesAlike(M, e, ops, g)
    PROVE  Matches(s, M, AddTokens(tokens, c), AddEntries(data, g), S[Len(ops)])
  <1> DEFINE n == Len(ops)
             A == TokensAfter(tokens, c)
             D == DataAfter(data, g)
             T == {k \in 0 .. n : ~Matches(s, M, A[k], D[k], S[k])}
  <1>0. n \in Nat /\ n = Len(c) /\ n = Len(g) /\ S[0] = st
    BY DEF Running, TokensAlike, EntriesAlike
  <1>1. Changes(tokens, c, n, A)
    BY <1>0, TokensAfterWork DEF TokensAlike, Matches
  <1>2. EntryChanges(data, g, n, D)
    BY <1>0, DataAfterWork
  <1> HIDE DEF A, D
  <1>3. ASSUME NEW k \in T, \A j \in T : k <= j
        PROVE  FALSE
    <2>1. k \in 0 .. n /\ ~Matches(s, M, A[k], D[k], S[k])
      OBVIOUS
    <2>2. CASE k = 0
      <3>1. A[k] = tokens /\ D[k] = data /\ S[k] = st
        BY <1>0, <1>1, <1>2, <2>1, <2>2 DEF Changes, EntryChanges
      <3> QED BY <2>1, <3>1
    <2>3. CASE k # 0
      <3>1. k - 1 \in 0 .. n /\ ~(k <= k - 1) /\ k \in 1 .. n
        BY <1>0, <2>1, <2>3
      <3>2. Matches(s, M, A[k - 1], D[k - 1], S[k - 1])
        BY <1>3, <3>1
      <3> DEFINE a == A[k - 1]
                 d == D[k - 1]
                 u == S[k - 1]
                 op == ops[k]
                 ck == c[k]
                 gk == g[k]
      <3>3. A[k] = AddToken(a, ck) /\ D[k] = AddEntry(d, gk) /\ S[k] = Do(e, u, op).v
        BY <1>1, <1>2, <2>1, <2>3, <3>1 DEF Changes, EntryChanges, Running
      <3>4. Makes(s, e, op) /\ Do(e, u, op).ok
        BY <3>1 DEF AllMake, Running
      <3>5. /\ ck.place \in TokenPlaces(s) => ck.n \in Int
            /\ TokenAlike(s, e, op, ck)
            /\ EntryAlike(M, e, op, gk)
        BY <1>0, <3>1 DEF TokensAlike, EntriesAlike, ChangesOf
      <3>6. Stored(s, u)
        BY <3>1, RunKeeps DEF Keeps
      <3>7. a \in [TokenPlaces(s) -> Int] /\ CountsMatch(s, a, u) /\ EntriesMatch(s, M, d, u)
        BY <3>2 DEF Matches
      <3> HIDE DEF a, d, u, op, ck, gk
      <3>8. CountsMatch(s, AddToken(a, ck), Do(e, u, op).v)
        BY <3>4, <3>5, <3>6, <3>7, TokenStep
      <3>9. EntriesMatch(s, M, AddEntry(d, gk), Do(e, u, op).v)
        BY <3>4, <3>5, <3>6, <3>7, EntryStep
      <3>10. AddToken(a, ck) \in [TokenPlaces(s) -> Int]
        BY <3>5, <3>7, AddTokenEntries DEF Changed
      <3> QED BY <2>1, <3>3, <3>8, <3>9, <3>10 DEF Matches
    <2> QED BY <2>2, <2>3
  <1>4. n \notin T
    <2>1. T \subseteq Nat
      BY <1>0
    <2> HIDE DEF T, n
    <2> QED BY <1>3, <2>1, LeastNat
  <1>5. Matches(s, M, A[n], D[n], S[n])
    BY <1>0, <1>4
  <1> QED BY <1>0, <1>5 DEF A, D, AddTokens, AddEntries

\* While nothing is moved in the states of Q they stay as they are.
StillIn(Q, e, ops) ==
    \A k \in 1 .. Len(ops) :
      Touches(ops[k], Q) => ops[k].do \in {"-=", "+="} /\ OperandOf(e, ops[k].value) = 0

SameIn(Q, st, now) == \A q \in Q : q \in DOMAIN st => now[q] = st[q]

LEMMA RunStill ==
    ASSUME NEW s, NEW Q, Q \subseteq StateIDs(s),
           NEW e, NEW ops, AllMake(s, e, ops), StillIn(Q, e, ops),
           NEW st, Stored(s, st), NEW S, Running(e, st, ops, S)
    PROVE  SameIn(Q, st, S[Len(ops)])
  <1> DEFINE n == Len(ops)
             T == {k \in 0 .. n : ~SameIn(Q, st, S[k])}
  <1>0. n \in Nat /\ S[0] = st
    BY DEF Running
  <1>1. ASSUME NEW k \in T, \A j \in T : k <= j
        PROVE  FALSE
    <2>1. k \in 0 .. n /\ ~SameIn(Q, st, S[k])
      OBVIOUS
    <2>2. CASE k = 0
      BY <1>0, <2>1, <2>2 DEF SameIn
    <2>3. CASE k # 0
      <3>1. k - 1 \in 0 .. n /\ ~(k <= k - 1) /\ k \in 1 .. n
        BY <1>0, <2>1, <2>3
      <3>2. SameIn(Q, st, S[k - 1])
        BY <1>1, <3>1
      <3> DEFINE u == S[k - 1]
                 op == ops[k]
      <3>3. S[k] = Do(e, u, op).v /\ Makes(s, e, op) /\ Do(e, u, op).ok
        BY <3>1 DEF AllMake, Running
      <3>4. Stored(s, u) /\ DOMAIN u = DOMAIN st
        BY <3>1, RunKeeps DEF Keeps
      <3>5. Touches(op, Q) => op.do \in {"-=", "+="} /\ OperandOf(e, op.value) = 0
        BY <3>1 DEF StillIn
      <3>6. SameIn(Q, st, u)
        BY <3>2
      <3> HIDE DEF u, op
      <3>7. SameIn(Q, st, Do(e, u, op).v)
        <4> SUFFICES ASSUME NEW q \in Q, q \in DOMAIN st
                     PROVE  Do(e, u, op).v[q] = u[q]
          BY <3>6 DEF SameIn
        <4>1. CASE op.do = "none" \/ q # op.place
          BY <3>3, <3>4, <4>1, DoStored
        <4>2. CASE op.do # "none" /\ q = op.place
          <5> DEFINE K == KeySpace(TypeOf(s, q))
                     V == ValuesOf(TypeOf(s, q))
                     key == KeyOf(e, op)
                     new == Do(e, u, op).v
          <5>1. op.do \in {"-=", "+="} /\ OperandOf(e, op.value) = 0
            BY <3>5, <4>2 DEF Touches
          <5>2. Amount(e, op) = 0
            BY <5>1 DEF Amount
          <5>3. PICK v \in V : new = Put(u, q, key, v) /\ v = u[q][key] + 0
            <6>1. PICK w \in ValuesOf(TypeOf(s, op.place)) :
                    /\ Do(e, u, op).v = Put(u, op.place, KeyOf(e, op), w)
                    /\ op.do \in {"-=", "+="} => w = u[op.place][KeyOf(e, op)] + Amount(e, op)
              BY <3>3, <3>4, <4>2, DoWrites
            <6> QED BY <4>2, <5>1, <5>2, <6>1
          <5>4. Numeric(TypeOf(s, q)) /\ key \in K
            <6>1. Numeric(TypeOf(s, op.place)) /\ KeyOf(e, op) \in KeySpace(TypeOf(s, op.place))
              BY <3>3, <5>1 DEF Makes
            <6> QED BY <4>2, <6>1
          <5>5. V = 0 .. Word
            BY <5>4, NumericValues
          <5>6. u[q] \in [K -> V]
            BY <3>4 DEF Stored, StorageTyped, TypeOf
          <5>7. new[q] = [u[q] EXCEPT ![key] = u[q][key] + 0]
            <6> DEFINE f == [u[q] EXCEPT ![key] = u[q][key] + 0]
            <6>1. new = [u EXCEPT ![q] = f]
              BY <5>3 DEF Put
            <6> HIDE DEF f, new
            <6>2. new[q] = f
              BY <3>4, <6>1
            <6> QED BY <6>2 DEF f
          <5>8. u[q] \in [K -> Int]
            BY <5>5, <5>6, WordAssumption
          <5> HIDE DEF K, V, key, new
          <5>9. new[q] = u[q]
            BY <5>7, <5>8, NothingChanged
          <5> QED BY <5>9 DEF new
        <4> QED BY <4>1, <4>2
      <3> QED BY <2>1, <3>3, <3>7
    <2> QED BY <2>2, <2>3
  <1>2. n \notin T
    <2>1. T \subseteq Nat
      BY <1>0
    <2> HIDE DEF T, n
    <2> QED BY <1>1, <2>1, LeastNat
  <1> QED BY <1>0, <1>2

\* Inputs only take, so what one takes was there before all of them.
TakesOnly(s, ops) == \A k \in 1 .. Len(ops) : Touches(ops[k], TokenPlaces(s)) => ops[k].do = "-="
NoMore(s, st, now) == \A p \in TokenPlaces(s) : now[p][<<>>] <= st[p][<<>>]

LEMMA InputsHad ==
    ASSUME NEW s, NumberStates(s), NEW e, NEW ops, AllMake(s, e, ops), TakesOnly(s, ops),
           NEW st, Stored(s, st), NEW S, Running(e, st, ops, S)
    PROVE  /\ \A k \in 1 .. Len(ops) :
                Touches(ops[k], TokenPlaces(s)) => st[ops[k].place][<<>>] >= OperandOf(e, ops[k].value)
           /\ NoMore(s, st, S[Len(ops)])
  <1> DEFINE n == Len(ops)
             P == TokenPlaces(s)
             T == {k \in 0 .. n : ~NoMore(s, st, S[k])}
  <1>0. n \in Nat /\ S[0] = st
    BY DEF Running
  <1>1. ASSUME NEW u, Stored(s, u), NEW p \in P
        PROVE  /\ p \in DOMAIN u
               /\ Has(u, p, KeySpace(TypeOf(s, p)), ValuesOf(TypeOf(s, p)))
               /\ KeySpace(TypeOf(s, p)) = {<<>>}
               /\ u[p][<<>>] \in 0 .. Word
    BY <1>1, PlaceStored
  <1>2. ASSUME NEW k \in 1 .. n
        PROVE  /\ NoMore(s, S[k - 1], S[k])
               /\ Touches(ops[k], P) => S[k - 1][ops[k].place][<<>>] >= OperandOf(e, ops[k].value)
    <2> DEFINE u == S[k - 1]
               op == ops[k]
               new == Do(e, u, op).v
    <2>1. k - 1 \in 0 .. n /\ k \in 1 .. Len(ops)
      BY <1>0
    <2>2. S[k] = new /\ Makes(s, e, op) /\ Do(e, u, op).ok
      BY <2>1 DEF AllMake, Running
    <2>3. Stored(s, u)
      BY <2>1, RunKeeps DEF Keeps
    <2>4. /\ DOMAIN new = DOMAIN u
          /\ \A q \in DOMAIN u : op.do = "none" \/ q # op.place => new[q] = u[q]
      BY <2>2, <2>3, DoStored
    <2>5. Touches(op, P) => op.do = "-="
      BY <2>1 DEF TakesOnly
    <2> HIDE DEF u, op
    <2>6. ASSUME Touches(op, P)
          PROVE  /\ new[op.place][<<>>] <= u[op.place][<<>>]
                 /\ u[op.place][<<>>] >= OperandOf(e, op.value)
      <3> DEFINE p == op.place
                 key == KeyOf(e, op)
                 m == OperandOf(e, op.value)
                 K == KeySpace(TypeOf(s, p))
                 V == ValuesOf(TypeOf(s, p))
      <3>1. p \in P /\ op.do = "-=" /\ op.do # "none"
        BY <2>5, <2>6 DEF Touches
      <3>2. m \in Nat /\ key \in K
        BY <2>2, <3>1 DEF Makes
      <3>3. p \in DOMAIN u /\ Has(u, p, K, V) /\ K = {<<>>} /\ u[p][<<>>] \in 0 .. Word
        BY <1>1, <2>3, <3>1
      <3>4. key = <<>>
        BY <3>2, <3>3
      <3>5. PICK v \in V : new = Put(u, p, key, v) /\ v = u[p][key] + Amount(e, op)
        BY <2>2, <2>3, <3>1, DoWrites
      <3>6. Amount(e, op) = 0 - m
        BY <3>1 DEF Amount
      <3>7. V = 0 .. Word
        BY <3>1 DEF NumberStates
      <3>8. new[p][key] = v
        <4>1. Has(u, p, K, V) /\ key \in K /\ v \in V /\ new = Put(u, p, key, v)
          BY <3>2, <3>3, <3>5
        <4> HIDE DEF p, key, K, V, new
        <4> QED BY <4>1, PutEntry
      <3>9. v = u[p][<<>>] - m /\ v >= 0
        BY <3>2, <3>3, <3>4, <3>5, <3>6, <3>7
      <3> QED BY <3>2, <3>3, <3>4, <3>8, <3>9
    <2>7. NoMore(s, u, new)
      <3> SUFFICES ASSUME NEW p \in P
                   PROVE  new[p][<<>>] <= u[p][<<>>]
        BY DEF NoMore
      <3>1. p \in DOMAIN u /\ u[p][<<>>] \in 0 .. Word
        BY <1>1, <2>3
      <3>2. CASE op.do = "none" \/ p # op.place
        BY <2>4, <3>1, <3>2
      <3>3. CASE op.do # "none" /\ p = op.place
        BY <2>6, <3>3 DEF Touches
      <3> QED BY <3>2, <3>3
    <2> QED BY <2>2, <2>6, <2>7 DEF u, op
  <1>3. ASSUME NEW k \in T, \A j \in T : k <= j
        PROVE  FALSE
    <2>1. k \in 0 .. n /\ ~NoMore(s, st, S[k])
      OBVIOUS
    <2>2. CASE k = 0
      <3>1. \A p \in P : st[p][<<>>] \in 0 .. Word
        BY <1>1
      <3> QED BY <1>0, <2>1, <2>2, <3>1 DEF NoMore
    <2>3. CASE k # 0
      <3>1. k - 1 \in 0 .. n /\ ~(k <= k - 1) /\ k \in 1 .. n /\ k \in 0 .. Len(ops)
        BY <1>0, <2>1, <2>3
      <3>2. NoMore(s, st, S[k - 1]) /\ NoMore(s, S[k - 1], S[k])
        BY <1>2, <1>3, <3>1
      <3>3. Stored(s, S[k - 1]) /\ Stored(s, S[k])
        BY <3>1, RunKeeps DEF Keeps
      <3>4. \A p \in P : st[p][<<>>] \in 0 .. Word /\ S[k - 1][p][<<>>] \in 0 .. Word
                         /\ S[k][p][<<>>] \in 0 .. Word
        BY <1>1, <3>3
      <3> QED BY <2>1, <3>2, <3>4 DEF NoMore
    <2> QED BY <2>2, <2>3
  <1>4. ASSUME NEW k \in 0 .. n
        PROVE  NoMore(s, st, S[k])
    <2>1. T \subseteq Nat
      BY <1>0
    <2>2. k \notin T
      <3> HIDE DEF T, n
      <3> QED BY <1>3, <2>1, LeastNat
    <2> QED BY <2>2
  <1>5. NoMore(s, st, S[n])
    BY <1>0, <1>4
  <1> SUFFICES ASSUME NEW k \in 1 .. n, Touches(ops[k], P)
               PROVE  st[ops[k].place][<<>>] >= OperandOf(e, ops[k].value)
    BY <1>5
  <1>6. k - 1 \in 0 .. n /\ k \in 1 .. Len(ops) /\ ops[k].place \in P
    BY <1>0 DEF Touches
  <1>7. Stored(s, S[k - 1])
    BY <1>6, RunKeeps DEF Keeps
  <1>8. OperandOf(e, ops[k].value) \in Nat
    BY <1>6 DEF AllMake, Makes, TakesOnly
  <1>9. S[k - 1][ops[k].place][<<>>] <= st[ops[k].place][<<>>]
    BY <1>4, <1>6 DEF NoMore
  <1>10. S[k - 1][ops[k].place][<<>>] >= OperandOf(e, ops[k].value)
    BY <1>2
  <1>11. S[k - 1][ops[k].place][<<>>] \in 0 .. Word /\ st[ops[k].place][<<>>] \in 0 .. Word
    BY <1>1, <1>6, <1>7
  <1> QED BY <1>8, <1>9, <1>10, <1>11

-----------------------------------------------------------------------------
(* The bodies of a function that fits. *)

\* A call of a function that fits.
FitCall(s, f, fn, e) ==
    /\ Sound(s) /\ f \in ActionIDs(s)
    /\ FunctionFits(s, f, fn) /\ e.args \in fn.calls /\ e.sender \in Users

LEMMA NumbersOf ==
    ASSUME NEW s, Sound(s), CountsAlong(s)
    PROVE  NumberStates(s)
  <1>1. ASSUME NEW p \in TokenPlaces(s)
        PROVE  /\ p \in StateIDs(s)
               /\ KeySpace(TypeOf(s, p)) = {<<>>}
               /\ ValuesOf(TypeOf(s, p)) = 0 .. Word
    <2>1. PICK k \in DOMAIN s.states : IsToken(s.states[k]) /\ p = s.states[k].id
      BY DEF TokenPlaces
    <2>2. TypeOf(s, p) = s.states[k].type
      BY <2>1, StateFound DEF TypeOf
    <2>3. Depth(s.states[k].type) \in Nat /\ ~IsMap(s.states[k].type) /\ Numeric(s.states[k].type)
      BY <2>1 DEF Sound, CountsAlong
    <2>4. Depth(s.states[k].type) = 0
      BY <2>3 DEF IsMap
    <2>5. KeySpace(s.states[k].type) = {<<>>}
      BY <2>4 DEF KeySpace
    <2> QED BY <2>1, <2>2, <2>3, <2>5, NumericValues DEF StateIDs
  <1>2. ASSUME NEW m \in WordMaps(s)
        PROVE  /\ m \in StateIDs(s)
               /\ <<>> \notin KeySpace(TypeOf(s, m))
               /\ ValuesOf(TypeOf(s, m)) = 0 .. Word
               /\ \A keys \in KeySpace(TypeOf(s, m)) : InitialWord(StateByID(s, m), keys) \in Nat
    <2>1. PICK k \in DOMAIN s.states : CountsWords(s.states[k]) /\ m = s.states[k].id
      BY DEF WordMaps, ToSet
    <2>2. TypeOf(s, m) = s.states[k].type /\ StateByID(s, m) = s.states[k]
      BY <2>1, StateFound DEF TypeOf
    <2> DEFINE type == s.states[k].type
    <2>7. \A keys : InitialWord(s.states[k], keys) \in Nat
      BY <2>1 DEF Sound, InitialWord
    <2>3. Depth(type) \in Nat /\ Depth(type) # 0 /\ ValueType(type) = <<"uint256">>
      BY <2>1 DEF Sound, CountsWords, IsMap
    <2>4. Numeric(type)
      BY <2>3 DEF Numeric
    <2> HIDE DEF type
    <2>5. <<>> \notin KeySpace(type)
      <3>1. CASE Depth(type) = 1
        <4>1. KeySpace(type) = {<<x>> : x \in KeyValues(type[1])}
          BY <2>3, <3>1 DEF KeySpace
        <4> QED BY <4>1
      <3>2. CASE Depth(type) # 1
        <4>1. KeySpace(type) = KeyValues(type[1]) \X KeyValues(type[2])
          BY <2>3, <3>2 DEF KeySpace
        <4> QED BY <4>1
      <3> QED BY <3>1, <3>2
    <2> QED BY <2>1, <2>2, <2>4, <2>5, <2>7, NumericValues DEF StateIDs, type
  <1> QED BY <1>1, <1>2 DEF NumberStates

\* A state with a number for each of its keys.
CountedType(type) == ~IsMap(type) \/ ValueType(type) = <<"uint256">>

\* What is written for an input arc, and for an output arc.
ForInput(s, f, arc, op) ==
    /\ op.do # "none" =>
         /\ op.place = arc.source /\ op.keys = arc.keys
         /\ \/ op.do = "delete" /\ ValueType(TypeOf(s, arc.source)) = <<"VestingSchedule">>
            \/ op.do = "-=" /\ op.value = StatementValue(arc, StateByID(s, arc.source))
    /\ isReadArc(s, f, arc) => op.do = "none"
    /\ ~isReadArc(s, f, arc) /\ CountedType(TypeOf(s, arc.source)) => op.do = "-="
ForOutput(s, arc, op) ==
    /\ op.do # "none" =>
         /\ op.place = arc.target /\ op.keys = arc.keys
         /\ op.do \in {"=", "schedule", "+="}
         /\ op.do = "+=" => op.value = StatementValue(arc, StateByID(s, arc.target))
    /\ CountedType(TypeOf(s, arc.target)) => op.do = "+="

LEMMA InputStatement ==
    ASSUME NEW s, NEW f, NEW arc
    PROVE  ForInput(s, f, arc, inputOp(s, f, arc))
  <1> DEFINE st == StateByID(s, arc.source)
             read == isReadArc(s, f, arc)
             map == IsMap(st.type)
             value == ValueType(st.type)
  <1>1. inputOp(s, f, arc) =
          CASE read -> NoStatement
            [] ~read /\ map /\ value = <<"VestingSchedule">> -> Statement("delete", arc, arc.source, <<>>)
            [] ~read /\ (~map \/ value = <<"uint256">>) -> Statement("-=", arc, arc.source, StatementValue(arc, st))
            [] OTHER -> NoStatement
    BY Zenon DEF inputOp
  <1>2. <<"VestingSchedule">> # <<"uint256">>
    OBVIOUS
  <1> HIDE DEF read, map, value, st
  <1>3. CASE read
    BY <1>1, <1>3 DEF ForInput, CountedType, TypeOf, NoStatement, read, st
  <1>4. CASE ~read /\ map /\ value = <<"VestingSchedule">>
    <2>1. inputOp(s, f, arc) = Statement("delete", arc, arc.source, <<>>)
      BY <1>1, <1>2, <1>4
    <2> QED BY <1>2, <1>4, <2>1 DEF ForInput, CountedType, TypeOf, Statement, read, st, map, value
  <1>5. CASE ~read /\ (~map \/ value = <<"uint256">>)
    <2>1. inputOp(s, f, arc) = Statement("-=", arc, arc.source, StatementValue(arc, st))
      BY <1>1, <1>2, <1>5
    <2> QED BY <1>5, <2>1 DEF ForInput, CountedType, TypeOf, Statement, read, st
  <1>6. CASE ~read /\ ~(map /\ value = <<"VestingSchedule">>) /\ ~(~map \/ value = <<"uint256">>)
    <2>1. inputOp(s, f, arc) = NoStatement
      BY <1>1, <1>6
    <2> QED BY <1>6, <2>1 DEF ForInput, CountedType, TypeOf, NoStatement, read, st, map, value
  <1> QED BY <1>3, <1>4, <1>5, <1>6

LEMMA OutputStatement ==
    ASSUME NEW s, NEW arc
    PROVE  ForOutput(s, arc, outputOp(s, arc))
  <1> DEFINE st == StateByID(s, arc.target)
             map == IsMap(st.type)
             value == ValueType(st.type)
             flag == value \in {<<"bool">>, <<"address">>}
  <1>1. outputOp(s, arc) =
          CASE map /\ flag -> Statement("=", arc, arc.target, StatementValue(arc, st))
            [] map /\ value = <<"VestingSchedule">> -> Statement("schedule", arc, arc.target, <<>>)
            [] ~map \/ value = <<"uint256">> -> Statement("+=", arc, arc.target, StatementValue(arc, st))
            [] OTHER -> NoStatement
    BY Zenon DEF outputOp
  <1>2. /\ value = <<"VestingSchedule">> => ~flag /\ value # <<"uint256">>
        /\ value = <<"uint256">> => ~flag
    OBVIOUS
  <1> HIDE DEF map, value, flag, st
  <1>3. CASE map /\ flag
    <2>1. outputOp(s, arc) = Statement("=", arc, arc.target, StatementValue(arc, st))
      BY <1>1, <1>2, <1>3
    <2> QED BY <1>2, <1>3, <2>1 DEF ForOutput, CountedType, TypeOf, Statement, st, map, value
  <1>4. CASE map /\ value = <<"VestingSchedule">>
    <2>1. outputOp(s, arc) = Statement("schedule", arc, arc.target, <<>>)
      BY <1>1, <1>2, <1>4
    <2> QED BY <1>2, <1>4, <2>1 DEF ForOutput, CountedType, TypeOf, Statement, st, map, value
  <1>5. CASE ~map \/ value = <<"uint256">>
    <2>1. outputOp(s, arc) = Statement("+=", arc, arc.target, StatementValue(arc, st))
      BY <1>1, <1>2, <1>5
    <2> QED BY <1>5, <2>1 DEF ForOutput, CountedType, TypeOf, Statement, st
  <1>6. CASE ~(map /\ flag) /\ ~(map /\ value = <<"VestingSchedule">>) /\ ~(~map \/ value = <<"uint256">>)
    <2>1. outputOp(s, arc) = NoStatement
      BY <1>1, <1>6
    <2> QED BY <1>6, <2>1 DEF ForOutput, CountedType, TypeOf, NoStatement, st, map, value
  <1> QED BY <1>3, <1>4, <1>5, <1>6

\* The arcs of an action join it to states.
LEMMA ArcEnds ==
    ASSUME NEW s, Sound(s), NEW f \in ActionIDs(s), NEW k \in DOMAIN s.arcs
    PROVE  /\ IsInput(s, k, f) => s.arcs[k].source \in StateIDs(s)
           /\ IsOutput(s, k, f) => s.arcs[k].target \in StateIDs(s)
  <1>1. /\ s.arcs[k].source \in StateIDs(s) \cup ActionIDs(s)
        /\ s.arcs[k].target \in StateIDs(s) \cup ActionIDs(s)
        /\ ~(s.arcs[k].source \in ActionIDs(s) /\ s.arcs[k].target \in ActionIDs(s))
    BY DEF Sound, Validate
  <1> QED BY <1>1 DEF IsInput, IsOutput

\* The k-th statements of a body.
InputAt(s, f, k) == IF IsInput(s, k, f) THEN inputOp(s, f, s.arcs[k]) ELSE NoStatement
OutputAt(s, f, k) == IF IsOutput(s, k, f) THEN outputOp(s, s.arcs[k]) ELSE NoStatement

LEMMA BodyStatements ==
    ASSUME NEW s, Sound(s), NEW f, NEW fn, FunctionFits(s, f, fn)
    PROVE  /\ Len(s.arcs) \in Nat /\ DOMAIN s.arcs = 1 .. Len(s.arcs)
           /\ Len(fn.body.inputs) = Len(s.arcs) /\ Len(fn.body.outputs) = Len(s.arcs)
           /\ \A k \in 1 .. Len(s.arcs) : /\ fn.body.inputs[k] = InputAt(s, f, k)
                                          /\ fn.body.outputs[k] = OutputAt(s, f, k)
  <1>1. Len(s.arcs) \in Nat /\ DOMAIN s.arcs = 1 .. Len(s.arcs)
    BY LenProperties DEF Sound
  <1>2. ASSUME NEW n \in Nat, NEW q, DOMAIN q = 1 .. n, q = [k \in 1 .. n |-> q[k]]
        PROVE  Len(q) = n
    <2>1. q \in Seq({q[k] : k \in 1 .. n})
      BY <1>2
    <2>2. Len(q) \in Nat /\ 1 .. n = 1 .. Len(q)
      BY <1>2, <2>1, LenProperties
    <2> QED BY <2>2
  <1>3. /\ fn.body.inputs = [k \in DOMAIN s.arcs |-> InputAt(s, f, k)]
        /\ fn.body.outputs = [k \in DOMAIN s.arcs |-> OutputAt(s, f, k)]
    <2>1. fn.body = generateArcOperations(s, f)
      BY DEF FunctionFits
    <2> QED BY <2>1 DEF generateArcOperations, InputAt, OutputAt
  <1>4. Len(fn.body.inputs) = Len(s.arcs)
    BY <1>1, <1>2, <1>3
  <1>5. Len(fn.body.outputs) = Len(s.arcs)
    BY <1>1, <1>2, <1>3
  <1> QED BY <1>1, <1>3, <1>4, <1>5

\* Values are the same in every call with the same arguments and sender.
LEMMA CallValues ==
    ASSUME NEW e, NEW d, d.args = e.args, d.sender = e.sender
    PROVE  /\ \A op : KeyOf(d, op) = KeyOf(e, op)
           /\ \A v : OperandOf(d, v) = OperandOf(e, v)
           /\ ScheduleOf(d) = ScheduleOf(e)
  <1>1. \A v : NameOf(d, v) = NameOf(e, v)
    BY DEF NameOf
  <1>2. ASSUME NEW op
        PROVE  KeyOf(d, op) = KeyOf(e, op)
    BY <1>1 DEF KeyOf
  <1>3. ASSUME NEW v
        PROVE  OperandOf(d, v) = OperandOf(e, v)
    BY <1>1 DEF OperandOf
  <1>4. ScheduleOf(d) = ScheduleOf(e)
    BY DEF ScheduleOf
  <1> QED BY <1>2, <1>3, <1>4

\* The arguments named as numbers are words.
WordArguments(args) == \A p \in DOMAIN args : inferParamType(p) = "uint256" => args[p] \in 0 .. Word

\* So a value that fits is a natural number, and what the runtime finds under its name.
LEMMA NumbersFit ==
    ASSUME NEW e, WordArguments(e.args), NEW v, NamesNumber(e.args, v)
    PROVE  /\ OperandOf(e, v) \in Nat
           /\ ~isNumericLiteral(v) => OperandOf(e, v) = GetInt64(BindingsOf(e.args, e.sender), v)
  <1>1. CASE isNumericLiteral(v)
    BY <1>1 DEF OperandOf, LiteralOf
  <1>2. CASE ~isNumericLiteral(v)
    <2>1. v # <<"caller">> /\ v \in DOMAIN e.args /\ inferParamType(v) = "uint256"
      BY <1>2 DEF NamesNumber
    <2>2. OperandOf(e, v) = e.args[v]
      BY <1>2, <2>1 DEF OperandOf, NameOf
    <2>3. e.args[v] \in 0 .. Word
      BY <2>1 DEF WordArguments
    <2>4. GetInt64(BindingsOf(e.args, e.sender), v) = e.args[v]
      BY <2>1 DEF GetInt64, BindingsOf
    <2> QED BY <2>2, <2>3, <2>4, WordAssumption
  <1> QED BY <1>1, <1>2

\* What a call of a function that fits says of its statements.
LEMMA FitStatements ==
    ASSUME NEW s, NEW f, NEW fn, NEW e, FitCall(s, f, fn, e)
    PROVE  /\ WordArguments(e.args)
           /\ \A k \in DOMAIN s.arcs : Fits(s, e, fn.body.inputs[k]) /\ Fits(s, e, fn.body.outputs[k])
  <1> DEFINE d == [args |-> e.args, sender |-> e.sender]
  <1>1. WordArguments(e.args)
    BY DEF FitCall, FunctionFits, WordArguments
  <1>2. ASSUME NEW k \in DOMAIN s.arcs
        PROVE  Fits(s, d, fn.body.inputs[k]) /\ Fits(s, d, fn.body.outputs[k])
    BY DEF FitCall, FunctionFits
  <1>3. ASSUME NEW op, Fits(s, d, op)
        PROVE  Fits(s, e, op)
    <2>1. d.args = e.args /\ d.sender = e.sender
      OBVIOUS
    <2> HIDE DEF d
    <2> QED BY <1>3, <2>1, CallValues DEF Fits
  <1> QED BY <1>1, <1>2, <1>3

\* So they can be made of the call.
LEMMA BodyMakes ==
    ASSUME NEW s, NEW f, NEW fn, NEW e, FitCall(s, f, fn, e)
    PROVE  /\ AllMake(s, e, fn.body.inputs)
           /\ AllMake(s, e, fn.body.outputs)
  <1>1. Sound(s) /\ f \in ActionIDs(s) /\ FunctionFits(s, f, fn)
    BY DEF FitCall
  <1>2. ASSUME NEW op, Fits(s, e, op), op.do # "none", op.place \in StateIDs(s),
               \/ op.do \in {"-=", "+=", "=", "schedule"}
               \/ op.do = "delete" /\ ValueType(TypeOf(s, op.place)) = <<"VestingSchedule">>
        PROVE  Makes(s, e, op)
    <2> DEFINE type == TypeOf(s, op.place)
    <2>1. /\ KeyOf(e, op) \in KeySpace(type)
          /\ op.do \in {"-=", "+="} => Numeric(type) /\ NamesNumber(e.args, op.value)
          /\ op.do = "=" => OperandOf(e, op.value) \in ValuesOf(type)
          /\ op.do = "schedule" => ScheduleOf(e) \in ValuesOf(type)
      BY <1>2 DEF Fits, TypeOf
    <2>2. op.do \in {"-=", "+="} => OperandOf(e, op.value) \in Nat
      BY <2>1, FitStatements, NumbersFit
    <2>3. op.do = "delete" => VestingSchedule(0, 0, 0, 0, FALSE) \in ValuesOf(type)
      <3> SUFFICES ASSUME ValueType(type) = <<"VestingSchedule">>
                   PROVE  VestingSchedule(0, 0, 0, 0, FALSE) \in ValuesOf(type)
        BY <1>2
      <3>1. <<"VestingSchedule">> # <<"bool">> /\ <<"VestingSchedule">> # <<"address">>
        OBVIOUS
      <3>2. ValuesOf(type) = [start : 0 .. Word, cliff : 0 .. Word, end : 0 .. Word, total : 0 .. Word,
                              revocable : BOOLEAN, revokedAt : {0}]
        <4> HIDE DEF type
        <4> QED BY <3>1 DEF ValuesOf
      <3>3. 0 \in 0 .. Word
        BY WordAssumption
      <3> QED BY <3>2, <3>3 DEF VestingSchedule
    <2> QED BY <1>2, <2>1, <2>2, <2>3 DEF Makes
  <1>3. ASSUME NEW k \in 1 .. Len(s.arcs)
        PROVE  Makes(s, e, fn.body.inputs[k]) /\ Makes(s, e, fn.body.outputs[k])
    <2> DEFINE arc == s.arcs[k]
    <2>1. /\ fn.body.inputs[k] = InputAt(s, f, k) /\ fn.body.outputs[k] = OutputAt(s, f, k)
          /\ k \in DOMAIN s.arcs
      BY <1>1, BodyStatements
    <2>2. Fits(s, e, InputAt(s, f, k)) /\ Fits(s, e, OutputAt(s, f, k))
      BY <2>1, FitStatements
    <2>3. Makes(s, e, InputAt(s, f, k))
      <3>1. CASE IsInput(s, k, f)
        <4> DEFINE op == inputOp(s, f, arc)
        <4>1. op = InputAt(s, f, k) /\ arc.source \in StateIDs(s)
          BY <1>1, <2>1, <3>1, ArcEnds DEF InputAt
        <4>2. ForInput(s, f, arc, op)
          BY InputStatement
        <4> HIDE DEF op
        <4>3. CASE op.do = "none"
          BY <4>1, <4>3 DEF Makes
        <4>4. CASE op.do # "none"
          BY <1>2, <2>2, <4>1, <4>2, <4>4 DEF ForInput
        <4> QED BY <4>3, <4>4
      <3>2. CASE ~IsInput(s, k, f)
        BY <3>2 DEF InputAt, NoStatement, Makes
      <3> QED BY <3>1, <3>2
    <2>4. Makes(s, e, OutputAt(s, f, k))
      <3>1. CASE IsOutput(s, k, f)
        <4> DEFINE op == outputOp(s, arc)
        <4>1. op = OutputAt(s, f, k) /\ arc.target \in StateIDs(s)
          BY <1>1, <2>1, <3>1, ArcEnds DEF OutputAt
        <4>2. ForOutput(s, arc, op)
          BY OutputStatement
        <4> HIDE DEF op
        <4>3. CASE op.do = "none"
          BY <4>1, <4>3 DEF Makes
        <4>4. CASE op.do # "none"
          BY <1>2, <2>2, <4>1, <4>2, <4>4 DEF ForOutput
        <4> QED BY <4>3, <4>4
      <3>2. CASE ~IsOutput(s, k, f)
        BY <3>2 DEF OutputAt, NoStatement, Makes
      <3> QED BY <3>1, <3>2
    <2> QED BY <2>1, <2>3, <2>4
  <1>4. Len(fn.body.inputs) = Len(s.arcs) /\ Len(fn.body.outputs) = Len(s.arcs)
    BY <1>1, BodyStatements
  <1> QED BY <1>3, <1>4 DEF AllMake

-----------------------------------------------------------------------------
(* A body is alike what the runtime does for the same arcs. *)

\* The bindings of a call.
Bound(e) == BindingsOf(e.args, e.sender)

LEMMA CountedTypes ==
    ASSUME NEW s, Sound(s)
    PROVE  /\ \A p \in TokenPlaces(s) : ~IsMap(TypeOf(s, p))
           /\ \A m \in WordMaps(s) : /\ IsMap(TypeOf(s, m)) /\ ValueType(TypeOf(s, m)) = <<"uint256">>
                                     /\ IsData(StateByID(s, m))
  <1>1. ASSUME NEW p \in TokenPlaces(s)
        PROVE  ~IsMap(TypeOf(s, p))
    <2>1. PICK k \in DOMAIN s.states : IsToken(s.states[k]) /\ p = s.states[k].id
      BY DEF TokenPlaces
    <2> QED BY <2>1, StateFound DEF TypeOf, Sound
  <1>2. ASSUME NEW m \in WordMaps(s)
        PROVE  /\ IsMap(TypeOf(s, m)) /\ ValueType(TypeOf(s, m)) = <<"uint256">>
               /\ IsData(StateByID(s, m))
    <2>1. PICK k \in DOMAIN s.states : CountsWords(s.states[k]) /\ m = s.states[k].id
      BY DEF WordMaps, ToSet
    <2>2. StateByID(s, m) = s.states[k]
      BY <2>1, StateFound
    <2> QED BY <2>1, <2>2 DEF TypeOf, CountsWords
  <1> QED BY <1>1, <1>2

\* The weight of an arc is a natural number,
LEMMA WeightsAreNatural ==
    ASSUME NEW e, WordArguments(e.args), NEW arc
    PROVE  arcWeight(arc, Bound(e)) \in Nat
  <1>1. CASE arc.value = <<>>
    BY <1>1, UnitWeight
  <1>2. CASE arc.value # <<>> /\ isNumericLiteral(arc.value)
    BY <1>2 DEF arcWeight, LiteralOf
  <1>3. CASE arc.value # <<>> /\ ~isNumericLiteral(arc.value)
    <2> DEFINE v == arc.value
    <2>1. arcWeight(arc, Bound(e)) = GetInt64(Bound(e), v)
      BY <1>3 DEF arcWeight
    <2>2. CASE v \in DOMAIN Bound(e) /\ inferParamType(v) = "uint256"
      <3>1. v # <<"caller">>
        BY <2>2 DEF inferParamType
      <3>2. v \in DOMAIN e.args /\ Bound(e)[v] = e.args[v]
        BY <2>2, <3>1 DEF Bound, BindingsOf
      <3>3. e.args[v] \in 0 .. Word
        BY <2>2, <3>2 DEF WordArguments
      <3> QED BY <2>1, <2>2, <3>2, <3>3, WordAssumption DEF GetInt64
    <2>3. CASE ~(v \in DOMAIN Bound(e) /\ inferParamType(v) = "uint256")
      BY <2>1, <2>3 DEF GetInt64
    <2> QED BY <2>2, <2>3
  <1> QED BY <1>1, <1>2, <1>3

\* that of an arc of a scalar what its statement moves, and so is the amount of an arc
\* of a map when it is a name.
LEMMA AmountsAlike ==
    ASSUME NEW e, WordArguments(e.args), NEW arc, NEW st, NamesNumber(e.args, StatementValue(arc, st))
    PROVE  /\ ~IsMap(st.type) => arcWeight(arc, Bound(e)) = OperandOf(e, StatementValue(arc, st))
           /\ IsMap(st.type) /\ ~isNumericLiteral(arc.value) =>
                GetInt64(Bound(e), ValueName(arc)) = OperandOf(e, StatementValue(arc, st))
  <1> DEFINE v == StatementValue(arc, st)
  <1>1. ~isNumericLiteral(v) => OperandOf(e, v) = GetInt64(Bound(e), v)
    BY NumbersFit DEF Bound
  <1>2. CASE ~IsMap(st.type)
    <2>1. CASE arc.value = <<>>
      <3>1. v = <<"1">>
        BY <1>2, <2>1 DEF StatementValue, DefaultValue
      <3>2. OperandOf(e, <<"1">>) = 1
        BY DEF OperandOf, isNumericLiteral, Decimals, LiteralOf
      <3> QED BY <1>2, <2>1, <3>1, <3>2, UnitWeight
    <2>2. CASE arc.value # <<>>
      <3>1. v = arc.value
        BY <2>2 DEF StatementValue
      <3>2. CASE isNumericLiteral(v)
        BY <1>2, <2>2, <3>1, <3>2 DEF arcWeight, OperandOf
      <3>3. CASE ~isNumericLiteral(v)
        BY <1>1, <1>2, <2>2, <3>1, <3>3 DEF arcWeight
      <3> QED BY <3>2, <3>3
    <2> QED BY <2>1, <2>2
  <1>3. CASE IsMap(st.type) /\ ~isNumericLiteral(arc.value)
    <2>1. v = ValueName(arc)
      BY <1>3 DEF StatementValue, DefaultValue, ValueName
    <2>2. ~isNumericLiteral(v)
      <3>1. ~isNumericLiteral(<<"amount">>)
        BY DEF isNumericLiteral, Decimals
      <3> QED BY <1>3, <2>1, <3>1 DEF ValueName
    <2> QED BY <1>1, <1>3, <2>1, <2>2
  <1> QED BY <1>2, <1>3

\* Keys that a call names are found under the same names.
LEMMA KeysAlike ==
    ASSUME NEW e, NEW op, \A k \in DOMAIN op.keys : op.keys[k] \in DOMAIN e.args \cup {<<"caller">>}
    PROVE  GetKeys(Bound(e), op.keys) = KeyOf(e, op)
  <1>1. DOMAIN Bound(e) = DOMAIN e.args \cup {<<"caller">>}
    BY DEF Bound, BindingsOf
  <1>2. ASSUME NEW x \in DOMAIN Bound(e)
        PROVE  Bound(e)[x] = NameOf(e, x)
    BY DEF Bound, BindingsOf, NameOf
  <1>3. GetKeys(Bound(e), op.keys) = [k \in DOMAIN op.keys |-> Bound(e)[op.keys[k]]]
    BY <1>1 DEF GetKeys
  <1>4. ASSUME NEW k \in DOMAIN op.keys
        PROVE  Bound(e)[op.keys[k]] = NameOf(e, op.keys[k])
    BY <1>1, <1>2
  <1> QED BY <1>3, <1>4 DEF KeyOf

\* The maps in which the runtime keeps the same words.
SameMaps(s, M) == M \subseteq WordMaps(s) /\ (M # {} => ~KeyedLiterals(s))

\* A statement about one of them has keys, and its arc no literal.
LEMMA MapArcs ==
    ASSUME NEW s, Sound(s), CountsAlong(s), NEW M, SameMaps(s, M), NEW k \in DOMAIN s.arcs,
           NEW e, NEW op, Fits(s, e, op), Touches(op, M), op.keys = s.arcs[k].keys
    PROVE  /\ s.arcs[k].keys # <<>> /\ ~isNumericLiteral(s.arcs[k].value)
           /\ GetKeys(Bound(e), s.arcs[k].keys) = KeyOf(e, op)
  <1>1. op.do # "none" /\ op.place \in WordMaps(s) /\ ~KeyedLiterals(s)
    BY DEF Touches, SameMaps
  <1>2. /\ \A j \in DOMAIN op.keys : op.keys[j] \in DOMAIN e.args \cup {<<"caller">>}
        /\ KeyOf(e, op) \in KeySpace(TypeOf(s, op.place))
    BY <1>1 DEF Fits, TypeOf
  <1>3. KeyOf(e, op) # <<>>
    BY <1>1, <1>2, NumbersOf DEF NumberStates
  <1>4. op.keys # <<>>
    <2> SUFFICES ASSUME op.keys = <<>>
                 PROVE  KeyOf(e, op) = <<>>
      BY <1>3
    <2> QED BY DEF KeyOf
  <1>5. ~isNumericLiteral(s.arcs[k].value)
    BY <1>1, <1>4 DEF KeyedLiterals
  <1> QED BY <1>2, <1>4, <1>5, KeysAlike

\* An input arc takes the same from the contract and from the runtime,
LEMMA InputAlike ==
    ASSUME NEW s, Sound(s), CountsAlong(s), NEW f, NEW M, SameMaps(s, M),
           NEW e, WordArguments(e.args), NEW k \in DOMAIN s.arcs,
           NEW op, op = InputAt(s, f, k), Fits(s, e, op),
           NEW c, c.place = s.arcs[k].source,
                  c.n = IF IsInput(s, k, f) THEN 0 - arcWeight(s.arcs[k], Bound(e)) ELSE 0,
           NEW g, g.place = s.arcs[k].source,
                  g.keys = GetKeys(Bound(e), s.arcs[k].keys),
                  g.n = IF IsInput(s, k, f) /\ ~ReadArc(s, f, s.arcs[k])
                        THEN 0 - GetInt64(Bound(e), ValueName(s.arcs[k])) ELSE 0
    PROVE  TokenAlike(s, e, op, c) /\ EntryAlike(M, e, op, g)
  <1> DEFINE arc == s.arcs[k]
             st == StateByID(s, arc.source)
             type == TypeOf(s, arc.source)
  <1>1. CASE IsInput(s, k, f)
    <2>1. ForInput(s, f, arc, op)
      BY <1>1, InputStatement DEF InputAt
    <2> HIDE DEF arc
    <2>2. ASSUME op.do = "-="
          PROVE  op.place = arc.source /\ op.keys = arc.keys /\ op.value = StatementValue(arc, st)
                 /\ NamesNumber(e.args, op.value)
      BY <2>1, <2>2 DEF ForInput, Fits
    <2>3. IsMap(type) /\ IsData(st) => (isReadArc(s, f, arc) <=> ReadArc(s, f, arc))
      BY DEF isReadArc, ReadArc, TypeOf
    <2>4. ASSUME arc.source \in TokenPlaces(s)
          PROVE  op.do = "-=" /\ c.n = Amount(e, op)
      <3>1. ~IsMap(type)
        BY <2>4, CountedTypes
      <3>2. ~isReadArc(s, f, arc)
        BY <3>1 DEF isReadArc, TypeOf
      <3>3. op.do = "-="
        BY <2>1, <3>1, <3>2 DEF ForInput, CountedType
      <3>4. arcWeight(arc, Bound(e)) = OperandOf(e, op.value)
        BY <2>2, <3>1, <3>3, AmountsAlike DEF TypeOf
      <3> QED BY <1>1, <3>3, <3>4 DEF Amount, arc
    <2>5. ASSUME Touches(op, M)
          PROVE  op.do = "-=" /\ g.keys = KeyOf(e, op) /\ g.n = Amount(e, op)
      <3>1. op.do # "none" /\ op.place \in M /\ op.place \in WordMaps(s)
        BY <2>5 DEF Touches, SameMaps
      <3>2. op.place = arc.source /\ op.keys = arc.keys /\ ~isReadArc(s, f, arc)
        BY <2>1, <3>1 DEF ForInput
      <3>3. IsMap(type) /\ ValueType(type) = <<"uint256">> /\ IsData(st)
        BY <3>1, <3>2, CountedTypes
      <3>4. op.do = "-=" /\ ~ReadArc(s, f, arc)
        BY <2>1, <2>3, <3>2, <3>3 DEF ForInput, CountedType
      <3>5. ~isNumericLiteral(arc.value) /\ g.keys = KeyOf(e, op)
        BY <2>5, <3>2, MapArcs DEF arc
      <3>6. GetInt64(Bound(e), ValueName(arc)) = OperandOf(e, op.value)
        BY <2>2, <3>3, <3>4, <3>5, AmountsAlike DEF TypeOf
      <3> QED BY <1>1, <3>4, <3>5, <3>6 DEF Amount, arc
    <2>6. ASSUME arc.source \in M, ~Touches(op, M)
          PROVE  g.n = 0
      <3>1. op.do = "none"
        BY <2>1, <2>6 DEF ForInput, Touches
      <3>2. IsMap(type) /\ ValueType(type) = <<"uint256">> /\ IsData(st)
        BY <2>6, CountedTypes DEF SameMaps
      <3>3. isReadArc(s, f, arc)
        BY <2>1, <3>1, <3>2 DEF ForInput, CountedType
      <3>4. ReadArc(s, f, arc)
        BY <2>3, <3>2, <3>3
      <3> QED BY <3>4 DEF arc
    <2>7. op.do # "none" => op.place = arc.source
      BY <2>1 DEF ForInput
    <2>8. TokenAlike(s, e, op, c)
      <3>1. c.place = arc.source
        BY DEF arc
      <3> QED BY <2>4, <2>7, <3>1 DEF TokenAlike, Touches
    <2>9. EntryAlike(M, e, op, g)
      <3>1. g.place = arc.source
        BY DEF arc
      <3>2. Touches(op, M) => op.place = arc.source
        BY <2>7 DEF Touches
      <3> QED BY <2>5, <2>6, <3>1, <3>2 DEF EntryAlike
    <2> QED BY <2>8, <2>9
  <1>2. CASE ~IsInput(s, k, f)
    <2>1. op.do = "none"
      BY <1>2 DEF InputAt, NoStatement
    <2> QED BY <1>2, <2>1 DEF TokenAlike, EntryAlike, Touches
  <1> QED BY <1>1, <1>2

\* and an output arc gives the same to them.
LEMMA OutputAlike ==
    ASSUME NEW s, Sound(s), CountsAlong(s), NEW f, NEW M, SameMaps(s, M),
           NEW e, WordArguments(e.args), NEW k \in DOMAIN s.arcs,
           NEW op, op = OutputAt(s, f, k), Fits(s, e, op),
           NEW c, c.place = s.arcs[k].target,
                  c.n = IF IsOutput(s, k, f) THEN arcWeight(s.arcs[k], Bound(e)) ELSE 0,
           NEW g, g.place = s.arcs[k].target,
                  g.keys = GetKeys(Bound(e), s.arcs[k].keys),
                  g.n = IF IsOutput(s, k, f) THEN GetInt64(Bound(e), ValueName(s.arcs[k])) ELSE 0
    PROVE  TokenAlike(s, e, op, c) /\ EntryAlike(M, e, op, g)
  <1> DEFINE arc == s.arcs[k]
             st == StateByID(s, arc.target)
             type == TypeOf(s, arc.target)
  <1>1. CASE IsOutput(s, k, f)
    <2>1. ForOutput(s, arc, op)
      BY <1>1, OutputStatement DEF OutputAt
    <2> HIDE DEF arc
    <2>2. ASSUME op.do = "+="
          PROVE  op.place = arc.target /\ op.keys = arc.keys /\ op.value = StatementValue(arc, st)
                 /\ NamesNumber(e.args, op.value)
      BY <2>1, <2>2 DEF ForOutput, Fits
    <2>3. ASSUME arc.target \in TokenPlaces(s)
          PROVE  op.do = "+=" /\ c.n = Amount(e, op)
      <3>1. ~IsMap(type)
        BY <2>3, CountedTypes
      <3>2. op.do = "+="
        BY <2>1, <3>1 DEF ForOutput, CountedType
      <3>3. arcWeight(arc, Bound(e)) = OperandOf(e, op.value)
        BY <2>2, <3>1, <3>2, AmountsAlike DEF TypeOf
      <3> QED BY <1>1, <3>2, <3>3 DEF Amount, arc
    <2>4. ASSUME arc.target \in M
          PROVE  op.do = "+=" /\ g.keys = KeyOf(e, op) /\ g.n = Amount(e, op)
      <3>1. IsMap(type) /\ ValueType(type) = <<"uint256">>
        BY <2>4, CountedTypes DEF SameMaps
      <3>2. op.do = "+=" /\ op.place = arc.target /\ op.keys = arc.keys
        BY <2>1, <2>2, <3>1 DEF ForOutput, CountedType
      <3>3. ~isNumericLiteral(arc.value) /\ g.keys = KeyOf(e, op)
        BY <2>4, <3>2, MapArcs DEF arc, Touches
      <3>4. GetInt64(Bound(e), ValueName(arc)) = OperandOf(e, op.value)
        BY <2>2, <3>1, <3>2, <3>3, AmountsAlike DEF TypeOf
      <3> QED BY <1>1, <3>2, <3>3, <3>4 DEF Amount, arc
    <2>5. op.do # "none" => op.place = arc.target
      BY <2>1 DEF ForOutput
    <2>6. c.place = arc.target /\ g.place = arc.target
      BY DEF arc
    <2> QED BY <2>3, <2>4, <2>5, <2>6 DEF TokenAlike, EntryAlike, Touches
  <1>2. CASE ~IsOutput(s, k, f)
    <2>1. op.do = "none"
      BY <1>2 DEF OutputAt, NoStatement
    <2> QED BY <1>2, <2>1 DEF TokenAlike, EntryAlike, Touches
  <1> QED BY <1>1, <1>2

\* So the inputs are alike, and the outputs.
LEMMA BodiesAlike ==
    ASSUME NEW s, NEW f, NEW fn, NEW e, FitCall(s, f, fn, e), CountsAlong(s), NEW M, SameMaps(s, M)
    PROVE  /\ TokensAlike(s, e, fn.body.inputs, Taken(s, f, Weights(s, Bound(e))))
           /\ EntriesAlike(M, e, fn.body.inputs, DataTaken(s, f, Bound(e)))
           /\ TokensAlike(s, e, fn.body.outputs, Given(s, f, Weights(s, Bound(e))))
           /\ EntriesAlike(M, e, fn.body.outputs, DataGiven(s, f, Bound(e)))
  <1> DEFINE n == Len(s.arcs)
             w == Weights(s, Bound(e))
             c == Taken(s, f, w)
             d == Given(s, f, w)
             g == DataTaken(s, f, Bound(e))
             h == DataGiven(s, f, Bound(e))
  <1>1. Sound(s) /\ ArcLists(s) /\ f \in ActionIDs(s) /\ FunctionFits(s, f, fn) /\ WordArguments(e.args)
    BY FitStatements DEF FitCall, Sound, ArcLists
  <1>2. /\ n \in Nat /\ DOMAIN s.arcs = 1 .. n
        /\ Len(fn.body.inputs) = n /\ Len(fn.body.outputs) = n
    BY <1>1, BodyStatements
  <1>3. Len(c) = n /\ Len(d) = n
    BY <1>1, ArcChanges
  <1>4. Len(g) = n /\ Len(h) = n
    <2>1. ASSUME NEW q, DOMAIN q = 1 .. n, q = [k \in 1 .. n |-> q[k]]
          PROVE  Len(q) = n
      <3>1. q \in Seq({q[k] : k \in 1 .. n})
        BY <1>2, <2>1
      <3>2. Len(q) \in Nat /\ 1 .. n = 1 .. Len(q)
        BY <2>1, <3>1, LenProperties
      <3> QED BY <1>2, <3>2
    <2>2. Len(g) = n
      BY <1>2, <2>1 DEF DataTaken
    <2>3. Len(h) = n
      BY <1>2, <2>1 DEF DataGiven
    <2> QED BY <2>2, <2>3
  <1>5. Weighs(s, TokenPlaces(s), w)
    <2>1. ASSUME NEW k \in DOMAIN s.arcs
          PROVE  w[k] \in Int
      BY <1>1, WeightsAreNatural DEF Weights
    <2> QED BY <2>1 DEF Weighs
  <1>6. ChangesOf(TokenPlaces(s), c) /\ ChangesOf(TokenPlaces(s), d)
    BY <1>1, <1>5, ArcChangesOf
  <1>7. ASSUME NEW k \in 1 .. n
        PROVE  /\ TokenAlike(s, e, fn.body.inputs[k], c[k]) /\ EntryAlike(M, e, fn.body.inputs[k], g[k])
               /\ TokenAlike(s, e, fn.body.outputs[k], d[k]) /\ EntryAlike(M, e, fn.body.outputs[k], h[k])
    <2>1. /\ fn.body.inputs[k] = InputAt(s, f, k) /\ Fits(s, e, fn.body.inputs[k])
          /\ fn.body.outputs[k] = OutputAt(s, f, k) /\ Fits(s, e, fn.body.outputs[k])
          /\ k \in DOMAIN s.arcs
      BY <1>1, <1>2, BodyStatements, FitStatements
    <2>2. /\ c[k].place = s.arcs[k].source /\ d[k].place = s.arcs[k].target
          /\ c[k].n = IF IsInput(s, k, f) THEN 0 - arcWeight(s.arcs[k], Bound(e)) ELSE 0
          /\ d[k].n = IF IsOutput(s, k, f) THEN arcWeight(s.arcs[k], Bound(e)) ELSE 0
      BY <2>1 DEF Taken, Given, Weights, IsInput, IsOutput
    <2>3. /\ g[k].place = s.arcs[k].source /\ g[k].keys = GetKeys(Bound(e), s.arcs[k].keys)
          /\ g[k].n = IF IsInput(s, k, f) /\ ~ReadArc(s, f, s.arcs[k])
                      THEN 0 - GetInt64(Bound(e), ValueName(s.arcs[k])) ELSE 0
      BY <2>1 DEF DataTaken
    <2>4. /\ h[k].place = s.arcs[k].target /\ h[k].keys = GetKeys(Bound(e), s.arcs[k].keys)
          /\ h[k].n = IF IsOutput(s, k, f) THEN GetInt64(Bound(e), ValueName(s.arcs[k])) ELSE 0
      BY <2>1 DEF DataGiven
    <2> DEFINE ci == c[k]
               di == d[k]
               gi == g[k]
               hi == h[k]
    <2>5. TokenAlike(s, e, fn.body.inputs[k], ci) /\ EntryAlike(M, e, fn.body.inputs[k], gi)
      <3>1. /\ ci.place = s.arcs[k].source
            /\ ci.n = IF IsInput(s, k, f) THEN 0 - arcWeight(s.arcs[k], Bound(e)) ELSE 0
        BY <2>2
      <3>2. /\ gi.place = s.arcs[k].source /\ gi.keys = GetKeys(Bound(e), s.arcs[k].keys)
            /\ gi.n = IF IsInput(s, k, f) /\ ~ReadArc(s, f, s.arcs[k])
                      THEN 0 - GetInt64(Bound(e), ValueName(s.arcs[k])) ELSE 0
        BY <2>3
      <3> HIDE DEF ci, gi
      <3> QED BY <1>1, <2>1, <3>1, <3>2, InputAlike
    <2>6. TokenAlike(s, e, fn.body.outputs[k], di) /\ EntryAlike(M, e, fn.body.outputs[k], hi)
      <3>1. /\ di.place = s.arcs[k].target
            /\ di.n = IF IsOutput(s, k, f) THEN arcWeight(s.arcs[k], Bound(e)) ELSE 0
        BY <2>2
      <3>2. /\ hi.place = s.arcs[k].target /\ hi.keys = GetKeys(Bound(e), s.arcs[k].keys)
            /\ hi.n = IF IsOutput(s, k, f) THEN GetInt64(Bound(e), ValueName(s.arcs[k])) ELSE 0
        BY <2>4
      <3> HIDE DEF di, hi
      <3> QED BY <1>1, <2>1, <3>1, <3>2, OutputAlike
    <2> QED BY <2>5, <2>6
  <1> HIDE DEF c, d, g, h
  <1>8. TokensAlike(s, e, fn.body.inputs, c) /\ TokensAlike(s, e, fn.body.outputs, d)
    BY <1>2, <1>3, <1>6, <1>7 DEF TokensAlike
  <1>9. EntriesAlike(M, e, fn.body.inputs, g) /\ EntriesAlike(M, e, fn.body.outputs, h)
    BY <1>2, <1>4, <1>7 DEF EntriesAlike
  <1> QED BY <1>8, <1>9 DEF c, d, g, h

-----------------------------------------------------------------------------
(* A call, in the contract and in the runtime. *)

\* What a body that does not revert leaves is what its outputs leave after its inputs.
LEMMA BodyRuns ==
    ASSUME NEW e, NEW body, Len(body.inputs) \in Nat, Len(body.outputs) \in Nat,
           PerformBody(e, body).ok
    PROVE  \E S, U : /\ Running(e, e.st, body.inputs, S)
                     /\ Running(e, S[Len(body.inputs)], body.outputs, U)
                     /\ U[Len(body.outputs)] = PerformBody(e, body).v
  <1> DEFINE mid == Perform(e, Good(e.st), body.inputs)
  <1>1. PerformBody(e, body) = Perform(e, mid, body.outputs)
    BY DEF PerformBody
  <1> HIDE DEF mid
  <1>2. mid.ok
    BY <1>1, PerformRuns
  <1>3. PICK U : Running(e, mid.v, body.outputs, U) /\ U[Len(body.outputs)] = Perform(e, mid, body.outputs).v
    BY <1>1, PerformRuns
  <1>4. PICK S : Running(e, Good(e.st).v, body.inputs, S) /\ S[Len(body.inputs)] = mid.v
    BY <1>2, PerformRuns DEF mid
  <1>5. Good(e.st).v = e.st
    BY DEF Good
  <1> QED BY <1>1, <1>3, <1>4, <1>5

\* So it keeps the types of storage, and what is of no arc of the action.
LEMMA BodyKeeps ==
    ASSUME NEW s, NEW f, NEW fn, NEW e, FitCall(s, f, fn, e), Stored(s, e.st),
           PerformBody(e, fn.body).ok
    PROVE  LET now == PerformBody(e, fn.body).v
           IN /\ Stored(s, now)
              /\ DOMAIN now = DOMAIN e.st
              /\ \A q \in DOMAIN e.st : Leaves(fn.body.inputs, q) /\ Leaves(fn.body.outputs, q) => now[q] = e.st[q]
  <1> DEFINE ins == fn.body.inputs
             outs == fn.body.outputs
             now == PerformBody(e, fn.body).v
  <1>1. /\ AllMake(s, e, ins) /\ AllMake(s, e, outs)
        /\ Len(ins) \in Nat /\ Len(outs) \in Nat
    BY BodyMakes, BodyStatements DEF FitCall
  <1>2. PICK S, U : /\ Running(e, e.st, ins, S)
                    /\ Running(e, S[Len(ins)], outs, U)
                    /\ U[Len(outs)] = now
    BY <1>1, BodyRuns
  <1>3. Len(ins) \in 0 .. Len(ins) /\ Len(outs) \in 0 .. Len(outs)
    BY <1>1
  <1> DEFINE mid == S[Len(ins)]
  <1> HIDE DEF ins, outs, now
  <1>4. Keeps(s, e.st, ins, mid)
    BY <1>1, <1>2, <1>3, RunKeeps
  <1>5. Running(e, mid, outs, U) /\ Stored(s, mid)
    BY <1>2, <1>4 DEF Keeps
  <1> HIDE DEF mid
  <1>6. Keeps(s, mid, outs, U[Len(outs)])
    BY <1>1, <1>3, <1>5, RunKeeps
  <1>7. /\ Stored(s, now) /\ DOMAIN now = DOMAIN e.st
        /\ \A q \in DOMAIN e.st : Leaves(ins, q) /\ Leaves(outs, q) => now[q] = e.st[q]
    BY <1>2, <1>4, <1>6 DEF Keeps
  <1> QED BY <1>7 DEF ins, outs, now

\* The statements about what the runtime counts have one value when the action has one
\* amount, which is written.
LEMMA OneValue ==
    ASSUME NEW s, Sound(s), CountsAlong(s), NEW M, SameMaps(s, M), NEW f,
           NEW name, name # <<>>, OneAmount(s, f, name),
           NEW e, NEW k \in DOMAIN s.arcs, NEW op, Fits(s, e, op), Touches(op, TokenPlaces(s) \cup M),
           \/ op = InputAt(s, f, k) /\ op.do = "-="
           \/ op = OutputAt(s, f, k) /\ op.do = "+="
    PROVE  op.value = name
  <1>1. op.do # "none"
    BY DEF Touches
  <1>2. \/ IsInput(s, k, f) /\ op.place = s.arcs[k].source
        \/ IsOutput(s, k, f) /\ op.place = s.arcs[k].target
    <2>1. CASE op = InputAt(s, f, k)
      <3>1. IsInput(s, k, f)
        BY <1>1, <2>1 DEF InputAt, NoStatement
      <3>2. ForInput(s, f, s.arcs[k], op)
        BY <2>1, <3>1, InputStatement DEF InputAt
      <3> QED BY <1>1, <3>1, <3>2 DEF ForInput
    <2>2. CASE op = OutputAt(s, f, k)
      <3>1. IsOutput(s, k, f)
        BY <1>1, <2>2 DEF OutputAt, NoStatement
      <3>2. ForOutput(s, s.arcs[k], op)
        BY <2>2, <3>1, OutputStatement DEF OutputAt
      <3> QED BY <1>1, <3>1, <3>2 DEF ForOutput
    <2> QED BY <2>1, <2>2
  <1>3. op.keys = s.arcs[k].keys /\ op.value = StatementValue(s.arcs[k], StateByID(s, op.place))
    <2>1. CASE op = InputAt(s, f, k) /\ op.do = "-="
      <3>1. IsInput(s, k, f)
        BY <1>1, <2>1 DEF InputAt, NoStatement
      <3>2. ForInput(s, f, s.arcs[k], op)
        BY <2>1, <3>1, InputStatement DEF InputAt
      <3> QED BY <1>1, <2>1, <3>1, <3>2 DEF ForInput
    <2>2. CASE op = OutputAt(s, f, k) /\ op.do = "+="
      <3>1. IsOutput(s, k, f)
        BY <1>1, <2>2 DEF OutputAt, NoStatement
      <3>2. ForOutput(s, s.arcs[k], op)
        BY <2>2, <3>1, OutputStatement DEF OutputAt
      <3> QED BY <1>1, <2>2, <3>1, <3>2 DEF ForOutput
    <2> QED BY <2>1, <2>2
  <1>4. CASE op.place \in TokenPlaces(s)
    <2>1. s.arcs[k].value = name
      BY <1>2, <1>4 DEF OneAmount, TouchesTokens
    <2> QED BY <1>3, <2>1 DEF StatementValue
  <1>5. CASE op.place \in M
    <2>1. Touches(op, M)
      BY <1>1, <1>5 DEF Touches
    <2>2. s.arcs[k].keys # <<>>
      BY <1>3, <2>1, MapArcs
    <2>3. ValueName(s.arcs[k]) = name
      BY <1>2, <2>2 DEF OneAmount
    <2>4. IsMap(StateByID(s, op.place).type)
      BY <1>5, CountedTypes DEF SameMaps, TypeOf
    <2> QED BY <1>3, <2>3, <2>4 DEF StatementValue, DefaultValue, ValueName
  <1> QED BY <1>4, <1>5 DEF Touches

\* A state of storage that a statement of the runtime's arcs changes by nothing.
LEMMA NothingMoved ==
    ASSUME NEW s, NEW f, NEW fn, NEW e, FitCall(s, f, fn, e), CountsAlong(s), NEW M, SameMaps(s, M),
           NEW name, name # <<>>, OneAmount(s, f, name), OperandOf(e, name) = 0
    PROVE  /\ StillIn(TokenPlaces(s) \cup M, e, fn.body.inputs)
           /\ StillIn(TokenPlaces(s) \cup M, e, fn.body.outputs)
  <1> DEFINE Q == TokenPlaces(s) \cup M
  <1>1. Sound(s) /\ FunctionFits(s, f, fn)
    BY DEF FitCall
  <1>2. /\ DOMAIN s.arcs = 1 .. Len(s.arcs)
        /\ Len(fn.body.inputs) = Len(s.arcs) /\ Len(fn.body.outputs) = Len(s.arcs)
    BY <1>1, BodyStatements
  <1>3. /\ TokensAlike(s, e, fn.body.inputs, Taken(s, f, Weights(s, Bound(e))))
        /\ EntriesAlike(M, e, fn.body.inputs, DataTaken(s, f, Bound(e)))
        /\ TokensAlike(s, e, fn.body.outputs, Given(s, f, Weights(s, Bound(e))))
        /\ EntriesAlike(M, e, fn.body.outputs, DataGiven(s, f, Bound(e)))
    BY BodiesAlike
  <1>4. ASSUME NEW k \in 1 .. Len(s.arcs)
        PROVE  /\ fn.body.inputs[k] = InputAt(s, f, k) /\ Fits(s, e, fn.body.inputs[k])
               /\ fn.body.outputs[k] = OutputAt(s, f, k) /\ Fits(s, e, fn.body.outputs[k])
    BY <1>1, <1>2, BodyStatements, FitStatements
  <1>5. ASSUME NEW k \in 1 .. Len(s.arcs), NEW op, op = fn.body.inputs[k], Touches(op, Q)
        PROVE  op.do \in {"-=", "+="} /\ OperandOf(e, op.value) = 0
    <2>1. op.do \in {"-=", "+="}
      BY <1>2, <1>3, <1>5 DEF TokensAlike, EntriesAlike, TokenAlike, EntryAlike, Touches
    <2>2. op = InputAt(s, f, k) /\ Fits(s, e, op) /\ k \in DOMAIN s.arcs
      BY <1>2, <1>4, <1>5
    <2>3. op.do = "-="
      <3>1. IsInput(s, k, f)
        BY <2>1, <2>2 DEF InputAt, NoStatement
      <3>2. ForInput(s, f, s.arcs[k], op)
        BY <2>2, <3>1, InputStatement DEF InputAt
      <3> QED BY <2>1, <3>2 DEF ForInput
    <2>4. op.value = name
      <3> HIDE DEF Q
      <3>1. Touches(op, TokenPlaces(s) \cup M)
        BY <1>5 DEF Q
      <3> QED BY <1>1, <2>2, <2>3, <3>1, OneValue
    <2> QED BY <2>1, <2>4
  <1>6. ASSUME NEW k \in 1 .. Len(s.arcs), NEW op, op = fn.body.outputs[k], Touches(op, Q)
        PROVE  op.do \in {"-=", "+="} /\ OperandOf(e, op.value) = 0
    <2>1. op.do \in {"-=", "+="}
      BY <1>2, <1>3, <1>6 DEF TokensAlike, EntriesAlike, TokenAlike, EntryAlike, Touches
    <2>2. op = OutputAt(s, f, k) /\ Fits(s, e, op) /\ k \in DOMAIN s.arcs
      BY <1>2, <1>4, <1>6
    <2>3. op.do = "+="
      <3>1. IsOutput(s, k, f)
        BY <2>1, <2>2 DEF OutputAt, NoStatement
      <3>2. ForOutput(s, s.arcs[k], op)
        BY <2>2, <3>1, OutputStatement DEF OutputAt
      <3> QED BY <2>1, <3>2 DEF ForOutput
    <2>4. op.value = name
      <3> HIDE DEF Q
      <3>1. Touches(op, TokenPlaces(s) \cup M)
        BY <1>6 DEF Q
      <3> QED BY <1>1, <2>2, <2>3, <3>1, OneValue
    <2> QED BY <2>1, <2>4
  <1> QED BY <1>2, <1>5, <1>6 DEF StillIn

\* An action that the runtime does not run, while the contract accepts it, moves nothing
\* that the runtime counts.
LEMMA NotEnabled ==
    ASSUME NEW s, NEW f, NEW fn, NEW e, FitCall(s, f, fn, e), CountsAlong(s), NEW M, SameMaps(s, M),
           Stored(s, e.st), NEW S, Running(e, e.st, fn.body.inputs, S),
           NEW snap, CountsMatch(s, snap.tokens, e.st), ~Enabled(s, snap, f)
    PROVE  /\ StillIn(TokenPlaces(s) \cup M, e, fn.body.inputs)
           /\ StillIn(TokenPlaces(s) \cup M, e, fn.body.outputs)
  <1>1. Sound(s) /\ FunctionFits(s, f, fn) /\ NumberStates(s) /\ HasAction(s, f)
    BY NumbersOf DEF FitCall, HasAction
  <1>2. /\ DOMAIN s.arcs = 1 .. Len(s.arcs) /\ Len(fn.body.inputs) = Len(s.arcs)
        /\ \A k \in 1 .. Len(s.arcs) : fn.body.inputs[k] = InputAt(s, f, k)
    BY <1>1, BodyStatements
  <1>3. PICK k \in DOMAIN s.arcs : /\ IsInput(s, k, f) /\ s.arcs[k].source \in TokenPlaces(s)
                                   /\ ~(snap.tokens[s.arcs[k].source] >= 1)
    BY <1>1 DEF Enabled
  <1> DEFINE arc == s.arcs[k]
             p == s.arcs[k].source
             op == fn.body.inputs[k]
             st == StateByID(s, p)
  <1>4. op = inputOp(s, f, arc) /\ Fits(s, e, op)
    BY <1>2, <1>3, FitStatements DEF InputAt
  <1>5. ~IsMap(st.type)
    BY <1>1, <1>3, CountedTypes DEF TypeOf
  <1>6. op.do = "-=" /\ op.place = p /\ op.value = StatementValue(arc, st)
    <2>1. ForInput(s, f, arc, op)
      BY <1>4, InputStatement
    <2>2. ~isReadArc(s, f, arc)
      BY <1>5 DEF isReadArc
    <2> HIDE DEF op
    <2> QED BY <1>5, <2>1, <2>2 DEF ForInput, CountedType, TypeOf
  <1>7. AllMake(s, e, fn.body.inputs) /\ TakesOnly(s, fn.body.inputs)
    <2>1. ASSUME NEW j \in 1 .. Len(s.arcs), Touches(fn.body.inputs[j], TokenPlaces(s))
          PROVE  fn.body.inputs[j].do = "-="
      <3> DEFINE io == fn.body.inputs[j]
                 a == s.arcs[j]
      <3>1. io = InputAt(s, f, j) /\ io.do # "none" /\ io.place \in TokenPlaces(s)
        BY <1>2, <2>1 DEF Touches
      <3> HIDE DEF io
      <3>2. IsInput(s, j, f)
        BY <3>1 DEF InputAt, NoStatement
      <3>3. ForInput(s, f, a, io)
        BY <3>1, <3>2, InputStatement DEF InputAt
      <3>4. ~IsMap(TypeOf(s, a.source))
        BY <1>1, <3>1, <3>3, CountedTypes DEF ForInput
      <3>5. ~isReadArc(s, f, a)
        BY <3>1, <3>3 DEF ForInput
      <3> QED BY <3>3, <3>4, <3>5 DEF ForInput, CountedType, io
    <2> QED BY <1>2, <2>1, BodyMakes DEF TakesOnly
  <1>8. e.st[p][<<>>] >= OperandOf(e, op.value)
    <2>1. Touches(op, TokenPlaces(s)) /\ k \in 1 .. Len(fn.body.inputs)
      BY <1>2, <1>3, <1>6 DEF Touches
    <2>2. e.st[op.place][<<>>] >= OperandOf(e, op.value)
      <3> DEFINE ins == fn.body.inputs
      <3>1. AllMake(s, e, ins) /\ TakesOnly(s, ins) /\ Running(e, e.st, ins, S)
        BY <1>7
      <3> HIDE DEF ins
      <3>2. \A j \in 1 .. Len(ins) :
              Touches(ins[j], TokenPlaces(s)) => e.st[ins[j].place][<<>>] >= OperandOf(e, ins[j].value)
        BY <1>1, <3>1, InputsHad
      <3> QED BY <2>1, <3>2 DEF ins
    <2> QED BY <1>6, <2>2
  <1>9. OperandOf(e, op.value) = 0
    <2>1. e.st[p][<<>>] \in 0 .. Word
      BY <1>1, <1>3, PlaceStored
    <2>2. e.st[p][<<>>] = snap.tokens[p]
      BY <1>3 DEF CountsMatch
    <2>3. OperandOf(e, op.value) \in Nat
      <3>1. NamesNumber(e.args, op.value)
        BY <1>4, <1>6 DEF Fits
      <3> QED BY <3>1, FitStatements, NumbersFit
    <2> QED BY <1>3, <1>8, <2>1, <2>2, <2>3
  <1>10. arc.value # <<>>
    <2> SUFFICES ASSUME arc.value = <<>>
                 PROVE  OperandOf(e, op.value) = 1
      BY <1>9
    <2>1. op.value = <<"1">>
      BY <1>5, <1>6 DEF StatementValue, DefaultValue
    <2> QED BY <2>1 DEF OperandOf, isNumericLiteral, Decimals, LiteralOf
  <1>11. op.value = arc.value
    BY <1>6, <1>10 DEF StatementValue
  <1>12. ~(isNumericLiteral(arc.value) /\ LiteralOf(arc.value) >= 1)
    BY <1>9, <1>11 DEF OperandOf
  <1>13. OneAmount(s, f, arc.value)
    <2>1. s.arcs[k].target = f
      BY <1>3 DEF IsInput
    <2> QED BY <1>3, <1>10, <1>12, <2>1 DEF CountsAlong
  <1>14. OperandOf(e, arc.value) = 0
    BY <1>9, <1>11
  <1> HIDE DEF arc
  <1> QED BY <1>10, <1>13, <1>14, NothingMoved

\* A call that the contract accepts leaves the same tokens and the same words in both.
LEMMA CallMatches ==
    ASSUME NEW s, NEW f, NEW fn, NEW e, FitCall(s, f, fn, e), CountsAlong(s), NEW M, SameMaps(s, M),
           Stored(s, e.st), PerformBody(e, fn.body).ok,
           NEW snap, Matches(s, M, snap.tokens, snap.data, e.st)
    PROVE  LET after == ExecuteWithBindings(s, snap, f, Bound(e))
           IN Matches(s, M, after.tokens, after.data, PerformBody(e, fn.body).v)
  <1> DEFINE ins == fn.body.inputs
             outs == fn.body.outputs
             now == PerformBody(e, fn.body).v
             w == Weights(s, Bound(e))
             c == Taken(s, f, w)
             d == Given(s, f, w)
             g == DataTaken(s, f, Bound(e))
             h == DataGiven(s, f, Bound(e))
             after == ExecuteWithBindings(s, snap, f, Bound(e))
  <1>1. /\ AllMake(s, e, ins) /\ AllMake(s, e, outs)
        /\ Len(ins) \in Nat /\ Len(outs) \in Nat
    BY BodyMakes, BodyStatements DEF FitCall
  <1>2. PICK S, U : /\ Running(e, e.st, ins, S)
                    /\ Running(e, S[Len(ins)], outs, U)
                    /\ U[Len(outs)] = now
    BY <1>1, BodyRuns
  <1>3. NumberStates(s) /\ M \subseteq WordMaps(s)
    BY NumbersOf DEF FitCall, SameMaps
  <1>4. Len(ins) \in 0 .. Len(ins)
    BY <1>1
  <1>5. /\ TokensAlike(s, e, ins, c) /\ EntriesAlike(M, e, ins, g)
        /\ TokensAlike(s, e, outs, d) /\ EntriesAlike(M, e, outs, h)
    BY BodiesAlike
  <1> DEFINE mid == S[Len(ins)]
             t == snap.tokens
             data == snap.data
  <1>6. Matches(s, M, t, data, e.st)
    OBVIOUS
  <1>7. CASE Enabled(s, snap, f)
    <2>1. /\ after.tokens = AddTokens(AddTokens(t, c), d)
          /\ after.data = AddEntries(AddEntries(data, g), h)
      BY <1>7 DEF ExecuteWithBindings, applyArcs, MoveTokens, MoveData
    <2> HIDE DEF ins, outs, now, c, d, g, h, after, mid, t, data
    <2>2. Stored(s, mid) /\ Running(e, e.st, ins, S) /\ Running(e, mid, outs, U)
      BY <1>1, <1>2, <1>4, RunKeeps DEF Keeps, mid
    <2> DEFINE t1 == AddTokens(t, c)
               d1 == AddEntries(data, g)
    <2>3. Matches(s, M, t1, d1, mid)
      BY <1>1, <1>3, <1>5, <1>6, <2>2, RunMatches DEF mid
    <2> HIDE DEF t1, d1
    <2>4. Matches(s, M, AddTokens(t1, d), AddEntries(d1, h), U[Len(outs)])
      BY <1>1, <1>3, <1>5, <2>2, <2>3, RunMatches
    <2> QED BY <1>2, <2>1, <2>4 DEF t1, d1, after, now
  <1>8. CASE ~Enabled(s, snap, f)
    <2> DEFINE Q == TokenPlaces(s) \cup M
    <2>1. after = snap
      BY <1>8 DEF ExecuteWithBindings
    <2>2. CountsMatch(s, snap.tokens, e.st)
      BY DEF Matches
    <2>3. StillIn(Q, e, ins) /\ StillIn(Q, e, outs)
      BY <1>2, <1>8, <2>2, NotEnabled
    <2>4. Q \subseteq StateIDs(s)
      BY <1>3 DEF NumberStates
    <2> HIDE DEF ins, outs, now, mid, Q, after
    <2>5. Keeps(s, e.st, ins, mid)
      BY <1>1, <1>2, <1>4, RunKeeps DEF mid
    <2>6. Stored(s, mid) /\ DOMAIN mid = DOMAIN e.st /\ Running(e, mid, outs, U)
      BY <1>2, <2>5 DEF Keeps, mid
    <2>7. SameIn(Q, e.st, mid)
      BY <1>1, <1>2, <2>3, <2>4, RunStill DEF mid
    <2>8. SameIn(Q, mid, U[Len(outs)])
      BY <1>1, <2>3, <2>4, <2>6, RunStill
    <2>9. \A q \in Q : now[q] = e.st[q]
      <3>1. \A q \in Q : q \in DOMAIN e.st
        BY <2>4 DEF Stored
      <3> QED BY <1>2, <2>6, <2>7, <2>8, <3>1 DEF SameIn
    <2>10. Matches(s, M, snap.tokens, snap.data, now)
      <3>1. /\ \A p \in TokenPlaces(s) : now[p] = e.st[p]
            /\ \A m \in M : now[m] = e.st[m]
        BY <2>9 DEF Q
      <3> QED BY <3>1 DEF Matches, CountsMatch, EntriesMatch
    <2> QED BY <2>1, <2>10 DEF after, now
  <1> QED BY <1>7, <1>8

-----------------------------------------------------------------------------
(* A contract and the engines, from call to call. *)

\* The maps in which both keep the same words (Parity).
CountedMaps(s) == IF KeyedLiterals(s) THEN {} ELSE WordMaps(s)

\* What the vote contract stores beside the states of its schema.
PollStored(st) ==
    /\ <<"voteCommitments">> \in DOMAIN st
    /\ DOMAIN st[<<"voteCommitments">>] = {<<n>> : n \in Ids}
    /\ st[<<"pollConfig">>][<<>>] \in 0 .. 2

\* Storage, runtime and petri state fit together: storage is typed, counts are natural,
\* and the contract that is no poll has the numbers of the runtime, which has those of
\* the petri state.
Consistent(c, st, snap, net) ==
    LET s == c.t.schema
    IN /\ Stored(s, st)
       /\ snap.tokens \in [TokenPlaces(s) -> Nat]
       /\ IF IsVoteTemplate(c.t) THEN PollStored(st)
          ELSE Matches(s, CountedMaps(s), snap.tokens, snap.data, st)
       /\ PlainTokens(s) => Counting(s, snap, net) /\ SameTokens(s, snap, net)

LEMMA MapsCounted ==
    ASSUME NEW s
    PROVE  SameMaps(s, CountedMaps(s))
  BY DEF SameMaps, CountedMaps

\* A schema's states as deployed.
LEMMA DeployedStates ==
    ASSUME NEW c, WellTyped(c)
    PROVE  LET s == c.t.schema
               st == Deployed(c.t)
           IN /\ Stored(s, st)
              /\ \A id \in StateIDs(s) : \A k \in KeySpace(TypeOf(s, id)) :
                   st[id][k] = InitialEntry(StateByID(s, id))
              /\ IsVoteTemplate(c.t) => PollStored(st)
  <1> DEFINE s == c.t.schema
             st == Deployed(c.t)
             entry(id) == [k \in KeySpace(StateByID(s, id).type) |-> InitialEntry(StateByID(s, id))]
             more == <<"voteCommitments">>
  <1>0. Sound(s) /\ (IsVoteTemplate(c.t) => VoteStates(s))
    BY DEF WellTyped
  <1>1. /\ StateIDs(s) \subseteq DOMAIN st
        /\ \A id \in StateIDs(s) : st[id] = entry(id)
        /\ IsVoteTemplate(c.t) => more \in DOMAIN st /\ st[more] = [k \in {<<n>> : n \in Ids} |-> 0]
    <2>1. CASE IsVoteTemplate(c.t)
      <3>1. st = [id \in StateIDs(s) \cup {more} |->
                    IF id = more THEN [k \in {<<n>> : n \in Ids} |-> 0] ELSE InitialStorage(s)[id]]
        BY <2>1, Zenon DEF Deployed
      <3>2. more \notin StateIDs(s)
        BY <1>0, <2>1 DEF VoteStates
      <3>3. DOMAIN st = StateIDs(s) \cup {more}
        BY <3>1
      <3>4. ASSUME NEW id \in StateIDs(s)
            PROVE  st[id] = entry(id)
        <4>1. st[id] = InitialStorage(s)[id]
          BY <3>1, <3>2
        <4> QED BY <4>1 DEF InitialStorage
      <3>5. st[more] = [k \in {<<n>> : n \in Ids} |-> 0]
        BY <3>1
      <3> QED BY <3>3, <3>4, <3>5
    <2>2. CASE ~IsVoteTemplate(c.t)
      BY <2>2 DEF Deployed, InitialStorage
    <2> QED BY <2>1, <2>2
  <1> HIDE DEF st
  <1>2. ASSUME NEW id \in StateIDs(s)
        PROVE  InitialEntry(StateByID(s, id)) \in ValuesOf(StateByID(s, id).type)
    <2>1. PICK k \in DOMAIN s.states : id = s.states[k].id
      BY DEF StateIDs
    <2>2. StateByID(s, id) = s.states[k] /\ s.states[k] \in ToSet(s.states)
      BY <1>0, <2>1, StateFound DEF ToSet
    <2> QED BY <2>2 DEF WellTyped
  <1>3. Stored(s, st)
    BY <1>1, <1>2 DEF Stored, StorageTyped
  <1>4. ASSUME NEW id \in StateIDs(s), NEW k \in KeySpace(TypeOf(s, id))
        PROVE  st[id][k] = InitialEntry(StateByID(s, id))
    BY <1>1 DEF TypeOf
  <1>5. ASSUME IsVoteTemplate(c.t)
        PROVE  PollStored(st)
    <2> DEFINE poll == <<"pollConfig">>
    <2>1. /\ poll \in StateIDs(s) /\ StateByID(s, poll).type = <<<<"uint256">>>>
          /\ InitialEntry(StateByID(s, poll)) = 0
      BY <1>0, <1>5 DEF VoteStates
    <2>2. KeySpace(<<<<"uint256">>>>) = {<<>>}
      BY DEF KeySpace, Depth
    <2>3. st[poll][<<>>] = 0
      BY <1>4, <2>1, <2>2 DEF TypeOf
    <2>4. more \in DOMAIN st /\ DOMAIN st[more] = {<<n>> : n \in Ids}
      BY <1>1, <1>5
    <2>5. st[poll][<<>>] \in 0 .. 2
      BY <2>3
    <2> QED BY <2>4, <2>5 DEF PollStored
  <1> QED BY <1>3, <1>4, <1>5 DEF st

\* A deployed contract, a new runtime and a new petri state.
LEMMA ConsistentStart ==
    ASSUME NEW c, WellTyped(c)
    PROVE  Consistent(c, Deployed(c.t), NewSnapshot(c.t.schema), NewState(c.t.schema))
  <1> DEFINE s == c.t.schema
             st == Deployed(c.t)
             snap == NewSnapshot(s)
             P == TokenPlaces(s)
             M == CountedMaps(s)
  <1>1. Sound(s) /\ Stored(s, st)
    BY DeployedStates DEF WellTyped
  <1>2. snap.tokens = [id \in P |-> InitialTokens(StateByID(s, id))]
        /\ snap.data = [id \in WordMaps(s) |->
                          [k \in KeySpace(StateByID(s, id).type) |-> InitialWord(StateByID(s, id), k)]]
    BY DEF NewSnapshot
  <1>3. ASSUME NEW p \in P
        PROVE  /\ InitialTokens(StateByID(s, p)) \in Nat
               /\ InitialTokens(StateByID(s, p)) = StateByID(s, p).initial
               /\ ~IsMap(StateByID(s, p).type)
    <2>1. PICK k \in DOMAIN s.states : IsToken(s.states[k]) /\ p = s.states[k].id
      BY DEF TokenPlaces
    <2>2. StateByID(s, p) = s.states[k]
      BY <1>1, <2>1, StateFound
    <2> QED BY <1>1, <2>1, <2>2 DEF Sound, InitialTokens
  <1>4. snap.tokens \in [P -> Nat]
    BY <1>2, <1>3
  <1>5. ASSUME ~IsVoteTemplate(c.t)
        PROVE  Matches(s, M, snap.tokens, snap.data, st)
    <2>1. CountsAlong(s) /\ NumberStates(s)
      BY <1>1, <1>5, NumbersOf DEF WellTyped
    <2>2. \A type : Numeric(type) => ZeroValue(type) = 0
      BY DEF Numeric, ZeroValue
    <2>3. ASSUME NEW p \in P
          PROVE  snap.tokens[p] = st[p][<<>>]
      <3>1. st[p][<<>>] = InitialEntry(StateByID(s, p))
        BY <2>1, DeployedStates DEF NumberStates
      <3>2. Numeric(StateByID(s, p).type)
        <4>1. PICK k \in DOMAIN s.states : IsToken(s.states[k]) /\ p = s.states[k].id
          BY DEF TokenPlaces
        <4>2. StateByID(s, p) = s.states[k]
          BY <1>1, <4>1, StateFound
        <4> QED BY <2>1, <4>1, <4>2 DEF CountsAlong
      <3>3. InitialEntry(StateByID(s, p)) = StateByID(s, p).initial
        BY <1>3, <2>2, <3>2 DEF InitialEntry
      <3>4. snap.tokens[p] = InitialTokens(StateByID(s, p))
        BY <1>2
      <3> QED BY <1>3, <3>1, <3>3, <3>4
    <2>4. ASSUME NEW m \in WordMaps(s)
          PROVE  /\ m \in DOMAIN snap.data /\ snap.data[m] \in [KeySpace(TypeOf(s, m)) -> Int]
                 /\ \A k \in KeySpace(TypeOf(s, m)) :
                      snap.data[m][k] = st[m][k] + InitialWord(StateByID(s, m), k)
      <3> DEFINE K == KeySpace(TypeOf(s, m))
                 first(k) == InitialWord(StateByID(s, m), k)
      <3>1. IsMap(TypeOf(s, m)) /\ ValueType(TypeOf(s, m)) = <<"uint256">>
        BY <1>1, CountedTypes
      <3>2. InitialEntry(StateByID(s, m)) = 0
        <4>1. Numeric(TypeOf(s, m))
          BY <3>1 DEF Numeric
        <4> QED BY <2>2, <3>1, <4>1 DEF InitialEntry, TypeOf
      <3>3. m \in StateIDs(s)
        BY <2>1 DEF NumberStates
      <3>4. \A k \in K : first(k) \in Nat
        BY <2>1 DEF NumberStates
      <3>5. \A k \in K : st[m][k] = 0
        BY <3>2, <3>3, DeployedStates
      <3>6. m \in DOMAIN snap.data /\ snap.data[m] = [k \in K |-> first(k)]
        BY <1>2 DEF TypeOf
      <3> HIDE DEF K, first, snap, st
      <3>7. /\ m \in DOMAIN snap.data /\ snap.data[m] \in [K -> Int]
            /\ \A k \in K : snap.data[m][k] = st[m][k] + first(k)
        BY <3>4, <3>5, <3>6
      <3> QED BY <3>7 DEF K, first
    <2>5. CountsMatch(s, snap.tokens, st)
      BY <2>3 DEF CountsMatch
    <2>6. EntriesMatch(s, M, snap.data, st)
      BY <2>4 DEF EntriesMatch, CountedMaps
    <2>7. snap.tokens \in [P -> Int]
      BY <1>4
    <2> QED BY <2>5, <2>6, <2>7 DEF Matches
  <1>6. PlainTokens(s) => Counting(s, snap, NewState(s)) /\ SameTokens(s, snap, NewState(s))
    BY <1>1, EnginesStartAlike
  <1>7. IsVoteTemplate(c.t) => PollStored(st)
    BY DeployedStates
  <1> HIDE DEF snap, st
  <1>8. Consistent(c, st, snap, NewState(s))
    BY <1>1, <1>4, <1>5, <1>6, <1>7 DEF Consistent
  <1> QED BY <1>8 DEF snap, st

\* The two states of a poll.
LEMMA PollTypes ==
    ASSUME NEW s, VoteStates(s)
    PROVE  /\ <<"pollConfig">> \in StateIDs(s) /\ <<"nullifiers">> \in StateIDs(s)
           /\ KeySpace(TypeOf(s, <<"pollConfig">>)) = {<<>>}
           /\ ValuesOf(TypeOf(s, <<"pollConfig">>)) = 0 .. Word
           /\ KeySpace(TypeOf(s, <<"nullifiers">>)) = {<<n>> : n \in Ids}
           /\ ValuesOf(TypeOf(s, <<"nullifiers">>)) = BOOLEAN
  <1> DEFINE word == <<<<"uint256">>>>
             used == <<<<"uint256">>, <<"bool">>>>
  <1>1. TypeOf(s, <<"pollConfig">>) = word /\ TypeOf(s, <<"nullifiers">>) = used
    BY DEF VoteStates, TypeOf
  <1>2. KeySpace(word) = {<<>>}
    BY DEF KeySpace, Depth
  <1>3. ValuesOf(word) = 0 .. Word
    <2>1. ValueType(word) = <<"uint256">>
      BY DEF ValueType, Last
    <2> QED BY <2>1 DEF ValuesOf
  <1>4. KeySpace(used) = {<<n>> : n \in Ids}
    <2>1. Depth(used) = 1 /\ KeyValues(used[1]) = Ids
      BY DEF Depth, KeyValues
    <2> HIDE DEF used
    <2> QED BY <2>1 DEF KeySpace
  <1>5. ValuesOf(used) = BOOLEAN
    <2>1. ValueType(used) = <<"bool">>
      BY DEF ValueType, Last
    <2> QED BY <2>1 DEF ValuesOf
  <1> QED BY <1>1, <1>2, <1>3, <1>4, <1>5 DEF VoteStates

\* No function but castVote has a statement about the state of a poll.
LEMMA PollLeft ==
    ASSUME NEW s, VoteStates(s), NEW f, f # <<"castVote">>, NEW fn, NEW e, FitCall(s, f, fn, e),
           NEW q \in {<<"nullifiers">>, <<"pollConfig">>, <<"voteCommitments">>}
    PROVE  Leaves(fn.body.inputs, q) /\ Leaves(fn.body.outputs, q)
  <1>1. Sound(s) /\ f \in ActionIDs(s) /\ FunctionFits(s, f, fn)
    BY DEF FitCall
  <1>2. /\ DOMAIN s.arcs = 1 .. Len(s.arcs)
        /\ Len(fn.body.inputs) = Len(s.arcs) /\ Len(fn.body.outputs) = Len(s.arcs)
        /\ \A k \in 1 .. Len(s.arcs) : /\ fn.body.inputs[k] = InputAt(s, f, k)
                                       /\ fn.body.outputs[k] = OutputAt(s, f, k)
    BY <1>1, BodyStatements
  <1>3. ASSUME NEW k \in DOMAIN s.arcs
        PROVE  /\ s.arcs[k].source = q => s.arcs[k].target = <<"castVote">> \/ s.arcs[k].source \notin StateIDs(s)
               /\ s.arcs[k].target = q => s.arcs[k].source = <<"castVote">> \/ s.arcs[k].target \notin StateIDs(s)
    BY DEF VoteStates
  <1>4. ASSUME NEW k \in 1 .. Len(s.arcs), NEW op, op = InputAt(s, f, k)
        PROVE  op.do = "none" \/ op.place # q
    <2>1. CASE IsInput(s, k, f)
      <3>1. ForInput(s, f, s.arcs[k], op)
        BY <1>4, <2>1, InputStatement DEF InputAt
      <3>2. s.arcs[k].target = f /\ s.arcs[k].source \in StateIDs(s)
        BY <1>1, <1>2, <2>1, ArcEnds DEF IsInput
      <3> QED BY <1>2, <1>3, <3>1, <3>2 DEF ForInput
    <2>2. CASE ~IsInput(s, k, f)
      BY <1>4, <2>2 DEF InputAt, NoStatement
    <2> QED BY <2>1, <2>2
  <1>5. ASSUME NEW k \in 1 .. Len(s.arcs), NEW op, op = OutputAt(s, f, k)
        PROVE  op.do = "none" \/ op.place # q
    <2>1. CASE IsOutput(s, k, f)
      <3>1. ForOutput(s, s.arcs[k], op)
        BY <1>5, <2>1, OutputStatement DEF OutputAt
      <3>2. s.arcs[k].source = f /\ s.arcs[k].target \in StateIDs(s)
        BY <1>1, <1>2, <2>1, ArcEnds DEF IsOutput
      <3> QED BY <1>2, <1>3, <3>1, <3>2 DEF ForOutput
    <2>2. CASE ~IsOutput(s, k, f)
      BY <1>5, <2>2 DEF OutputAt, NoStatement
    <2> QED BY <2>1, <2>2
  <1>6. ASSUME NEW k \in 1 .. Len(s.arcs)
        PROVE  /\ fn.body.inputs[k].do = "none" \/ fn.body.inputs[k].place # q
               /\ fn.body.outputs[k].do = "none" \/ fn.body.outputs[k].place # q
    BY <1>2, <1>4, <1>5
  <1> QED BY <1>2, <1>6 DEF Leaves

\* An accepted call of a function, as a call of its schema that fits.
Accepts(c, f, e, own) ==
    /\ f \in Entrypoints(c.t)
    /\ e.args \in c.functions[f].calls /\ e.sender \in Users
    /\ Transaction(c, f, e, own).ok

LEMMA AcceptedCalls ==
    ASSUME NEW c, WellTyped(c), NEW f, NEW e, NEW own, Accepts(c, f, e, own)
    PROVE  /\ FitCall(c.t.schema, f, c.functions[f], e)
           /\ IsVoteTemplate(c.t) => f # <<"castVote">>
           /\ Admitted(c, f, e, own)
           /\ PerformBody(e, c.functions[f].body).ok
           /\ Transaction(c, f, e, own).v = PollConfig(c.t, f, PerformBody(e, c.functions[f].body).v)
  <1>1. /\ f \in ActionIDs(c.t.schema)
        /\ IsVoteTemplate(c.t) => f # <<"castVote">>
    BY DEF Accepts, Entrypoints
  <1>2. FitCall(c.t.schema, f, c.functions[f], e)
    BY <1>1 DEF Accepts, FitCall, WellTyped
  <1> DEFINE ok == Admitted(c, f, e, own) /\ PerformBody(e, c.functions[f].body).ok
             new == PollConfig(c.t, f, PerformBody(e, c.functions[f].body).v)
  <1>3. Transaction(c, f, e, own) = IF ok THEN Good(new) ELSE Reverted
    BY Zenon DEF Transaction
  <1>4. ok /\ Transaction(c, f, e, own) = Good(new)
    <2> HIDE DEF ok, new
    <2> QED BY <1>3 DEF Accepts, Reverted
  <1>5. Good(new).v = new
    BY DEF Good
  <1> QED BY <1>1, <1>2, <1>4, <1>5

\* What it leaves in storage: typed states, and of a poll all but its status.
LEMMA AcceptedStorage ==
    ASSUME NEW c, WellTyped(c), NEW f, NEW e, NEW own, Accepts(c, f, e, own), Stored(c.t.schema, e.st)
    PROVE  LET s == c.t.schema
               new == Transaction(c, f, e, own).v
           IN /\ Stored(s, new)
              /\ ~IsVoteTemplate(c.t) => new = PerformBody(e, c.functions[f].body).v
              /\ IsVoteTemplate(c.t) =>
                   /\ DOMAIN new = DOMAIN e.st
                   /\ new[<<"nullifiers">>] = e.st[<<"nullifiers">>]
                   /\ <<"voteCommitments">> \in DOMAIN e.st => new[<<"voteCommitments">>] = e.st[<<"voteCommitments">>]
                   /\ new[<<"pollConfig">>][<<>>] = IF f = <<"createPoll">> THEN 1
                                                    ELSE IF f = <<"closePoll">> THEN 2
                                                    ELSE e.st[<<"pollConfig">>][<<>>]
  <1> DEFINE s == c.t.schema
             body == PerformBody(e, c.functions[f].body).v
             new == Transaction(c, f, e, own).v
             poll == <<"pollConfig">>
  <1>1. /\ FitCall(s, f, c.functions[f], e) /\ PerformBody(e, c.functions[f].body).ok
        /\ new = PollConfig(c.t, f, body)
        /\ IsVoteTemplate(c.t) => f # <<"castVote">> /\ VoteStates(s)
    BY AcceptedCalls DEF WellTyped
  <1>2. /\ Stored(s, body) /\ DOMAIN body = DOMAIN e.st
        /\ \A q \in DOMAIN e.st : Leaves(c.functions[f].body.inputs, q)
                                  /\ Leaves(c.functions[f].body.outputs, q) => body[q] = e.st[q]
    BY <1>1, BodyKeeps
  <1> HIDE DEF body, new
  <1>3. CASE ~IsVoteTemplate(c.t)
    <2>1. new = body
      BY <1>1, <1>3 DEF PollConfig
    <2> QED BY <1>2, <1>3, <2>1 DEF new, body
  <1>4. CASE IsVoteTemplate(c.t)
    <2>1. ASSUME NEW q \in {<<"nullifiers">>, poll, <<"voteCommitments">>}, q \in DOMAIN e.st
          PROVE  body[q] = e.st[q]
      BY <1>1, <1>2, <1>4, <2>1, PollLeft
    <2>2. /\ poll \in StateIDs(s) /\ KeySpace(TypeOf(s, poll)) = {<<>>}
          /\ ValuesOf(TypeOf(s, poll)) = 0 .. Word
          /\ <<"nullifiers">> \in StateIDs(s)
      BY <1>1, <1>4, PollTypes
    <2>3. poll \in DOMAIN e.st /\ <<"nullifiers">> \in DOMAIN e.st
      BY <2>2 DEF Stored
    <2>4. /\ body[poll] = e.st[poll] /\ body[<<"nullifiers">>] = e.st[<<"nullifiers">>]
          /\ <<"voteCommitments">> \in DOMAIN e.st => body[<<"voteCommitments">>] = e.st[<<"voteCommitments">>]
      BY <2>1, <2>3
    <2>5. ASSUME NEW v \in {1, 2}, new = Put(body, poll, <<>>, v)
          PROVE  /\ Stored(s, new) /\ DOMAIN new = DOMAIN e.st /\ new[poll][<<>>] = v
                 /\ new[<<"nullifiers">>] = e.st[<<"nullifiers">>]
                 /\ <<"voteCommitments">> \in DOMAIN e.st => new[<<"voteCommitments">>] = e.st[<<"voteCommitments">>]
      <3>1. v \in ValuesOf(TypeOf(s, poll)) /\ <<>> \in KeySpace(TypeOf(s, poll))
        BY <2>2, WordAssumption
      <3>2. /\ Stored(s, new) /\ DOMAIN new = DOMAIN body /\ new[poll][<<>>] = v
            /\ \A q \in DOMAIN body : q # poll => new[q] = body[q]
        BY <1>2, <2>2, <2>5, <3>1, PutStored
      <3> QED BY <1>2, <2>3, <2>4, <3>2
    <2>6. CASE f = <<"createPoll">>
      <3>1. new = Put(body, poll, <<>>, 1)
        BY <1>1, <1>4, <2>6 DEF PollConfig
      <3> QED BY <1>4, <2>5, <2>6, <3>1 DEF new
    <2>7. CASE f = <<"closePoll">>
      <3>1. new = Put(body, poll, <<>>, 2)
        BY <1>1, <1>4, <2>7 DEF PollConfig
      <3> QED BY <1>4, <2>5, <2>7, <3>1 DEF new
    <2>8. CASE f \notin {<<"createPoll">>, <<"closePoll">>}
      <3>1. new = body
        BY <1>1, <2>8 DEF PollConfig
      <3> QED BY <1>2, <1>4, <2>4, <2>8, <3>1 DEF new
    <2> QED BY <2>6, <2>7, <2>8
  <1> QED BY <1>3, <1>4

\* Tokens that match typed storage are natural.
LEMMA MatchedTokens ==
    ASSUME NEW s, NumberStates(s), NEW st, Stored(s, st), NEW M, NEW t, NEW data, Matches(s, M, t, data, st)
    PROVE  t \in [TokenPlaces(s) -> Nat]
  <1>1. ASSUME NEW p \in TokenPlaces(s)
        PROVE  t[p] \in Nat
    <2>1. st[p][<<>>] \in 0 .. Word
      BY PlaceStored
    <2>2. t[p] = st[p][<<>>]
      BY DEF Matches, CountsMatch
    <2> QED BY <2>1, <2>2, WordAssumption
  <1> QED BY <1>1 DEF Matches

\* The engines stay alike in every action, and in what is none.
LEMMA EnginesFollow ==
    ASSUME NEW s, Sound(s), PlainTokens(s), NEW snap, NEW net,
           Counting(s, snap, net), SameTokens(s, snap, net), NEW f, NEW b
    PROVE  /\ Counting(s, ExecuteWithBindings(s, snap, f, b), Fire(s, net, f))
           /\ SameTokens(s, ExecuteWithBindings(s, snap, f, b), Fire(s, net, f))
  <1>1. CASE f \in ActionIDs(s)
    BY <1>1, EnginesStayAlike
  <1>2. CASE f \notin ActionIDs(s)
    <2>1. ~Enabled(s, snap, f) /\ ~PetriEnabled(s, net, f)
      BY <1>2 DEF Enabled, PetriEnabled, HasAction
    <2> QED BY <2>1 DEF ExecuteWithBindings, Fire
  <1> QED BY <1>1, <1>2

\* An accepted call, run by both engines.
LEMMA ConsistentCall ==
    ASSUME NEW c, WellTyped(c), NEW f, NEW e, NEW own, Accepts(c, f, e, own),
           NEW snap, NEW net, Consistent(c, e.st, snap, net)
    PROVE  Consistent(c, Transaction(c, f, e, own).v,
                      ExecuteWithBindings(c.t.schema, snap, f, Bound(e)), Fire(c.t.schema, net, f))
  <1> DEFINE s == c.t.schema
             new == Transaction(c, f, e, own).v
             after == ExecuteWithBindings(s, snap, f, Bound(e))
             M == CountedMaps(s)
  <1>1. Sound(s) /\ Stored(s, e.st) /\ ArcLists(s)
    BY DEF WellTyped, Consistent, Sound, ArcLists
  <1>2. Stored(s, new)
    BY <1>1, AcceptedStorage
  <1>3. PlainTokens(s) => Counting(s, after, Fire(s, net, f)) /\ SameTokens(s, after, Fire(s, net, f))
    BY <1>1, EnginesFollow DEF Consistent
  <1>4. CASE IsVoteTemplate(c.t)
    <2>1. OneArcEach(s) /\ snap.tokens \in [TokenPlaces(s) -> Nat] /\ PollStored(e.st)
      BY <1>4 DEF WellTyped, VoteStates, Consistent
    <2>2. after.tokens \in [TokenPlaces(s) -> Nat]
      BY <1>1, <2>1, TokensStayNatural
    <2>3. /\ DOMAIN new = DOMAIN e.st
          /\ <<"voteCommitments">> \in DOMAIN e.st => new[<<"voteCommitments">>] = e.st[<<"voteCommitments">>]
          /\ new[<<"pollConfig">>][<<>>] = IF f = <<"createPoll">> THEN 1
                                           ELSE IF f = <<"closePoll">> THEN 2
                                           ELSE e.st[<<"pollConfig">>][<<>>]
      BY <1>1, <1>4, AcceptedStorage
    <2> HIDE DEF new, after
    <2>4. PollStored(new)
      <3>1. new[<<"pollConfig">>][<<>>] \in 0 .. 2
        BY <2>1, <2>3 DEF PollStored
      <3> QED BY <2>1, <2>3, <3>1 DEF PollStored
    <2> QED BY <1>2, <1>3, <1>4, <2>2, <2>4 DEF Consistent, new, after
  <1>5. CASE ~IsVoteTemplate(c.t)
    <2>1. CountsAlong(s) /\ Matches(s, M, snap.tokens, snap.data, e.st)
      BY <1>5 DEF WellTyped, Consistent
    <2>2. /\ FitCall(s, f, c.functions[f], e) /\ PerformBody(e, c.functions[f].body).ok
          /\ new = PerformBody(e, c.functions[f].body).v
      BY <1>1, <1>5, AcceptedCalls, AcceptedStorage
    <2>3. SameMaps(s, M)
      BY MapsCounted
    <2> HIDE DEF M, new, after
    <2>4. Matches(s, M, after.tokens, after.data, new)
      BY <1>1, <2>1, <2>2, <2>3, CallMatches DEF after
    <2>5. after.tokens \in [TokenPlaces(s) -> Nat]
      BY <1>1, <1>2, <2>1, <2>4, MatchedTokens, NumbersOf
    <2> QED BY <1>2, <1>3, <1>5, <2>4, <2>5 DEF Consistent, M, new, after
  <1> QED BY <1>4, <1>5

\* A vote uses its nullifier, and no entry of another changes.
OneVote(st, new, n) ==
    /\ new[<<"pollConfig">>] = st[<<"pollConfig">>]
    /\ new[<<"nullifiers">>][<<n>>] = TRUE
    /\ \A m \in Ids : m # n =>
         /\ new[<<"nullifiers">>][<<m>>] = st[<<"nullifiers">>][<<m>>]
         /\ new[<<"voteCommitments">>][<<m>>] = st[<<"voteCommitments">>][<<m>>]

LEMMA VotedStorage ==
    ASSUME NEW s, VoteStates(s), NEW st, Stored(s, st), PollStored(st),
           NEW n \in Ids, NEW commitment
    PROVE  /\ Stored(s, Voted(st, n, commitment)) /\ PollStored(Voted(st, n, commitment))
           /\ OneVote(st, Voted(st, n, commitment), n)
  <1> DEFINE used == <<"nullifiers">>
             more == <<"voteCommitments">>
             poll == <<"pollConfig">>
             K == {<<m>> : m \in Ids}
             mid == Put(st, used, <<n>>, TRUE)
             map == [mid[more] EXCEPT ![<<n>>] = commitment]
             new == Voted(st, n, commitment)
  <1>1. /\ used \in StateIDs(s) /\ poll \in StateIDs(s) /\ more \notin StateIDs(s)
        /\ KeySpace(TypeOf(s, used)) = K /\ ValuesOf(TypeOf(s, used)) = BOOLEAN
    BY PollTypes DEF VoteStates
  <1>2. <<n>> \in K /\ \A m \in Ids : <<m>> \in K /\ (m # n => <<m>> # <<n>>)
    OBVIOUS
  <1>3. /\ Stored(s, mid) /\ DOMAIN mid = DOMAIN st /\ mid[used][<<n>>] = TRUE
        /\ \A k \in K : k # <<n>> => mid[used][k] = st[used][k]
        /\ \A q \in DOMAIN st : q # used => mid[q] = st[q]
    <2> DEFINE key == <<n>>
               on == TRUE
    <2>1. /\ used \in StateIDs(s)
          /\ key \in KeySpace(TypeOf(s, used)) /\ on \in ValuesOf(TypeOf(s, used))
      BY <1>1, <1>2
    <2>2. mid = Put(st, used, key, on)
      OBVIOUS
    <2> HIDE DEF K, used, key, on, mid
    <2>3. /\ Stored(s, mid) /\ DOMAIN mid = DOMAIN st /\ mid[used][key] = on
          /\ \A k \in KeySpace(TypeOf(s, used)) : k # key => mid[used][k] = st[used][k]
          /\ \A q \in DOMAIN st : q # used => mid[q] = st[q]
      BY <2>1, <2>2, PutStored
    <2>4. KeySpace(TypeOf(s, used)) = K
      BY <1>1
    <2> QED BY <2>3, <2>4 DEF key, on
  <1>4. /\ more \in DOMAIN st /\ DOMAIN st[more] = K /\ st[poll][<<>>] \in 0 .. 2
        /\ poll \in DOMAIN st /\ used \in DOMAIN st
    BY <1>1 DEF PollStored, Stored
  <1>5. mid[more] = st[more] /\ mid[poll] = st[poll]
    BY <1>3, <1>4
  <1>6. /\ DOMAIN map = K
        /\ \A k \in K : k # <<n>> => map[k] = st[more][k]
    BY <1>4, <1>5
  <1>7. new = [mid EXCEPT ![more] = map]
    BY Zenon DEF Voted, Put
  <1> HIDE DEF map, K
  <1>8. /\ DOMAIN new = DOMAIN st /\ new[more] = map
        /\ \A q \in DOMAIN st : q # more => new[q] = mid[q]
    <2> HIDE DEF mid, new
    <2> QED BY <1>3, <1>4, <1>7
  <1> HIDE DEF new, mid
  <1>9. new[poll] = st[poll] /\ new[used] = mid[used]
    BY <1>4, <1>5, <1>8
  <1>10. Stored(s, new)
    <2>1. ASSUME NEW id \in StateIDs(s)
          PROVE  new[id] = mid[id] /\ id \in DOMAIN new
      <3>1. id # more /\ id \in DOMAIN st
        BY <1>1 DEF Stored
      <3> QED BY <1>8, <3>1
    <2> QED BY <1>3, <2>1 DEF Stored, StorageTyped
  <1>11. PollStored(new)
    <2>1. DOMAIN new[more] = {<<m>> : m \in Ids}
      BY <1>6, <1>8 DEF K
    <2> QED BY <1>4, <1>8, <1>9, <2>1 DEF PollStored
  <1>12. ASSUME NEW m \in Ids, m # n
         PROVE  new[used][<<m>>] = st[used][<<m>>] /\ new[more][<<m>>] = st[more][<<m>>]
    <2>1. <<m>> \in K /\ <<m>> # <<n>>
      BY <1>2, <1>12
    <2> QED BY <1>3, <1>6, <1>8, <1>9, <2>1
  <1>13. new[used][<<n>>] = TRUE
    BY <1>3, <1>9
  <1>14. OneVote(st, new, n)
    BY <1>9, <1>12, <1>13 DEF OneVote
  <1> QED BY <1>10, <1>11, <1>14 DEF new

\* So votes, too, keep the contract and the engines consistent.
LEMMA ConsistentVote ==
    ASSUME NEW c, WellTyped(c), IsVoteTemplate(c.t), NEW st, NEW snap, NEW net, Consistent(c, st, snap, net),
           NEW n \in Ids, NEW commitment, NEW f, NEW b
    PROVE  Consistent(c, Voted(st, n, commitment),
                      ExecuteWithBindings(c.t.schema, snap, f, b), Fire(c.t.schema, net, f))
  <1> DEFINE s == c.t.schema
             new == Voted(st, n, commitment)
             after == ExecuteWithBindings(s, snap, f, b)
  <1>1. Sound(s) /\ ArcLists(s) /\ VoteStates(s) /\ OneArcEach(s)
    <2>1. Sound(s) /\ VoteStates(s)
      BY DEF WellTyped
    <2> HIDE DEF s
    <2>2. ArcLists(s)
      BY <2>1 DEF Sound, ArcLists
    <2>3. OneArcEach(s)
      BY <2>1 DEF VoteStates
    <2> QED BY <2>1, <2>2, <2>3
  <1>2. Stored(s, st) /\ PollStored(st) /\ snap.tokens \in [TokenPlaces(s) -> Nat]
    BY DEF Consistent
  <1>3. Stored(s, new) /\ PollStored(new)
    BY <1>1, <1>2, VotedStorage
  <1>4. after.tokens \in [TokenPlaces(s) -> Nat]
    BY <1>1, <1>2, TokensStayNatural
  <1>5. PlainTokens(s) => Counting(s, after, Fire(s, net, f)) /\ SameTokens(s, after, Fire(s, net, f))
    BY <1>1, EnginesFollow DEF Consistent
  <1> QED BY <1>3, <1>4, <1>5 DEF Consistent

-----------------------------------------------------------------------------
(* The inductive invariant. *)

\* The contracts of all runs are those of schemas they fit.
WellTypedScenarios == \A n \in DOMAIN Scenarios : WellTyped(Scenarios[n].of)

IInv ==
    /\ scenario \in DOMAIN Scenarios
    /\ owner \in Accounts /\ epoch \in 0 .. Word /\ issued \in Int
    /\ Consistent(Run.of, storage, snapshot, marking)

LEMMA InitIInv ==
    ASSUME WellTypedScenarios
    PROVE  Init => IInv
  <1> SUFFICES ASSUME Init
               PROVE  IInv
    OBVIOUS
  <1>1. PICK name \in DOMAIN Scenarios : Deploy(name, Scenarios[name].of.t)
    BY DEF Init
  <1> DEFINE c == Scenarios[name].of
  <1>2. WellTyped(c) /\ scenario = name
    BY <1>1 DEF WellTypedScenarios, Deploy
  <1>3. Consistent(c, Deployed(c.t), NewSnapshot(c.t.schema), NewState(c.t.schema))
    BY <1>2, ConsistentStart
  <1>4. Consistent(Run.of, storage, snapshot, marking)
    BY <1>1, <1>2, <1>3 DEF Deploy, Run
  <1>5. owner \in Accounts /\ epoch \in 0 .. Word /\ issued \in Int
    BY WordAssumption DEF Init, Users
  <1> QED BY <1>2, <1>4, <1>5 DEF IInv

\* What a call issues is a number.
LEMMA IssuedNumbers ==
    ASSUME NEW version, NEW f, NEW args, WordArguments(args)
    PROVE  IssuedBy(version, f, args) \in Int
  <1> DEFINE n(p) == IF <<p>> \in DOMAIN args THEN args[<<p>>] ELSE 0
  <1>1. ASSUME NEW p \in {"shares", "total", "claimAmount", "unvestedAmount", "amount", "yieldAmount"}
        PROVE  n(p) \in Int
    <2>1. inferParamType(<<p>>) = "uint256"
      BY DEF inferParamType
    <2>2. CASE <<p>> \in DOMAIN args
      <3>1. args[<<p>>] \in 0 .. Word
        BY <2>1, <2>2 DEF WordArguments
      <3> QED BY <2>2, <3>1, WordAssumption
    <2>3. CASE <<p>> \notin DOMAIN args
      BY <2>3
    <2> QED BY <2>2, <2>3
  <1>2. /\ n("shares") \in Int /\ n("total") \in Int /\ n("claimAmount") \in Int
        /\ n("unvestedAmount") \in Int /\ n("amount") \in Int /\ n("yieldAmount") \in Int
    BY <1>1
  <1>3. IssuedBy(version, f, args) =
          CASE version = "ERC-0721" -> IF f = <<"mint">> THEN 1 ELSE IF f = <<"burn">> THEN -1 ELSE 0
            [] version = "ERC-04626" -> IF f \in {<<"deposit">>, <<"mint">>} THEN n("shares")
                                        ELSE IF f \in {<<"withdraw">>, <<"redeem">>} THEN -n("shares") ELSE 0
            [] version = "ERC-05725" -> IF f = <<"create">> THEN n("total")
                                        ELSE IF f = <<"claim">> THEN -n("claimAmount")
                                        ELSE IF f = <<"revoke">> THEN -n("unvestedAmount") ELSE 0
            [] OTHER -> IF f \in {<<"mint">>, <<"mintBatch">>} THEN n("amount")
                        ELSE IF f \in {<<"burn">>, <<"burnBatch">>} THEN -n("amount")
                        ELSE IF f = <<"vaultHarvest">> THEN n("yieldAmount") ELSE 0
    BY Zenon DEF IssuedBy
  <1> HIDE DEF n
  <1>4. CASE version = "ERC-0721"
    BY <1>3, <1>4
  <1>5. CASE version = "ERC-04626"
    BY <1>2, <1>3, <1>5
  <1>6. CASE version = "ERC-05725"
    BY <1>2, <1>3, <1>6
  <1>7. CASE version \notin {"ERC-0721", "ERC-04626", "ERC-05725"}
    BY <1>2, <1>3, <1>7
  <1> QED BY <1>4, <1>5, <1>6, <1>7

\* An accepted transaction, as a call of the run's contract.
LEMMA TransactCalls ==
    ASSUME Transact
    PROVE  \E f \in Entrypoints(Run.of.t), sender \in Users : \E args \in Run.of.functions[f].calls :
             /\ Accepts(Run.of, f, CallOf(args, sender), owner)
             /\ Accepted(Transaction(Run.of, f, CallOf(args, sender), owner), Run.of.t.version, f, args)
             /\ Ran(Run.of.t.schema, f, Bound(CallOf(args, sender)))
             /\ scenario' = scenario
  <1>1. PICK f \in Entrypoints(Run.of.t), sender \in Users :
          /\ Calling(Run, f)
          /\ \E args \in Run.of.functions[f].calls :
               /\ Accepted(Transaction(Run.of, f, CallOf(args, sender), owner), Run.of.t.version, f, args)
               /\ Ran(Run.of.t.schema, f, BindingsOf(args, sender))
    BY Zenon DEF Transact, TransactIn
  <1>2. PICK args \in Run.of.functions[f].calls :
          /\ Accepted(Transaction(Run.of, f, CallOf(args, sender), owner), Run.of.t.version, f, args)
          /\ Ran(Run.of.t.schema, f, BindingsOf(args, sender))
    BY <1>1
  <1> DEFINE e == CallOf(args, sender)
  <1>3. e.args = args /\ e.sender = sender
    BY DEF CallOf
  <1>4. Accepts(Run.of, f, e, owner)
    BY <1>2, <1>3 DEF Accepts, Accepted
  <1>5. Ran(Run.of.t.schema, f, Bound(e))
    BY <1>2, <1>3 DEF Bound
  <1>6. scenario' = scenario
    BY <1>1 DEF Calling
  <1> QED BY <1>2, <1>4, <1>5, <1>6

LEMMA StepIInv ==
    ASSUME WellTypedScenarios
    PROVE  IInv /\ [Next]_vars => IInv'
  <1> SUFFICES ASSUME IInv, [Next]_vars
               PROVE  IInv'
    OBVIOUS
  <1> DEFINE c == Run.of
             s == Run.of.t.schema
  <1>1. WellTyped(c) /\ scenario \in DOMAIN Scenarios /\ Consistent(c, storage, snapshot, marking)
    BY DEF IInv, WellTypedScenarios, Run
  <1>2. ASSUME scenario' = scenario, owner' \in Accounts, epoch' \in 0 .. Word, issued' \in Int,
               Consistent(Run.of, storage', snapshot', marking')
        PROVE  IInv'
    BY <1>1, <1>2 DEF IInv, Run
  <1>3. owner \in Accounts /\ epoch \in 0 .. Word /\ issued \in Int
    BY DEF IInv
  <1>4. CASE Transact
    <2>1. PICK f \in Entrypoints(Run.of.t), sender \in Users : \E args \in Run.of.functions[f].calls :
             /\ Accepts(Run.of, f, CallOf(args, sender), owner)
             /\ Accepted(Transaction(Run.of, f, CallOf(args, sender), owner), Run.of.t.version, f, args)
             /\ Ran(Run.of.t.schema, f, Bound(CallOf(args, sender)))
             /\ scenario' = scenario
      BY <1>4, TransactCalls
    <2>2. PICK args \in Run.of.functions[f].calls :
             /\ Accepts(Run.of, f, CallOf(args, sender), owner)
             /\ Accepted(Transaction(Run.of, f, CallOf(args, sender), owner), Run.of.t.version, f, args)
             /\ Ran(Run.of.t.schema, f, Bound(CallOf(args, sender)))
             /\ scenario' = scenario
      BY <2>1
    <2> DEFINE e == CallOf(args, sender)
               r == Transaction(c, f, e, owner)
    <2>3. storage' = r.v /\ issued' = issued + IssuedBy(c.t.version, f, args)
          /\ owner' = owner /\ epoch' = epoch
      BY <2>2 DEF Accepted
    <2>4. /\ snapshot' = ExecuteWithBindings(s, snapshot, f, Bound(e))
          /\ marking' = Fire(s, marking, f)
      BY <2>2 DEF Ran
    <2>5. Consistent(c, e.st, snapshot, marking) /\ Accepts(c, f, e, owner)
      BY <1>1, <2>2 DEF CallOf
    <2>6. FitCall(s, f, c.functions[f], e)
      BY <1>1, <2>5, AcceptedCalls
    <2>7. IssuedBy(c.t.version, f, args) \in Int
      <3>1. WordArguments(e.args) /\ e.args = args
        BY <2>6, FitStatements DEF CallOf
      <3> QED BY <3>1, IssuedNumbers
    <2>8. Consistent(c, storage', snapshot', marking')
      <3> HIDE DEF c, e, r
      <3>1. Consistent(c, Transaction(c, f, e, owner).v,
                       ExecuteWithBindings(c.t.schema, snapshot, f, Bound(e)), Fire(c.t.schema, marking, f))
        BY <1>1, <2>5, ConsistentCall
      <3> QED BY <2>3, <2>4, <3>1 DEF r, c
    <2> QED BY <1>2, <1>3, <2>2, <2>3, <2>7, <2>8
  <1>5. CASE CastVote
    <2>1. PICK n \in Ids, com \in Commitments :
            /\ Calling(Run, <<"castVote">>)
            /\ storage' = Voted(storage, n, com)
            /\ Ran(s, <<"castVote">>, [p \in {<<"nullifier">>} |-> n])
            /\ UNCHANGED <<owner, epoch, issued>>
      BY <1>5, Zenon DEF CastVote, CastVoteIn
    <2> DEFINE b == [p \in {<<"nullifier">>} |-> n]
    <2>2. Consistent(c, Voted(storage, n, com), ExecuteWithBindings(c.t.schema, snapshot, <<"castVote">>, b),
                     Fire(c.t.schema, marking, <<"castVote">>))
      <3>1. IsVoteTemplate(c.t)
        BY <1>5 DEF CastVote, IsVote
      <3> HIDE DEF c, b
      <3> QED BY <1>1, <3>1, ConsistentVote
    <2>3. /\ snapshot' = ExecuteWithBindings(s, snapshot, <<"castVote">>, b)
          /\ marking' = Fire(s, marking, <<"castVote">>)
      BY <2>1 DEF Ran
    <2>4. scenario' = scenario
      BY <2>1 DEF Calling
    <2>5. Consistent(Run.of, storage', snapshot', marking')
      <3> HIDE DEF b
      <3> QED BY <2>1, <2>2, <2>3
    <2> QED BY <1>2, <1>3, <2>1, <2>4, <2>5
  <1>6. ASSUME NEW f, Administered(f)
        PROVE  scenario' = scenario /\ issued' \in Int /\ Consistent(Run.of, storage', snapshot', marking')
    <2>1. /\ scenario' = scenario /\ issued' = issued
          /\ storage' = storage /\ snapshot' = snapshot /\ marking' = marking
      BY <1>6 DEF Administered, Calling
    <2> QED BY <1>1, <1>3, <2>1
  <1>7. CASE TransferOwnership
    <2>1. owner' \in Accounts /\ epoch' = epoch /\ Administered(<<"transferOwnership">>)
      BY <1>7 DEF TransferOwnership, Users
    <2> QED BY <1>2, <1>3, <1>6, <2>1
  <1>8. CASE RenounceOwnership
    <2>1. owner' \in Accounts /\ epoch' = epoch /\ Administered(<<"renounceOwnership">>)
      BY <1>8, RuntimeAssumption DEF RenounceOwnership
    <2> QED BY <1>2, <1>3, <1>6, <2>1
  <1>9. CASE AdvanceEpoch
    <2>1. /\ \E n \in 1 .. Word - epoch : epoch' = epoch + n
          /\ owner' = owner /\ Administered(<<"advanceEpoch">>)
      BY <1>9 DEF AdvanceEpoch
    <2>2. epoch' \in 0 .. Word
      BY <1>3, <2>1, WordAssumption
    <2> QED BY <1>2, <1>3, <1>6, <2>1, <2>2
  <1>10. CASE UNCHANGED vars
    BY <1>1, <1>2, <1>3, <1>10 DEF vars
  <1> QED BY <1>4, <1>5, <1>7, <1>8, <1>9, <1>10 DEF Next

\* Storage keeps the types of its schema whatever is called, and no number of the contract
\* leaves the range of a word (the checked arithmetic of every generated function).
THEOREM ContractsTyped ==
    ASSUME WellTypedScenarios
    PROVE  Spec => []TypeOK
  <1>1. Init => IInv
    BY InitIInv
  <1>2. IInv /\ [Next]_vars => IInv'
    BY StepIInv
  <1>3. IInv => TypeOK
    BY DEF IInv, TypeOK, Consistent, Stored
  <1> QED BY <1>1, <1>2, <1>3, PTL DEF Spec

\* After any calls that a contract accepts, the metamodel runtime, run on the same calls,
\* has its numbers: generateFunction and ExecuteWithBindings, which read the arcs of a
\* schema separately, move the same tokens and entries.  What an initial_state block gives
\* a map stays the difference between them for good.
THEOREM ContractsParity ==
    ASSUME WellTypedScenarios
    PROVE  Spec => []Parity
  <1>1. Init => IInv
    BY InitIInv
  <1>2. IInv /\ [Next]_vars => IInv'
    BY StepIInv
  <1>3. IInv => Parity
    <2> SUFFICES ASSUME IInv, ~IsVote
                 PROVE  /\ SameCounts(Run.of.t.schema, snapshot, storage)
                        /\ ~KeyedLiterals(Run.of.t.schema) => SameEntries(Run.of.t.schema, snapshot, storage)
      BY DEF Parity
    <2> DEFINE s == Run.of.t.schema
    <2>1. Matches(s, CountedMaps(s), snapshot.tokens, snapshot.data, storage)
      BY DEF IInv, Consistent, IsVote
    <2> HIDE DEF s
    <2> QED BY <2>1 DEF Matches, CountsMatch, EntriesMatch, CountedMaps, SameCounts, SameEntries, TypeOf, s
  <1> QED BY <1>1, <1>2, <1>3, PTL DEF Spec

-----------------------------------------------------------------------------
(* A plain net: the contract and the engines accept the same actions. *)

\* Statements that move one token each,
UnitMoves(s, e, ops) ==
    \A k \in 1 .. Len(ops) : ops[k].do # "none" =>
      ops[k].do \in {"-=", "+="} /\ ops[k].place \in TokenPlaces(s) /\ OperandOf(e, ops[k].value) = 1
\* no two of them in one place,
Apart(ops) ==
    \A j, k \in 1 .. Len(ops) :
      ops[j].do # "none" /\ ops[k].do # "none" /\ ops[j].place = ops[k].place => j = k
\* that have a token to take or room for one.
HaveRoom(st, ops) ==
    \A k \in 1 .. Len(ops) : /\ ops[k].do = "-=" => st[ops[k].place][<<>>] >= 1
                             /\ ops[k].do = "+=" => st[ops[k].place][<<>>] < Word

\* After the first k of them the places of the others are as they were.
Ready(s, st, ops, k, r) ==
    /\ r.ok /\ Stored(s, r.v)
    /\ \A j \in 1 .. Len(ops) : j > k /\ ops[j].do # "none" => r.v[ops[j].place] = st[ops[j].place]

\* A statement that has room does not revert.
LEMMA OneMove ==
    ASSUME NEW s, NumberStates(s), NEW e, NEW op, Makes(s, e, op), op.do \in {"-=", "+="},
           op.place \in TokenPlaces(s), OperandOf(e, op.value) = 1,
           NEW st, Stored(s, st),
           op.do = "-=" => st[op.place][<<>>] >= 1, op.do = "+=" => st[op.place][<<>>] < Word
    PROVE  Do(e, st, op).ok
  <1> DEFINE key == KeyOf(e, op)
             old == st[op.place][<<>>]
  <1>1. key = <<>>
    <2>1. key \in KeySpace(TypeOf(s, op.place))
      BY DEF Makes
    <2> QED BY <2>1 DEF NumberStates
  <1>2. old \in 0 .. Word
    BY PlaceStored
  <1>3. ASSUME NEW v \in 0 .. Word
        PROVE  PutNumber(st, op.place, key, v).ok
    BY <1>3 DEF PutNumber, Checked, Good
  <1>4. CASE op.do = "-="
    <2>1. Do(e, st, op) = PutNumber(st, op.place, key, old - 1)
      BY <1>1, <1>4 DEF Do
    <2>2. old - 1 \in 0 .. Word
      BY <1>2, <1>4, WordAssumption
    <2> QED BY <1>3, <2>1, <2>2
  <1>5. CASE op.do = "+="
    <2>1. Do(e, st, op) = PutNumber(st, op.place, key, old + 1)
      BY <1>1, <1>5 DEF Do
    <2>2. old + 1 \in 0 .. Word
      BY <1>2, <1>5, WordAssumption
    <2> HIDE DEF old
    <2> QED BY <1>3, <2>1, <2>2
  <1> QED BY <1>4, <1>5

LEMMA CanPerform ==
    ASSUME NEW s, NumberStates(s), NEW e, NEW ops, Len(ops) \in Nat, AllMake(s, e, ops),
           UnitMoves(s, e, ops), Apart(ops),
           NEW res, res.ok, Stored(s, res.v), HaveRoom(res.v, ops)
    PROVE  Perform(e, res, ops).ok
  <1> DEFINE n == Len(ops)
             st == res.v
             R == ResultsAfter(e, res, ops)
             T == {k \in 0 .. n : ~Ready(s, st, ops, k, R[k])}
  <1>1. Statements(e, res, ops, n, R)
    BY ResultsAfterWork
  <1>0. Stored(s, st) /\ HaveRoom(st, ops) /\ res.ok /\ res.v = st
    OBVIOUS
  <1> HIDE DEF R, st
  <1>2. ASSUME NEW k \in T, \A j \in T : k <= j
        PROVE  FALSE
    <2>1. k \in 0 .. n /\ ~Ready(s, st, ops, k, R[k])
      OBVIOUS
    <2>2. CASE k = 0
      <3>1. R[k] = res
        BY <1>1, <2>1, <2>2 DEF Statements
      <3> QED BY <1>0, <2>1, <3>1 DEF Ready
    <2>3. CASE k # 0
      <3>1. k - 1 \in 0 .. n /\ ~(k <= k - 1) /\ k \in 1 .. n /\ k \in 1 .. Len(ops)
        BY <2>1, <2>3
      <3>2. Ready(s, st, ops, k - 1, R[k - 1])
        BY <1>2, <3>1
      <3> DEFINE u == R[k - 1].v
                 op == ops[k]
      <3>3. Makes(s, e, op) /\ Stored(s, u) /\ (op.do # "none" => u[op.place] = st[op.place])
        BY <3>1, <3>2 DEF AllMake, Ready
      <3>4. (Do(e, u, op).ok => R[k].ok) /\ R[k].v = Do(e, u, op).v
        <4>1. R[k] = OneMore(e, R[k - 1], op) /\ R[k - 1].ok
          BY <1>1, <2>1, <2>3, <3>2 DEF Statements, Ready
        <4>2. CASE op.do = "none"
          BY <4>1, <4>2 DEF OneMore, Do, Good
        <4>3. CASE op.do # "none"
          BY <4>1, <4>3 DEF OneMore
        <4> QED BY <4>2, <4>3
      <3>5. /\ op.do # "none" => op.do \in {"-=", "+="} /\ op.place \in TokenPlaces(s)
                                 /\ OperandOf(e, op.value) = 1
            /\ op.do = "-=" => st[op.place][<<>>] >= 1
            /\ op.do = "+=" => st[op.place][<<>>] < Word
        BY <1>0, <3>1 DEF UnitMoves, HaveRoom
      <3>6. ASSUME NEW j \in 1 .. Len(ops), j > k, ops[j].do # "none"
            PROVE  /\ u[ops[j].place] = st[ops[j].place]
                   /\ ops[j].place \in DOMAIN u
                   /\ op.do = "none" \/ ops[j].place # op.place
        <4>1. j > k - 1 /\ j # k
          BY <3>1, <3>6
        <4>2. u[ops[j].place] = st[ops[j].place]
          BY <3>2, <3>6, <4>1 DEF Ready
        <4>3. ops[j].place \in StateIDs(s)
          BY <3>6 DEF AllMake, Makes
        <4>4. op.do = "none" \/ ops[j].place # op.place
          BY <3>1, <3>6, <4>1 DEF Apart
        <4> QED BY <3>3, <4>2, <4>3, <4>4 DEF Stored
      <3> HIDE DEF u, op
      <3>7. Do(e, u, op).ok
        <4>1. CASE op.do = "none"
          BY <4>1 DEF Do, Good
        <4>2. CASE op.do # "none"
          BY <3>3, <3>5, <4>2, OneMove
        <4> QED BY <4>1, <4>2
      <3>8. /\ Stored(s, Do(e, u, op).v)
            /\ \A q \in DOMAIN u : op.do = "none" \/ q # op.place => Do(e, u, op).v[q] = u[q]
        BY <3>3, <3>7, DoStored
      <3>9. Ready(s, st, ops, k, Do(e, u, op))
        BY <3>6, <3>7, <3>8 DEF Ready
      <3> QED BY <2>1, <3>4, <3>9 DEF Ready
    <2> QED BY <2>2, <2>3
  <1>3. n \notin T
    <2>1. T \subseteq Nat
      OBVIOUS
    <2> HIDE DEF T, n
    <2> QED BY <1>2, <2>1, LeastNat
  <1>4. R[n].ok
    BY <1>3 DEF Ready
  <1> QED BY <1>4 DEF Perform, R

\* A schema that is a plain net of tokens.
Plain(s) == PlainNet(s) /\ PlainTokens(s) /\ SingleArcs(s) /\ CountsAlong(s)

\* Its statements: one token from every input, and one to every output.
LEMMA PlainStatements ==
    ASSUME NEW s, Plain(s), NEW f, NEW fn, NEW e, FitCall(s, f, fn, e), NEW k \in 1 .. Len(s.arcs)
    PROVE  /\ IF IsInput(s, k, f)
              THEN /\ fn.body.inputs[k].do = "-=" /\ fn.body.inputs[k].place = s.arcs[k].source
                   /\ s.arcs[k].source \in TokenPlaces(s)
                   /\ OperandOf(e, fn.body.inputs[k].value) = 1
              ELSE fn.body.inputs[k].do = "none"
           /\ IF IsOutput(s, k, f)
              THEN /\ fn.body.outputs[k].do = "+=" /\ fn.body.outputs[k].place = s.arcs[k].target
                   /\ s.arcs[k].target \in TokenPlaces(s)
                   /\ OperandOf(e, fn.body.outputs[k].value) = 1
              ELSE fn.body.outputs[k].do = "none"
  <1> DEFINE arc == s.arcs[k]
             a == fn.body.inputs[k]
             b == fn.body.outputs[k]
  <1>1. /\ Sound(s) /\ f \in ActionIDs(s) /\ DOMAIN s.arcs = 1 .. Len(s.arcs)
        /\ a = InputAt(s, f, k) /\ b = OutputAt(s, f, k)
    BY BodyStatements DEF FitCall
  <1>2. arc.keys = <<>> /\ arc.value = <<>> /\ (arc.source \in TokenPlaces(s) \/ arc.target \in TokenPlaces(s))
    BY <1>1 DEF Plain, PlainNet, PlainTokens, TouchesTokens
  <1>3. ~(arc.source \in StateIDs(s) /\ arc.target \in StateIDs(s))
    BY <1>1 DEF Sound, Validate
  <1>4. TokenPlaces(s) \subseteq StateIDs(s) /\ \A p \in TokenPlaces(s) : ~IsMap(TypeOf(s, p))
    BY <1>1, CountedTypes DEF TokenPlaces, StateIDs
  <1>5. OperandOf(e, <<"1">>) = 1
    BY DEF OperandOf, isNumericLiteral, Decimals, LiteralOf
  <1>6. ASSUME NEW p \in TokenPlaces(s)
        PROVE  StatementValue(arc, StateByID(s, p)) = <<"1">>
    BY <1>2, <1>4 DEF StatementValue, DefaultValue, TypeOf
  <1> HIDE DEF a, b
  <1>7. ASSUME IsInput(s, k, f)
        PROVE  a.do = "-=" /\ a.place = arc.source /\ arc.source \in TokenPlaces(s) /\ OperandOf(e, a.value) = 1
    <2>1. arc.source \in TokenPlaces(s)
      BY <1>1, <1>2, <1>3, <1>4, <1>7, ArcEnds
    <2>2. ForInput(s, f, arc, a)
      BY <1>1, <1>7, InputStatement DEF InputAt
    <2>3. ~isReadArc(s, f, arc)
      BY <1>4, <2>1 DEF isReadArc, TypeOf
    <2>4. a.do = "-=" /\ a.place = arc.source /\ a.value = StatementValue(arc, StateByID(s, arc.source))
      BY <1>4, <2>1, <2>2, <2>3 DEF ForInput, CountedType
    <2> QED BY <1>5, <1>6, <2>1, <2>4
  <1>8. ASSUME IsOutput(s, k, f)
        PROVE  b.do = "+=" /\ b.place = arc.target /\ arc.target \in TokenPlaces(s) /\ OperandOf(e, b.value) = 1
    <2>1. arc.target \in TokenPlaces(s)
      BY <1>1, <1>2, <1>3, <1>4, <1>8, ArcEnds
    <2>2. ForOutput(s, arc, b)
      BY <1>1, <1>8, OutputStatement DEF OutputAt
    <2>3. b.do = "+=" /\ b.place = arc.target /\ b.value = StatementValue(arc, StateByID(s, arc.target))
      BY <1>4, <2>1, <2>2 DEF ForOutput, CountedType
    <2> QED BY <1>5, <1>6, <2>1, <2>3
  <1>9. /\ ~IsInput(s, k, f) => a.do = "none"
        /\ ~IsOutput(s, k, f) => b.do = "none"
    BY <1>1 DEF InputAt, OutputAt, NoStatement
  <1> QED BY <1>7, <1>8, <1>9 DEF a, b

\* So a body runs when the runtime enables its action, and there is room for what it gives.
LEMMA PlainRuns ==
    ASSUME NEW s, Plain(s), NEW f, NEW fn, NEW e, FitCall(s, f, fn, e), Stored(s, e.st),
           NEW snap, CountsMatch(s, snap.tokens, e.st), Enabled(s, snap, f),
           \A k \in DOMAIN s.arcs : IsOutput(s, k, f) => e.st[s.arcs[k].target][<<>>] < Word
    PROVE  PerformBody(e, fn.body).ok
  <1> DEFINE ins == fn.body.inputs
             outs == fn.body.outputs
             P == TokenPlaces(s)
             mid == Perform(e, Good(e.st), ins)
  <1>1. /\ Sound(s) /\ NumberStates(s)
        /\ DOMAIN s.arcs = 1 .. Len(s.arcs) /\ Len(s.arcs) \in Nat
        /\ Len(ins) = Len(s.arcs) /\ Len(outs) = Len(s.arcs)
        /\ AllMake(s, e, ins) /\ AllMake(s, e, outs)
    BY NumbersOf, BodyMakes, BodyStatements DEF FitCall, Plain
  <1>2. ASSUME NEW k \in 1 .. Len(s.arcs)
        PROVE  /\ ins[k].do # "none" => /\ IsInput(s, k, f) /\ ins[k].do = "-="
                                        /\ ins[k].place = s.arcs[k].source /\ ins[k].place \in P
                                        /\ OperandOf(e, ins[k].value) = 1
               /\ outs[k].do # "none" => /\ IsOutput(s, k, f) /\ outs[k].do = "+="
                                         /\ outs[k].place = s.arcs[k].target /\ outs[k].place \in P
                                         /\ OperandOf(e, outs[k].value) = 1
    BY PlainStatements
  <1> HIDE DEF ins, outs
  <1>3. UnitMoves(s, e, ins) /\ UnitMoves(s, e, outs) /\ TakesOnly(s, ins)
    BY <1>1, <1>2 DEF UnitMoves, TakesOnly, Touches
  <1>4. Apart(ins) /\ Apart(outs)
    <2>1. \A j, k \in 1 .. Len(s.arcs) :
            s.arcs[j].source = s.arcs[k].source /\ s.arcs[j].target = s.arcs[k].target => j = k
      BY <1>1 DEF Plain, SingleArcs
    <2>2. ASSUME NEW j \in 1 .. Len(s.arcs), NEW k \in 1 .. Len(s.arcs), j # k
          PROVE  /\ ins[j].do # "none" /\ ins[k].do # "none" => ins[j].place # ins[k].place
                 /\ outs[j].do # "none" /\ outs[k].do # "none" => outs[j].place # outs[k].place
      BY <1>2, <2>1, <2>2 DEF IsInput, IsOutput
    <2> QED BY <1>1, <2>2 DEF Apart
  <1>5. HaveRoom(e.st, ins)
    <2>1. ASSUME NEW k \in 1 .. Len(ins), ins[k].do = "-="
          PROVE  e.st[ins[k].place][<<>>] >= 1
      <3>1. /\ k \in DOMAIN s.arcs /\ IsInput(s, k, f)
            /\ ins[k].place = s.arcs[k].source /\ ins[k].place \in P
        BY <1>1, <1>2, <2>1
      <3>2. snap.tokens[s.arcs[k].source] >= 1
        BY <3>1 DEF Enabled
      <3> QED BY <3>1, <3>2 DEF CountsMatch
    <2>2. \A k \in 1 .. Len(ins) : ins[k].do # "+="
      BY <1>1, <1>2
    <2> QED BY <2>1, <2>2 DEF HaveRoom
  <1>6. mid.ok
    <2>1. Good(e.st).ok /\ Good(e.st).v = e.st
      BY DEF Good
    <2> QED BY <1>1, <1>3, <1>4, <1>5, <2>1, CanPerform
  <1>7. PICK S : Running(e, Good(e.st).v, ins, S) /\ S[Len(ins)] = mid.v
    BY <1>1, <1>6, PerformRuns
  <1> HIDE DEF mid
  <1>8. Running(e, e.st, ins, S) /\ Len(ins) \in 0 .. Len(ins)
    BY <1>1, <1>7 DEF Good
  <1>9. Stored(s, mid.v)
    BY <1>1, <1>7, <1>8, RunKeeps DEF Keeps
  <1>10. NoMore(s, e.st, mid.v)
    BY <1>1, <1>3, <1>7, <1>8, InputsHad
  <1>11. HaveRoom(mid.v, outs)
    <2>1. ASSUME NEW k \in 1 .. Len(outs), outs[k].do = "+="
          PROVE  mid.v[outs[k].place][<<>>] < Word
      <3> DEFINE p == outs[k].place
      <3>1. k \in DOMAIN s.arcs /\ IsOutput(s, k, f) /\ p = s.arcs[k].target /\ p \in P
        BY <1>1, <1>2, <2>1
      <3>2. e.st[p][<<>>] < Word /\ mid.v[p][<<>>] <= e.st[p][<<>>]
        BY <1>10, <3>1 DEF NoMore
      <3>3. e.st[p][<<>>] \in 0 .. Word /\ mid.v[p][<<>>] \in 0 .. Word
        BY <1>1, <1>9, <3>1, PlaceStored
      <3> HIDE DEF p
      <3>4. mid.v[p][<<>>] < Word
        BY <3>2, <3>3, WordAssumption
      <3> QED BY <3>4 DEF p
    <2>2. \A k \in 1 .. Len(outs) : outs[k].do # "-="
      BY <1>1, <1>2
    <2> QED BY <2>1, <2>2 DEF HaveRoom
  <1>12. Perform(e, mid, outs).ok
    BY <1>1, <1>3, <1>4, <1>6, <1>9, <1>11, CanPerform
  <1>13. PerformBody(e, fn.body) = Perform(e, mid, outs)
    BY DEF PerformBody, mid, ins, outs
  <1> QED BY <1>12, <1>13

\* And only then.
LEMMA PlainRan ==
    ASSUME NEW s, Plain(s), NEW f, NEW fn, NEW e, FitCall(s, f, fn, e), Stored(s, e.st),
           NEW snap, CountsMatch(s, snap.tokens, e.st), PerformBody(e, fn.body).ok
    PROVE  Enabled(s, snap, f)
  <1> SUFFICES ASSUME ~Enabled(s, snap, f)
               PROVE  FALSE
    OBVIOUS
  <1> DEFINE ins == fn.body.inputs
             M == CountedMaps(s)
  <1>1. /\ Len(s.arcs) \in Nat /\ DOMAIN s.arcs = 1 .. Len(s.arcs)
        /\ Len(ins) = Len(s.arcs) /\ Len(fn.body.outputs) = Len(s.arcs)
    BY BodyStatements DEF FitCall
  <1>2. PICK S, U : /\ Running(e, e.st, ins, S)
                    /\ Running(e, S[Len(ins)], fn.body.outputs, U)
                    /\ U[Len(fn.body.outputs)] = PerformBody(e, fn.body).v
    BY <1>1, BodyRuns
  <1>3. StillIn(TokenPlaces(s) \cup M, e, ins)
    <2>1. SameMaps(s, M) /\ CountsAlong(s)
      BY MapsCounted DEF Plain
    <2> HIDE DEF M
    <2> QED BY <1>2, <2>1, NotEnabled
  <1>4. PICK k \in DOMAIN s.arcs : IsInput(s, k, f)
    BY DEF Enabled, FitCall, HasAction
  <1>5. /\ ins[k].do = "-=" /\ ins[k].place \in TokenPlaces(s)
        /\ OperandOf(e, ins[k].value) = 1
    BY <1>1, <1>4, PlainStatements
  <1>6. Touches(ins[k], TokenPlaces(s) \cup M) /\ k \in 1 .. Len(ins)
    BY <1>1, <1>5 DEF Touches
  <1> HIDE DEF M, ins
  <1> QED BY <1>3, <1>5, <1>6 DEF StillIn

\* What a call of the contract of a plain net asks for is what the runtime asks for.
LEMMA PlainChoice ==
    ASSUME NEW c, WellTyped(c), PlainNet(c.t.schema), NEW f \in ActionIDs(c.t.schema),
           NEW e, e.args = <<>>, e.sender \in Users, NEW own,
           NEW snap, NEW net, Consistent(c, e.st, snap, net),
           \A k \in DOMAIN c.t.schema.arcs :
             IsOutput(c.t.schema, k, f) => e.st[c.t.schema.arcs[k].target][<<>>] < Word
    PROVE  (Enabled(c.t.schema, snap, f) /\ (isPrivilegedAction(f) => e.sender = own))
             <=> Transaction(c, f, e, own).ok
  <1> DEFINE s == c.t.schema
             fn == c.functions[f]
  <1>1. PlainContract(c) /\ f \in Entrypoints(c.t) /\ FunctionFits(s, f, fn) /\ Sound(s)
    BY DEF WellTyped, PlainContract, Entrypoints
  <1>2. CountsAlong(s) /\ Plain(s)
    BY <1>1 DEF WellTyped, PlainContract, Plain
  <1>3. FitCall(s, f, fn, e) /\ DOMAIN fn.conditions = {}
    BY <1>1 DEF PlainContract, FitCall
  <1>4. Stored(s, e.st) /\ CountsMatch(s, snap.tokens, e.st)
    BY <1>1 DEF PlainContract, Consistent, Matches
  <1>5. Admitted(c, f, e, own) <=> (isPrivilegedAction(f) => e.sender = own)
    BY <1>1, <1>3 DEF Admitted, PlainContract
  <1>6. Enabled(s, snap, f) => PerformBody(e, fn.body).ok
    <2> SUFFICES ASSUME Enabled(s, snap, f)
                 PROVE  PerformBody(e, fn.body).ok
      OBVIOUS
    <2>1. \A k \in DOMAIN s.arcs : IsOutput(s, k, f) => e.st[s.arcs[k].target][<<>>] < Word
      OBVIOUS
    <2> HIDE DEF s, fn
    <2> QED BY <1>2, <1>3, <1>4, <2>1, PlainRuns
  <1>7. PerformBody(e, fn.body).ok => Enabled(s, snap, f)
    <2> HIDE DEF s, fn
    <2> QED BY <1>2, <1>3, <1>4, PlainRan
  <1>8. Transaction(c, f, e, own).ok <=> Admitted(c, f, e, own) /\ PerformBody(e, fn.body).ok
    <2> DEFINE both == Admitted(c, f, e, own) /\ PerformBody(e, fn.body).ok
               new == PollConfig(c.t, f, PerformBody(e, fn.body).v)
    <2>1. Transaction(c, f, e, own) = IF both THEN Good(new) ELSE Reverted
      BY Zenon DEF Transaction
    <2> HIDE DEF both, new
    <2>2. Transaction(c, f, e, own).ok <=> both
      BY <2>1 DEF Good, Reverted
    <2> QED BY <2>2 DEF both
  <1> QED BY <1>5, <1>6, <1>7, <1>8

\* The engines and the contract agree on what is enabled.
THEOREM ContractsAgree ==
    ASSUME WellTypedScenarios
    PROVE  Spec => []EnginesAgree
  <1>1. Init => IInv
    BY InitIInv
  <1>2. IInv /\ [Next]_vars => IInv'
    BY StepIInv
  <1>3. IInv => EnginesAgree
    <2> SUFFICES ASSUME IInv
                 PROVE  Agreeing(Run.of, Run.of.t.schema)
      BY DEF EnginesAgree
    <2> DEFINE c == Run.of
               s == Run.of.t.schema
    <2>1. WellTyped(c) /\ Consistent(c, storage, snapshot, marking)
      BY DEF IInv, WellTypedScenarios, Run
    <2>2. PlainTokens(s) => SameTokens(s, snapshot, marking)
      BY <2>1 DEF Consistent
    <2>3. ASSUME PlainNet(s)
          PROVE  SameChoices(c, s)
      <3> SUFFICES ASSUME NEW f \in ActionIDs(s), RoomFor(s, f), NEW sender \in Users
                   PROVE  (Enabled(s, snapshot, f) /\ (isPrivilegedAction(f) => sender = owner))
                            <=> Transaction(c, f, CallOf(<<>>, sender), owner).ok
        BY Zenon DEF SameChoices
      <3> DEFINE e == CallOf(<<>>, sender)
      <3>1. e.st = storage /\ e.args = <<>> /\ e.sender = sender
        BY DEF CallOf
      <3>2. \A k \in DOMAIN s.arcs : IsOutput(s, k, f) => e.st[s.arcs[k].target][<<>>] < Word
        <4> HIDE DEF s, e
        <4> QED BY <3>1 DEF RoomFor
      <3> HIDE DEF e, c
      <3>3. c.t.schema = s
        BY DEF c
      <3>4. (Enabled(c.t.schema, snapshot, f) /\ (isPrivilegedAction(f) => e.sender = owner))
              <=> Transaction(c, f, e, owner).ok
        <4> HIDE DEF s
        <4> QED BY <2>1, <2>3, <3>1, <3>2, <3>3, PlainChoice
      <3> QED BY <3>1, <3>3, <3>4 DEF e
    <2> QED BY <2>2, <2>3 DEF Agreeing
  <1> QED BY <1>1, <1>2, <1>3, PTL DEF Spec

-----------------------------------------------------------------------------
(* The life of a poll on chain. *)

\* What an accepted call of the vote contract does to its poll.
LEMMA PollCalled ==
    ASSUME NEW c, WellTyped(c), IsVoteTemplate(c.t), NEW f, NEW e, NEW own, Accepts(c, f, e, own),
           NEW snap, NEW net, Consistent(c, e.st, snap, net),
           f \in {<<"createPoll">>, <<"closePoll">>} =>
             e.st[<<"pollConfig">>][<<>>] = IF f = <<"createPoll">> THEN 0 ELSE 1
    PROVE  LET new == Transaction(c, f, e, own).v
           IN /\ new[<<"pollConfig">>][<<>>] >= e.st[<<"pollConfig">>][<<>>]
              /\ new[<<"nullifiers">>] = e.st[<<"nullifiers">>]
              /\ new[<<"voteCommitments">>] = e.st[<<"voteCommitments">>]
  <1> DEFINE new == Transaction(c, f, e, own).v
             old == e.st[<<"pollConfig">>][<<>>]
  <1>1. Stored(c.t.schema, e.st) /\ <<"voteCommitments">> \in DOMAIN e.st /\ old \in 0 .. 2
    BY DEF Consistent, PollStored
  <1>2. /\ new[<<"nullifiers">>] = e.st[<<"nullifiers">>]
        /\ new[<<"voteCommitments">>] = e.st[<<"voteCommitments">>]
        /\ new[<<"pollConfig">>][<<>>] = IF f = <<"createPoll">> THEN 1 ELSE IF f = <<"closePoll">> THEN 2 ELSE old
    BY <1>1, AcceptedStorage
  <1> HIDE DEF new
  <1>3. new[<<"pollConfig">>][<<>>] >= old
    BY <1>1, <1>2
  <1> QED BY <1>2, <1>3 DEF new

\* A poll on chain: its status never goes down, castVote takes no vote outside status 1,
\* and a nullifier once used stays used, with the commitment it came with.
THEOREM PollsOnChain ==
    ASSUME WellTypedScenarios
    PROVE  Spec /\ []PollGuarded => VotesWithinPoll
  <1>1. Init => IInv
    BY InitIInv
  <1>2. IInv /\ [Next]_vars => IInv'
    BY StepIInv
  <1> DEFINE A == IsVote =>
        /\ storage'[<<"pollConfig">>][<<>>] >= storage[<<"pollConfig">>][<<>>]
        /\ storage[<<"pollConfig">>][<<>>] # 1 => storage'[<<"nullifiers">>] = storage[<<"nullifiers">>]
        /\ \A n \in Ids : storage[<<"nullifiers">>][<<n>>] =>
             /\ storage'[<<"nullifiers">>][<<n>>]
             /\ storage'[<<"voteCommitments">>][<<n>>] = storage[<<"voteCommitments">>][<<n>>]
  <1>3. IInv /\ PollGuarded /\ [Next]_vars => [A]_vars
    <2> SUFFICES ASSUME IInv, PollGuarded, Next, IsVote
                 PROVE  A
      OBVIOUS
    <2> DEFINE c == Run.of
               s == Run.of.t.schema
               poll == <<"pollConfig">>
               used == <<"nullifiers">>
               more == <<"voteCommitments">>
    <2>1. WellTyped(c) /\ IsVoteTemplate(c.t) /\ Consistent(c, storage, snapshot, marking)
      BY DEF IInv, WellTypedScenarios, Run, IsVote
    <2>2. Stored(s, storage) /\ PollStored(storage) /\ VoteStates(s)
      BY <2>1 DEF Consistent, WellTyped
    <2>3. storage[poll][<<>>] \in 0 .. 2
      BY <2>2 DEF PollStored
    <2>4. ASSUME storage'[poll][<<>>] >= storage[poll][<<>>],
                 storage'[used] = storage[used], storage'[more] = storage[more]
          PROVE  A
      BY <2>4
    <2>5. CASE Transact
      <3>1. PICK f \in Entrypoints(Run.of.t), sender \in Users : \E args \in Run.of.functions[f].calls :
               /\ Accepts(Run.of, f, CallOf(args, sender), owner)
               /\ Accepted(Transaction(Run.of, f, CallOf(args, sender), owner), Run.of.t.version, f, args)
               /\ Ran(Run.of.t.schema, f, Bound(CallOf(args, sender)))
               /\ scenario' = scenario
        BY <2>5, TransactCalls
      <3>2. PICK args \in Run.of.functions[f].calls :
               /\ Accepts(Run.of, f, CallOf(args, sender), owner)
               /\ Accepted(Transaction(Run.of, f, CallOf(args, sender), owner), Run.of.t.version, f, args)
        BY <3>1
      <3> DEFINE e == CallOf(args, sender)
                 new == Transaction(c, f, e, owner).v
      <3>3. storage' = new /\ e.st = storage
        BY <3>2 DEF Accepted, CallOf
      <3>4. Admitted(c, f, e, owner)
        BY <2>1, <3>2, AcceptedCalls
      <3>5. f \in {<<"createPoll">>, <<"closePoll">>} =>
              e.st[poll][<<>>] = IF f = <<"createPoll">> THEN 0 ELSE 1
        BY <3>2, <3>3, <3>4 DEF PollGuarded
      <3>6. Accepts(c, f, e, owner) /\ Consistent(c, e.st, snapshot, marking)
        BY <2>1, <3>2, <3>3
      <3>7. /\ new[poll][<<>>] >= e.st[poll][<<>>]
            /\ new[used] = e.st[used] /\ new[more] = e.st[more]
        <4> HIDE DEF c, e
        <4> QED BY <2>1, <3>5, <3>6, PollCalled
      <3> HIDE DEF new, e
      <3> QED BY <2>4, <3>3, <3>7
    <2>6. CASE CastVote
      <3>1. PICK n \in Ids, com \in Commitments : MayVote(storage, n) /\ storage' = Voted(storage, n, com)
        BY <2>6, Zenon DEF CastVote, CastVoteIn
      <3> DEFINE new == Voted(storage, n, com)
      <3>2. /\ new[poll] = storage[poll] /\ new[used][<<n>>] = TRUE
            /\ \A m \in Ids : m # n => /\ new[used][<<m>>] = storage[used][<<m>>]
                                       /\ new[more][<<m>>] = storage[more][<<m>>]
        <4>1. OneVote(storage, new, n)
          BY <2>2, VotedStorage
        <4> HIDE DEF new
        <4> QED BY <4>1 DEF OneVote
      <3>3. storage[poll][<<>>] = 1 /\ ~storage[used][<<n>>]
        BY <3>1 DEF MayVote
      <3> HIDE DEF new
      <3>4. ASSUME NEW m \in Ids, storage[used][<<m>>]
            PROVE  new[used][<<m>>] /\ new[more][<<m>>] = storage[more][<<m>>]
        <4>1. m # n
          BY <3>3, <3>4
        <4> QED BY <3>2, <3>4, <4>1
      <3>5. storage' = new
        BY <3>1 DEF new
      <3>6. storage'[poll][<<>>] >= storage[poll][<<>>]
        BY <2>3, <3>2, <3>5
      <3> QED BY <3>3, <3>4, <3>5, <3>6
    <2>7. CASE TransferOwnership \/ RenounceOwnership \/ AdvanceEpoch
      <3>1. storage' = storage
        BY <2>7 DEF TransferOwnership, RenounceOwnership, AdvanceEpoch, Administered
      <3> QED BY <2>3, <2>4, <3>1
    <2> QED BY <2>5, <2>6, <2>7 DEF Next
  <1> QED BY <1>1, <1>2, <1>3, PTL DEF Spec, VotesWithinPoll

-----------------------------------------------------------------------------
(* Supply: sums of entries. *)

\* The keys of a type are finitely many.
LEMMA KeysFinite ==
    ASSUME NEW type
    PROVE  IsFiniteSet(KeySpace(type))
  <1>1. \A t : IsFiniteSet(KeyValues(t))
    BY KeysAssumption DEF KeyValues
  <1>2. ASSUME NEW X, IsFiniteSet(X)
        PROVE  IsFiniteSet({<<x>> : x \in X})
    <2> DEFINE T == {<<x>> : x \in X}
               f == [x \in X |-> <<x>>]
    <2>1. f \in Surjection(X, T)
      BY DEF Surjection
    <2> HIDE DEF T, f
    <2> QED BY <1>2, <2>1, FS_Surjection DEF T
  <1>3. CASE Depth(type) = 0
    BY <1>3, FS_EmptySet, FS_Singleton DEF KeySpace
  <1>4. CASE Depth(type) = 1
    BY <1>1, <1>2, <1>4 DEF KeySpace
  <1>5. CASE Depth(type) \notin {0, 1}
    <2>1. KeySpace(type) = KeyValues(type[1]) \X KeyValues(type[2])
      BY <1>5 DEF KeySpace
    <2> QED BY <1>1, <2>1, FS_Product
  <1> QED BY <1>3, <1>4, <1>5

\* The sum of one value is the value.
LEMMA OneSum ==
    ASSUME NEW x, NEW f \in [{x} -> Nat]
    PROVE  SumOf(f) = f[x]
  <1> DEFINE zero == [y \in {x} |-> 0]
  <1>1. IsFiniteSet({x})
    BY FS_Singleton
  <1>2. zero \in [{x} -> Nat] /\ zero[x] = 0 /\ \A y \in {x} : zero[y] = 0
    OBVIOUS
  <1> HIDE DEF zero
  <1>3. SumOf(zero) = 0
    BY <1>1, <1>2, SumOfZeros
  <1>4. x \in {x} /\ \A y \in {x} \ {x} : f[y] = zero[y]
    OBVIOUS
  <1>5. SumOf(f) + zero[x] = SumOf(zero) + f[x]
    BY <1>1, <1>2, <1>4, SumChange
  <1>6. SumOf(f) \in Nat /\ f[x] \in Nat
    BY <1>1, SumType
  <1> QED BY <1>2, <1>3, <1>5, <1>6

\* A state with a word for every key, and finitely many of the keys.
Counts(s, p, K) ==
    /\ p \in StateIDs(s) /\ ValuesOf(TypeOf(s, p)) = 0 .. Word
    /\ K \subseteq KeySpace(TypeOf(s, p)) /\ IsFiniteSet(K)

Entries(st, p, K) == [k \in K |-> st[p][k]]

\* Their sum is a natural number.
LEMMA EntriesCounted ==
    ASSUME NEW s, NEW st, Stored(s, st), NEW p, NEW K, Counts(s, p, K)
    PROVE  /\ Entries(st, p, K) \in [K -> Nat]
           /\ SumIn(st, p, K) = SumOf(Entries(st, p, K))
           /\ SumIn(st, p, K) \in Nat
  <1>1. st[p] \in [KeySpace(TypeOf(s, p)) -> ValuesOf(TypeOf(s, p))]
    BY DEF Counts, Stored, StorageTyped, TypeOf
  <1>2. \A k \in K : st[p][k] \in 0 .. Word
    BY <1>1 DEF Counts
  <1>3. Entries(st, p, K) \in [K -> Nat]
    BY <1>2, WordAssumption DEF Entries
  <1>4. SumIn(st, p, K) = SumOf(Entries(st, p, K))
    BY DEF SumIn, Entries
  <1> QED BY <1>3, <1>4, SumType DEF Counts

\* A statement about these entries.
Moves(e, op, p, K) == op.do # "none" /\ op.place = p /\ KeyOf(e, op) \in K

\* It changes their sum by what it moves.
LEMMA StepSum ==
    ASSUME NEW s, NEW e, NEW op, Makes(s, e, op), NEW st, Stored(s, st), Do(e, st, op).ok,
           NEW p, NEW K, Counts(s, p, K), op.do # "none" /\ op.place = p => op.do \in {"-=", "+="}
    PROVE  SumIn(Do(e, st, op).v, p, K) = SumIn(st, p, K) + (IF Moves(e, op, p, K) THEN Amount(e, op) ELSE 0)
  <1> DEFINE new == Do(e, st, op).v
             key == KeyOf(e, op)
             old == Entries(st, p, K)
             now == Entries(new, p, K)
  <1>1. Stored(s, new)
    BY DoStored
  <1>2. /\ old \in [K -> Nat] /\ SumIn(st, p, K) = SumOf(old) /\ SumOf(old) \in Nat
        /\ now \in [K -> Nat] /\ SumIn(new, p, K) = SumOf(now) /\ SumOf(now) \in Nat
    BY <1>1, EntriesCounted
  <1>3. p \in DOMAIN st
    BY DEF Counts, Stored
  <1>4. CASE op.do = "none" \/ op.place # p
    <2>1. new[p] = st[p]
      BY <1>3, <1>4, DoStored
    <2>2. now = old
      BY <2>1 DEF Entries
    <2> QED BY <1>2, <1>4, <2>2 DEF Moves
  <1>5. CASE op.do # "none" /\ op.place = p
    <2>1. PICK v \in ValuesOf(TypeOf(s, p)) : new = Put(st, p, key, v) /\ v = st[p][key] + Amount(e, op)
      BY <1>5, DoWrites
    <2>2. key \in KeySpace(TypeOf(s, p)) /\ OperandOf(e, op.value) \in Nat
      <3>1. op.do \in {"-=", "+="}
        BY <1>5
      <3> QED BY <1>5, <3>1 DEF Makes
    <2>3. /\ new[p][key] = v
          /\ \A k \in KeySpace(TypeOf(s, p)) : k # key => new[p][k] = st[p][k]
      <3> HIDE DEF new, key
      <3>0. p \in StateIDs(s) /\ key \in KeySpace(TypeOf(s, p))
        BY <2>2 DEF Counts
      <3>1. /\ Put(st, p, key, v)[p][key] = v
            /\ \A k \in KeySpace(TypeOf(s, p)) : k # key => Put(st, p, key, v)[p][k] = st[p][k]
        BY <3>0, PutStored
      <3> QED BY <2>1, <3>1
    <2> HIDE DEF new, key
    <2>4. \A k \in K \ {key} : now[k] = old[k]
      BY <2>3 DEF Entries, Counts
    <2>5. CASE key \in K
      <3>1. SumOf(now) + old[key] = SumOf(old) + now[key]
        BY <1>2, <2>4, <2>5, SumChange DEF Counts
      <3>2. now[key] = old[key] + Amount(e, op)
        BY <2>1, <2>3, <2>5 DEF Entries
      <3>3. old[key] \in Nat /\ Amount(e, op) \in Int
        BY <1>2, <2>2, <2>5 DEF Amount
      <3>4. Moves(e, op, p, K)
        BY <1>5, <2>5 DEF Moves, key
      <3> QED BY <1>2, <3>1, <3>2, <3>3, <3>4 DEF new
    <2>6. CASE key \notin K
      <3>1. now = old
        BY <1>2, <2>4, <2>6
      <3>2. ~Moves(e, op, p, K)
        BY <2>6 DEF Moves, key
      <3> QED BY <1>2, <3>1, <3>2 DEF new
    <2> QED BY <2>5, <2>6
  <1> QED BY <1>4, <1>5

\* What the first k statements move.
Moved(e, ops, p, K, k) ==
    [j \in 1 .. Len(ops) |-> IF j <= k /\ Moves(e, ops[j], p, K) THEN OperandOf(e, ops[j].value) ELSE 0]

\* Statements about a state do one thing.
Only(ops, p, do) == \A k \in 1 .. Len(ops) : ops[k].do # "none" /\ ops[k].place = p => ops[k].do = do

\* Each statement adds what it moves to what the ones before it moved.
LEMMA MovedStep ==
    ASSUME NEW s, NEW e, NEW ops, Len(ops) \in Nat, AllMake(s, e, ops),
           NEW p, NEW K, NEW do \in {"-=", "+="}, Only(ops, p, do)
    PROVE  /\ \A k \in 0 .. Len(ops) : SumOf(Moved(e, ops, p, K, k)) \in Nat
           /\ SumOf(Moved(e, ops, p, K, 0)) = 0
           /\ \A k \in 1 .. Len(ops) :
                /\ SumOf(Moved(e, ops, p, K, k)) = SumOf(Moved(e, ops, p, K, k - 1))
                     + (IF Moves(e, ops[k], p, K) THEN OperandOf(e, ops[k].value) ELSE 0)
                /\ Moves(e, ops[k], p, K) => OperandOf(e, ops[k].value) \in Nat
  <1> DEFINE n == Len(ops)
             D == 1 .. n
             F(k) == Moved(e, ops, p, K, k)
  <1>1. IsFiniteSet(D)
    BY FS_Interval
  <1>2. ASSUME NEW j \in D, Moves(e, ops[j], p, K)
        PROVE  OperandOf(e, ops[j].value) \in Nat
    <2>1. ops[j].do \in {"-=", "+="} /\ Makes(s, e, ops[j])
      BY <1>2 DEF Moves, Only, AllMake
    <2> QED BY <2>1 DEF Makes
  <1>3. ASSUME NEW k \in 0 .. n
        PROVE  F(k) \in [D -> Nat]
    <2>1. \A j \in D : (IF j <= k /\ Moves(e, ops[j], p, K) THEN OperandOf(e, ops[j].value) ELSE 0) \in Nat
      BY <1>2
    <2> QED BY <2>1 DEF Moved
  <1>4. ASSUME NEW k \in 0 .. n
        PROVE  SumOf(F(k)) \in Nat
    <2> HIDE DEF F, D
    <2> QED BY <1>1, <1>3, SumType
  <1>5. SumOf(F(0)) = 0
    <2>1. \A j \in D : F(0)[j] = 0
      BY DEF Moved
    <2>2. F(0) \in [D -> Nat]
      BY <1>3
    <2> HIDE DEF F, D
    <2> QED BY <1>1, <2>1, <2>2, SumOfZeros
  <1>6. ASSUME NEW k \in D
        PROVE  SumOf(F(k)) = SumOf(F(k - 1)) + (IF Moves(e, ops[k], p, K) THEN OperandOf(e, ops[k].value) ELSE 0)
    <2>1. k \in 0 .. n /\ k - 1 \in 0 .. n
      OBVIOUS
    <2>2. F(k) \in [D -> Nat] /\ F(k - 1) \in [D -> Nat] /\ SumOf(F(k)) \in Nat /\ SumOf(F(k - 1)) \in Nat
      BY <1>3, <1>4, <2>1
    <2>3. \A j \in D \ {k} : F(k)[j] = F(k - 1)[j]
      <3>1. \A j \in D \ {k} : j <= k <=> j <= k - 1
        OBVIOUS
      <3> QED BY <3>1 DEF Moved
    <2>4. /\ F(k - 1)[k] = 0
          /\ F(k)[k] = IF Moves(e, ops[k], p, K) THEN OperandOf(e, ops[k].value) ELSE 0
      BY DEF Moved
    <2> DEFINE f == F(k - 1)
               g == F(k)
    <2>5. f \in [D -> Nat] /\ g \in [D -> Nat] /\ \A j \in D \ {k} : g[j] = f[j]
      BY <2>2, <2>3
    <2> HIDE DEF F, D, f, g
    <2>6. SumOf(g) + f[k] = SumOf(f) + g[k]
      BY <1>1, <2>5, SumChange
    <2>7. f[k] = 0 /\ g[k] \in Nat /\ SumOf(f) \in Nat /\ SumOf(g) \in Nat
      BY <2>2, <2>4, <2>5 DEF f, g
    <2> QED BY <2>4, <2>6, <2>7 DEF f, g
  <1> QED BY <1>2, <1>4, <1>5, <1>6

\* So a part of a body changes the sum by all that its statements move.
LEMMA RunSums ==
    ASSUME NEW s, NEW e, NEW ops, Len(ops) \in Nat, AllMake(s, e, ops),
           NEW st, Stored(s, st), NEW S, Running(e, st, ops, S),
           NEW p, NEW K, Counts(s, p, K), NEW do \in {"-=", "+="}, Only(ops, p, do)
    PROVE  LET n == Len(ops)
               all == SumOf(Moved(e, ops, p, K, n))
           IN /\ all \in Nat /\ SumIn(st, p, K) \in Nat /\ SumIn(S[n], p, K) \in Nat
              /\ do = "+=" => SumIn(S[n], p, K) = SumIn(st, p, K) + all
              /\ do = "-=" => SumIn(S[n], p, K) + all = SumIn(st, p, K)
  <1> DEFINE n == Len(ops)
             Sum(k) == SumIn(S[k], p, K)
             Part(k) == SumOf(Moved(e, ops, p, K, k))
             Summed(k) == IF do = "+=" THEN Sum(k) = Sum(0) + Part(k) ELSE Sum(k) + Part(k) = Sum(0)
             T == {k \in 0 .. n : ~Summed(k)}
  <1>0. S[0] = st
    BY DEF Running
  <1>1. ASSUME NEW k \in 0 .. n
        PROVE  Stored(s, S[k]) /\ Sum(k) \in Nat /\ Part(k) \in Nat
    <2>1. Stored(s, S[k])
      BY RunKeeps DEF Keeps
    <2>2. Part(k) \in Nat
      BY MovedStep
    <2> QED BY <2>1, <2>2, EntriesCounted
  <1>2. Summed(0)
    BY <1>1, MovedStep
  <1>3. ASSUME NEW k \in T, \A j \in T : k <= j
        PROVE  FALSE
    <2>1. k \in 1 .. n /\ k - 1 \in 0 .. n /\ ~(k <= k - 1) /\ ~Summed(k) /\ k \in 0 .. n
      BY <1>2, <1>3
    <2>2. Summed(k - 1)
      BY <1>3, <2>1
    <2> DEFINE op == ops[k]
               now == S[k - 1]
               x == IF Moves(e, op, p, K) THEN OperandOf(e, op.value) ELSE 0
    <2>3. /\ Part(k) = Part(k - 1) + x
          /\ x \in Nat
      <3>1. /\ Part(k) = Part(k - 1) + (IF Moves(e, ops[k], p, K) THEN OperandOf(e, ops[k].value) ELSE 0)
            /\ Moves(e, ops[k], p, K) => OperandOf(e, ops[k].value) \in Nat
        BY <2>1, MovedStep
      <3> HIDE DEF Part
      <3> QED BY <3>1
    <2>4. /\ Do(e, now, op).ok /\ S[k] = Do(e, now, op).v /\ Makes(s, e, op)
          /\ op.do # "none" /\ op.place = p => op.do = do
      BY <2>1 DEF Running, AllMake, Only
    <2>5. Stored(s, now)
      BY <1>1, <2>1
    <2>6. Sum(k) = Sum(k - 1) + (IF Moves(e, op, p, K) THEN Amount(e, op) ELSE 0)
      <3>1. SumIn(Do(e, now, op).v, p, K) = SumIn(now, p, K) + (IF Moves(e, op, p, K) THEN Amount(e, op) ELSE 0)
        <4> HIDE DEF op, now
        <4> QED BY <2>4, <2>5, StepSum
      <3> QED BY <2>4, <3>1
    <2>7. (IF Moves(e, op, p, K) THEN Amount(e, op) ELSE 0) = IF do = "+=" THEN x ELSE 0 - x
      <3>1. CASE Moves(e, op, p, K)
        <4>1. op.do = do
          BY <2>4, <3>1 DEF Moves
        <4>2. x = OperandOf(e, op.value)
          BY <3>1
        <4> HIDE DEF x, op
        <4> QED BY <3>1, <4>1, <4>2 DEF Amount
      <3>2. CASE ~Moves(e, op, p, K)
        BY <3>2
      <3> QED BY <3>1, <3>2
    <2>8. /\ Sum(k) \in Nat /\ Sum(k - 1) \in Nat /\ Sum(0) \in Nat
          /\ Part(k) \in Nat /\ Part(k - 1) \in Nat
      BY <1>1, <2>1
    <2> HIDE DEF Sum, Part, x, op
    <2> QED BY <2>1, <2>2, <2>3, <2>6, <2>7, <2>8
  <1>4. n \notin T
    <2>1. T \subseteq Nat
      OBVIOUS
    <2> HIDE DEF T
    <2> QED BY <1>3, <2>1, LeastNat
  <1>5. Summed(n)
    BY <1>4
  <1>6. /\ Sum(n) \in Nat /\ Sum(0) \in Nat /\ Part(n) \in Nat
    BY <1>1
  <1> QED BY <1>0, <1>5, <1>6

\* Which is the sum of MovedBy, in every call with the same arguments and sender.
LEMMA MovedAll ==
    ASSUME NEW e, NEW d, d.args = e.args, d.sender = e.sender,
           NEW ops, Len(ops) \in Nat, DOMAIN ops = 1 .. Len(ops), NEW p, NEW K
    PROVE  MovedBy(d, ops, p, K) = SumOf(Moved(e, ops, p, K, Len(ops)))
  <1> DEFINE value(k) == IF ops[k].do # "none" /\ ops[k].place = p /\ KeyOf(d, ops[k]) \in K
                         THEN OperandOf(d, ops[k].value) ELSE 0
  <1>1. ASSUME NEW k \in 1 .. Len(ops)
        PROVE  value(k) = IF k <= Len(ops) /\ Moves(e, ops[k], p, K) THEN OperandOf(e, ops[k].value) ELSE 0
    BY CallValues DEF Moves
  <1>2. [k \in DOMAIN ops |-> value(k)] = Moved(e, ops, p, K, Len(ops))
    BY <1>1 DEF Moved
  <1> QED BY <1>2 DEF MovedBy

\* Statements about words: inputs take and outputs give.
LEMMA WordStatements ==
    ASSUME NEW s, NEW f, NEW fn, NEW e, FitCall(s, f, fn, e),
           NEW p, ValueType(TypeOf(s, p)) = <<"uint256">>
    PROVE  Only(fn.body.inputs, p, "-=") /\ Only(fn.body.outputs, p, "+=")
  <1>1. Sound(s) /\ FunctionFits(s, f, fn)
    BY DEF FitCall
  <1>2. /\ Len(fn.body.inputs) = Len(s.arcs) /\ Len(fn.body.outputs) = Len(s.arcs)
        /\ \A k \in 1 .. Len(s.arcs) : /\ fn.body.inputs[k] = InputAt(s, f, k)
                                       /\ fn.body.outputs[k] = OutputAt(s, f, k)
    BY <1>1, BodyStatements
  <1>3. CountedType(TypeOf(s, p)) /\ <<"uint256">> # <<"VestingSchedule">>
    BY DEF CountedType
  <1>4. ASSUME NEW k \in 1 .. Len(s.arcs), NEW op, op = InputAt(s, f, k), op.do # "none", op.place = p
        PROVE  op.do = "-="
    <2>1. IsInput(s, k, f)
      BY <1>4 DEF InputAt, NoStatement
    <2>2. ForInput(s, f, s.arcs[k], op)
      BY <1>4, <2>1, InputStatement DEF InputAt
    <2> QED BY <1>3, <1>4, <2>2 DEF ForInput
  <1>5. ASSUME NEW k \in 1 .. Len(s.arcs), NEW op, op = OutputAt(s, f, k), op.do # "none", op.place = p
        PROVE  op.do = "+="
    <2>1. IsOutput(s, k, f)
      BY <1>5 DEF OutputAt, NoStatement
    <2>2. ForOutput(s, s.arcs[k], op)
      BY <1>5, <2>1, OutputStatement DEF OutputAt
    <2> QED BY <1>3, <1>5, <2>2 DEF ForOutput
  <1> QED BY <1>2, <1>4, <1>5 DEF Only

\* A body changes a sum by what its outputs give less what its inputs take.
LEMMA BodySums ==
    ASSUME NEW s, NEW f, NEW fn, NEW e, FitCall(s, f, fn, e), Stored(s, e.st), PerformBody(e, fn.body).ok,
           NEW d, d.args = e.args, d.sender = e.sender,
           NEW p, NEW K, Counts(s, p, K), ValueType(TypeOf(s, p)) = <<"uint256">>
    PROVE  LET now == PerformBody(e, fn.body).v
               taken == MovedBy(d, fn.body.inputs, p, K)
               given == MovedBy(d, fn.body.outputs, p, K)
           IN /\ taken \in Nat /\ given \in Nat
              /\ SumIn(e.st, p, K) \in Nat /\ SumIn(now, p, K) \in Nat
              /\ SumIn(now, p, K) + taken = SumIn(e.st, p, K) + given
  <1> DEFINE ins == fn.body.inputs
             outs == fn.body.outputs
             now == PerformBody(e, fn.body).v
  <1>1. /\ AllMake(s, e, ins) /\ AllMake(s, e, outs)
        /\ Len(ins) \in Nat /\ Len(outs) \in Nat
        /\ DOMAIN ins = 1 .. Len(ins) /\ DOMAIN outs = 1 .. Len(outs)
    <2>1. Sound(s) /\ FunctionFits(s, f, fn)
      BY DEF FitCall
    <2>2. DOMAIN ins = DOMAIN s.arcs /\ DOMAIN outs = DOMAIN s.arcs
      BY <2>1 DEF FunctionFits, generateArcOperations
    <2>3. /\ Len(s.arcs) \in Nat /\ DOMAIN s.arcs = 1 .. Len(s.arcs)
          /\ Len(ins) = Len(s.arcs) /\ Len(outs) = Len(s.arcs)
      BY <2>1, BodyStatements
    <2> HIDE DEF ins, outs
    <2> QED BY <2>2, <2>3, BodyMakes DEF ins, outs
  <1>2. PICK S, U : /\ Running(e, e.st, ins, S)
                    /\ Running(e, S[Len(ins)], outs, U)
                    /\ U[Len(outs)] = now
    BY <1>1, BodyRuns
  <1>3. Only(ins, p, "-=") /\ Only(outs, p, "+=")
    BY WordStatements
  <1> DEFINE mid == S[Len(ins)]
             taken == SumOf(Moved(e, ins, p, K, Len(ins)))
             given == SumOf(Moved(e, outs, p, K, Len(outs)))
  <1>4. MovedBy(d, ins, p, K) = taken /\ MovedBy(d, outs, p, K) = given
    <2> HIDE DEF ins, outs
    <2> QED BY <1>1, MovedAll
  <1> HIDE DEF ins, outs, now
  <1>5. Stored(s, mid)
    <2>1. Len(ins) \in 0 .. Len(ins)
      BY <1>1
    <2> QED BY <1>1, <1>2, <2>1, RunKeeps DEF Keeps
  <1>6. /\ taken \in Nat /\ SumIn(e.st, p, K) \in Nat /\ SumIn(mid, p, K) \in Nat
        /\ SumIn(mid, p, K) + taken = SumIn(e.st, p, K)
    BY <1>1, <1>2, <1>3, RunSums
  <1>7. Running(e, mid, outs, U)
    BY <1>2
  <1> HIDE DEF mid, taken
  <1>8. /\ given \in Nat /\ SumIn(U[Len(outs)], p, K) \in Nat
        /\ SumIn(U[Len(outs)], p, K) = SumIn(mid, p, K) + given
    BY <1>1, <1>3, <1>5, <1>7, RunSums
  <1> HIDE DEF given
  <1>9. /\ taken \in Nat /\ given \in Nat /\ SumIn(e.st, p, K) \in Nat /\ SumIn(now, p, K) \in Nat
        /\ SumIn(now, p, K) + taken = SumIn(e.st, p, K) + given
    BY <1>2, <1>6, <1>8
  <1> QED BY <1>4, <1>9 DEF ins, outs, now

Just(K, key) == K = {key}

\* The entry of a counter is a sum of one.
LEMMA CounterSum ==
    ASSUME NEW s, NEW st, Stored(s, st), NEW p, NEW key, NEW K, Just(K, key), Counts(s, p, K)
    PROVE  SumIn(st, p, K) = st[p][key]
  <1>1. Entries(st, p, K) \in [K -> Nat] /\ SumIn(st, p, K) = SumOf(Entries(st, p, K))
    BY EntriesCounted
  <1>2. Entries(st, p, K)[key] = st[p][key] /\ K = {key}
    BY DEF Entries, Just
  <1> DEFINE f == Entries(st, p, K)
  <1>3. f \in [{key} -> Nat]
    BY <1>1, <1>2
  <1> HIDE DEF f
  <1>4. SumOf(f) = f[key]
    BY <1>3, OneSum
  <1> QED BY <1>1, <1>2, <1>4 DEF f

\* The counters of a schema are the sums of their entries.
SuppliesAgree(s, st) ==
    \A supply \in Supplies : supply.total \in StateIDs(s) =>
      \A key \in KeySpace(TypeOf(s, supply.total)) :
        SumIn(st, supply.entries, CountedKeys(TypeOf(s, supply.entries), key)) = st[supply.total][key]

\* Words that start at 0 can be counted.
LEMMA SupplyCounts ==
    ASSUME NEW s, NEW id, StartsEmpty(s, id)
    PROVE  /\ \A key \in KeySpace(TypeOf(s, id)) : Counts(s, id, {key})
           /\ \A key : Counts(s, id, CountedKeys(TypeOf(s, id), key))
           /\ ValueType(TypeOf(s, id)) = <<"uint256">>
  <1>1. id \in StateIDs(s) /\ ValueType(TypeOf(s, id)) = <<"uint256">>
    BY DEF StartsEmpty, TypeOf
  <1>2. Numeric(TypeOf(s, id))
    BY <1>1 DEF Numeric
  <1>3. ASSUME NEW K, K \subseteq KeySpace(TypeOf(s, id))
        PROVE  Counts(s, id, K)
    <2>1. IsFiniteSet(K)
      BY <1>3, KeysFinite, FS_Subset
    <2> QED BY <1>1, <1>2, <1>3, <2>1, NumericValues DEF Counts
  <1>4. \A key : CountedKeys(TypeOf(s, id), key) \subseteq KeySpace(TypeOf(s, id))
    BY DEF CountedKeys
  <1>5. \A key \in KeySpace(TypeOf(s, id)) : {key} \subseteq KeySpace(TypeOf(s, id))
    OBVIOUS
  <1> QED BY <1>1, <1>3, <1>4, <1>5

\* They are as deployed,
LEMMA SuppliesStart ==
    ASSUME NEW c, WellTyped(c), Supplied(c)
    PROVE  SuppliesAgree(c.t.schema, Deployed(c.t))
  <1> DEFINE s == c.t.schema
             st == Deployed(c.t)
  <1> SUFFICES ASSUME NEW supply \in Supplies, supply.total \in StateIDs(s),
                      NEW key \in KeySpace(TypeOf(s, supply.total))
               PROVE  SumIn(st, supply.entries, CountedKeys(TypeOf(s, supply.entries), key)) = st[supply.total][key]
    BY DEF SuppliesAgree
  <1> DEFINE p == supply.entries
             K == CountedKeys(TypeOf(s, p), key)
  <1>1. StartsEmpty(s, supply.total) /\ StartsEmpty(s, p)
    BY DEF Supplied
  <1>2. Stored(s, st)
    BY DeployedStates
  <1>3. ASSUME NEW id, StartsEmpty(s, id), NEW k \in KeySpace(TypeOf(s, id))
        PROVE  st[id][k] = 0
    <2>1. id \in StateIDs(s) /\ InitialEntry(StateByID(s, id)) = 0
      BY <1>3 DEF StartsEmpty
    <2> QED BY <2>1, DeployedStates
  <1> HIDE DEF st
  <1>4. Counts(s, p, K)
    BY <1>1, SupplyCounts
  <1>5. /\ Entries(st, p, K) \in [K -> Nat]
        /\ SumIn(st, p, K) = SumOf(Entries(st, p, K))
    <2> HIDE DEF K, s
    <2> QED BY <1>2, <1>4, EntriesCounted
  <1>6. \A k \in K : Entries(st, p, K)[k] = 0
    BY <1>1, <1>3 DEF Entries, CountedKeys
  <1>7. SumIn(st, p, K) = 0
    <2>1. IsFiniteSet(K)
      BY <1>4 DEF Counts
    <2> HIDE DEF K
    <2> QED BY <1>5, <1>6, <2>1, SumOfZeros
  <1> QED BY <1>1, <1>3, <1>7

\* and stay so in every call.
LEMMA SuppliesCalled ==
    ASSUME NEW c, WellTyped(c), Supplied(c), NEW f, NEW e, NEW own, Accepts(c, f, e, own),
           Stored(c.t.schema, e.st), SuppliesAgree(c.t.schema, e.st)
    PROVE  SuppliesAgree(c.t.schema, Transaction(c, f, e, own).v)
  <1> DEFINE s == c.t.schema
             fn == c.functions[f]
             new == Transaction(c, f, e, own).v
             d == [args |-> e.args, sender |-> e.sender]
  <1> SUFFICES ASSUME NEW supply \in Supplies, supply.total \in StateIDs(s),
                      NEW key \in KeySpace(TypeOf(s, supply.total))
               PROVE  SumIn(new, supply.entries, CountedKeys(TypeOf(s, supply.entries), key)) = new[supply.total][key]
    BY DEF SuppliesAgree
  <1> DEFINE p == supply.entries
             q == supply.total
             K == CountedKeys(TypeOf(s, p), key)
  <1>1. /\ ~IsVoteTemplate(c.t) /\ StartsEmpty(s, q) /\ StartsEmpty(s, p)
        /\ MovesAlike(d, fn.body, supply, key, K)
    <2>1. f \in Entrypoints(c.t) /\ e.args \in fn.calls /\ e.sender \in Users
      BY DEF Accepts
    <2> QED BY <2>1 DEF Supplied, TypeOf
  <1>2. FitCall(s, f, fn, e) /\ PerformBody(e, fn.body).ok /\ new = PerformBody(e, fn.body).v /\ Stored(s, new) /\ Stored(s, e.st)
    BY <1>1, AcceptedCalls, AcceptedStorage
  <1>3. /\ Counts(s, p, K) /\ ValueType(TypeOf(s, p)) = <<"uint256">>
        /\ Counts(s, q, {key}) /\ ValueType(TypeOf(s, q)) = <<"uint256">>
    <2>1. key \in KeySpace(TypeOf(s, q)) /\ StartsEmpty(s, q) /\ StartsEmpty(s, p)
      BY <1>1
    <2> HIDE DEF s, p, q
    <2> QED BY <2>1, SupplyCounts
  <1>4. SumIn(e.st, p, K) = e.st[q][key]
    BY DEF SuppliesAgree
  <1>5. d.args = e.args /\ d.sender = e.sender
    OBVIOUS
  <1>6. /\ MovedBy(d, fn.body.outputs, p, K) + MovedBy(d, fn.body.inputs, q, {key})
             = MovedBy(d, fn.body.inputs, p, K) + MovedBy(d, fn.body.outputs, q, {key})
    BY <1>1 DEF MovesAlike
  <1> HIDE DEF s, fn, new, d, p, q, K
  <1>7. /\ SumIn(e.st, q, {key}) = e.st[q][key] /\ SumIn(new, q, {key}) = new[q][key]
    <2> DEFINE st == e.st
               one == {key}
    <2>1. Stored(s, st) /\ Stored(s, new) /\ Counts(s, q, one) /\ Just(one, key)
      BY <1>2, <1>3 DEF Just
    <2> HIDE DEF st, one
    <2>2. SumIn(st, q, one) = st[q][key]
      BY <2>1, CounterSum
    <2>3. SumIn(new, q, one) = new[q][key]
      BY <2>1, CounterSum
    <2> QED BY <2>2, <2>3 DEF st, one
  <1>8. /\ MovedBy(d, fn.body.inputs, p, K) \in Nat /\ MovedBy(d, fn.body.outputs, p, K) \in Nat
        /\ SumIn(e.st, p, K) \in Nat /\ SumIn(new, p, K) \in Nat
        /\ SumIn(new, p, K) + MovedBy(d, fn.body.inputs, p, K)
             = SumIn(e.st, p, K) + MovedBy(d, fn.body.outputs, p, K)
    BY <1>2, <1>3, <1>5, BodySums
  <1>9. /\ MovedBy(d, fn.body.inputs, q, {key}) \in Nat /\ MovedBy(d, fn.body.outputs, q, {key}) \in Nat
        /\ SumIn(e.st, q, {key}) \in Nat /\ SumIn(new, q, {key}) \in Nat
        /\ SumIn(new, q, {key}) + MovedBy(d, fn.body.inputs, q, {key})
             = SumIn(e.st, q, {key}) + MovedBy(d, fn.body.outputs, q, {key})
    BY <1>2, <1>3, <1>5, BodySums
  <1> DEFINE entries == SumIn(e.st, p, K)
             entriesNow == SumIn(new, p, K)
             counter == SumIn(e.st, q, {key})
             counterNow == SumIn(new, q, {key})
             taken == MovedBy(d, fn.body.inputs, p, K)
             given == MovedBy(d, fn.body.outputs, p, K)
             takenThere == MovedBy(d, fn.body.inputs, q, {key})
             givenThere == MovedBy(d, fn.body.outputs, q, {key})
  <1>10. /\ entries \in Nat /\ entriesNow \in Nat /\ taken \in Nat /\ given \in Nat
         /\ counter \in Nat /\ counterNow \in Nat /\ takenThere \in Nat /\ givenThere \in Nat
         /\ entriesNow + taken = entries + given
         /\ counterNow + takenThere = counter + givenThere
         /\ given + takenThere = taken + givenThere
         /\ entries = counter
    BY <1>4, <1>6, <1>7, <1>8, <1>9
  <1>11. counterNow = new[q][key]
    BY <1>7
  <1> HIDE DEF entries, entriesNow, counter, counterNow, taken, given, takenThere, givenThere
  <1>12. entriesNow = new[q][key]
    BY <1>10, <1>11
  <1> QED BY <1>12 DEF entriesNow, p, q, K, s, new

\* The contracts of all runs move supplies with their entries.
SuppliedScenarios == \A n \in DOMAIN Scenarios : Supplied(Scenarios[n].of)

\* A counter of supply is the sum of the entries it counts, after any calls: of a vault's
\* shares, a multi-token's balances and the weighted balances of the .btw token.
THEOREM SuppliesMatch ==
    ASSUME WellTypedScenarios, SuppliedScenarios
    PROVE  Spec => []SupplyMatches
  <1> DEFINE SInv == SuppliesAgree(Run.of.t.schema, storage)
  <1>1. Init => IInv /\ SInv
    <2> SUFFICES ASSUME Init
                 PROVE  SInv
      BY InitIInv
    <2>1. PICK name \in DOMAIN Scenarios : Deploy(name, Scenarios[name].of.t)
      BY DEF Init
    <2> DEFINE c == Scenarios[name].of
    <2>2. WellTyped(c) /\ Supplied(c) /\ Run.of = c /\ storage = Deployed(c.t)
      BY <2>1 DEF WellTypedScenarios, SuppliedScenarios, Deploy, Run
    <2> HIDE DEF c
    <2> QED BY <2>2, SuppliesStart
  <1>2. IInv /\ SInv /\ [Next]_vars => IInv' /\ SInv'
    <2> SUFFICES ASSUME IInv, SInv, [Next]_vars
                 PROVE  SInv'
      BY StepIInv
    <2> DEFINE c == Run.of
               s == Run.of.t.schema
    <2>1. WellTyped(c) /\ Supplied(c) /\ Stored(s, storage)
      BY DEF IInv, WellTypedScenarios, SuppliedScenarios, Run, Consistent
    <2>2. ASSUME scenario' = scenario, SuppliesAgree(s, storage')
          PROVE  SInv'
      BY <2>2 DEF Run
    <2>3. CASE Transact
      <3>1. PICK f \in Entrypoints(Run.of.t), sender \in Users : \E args \in Run.of.functions[f].calls :
               /\ Accepts(Run.of, f, CallOf(args, sender), owner)
               /\ Accepted(Transaction(Run.of, f, CallOf(args, sender), owner), Run.of.t.version, f, args)
               /\ scenario' = scenario
        BY <2>3, TransactCalls
      <3>2. PICK args \in Run.of.functions[f].calls :
               /\ Accepts(Run.of, f, CallOf(args, sender), owner)
               /\ Accepted(Transaction(Run.of, f, CallOf(args, sender), owner), Run.of.t.version, f, args)
               /\ scenario' = scenario
        BY <3>1
      <3> DEFINE e == CallOf(args, sender)
                 new == Transaction(c, f, e, owner).v
      <3>3. storage' = new /\ e.st = storage /\ scenario' = scenario
        BY <3>2 DEF Accepted, CallOf
      <3>4. Accepts(c, f, e, owner) /\ Stored(c.t.schema, e.st) /\ SuppliesAgree(c.t.schema, e.st)
        BY <2>1, <3>2, <3>3
      <3>5. SuppliesAgree(c.t.schema, new)
        <4> HIDE DEF c, e
        <4> QED BY <2>1, <3>4, SuppliesCalled
      <3> HIDE DEF e, new
      <3> QED BY <2>2, <3>3, <3>5
    <2>4. CASE CastVote
      <3>1. IsVoteTemplate(c.t) /\ scenario' = scenario
        BY <2>4 DEF CastVote, CastVoteIn, IsVote, Calling
      <3>2. \A supply \in Supplies : supply.total \notin StateIDs(s)
        BY <2>1, <3>1 DEF Supplied
      <3> QED BY <2>2, <3>1, <3>2 DEF SuppliesAgree
    <2>5. CASE TransferOwnership \/ RenounceOwnership \/ AdvanceEpoch
      BY <2>2, <2>5 DEF TransferOwnership, RenounceOwnership, AdvanceEpoch, Administered, Calling
    <2>6. CASE UNCHANGED vars
      BY <2>2, <2>6 DEF vars
    <2> QED BY <2>3, <2>4, <2>5, <2>6 DEF Next
  <1>3. SInv => SupplyMatches
    BY DEF SuppliesAgree, SupplyMatches, TypeOf
  <1> HIDE DEF SInv
  <1> QED BY <1>1, <1>2, <1>3, PTL DEF Spec

-----------------------------------------------------------------------------
(* The amounts of the ledger. *)

\* Storage with the amounts of a schema, which are words.
AmountTypes(s) == \A id \in AmountStates \cap StateIDs(s) : ValuesOf(TypeOf(s, id)) = 0 .. Word
AmountsStored(s, st) == Stored(s, st) /\ DOMAIN st \cap AmountStates \subseteq StateIDs(s)

\* An account is a state and a key of it.
LEMMA AccountParts ==
    ASSUME NEW a \in AllAccounts
    PROVE  a[1] \in AmountStates /\ a = <<a[1], a[2]>>
  BY DEF AllAccounts, AmountStates

\* The ledger sees of storage an amount for each account: its entry, or 0 if it has none.
LEMMA AmountsTyped ==
    ASSUME NEW s, AmountTypes(s), NEW st, AmountsStored(s, st)
    PROVE  /\ AmountsIn(st) \in [AllAccounts -> 0 .. Word]
           /\ \A a \in AllAccounts :
                AmountsIn(st)[a] = IF a[1] \in StateIDs(s) /\ a[2] \in KeySpace(TypeOf(s, a[1]))
                                   THEN st[a[1]][a[2]] ELSE 0
  <1>1. ASSUME NEW a \in AllAccounts
        PROVE  /\ AmountsIn(st)[a] = IF a[1] \in StateIDs(s) /\ a[2] \in KeySpace(TypeOf(s, a[1]))
                                     THEN st[a[1]][a[2]] ELSE 0
               /\ AmountsIn(st)[a] \in 0 .. Word
    <2>1. AmountsIn(st)[a] = IF a[1] \in DOMAIN st /\ a[2] \in DOMAIN st[a[1]] THEN st[a[1]][a[2]] ELSE 0
      BY DEF AmountsIn
    <2>2. a[1] \in AmountStates
      BY AccountParts
    <2>3. a[1] \in DOMAIN st <=> a[1] \in StateIDs(s)
      BY <2>2 DEF AmountsStored, Stored
    <2>4. CASE a[1] \in StateIDs(s)
      <3>1. st[a[1]] \in [KeySpace(TypeOf(s, a[1])) -> 0 .. Word]
        BY <2>2, <2>4 DEF AmountsStored, Stored, StorageTyped, AmountTypes, TypeOf
      <3> QED BY <2>1, <2>3, <2>4, <3>1, WordAssumption
    <2>5. CASE a[1] \notin StateIDs(s)
      BY <2>1, <2>3, <2>5, WordAssumption
    <2> QED BY <2>4, <2>5
  <1>2. AmountsIn(st) = [a \in AllAccounts |-> AmountsIn(st)[a]]
    BY DEF AmountsIn
  <1> QED BY <1>1, <1>2

\* A statement about an account, and what it leaves.
Account(e, op) == <<op.place, KeyOf(e, op)>>
OnAccount(e, op) == op.do # "none" /\ Account(e, op) \in AllAccounts
Adjusted(kept, a, n) == [kept EXCEPT ![a] = kept[a] + n]

\* A statement changes the amount of its account, by what it moves, and no other.
LEMMA StepAmounts ==
    ASSUME NEW s, AmountTypes(s), NEW e, NEW op, Makes(s, e, op),
           op.do # "none" /\ op.place \in AmountStates => op.do \in {"-=", "+="},
           NEW st, AmountsStored(s, st), Do(e, st, op).ok
    PROVE  LET new == Do(e, st, op).v
           IN /\ AmountsStored(s, new)
              /\ AmountsIn(new) = IF OnAccount(e, op)
                                  THEN Adjusted(AmountsIn(st), Account(e, op), Amount(e, op)) ELSE AmountsIn(st)
  <1> DEFINE new == Do(e, st, op).v
             kept == AmountsIn(st)
             now == AmountsIn(new)
             EntryOf(u, a) == IF a[1] \in StateIDs(s) /\ a[2] \in KeySpace(TypeOf(s, a[1])) THEN u[a[1]][a[2]] ELSE 0
  <1>1. AmountsStored(s, new)
    BY DoStored DEF AmountsStored
  <1>2. /\ kept \in [AllAccounts -> 0 .. Word] /\ \A a \in AllAccounts : kept[a] = EntryOf(st, a)
        /\ now \in [AllAccounts -> 0 .. Word] /\ \A a \in AllAccounts : now[a] = EntryOf(new, a)
    BY <1>1, AmountsTyped
  <1>3. Stored(s, st)
    BY DEF AmountsStored
  <1>4. CASE op.do = "none"
    <2>1. new = st
      BY <1>4 DEF Do, Good
    <2> QED BY <1>1, <1>4, <2>1 DEF OnAccount
  <1>5. CASE op.do # "none"
    <2> DEFINE p == op.place
               key == KeyOf(e, op)
    <2>1. p \in StateIDs(s) /\ key \in KeySpace(TypeOf(s, p))
      BY <1>5 DEF Makes
    <2>2. PICK v \in ValuesOf(TypeOf(s, p)) :
            /\ new = Put(st, p, key, v)
            /\ op.do \in {"-=", "+="} => v = st[p][key] + Amount(e, op)
      BY <1>3, <1>5, DoWrites
    <2>3. /\ Put(st, p, key, v)[p][key] = v
          /\ \A k \in KeySpace(TypeOf(s, p)) : k # key => Put(st, p, key, v)[p][k] = st[p][k]
          /\ \A q \in DOMAIN st : q # p => Put(st, p, key, v)[q] = st[q]
      <3> HIDE DEF p, key
      <3> QED BY <1>3, <2>1, PutStored
    <2>4. StateIDs(s) \subseteq DOMAIN st
      BY <1>3 DEF Stored
    <2> HIDE DEF new, p, key
    <2>5. ASSUME NEW a \in AllAccounts, a # <<p, key>>
          PROVE  now[a] = kept[a]
      <3>1. a = <<a[1], a[2]>>
        BY AccountParts
      <3>2. a[1] # p \/ a[2] # key
        BY <2>5, <3>1
      <3>3. EntryOf(new, a) = EntryOf(st, a)
        BY <2>2, <2>3, <2>4, <3>2
      <3> HIDE DEF now, kept, EntryOf
      <3> QED BY <1>2, <3>3
    <2>6. CASE <<p, key>> \in AllAccounts
      <3>1. p \in AmountStates
        BY <2>6, AccountParts
      <3>2. v = st[p][key] + Amount(e, op)
        BY <1>5, <2>2, <3>1 DEF p
      <3>3. now[<<p, key>>] = v /\ kept[<<p, key>>] = st[p][key]
        BY <1>2, <2>1, <2>2, <2>3, <2>6
      <3> HIDE DEF now, kept
      <3>4. now = Adjusted(kept, <<p, key>>, Amount(e, op))
        BY <1>2, <2>5, <2>6, <3>2, <3>3 DEF Adjusted
      <3> QED BY <1>1, <1>5, <2>6, <3>4 DEF OnAccount, Account, p, key, now, kept, new
    <2>7. CASE <<p, key>> \notin AllAccounts
      <3> HIDE DEF now, kept
      <3>1. now = kept
        BY <1>2, <2>5, <2>7
      <3> QED BY <1>1, <2>7, <3>1 DEF OnAccount, Account, p, key, now, kept, new
    <2> QED BY <2>6, <2>7
  <1> QED BY <1>4, <1>5

\* Of the statements of a list, the i-th is about an account, or none when i is 0.
OneOf(e, ops, i) == \A k \in 1 .. Len(ops) : OnAccount(e, ops[k]) <=> k = i
\* Statements about amounts count.
CountsAmounts(ops) ==
    \A k \in 1 .. Len(ops) : ops[k].do # "none" /\ ops[k].place \in AmountStates => ops[k].do \in {"-=", "+="}

\* What a part of a body with one of them leaves.
LEMMA RunAmounts ==
    ASSUME NEW s, AmountTypes(s), NEW e, NEW ops, Len(ops) \in Nat, AllMake(s, e, ops), CountsAmounts(ops),
           NEW st, AmountsStored(s, st), NEW S, Running(e, st, ops, S),
           NEW i \in 0 .. Len(ops), OneOf(e, ops, i)
    PROVE  /\ AmountsStored(s, S[Len(ops)])
           /\ AmountsIn(S[Len(ops)]) = IF i = 0 THEN AmountsIn(st)
                                       ELSE Adjusted(AmountsIn(st), Account(e, ops[i]), Amount(e, ops[i]))
  <1> DEFINE n == Len(ops)
             kept == AmountsIn(st)
             next == Adjusted(kept, Account(e, ops[i]), Amount(e, ops[i]))
             Reached(k) == /\ AmountsStored(s, S[k])
                         /\ AmountsIn(S[k]) = IF i = 0 \/ k < i THEN kept ELSE next
             T == {k \in 0 .. n : ~Reached(k)}
  <1>0. S[0] = st
    BY DEF Running
  <1>1. Reached(0)
    BY <1>0
  <1>2. ASSUME NEW k \in T, \A j \in T : k <= j
        PROVE  FALSE
    <2>1. k \in 1 .. n /\ k - 1 \in 0 .. n /\ ~(k <= k - 1) /\ ~Reached(k)
      BY <1>1, <1>2
    <2>2. Reached(k - 1)
      BY <1>2, <2>1
    <2> DEFINE op == ops[k]
               now == S[k - 1]
    <2>3. /\ Do(e, now, op).ok /\ S[k] = Do(e, now, op).v /\ Makes(s, e, op)
          /\ op.do # "none" /\ op.place \in AmountStates => op.do \in {"-=", "+="}
          /\ OnAccount(e, op) <=> k = i
      BY <2>1 DEF Running, AllMake, CountsAmounts, OneOf
    <2>4. AmountsStored(s, now)
      BY <2>2
    <2>5. /\ AmountsStored(s, S[k])
          /\ AmountsIn(S[k]) = IF OnAccount(e, op) THEN Adjusted(AmountsIn(now), Account(e, op), Amount(e, op))
                               ELSE AmountsIn(now)
      <3> HIDE DEF op, now
      <3> QED BY <2>3, <2>4, StepAmounts
    <2>6. CASE k = i
      <3>1. AmountsIn(now) = kept
        BY <2>1, <2>2, <2>6
      <3> HIDE DEF kept
      <3> QED BY <2>1, <2>3, <2>5, <2>6, <3>1
    <2>7. CASE k # i
      <3>1. AmountsIn(S[k]) = AmountsIn(now)
        BY <2>3, <2>5, <2>7
      <3>2. i = 0 \/ k < i <=> i = 0 \/ k - 1 < i
        BY <2>1, <2>7
      <3> HIDE DEF kept, next
      <3> QED BY <2>1, <2>2, <2>5, <3>1, <3>2
    <2> QED BY <2>6, <2>7
  <1>3. n \notin T
    <2>1. T \subseteq Nat
      OBVIOUS
    <2> HIDE DEF T
    <2> QED BY <1>2, <2>1, LeastNat
  <1>4. Reached(n)
    BY <1>3
  <1>5. i = 0 \/ n < i <=> i = 0
    OBVIOUS
  <1> HIDE DEF kept, next
  <1> QED BY <1>4, <1>5 DEF kept, next

\* A step of the ledger that issues n, or none.
LedgerStep(kept, new, n) ==
    \/ new = kept /\ n = 0
    \/ \E a \in AllAccounts, x \in 1 .. Word :
         \/ kept[a] + x <= Word /\ new = Adjusted(kept, a, x) /\ n = x
         \/ x <= kept[a] /\ new = Adjusted(kept, a, 0 - x) /\ n = 0 - x
         \/ \E b \in AllAccounts :
              /\ x <= kept[a] /\ n = 0
              /\ Adjusted(kept, a, 0 - x)[b] + x <= Word
              /\ new = Adjusted(Adjusted(kept, a, 0 - x), b, x)

KeptAmounts == [AllAccounts -> 0 .. Word]

\* What a change of one amount leaves in its account.
LEMMA ChangeOne ==
    ASSUME NEW kept \in KeptAmounts, NEW a \in AllAccounts, NEW x \in Int
    PROVE  /\ Adjusted(kept, a, x)[a] = kept[a] + x
           /\ x = 0 => Adjusted(kept, a, x) = kept
           /\ kept[a] \in 0 .. Word
  <1>1. kept[a] \in 0 .. Word /\ kept[a] + 0 = kept[a]
    BY WordAssumption DEF KeptAmounts
  <1>2. x = 0 => Adjusted(kept, a, x) = [kept EXCEPT ![a] = kept[a]]
    BY <1>1 DEF Adjusted
  <1>3. [kept EXCEPT ![a] = kept[a]] = kept
    BY DEF KeptAmounts
  <1> QED BY <1>1, <1>2, <1>3 DEF Adjusted, KeptAmounts

\* Three steps of the ledger: taking an amount from an account, giving one, and taking
\* one from an account and giving it to another.
LEMMA AmountTaken ==
    ASSUME NEW kept \in KeptAmounts, NEW new \in KeptAmounts, NEW a \in AllAccounts, NEW x \in Nat,
           new = Adjusted(kept, a, 0 - x)
    PROVE  x <= kept[a] /\ x <= Word /\ LedgerStep(kept, new, 0 - x)
  <1>0. kept[a] \in 0 .. Word /\ new[a] \in 0 .. Word /\ 0 - x \in Int
    BY DEF KeptAmounts
  <1>1. new[a] = kept[a] + (0 - x)
    BY <1>0, ChangeOne
  <1>2. x <= kept[a] /\ x <= Word
    BY <1>0, <1>1, WordAssumption
  <1>3. ASSUME x = 0
        PROVE  LedgerStep(kept, new, 0 - x)
    <2>1. new = kept
      BY <1>0, <1>3, ChangeOne
    <2> QED BY <1>3, <2>1 DEF LedgerStep
  <1>4. ASSUME x # 0
        PROVE  LedgerStep(kept, new, 0 - x)
    <2>1. x \in 1 .. Word
      BY <1>2, <1>4, WordAssumption
    <2> QED BY <1>2, <2>1 DEF LedgerStep
  <1> QED BY <1>2, <1>3, <1>4

LEMMA AmountGiven ==
    ASSUME NEW kept \in KeptAmounts, NEW new \in KeptAmounts, NEW b \in AllAccounts, NEW x \in Nat,
           new = Adjusted(kept, b, x)
    PROVE  kept[b] + x <= Word /\ LedgerStep(kept, new, x)
  <1>0. kept[b] \in 0 .. Word /\ new[b] \in 0 .. Word /\ x \in Int
    BY DEF KeptAmounts
  <1>1. new[b] = kept[b] + x
    BY <1>0, ChangeOne
  <1>2. kept[b] + x <= Word /\ x <= Word
    BY <1>0, <1>1, WordAssumption
  <1>3. ASSUME x = 0
        PROVE  LedgerStep(kept, new, x)
    <2>1. new = kept
      BY <1>0, <1>3, ChangeOne
    <2> QED BY <1>3, <2>1 DEF LedgerStep
  <1>4. ASSUME x # 0
        PROVE  LedgerStep(kept, new, x)
    <2>1. x \in 1 .. Word
      BY <1>2, <1>4, WordAssumption
    <2> QED BY <1>2, <2>1 DEF LedgerStep
  <1> QED BY <1>2, <1>3, <1>4

LEMMA TakenAndGiven ==
    ASSUME NEW kept \in KeptAmounts, NEW mid \in KeptAmounts, NEW new \in KeptAmounts,
           NEW a \in AllAccounts, NEW b \in AllAccounts, NEW x \in Nat,
           mid = Adjusted(kept, a, 0 - x), new = Adjusted(mid, b, x)
    PROVE  LedgerStep(kept, new, 0)
  <1>1. x <= kept[a] /\ x <= Word
    BY AmountTaken
  <1>2. mid[b] + x <= Word
    BY AmountGiven
  <1>3. CASE x = 0
    <2>1. mid = kept
      BY <1>3, ChangeOne
    <2>2. new = mid
      BY <1>3, ChangeOne
    <2> QED BY <2>1, <2>2 DEF LedgerStep
  <1>4. CASE x # 0
    <2>1. x \in 1 .. Word
      BY <1>1, <1>4, WordAssumption
    <2> QED BY <1>1, <1>2, <2>1 DEF LedgerStep
  <1> QED BY <1>3, <1>4

\* The one statement of a list that is about an account, if any.
LEMMA AccountStatement ==
    ASSUME NEW e, NEW d, d.args = e.args, d.sender = e.sender,
           NEW ops, Len(ops) \in Nat, DOMAIN ops = 1 .. Len(ops),
           \A j, k \in OnAccounts(d, ops) : j = k
    PROVE  \E i \in 0 .. Len(ops) : /\ OneOf(e, ops, i)
                                    /\ OnAccounts(d, ops) = IF i = 0 THEN {} ELSE {i}
  <1>1. \A op : KeyOf(d, op) = KeyOf(e, op)
    BY CallValues
  <1>2. OnAccounts(d, ops) = {k \in 1 .. Len(ops) : OnAccount(e, ops[k])}
    BY <1>1 DEF OnAccounts, OnAccount, Account
  <1>3. CASE OnAccounts(d, ops) = {}
    <2>1. OneOf(e, ops, 0)
      BY <1>2, <1>3 DEF OneOf
    <2> QED BY <1>3, <2>1
  <1>4. CASE OnAccounts(d, ops) # {}
    <2>1. PICK i \in OnAccounts(d, ops) : TRUE
      BY <1>4
    <2>2. i \in 1 .. Len(ops) /\ OneOf(e, ops, i) /\ OnAccounts(d, ops) = {i}
      BY <1>2, <2>1 DEF OneOf
    <2> QED BY <2>2
  <1> QED BY <1>3, <1>4

\* The amounts of a schema are words.
AmountWords(s) == \A id \in AmountStates \cap StateIDs(s) : ValueType(TypeOf(s, id)) = <<"uint256">>

\* So they are typed as amounts.
LEMMA WordAmounts ==
    ASSUME NEW s, AmountWords(s)
    PROVE  AmountTypes(s)
  <1> SUFFICES ASSUME NEW id \in AmountStates \cap StateIDs(s)
               PROVE  ValuesOf(TypeOf(s, id)) = 0 .. Word
    BY DEF AmountTypes
  <1>1. Numeric(TypeOf(s, id))
    BY DEF AmountWords, Numeric
  <1> QED BY <1>1, NumericValues

\* So a body that OneStep describes is a step of the ledger.
LEMMA BodyAmounts ==
    ASSUME NEW s, AmountWords(s), NEW f, NEW fn, NEW e, FitCall(s, f, fn, e), AmountsStored(s, e.st),
           PerformBody(e, fn.body).ok, NEW d, d.args = e.args, d.sender = e.sender,
           NEW n, OneStep(d, fn.body, n)
    PROVE  /\ AmountsStored(s, PerformBody(e, fn.body).v)
           /\ LedgerStep(AmountsIn(e.st), AmountsIn(PerformBody(e, fn.body).v), n)
  <1> DEFINE ins == fn.body.inputs
             outs == fn.body.outputs
             now == PerformBody(e, fn.body).v
  <1>1. /\ AllMake(s, e, ins) /\ AllMake(s, e, outs)
        /\ Len(ins) \in Nat /\ Len(outs) \in Nat
        /\ DOMAIN ins = 1 .. Len(ins) /\ DOMAIN outs = 1 .. Len(outs)
    <2>1. Sound(s) /\ FunctionFits(s, f, fn)
      BY DEF FitCall
    <2>2. DOMAIN ins = DOMAIN s.arcs /\ DOMAIN outs = DOMAIN s.arcs
      BY <2>1 DEF FunctionFits, generateArcOperations
    <2>3. /\ Len(s.arcs) \in Nat /\ DOMAIN s.arcs = 1 .. Len(s.arcs)
          /\ Len(ins) = Len(s.arcs) /\ Len(outs) = Len(s.arcs)
      BY <2>1, BodyStatements
    <2> HIDE DEF ins, outs
    <2> QED BY <2>2, <2>3, BodyMakes DEF ins, outs
  <1>2. PICK S, U : /\ Running(e, e.st, ins, S)
                    /\ Running(e, S[Len(ins)], outs, U)
                    /\ U[Len(outs)] = now
    BY <1>1, BodyRuns
  <1>3. /\ \A k \in 1 .. Len(ins) : ins[k].do # "none" /\ ins[k].place \in AmountStates => ins[k].do = "-="
        /\ \A k \in 1 .. Len(outs) : outs[k].do # "none" /\ outs[k].place \in AmountStates => outs[k].do = "+="
    <2>1. ASSUME NEW p \in AmountStates \cap StateIDs(s)
          PROVE  Only(ins, p, "-=") /\ Only(outs, p, "+=")
      <3>1. ValueType(TypeOf(s, p)) = <<"uint256">>
        BY DEF AmountWords
      <3> QED BY <3>1, WordStatements
    <2>2. /\ \A k \in 1 .. Len(ins) : ins[k].do # "none" => ins[k].place \in StateIDs(s)
          /\ \A k \in 1 .. Len(outs) : outs[k].do # "none" => outs[k].place \in StateIDs(s)
      BY <1>1 DEF AllMake, Makes
    <2> HIDE DEF ins, outs
    <2> QED BY <2>1, <2>2 DEF Only
  <1>4. CountsAmounts(ins) /\ CountsAmounts(outs)
    BY <1>3 DEF CountsAmounts
  <1>5. AmountTypes(s)
    BY WordAmounts
  <1>6. /\ \A j, k \in OnAccounts(d, ins) : j = k
        /\ \A j, k \in OnAccounts(d, outs) : j = k
        /\ \A j \in OnAccounts(d, ins), k \in OnAccounts(d, outs) :
             OperandOf(d, ins[j].value) = OperandOf(d, outs[k].value)
        /\ (OnAccounts(d, ins) = {} <=> OnAccounts(d, outs) = {}) => n = 0
        /\ OnAccounts(d, ins) = {} => \A k \in OnAccounts(d, outs) : n = OperandOf(d, outs[k].value)
        /\ OnAccounts(d, outs) = {} => \A k \in OnAccounts(d, ins) : n = 0 - OperandOf(d, ins[k].value)
    BY DEF OneStep
  <1>7. \A v : OperandOf(d, v) = OperandOf(e, v)
    BY CallValues
  <1> HIDE DEF ins, outs, now
  <1>8. PICK i \in 0 .. Len(ins) : /\ OneOf(e, ins, i)
                                   /\ OnAccounts(d, ins) = IF i = 0 THEN {} ELSE {i}
    BY <1>1, <1>6, AccountStatement
  <1>9. PICK j \in 0 .. Len(outs) : /\ OneOf(e, outs, j)
                                    /\ OnAccounts(d, outs) = IF j = 0 THEN {} ELSE {j}
    BY <1>1, <1>6, AccountStatement
  <1> DEFINE mid == S[Len(ins)]
             kept == AmountsIn(e.st)
             left == AmountsIn(mid)
             new == AmountsIn(now)
             a == Account(e, ins[i])
             b == Account(e, outs[j])
             x == OperandOf(e, ins[i].value)
             y == OperandOf(e, outs[j].value)
  <1>10. /\ AmountsStored(s, mid)
         /\ left = IF i = 0 THEN kept ELSE Adjusted(kept, a, Amount(e, ins[i]))
    BY <1>1, <1>2, <1>4, <1>5, <1>8, RunAmounts
  <1>11. /\ AmountsStored(s, now)
         /\ new = IF j = 0 THEN left ELSE Adjusted(left, b, Amount(e, outs[j]))
    <2>1. Running(e, mid, outs, U)
      BY <1>2
    <2> HIDE DEF mid
    <2> QED BY <1>1, <1>2, <1>4, <1>5, <1>9, <1>10, <2>1, RunAmounts
  <1>12. kept \in KeptAmounts /\ left \in KeptAmounts /\ new \in KeptAmounts
    BY <1>5, <1>10, <1>11, AmountsTyped DEF KeptAmounts
  <1>13. i # 0 => a \in AllAccounts /\ x \in Nat /\ Amount(e, ins[i]) = 0 - x
    <2> SUFFICES ASSUME i # 0
                 PROVE  a \in AllAccounts /\ x \in Nat /\ Amount(e, ins[i]) = 0 - x
      OBVIOUS
    <2>1. i \in 1 .. Len(ins) /\ OnAccount(e, ins[i]) /\ Makes(s, e, ins[i])
      BY <1>1, <1>8 DEF OneOf, AllMake
    <2>2. a \in AllAccounts /\ ins[i].do # "none" /\ ins[i].place \in AmountStates
      BY <2>1, AccountParts DEF OnAccount, Account
    <2>3. ins[i].do = "-="
      BY <1>3, <2>1, <2>2
    <2> QED BY <2>1, <2>2, <2>3 DEF Makes, Amount
  <1>14. j # 0 => b \in AllAccounts /\ y \in Nat /\ Amount(e, outs[j]) = y
    <2> SUFFICES ASSUME j # 0
                 PROVE  b \in AllAccounts /\ y \in Nat /\ Amount(e, outs[j]) = y
      OBVIOUS
    <2>1. j \in 1 .. Len(outs) /\ OnAccount(e, outs[j]) /\ Makes(s, e, outs[j])
      BY <1>1, <1>9 DEF OneOf, AllMake
    <2>2. b \in AllAccounts /\ outs[j].do # "none" /\ outs[j].place \in AmountStates
      BY <2>1, AccountParts DEF OnAccount, Account
    <2>3. outs[j].do = "+="
      BY <1>3, <2>1, <2>2
    <2> QED BY <2>1, <2>2, <2>3 DEF Makes, Amount
  <1>15. /\ i = 0 /\ j = 0 => n = 0
         /\ i # 0 /\ j # 0 => n = 0 /\ x = y
         /\ i = 0 /\ j # 0 => n = y
         /\ i # 0 /\ j = 0 => n = 0 - x
    BY <1>6, <1>7, <1>8, <1>9
  <1> HIDE DEF mid, kept, left, new, a, b, x, y
  <1>16. LedgerStep(kept, new, n)
    <2>1. CASE i = 0 /\ j = 0
      BY <1>10, <1>11, <1>15, <2>1 DEF LedgerStep
    <2>2. CASE i # 0 /\ j = 0
      <3>1. new = Adjusted(kept, a, 0 - x) /\ n = 0 - x
        BY <1>10, <1>11, <1>13, <1>15, <2>2
      <3> QED BY <1>12, <1>13, <2>2, <3>1, AmountTaken
    <2>3. CASE i = 0 /\ j # 0
      <3>1. new = Adjusted(kept, b, y) /\ n = y
        BY <1>10, <1>11, <1>14, <1>15, <2>3
      <3> QED BY <1>12, <1>14, <2>3, <3>1, AmountGiven
    <2>4. CASE i # 0 /\ j # 0
      <3>1. left = Adjusted(kept, a, 0 - x) /\ new = Adjusted(left, b, x) /\ n = 0
        BY <1>10, <1>11, <1>13, <1>14, <1>15, <2>4
      <3>2. LedgerStep(kept, new, 0)
        BY <1>12, <1>13, <1>14, <2>4, <3>1, TakenAndGiven
      <3> QED BY <3>1, <3>2
    <2> QED BY <2>1, <2>2, <2>3, <2>4
  <1> QED BY <1>11, <1>16 DEF kept, new, now

\* What a contract whose calls are steps of the ledger has as deployed,
LEMMA AmountsStart ==
    ASSUME NEW c, WellTyped(c), MovesAmounts(c)
    PROVE  /\ AmountWords(c.t.schema)
           /\ AmountsStored(c.t.schema, Deployed(c.t))
           /\ AmountsIn(Deployed(c.t)) = [a \in AllAccounts |-> 0]
  <1> DEFINE s == c.t.schema
             st == Deployed(c.t)
  <1>1. \A id \in AmountStates \cap StateIDs(s) : StartsEmpty(s, id)
    BY DEF MovesAmounts
  <1>2. AmountWords(s) /\ AmountTypes(s)
    BY <1>1, WordAmounts DEF AmountWords, StartsEmpty, TypeOf
  <1>3. Stored(s, st) /\ \A id \in StateIDs(s) : \A k \in KeySpace(TypeOf(s, id)) :
                            st[id][k] = InitialEntry(StateByID(s, id))
    BY DeployedStates
  <1>4. DOMAIN st \subseteq StateIDs(s) \cup {<<"voteCommitments">>}
    BY DEF Deployed, InitialStorage
  <1>5. AmountsStored(s, st)
    BY <1>3, <1>4 DEF AmountsStored, AmountStates
  <1> HIDE DEF st, s
  <1>6. ASSUME NEW a \in AllAccounts
        PROVE  AmountsIn(st)[a] = 0
    <2>1. AmountsIn(st)[a] = IF a[1] \in StateIDs(s) /\ a[2] \in KeySpace(TypeOf(s, a[1]))
                             THEN st[a[1]][a[2]] ELSE 0
      BY <1>2, <1>5, AmountsTyped
    <2>2. a[1] \in AmountStates
      BY AccountParts
    <2>3. ASSUME a[1] \in StateIDs(s), a[2] \in KeySpace(TypeOf(s, a[1]))
          PROVE  st[a[1]][a[2]] = 0
      <3>1. st[a[1]][a[2]] = InitialEntry(StateByID(s, a[1]))
        BY <1>3, <2>3
      <3>2. InitialEntry(StateByID(s, a[1])) = 0
        BY <1>1, <2>2, <2>3 DEF StartsEmpty
      <3> QED BY <3>1, <3>2
    <2> QED BY <2>1, <2>3
  <1>7. AmountsIn(st) = [a \in AllAccounts |-> AmountsIn(st)[a]]
    BY DEF AmountsIn
  <1> QED BY <1>2, <1>5, <1>6, <1>7 DEF st, s

\* A contract without amounts has none.
LEMMA NoAmounts ==
    ASSUME NEW s, AmountStates \cap StateIDs(s) = {},
           NEW st, NEW new, DOMAIN new = DOMAIN st, AmountsStored(s, st)
    PROVE  AmountsIn(new) = AmountsIn(st)
  <1>1. ASSUME NEW a \in AllAccounts
        PROVE  a[1] \notin DOMAIN st /\ a[1] \notin DOMAIN new
    BY AccountParts DEF AmountsStored
  <1> QED BY <1>1 DEF AmountsIn

\* and leaves after each of them.
LEMMA AmountsCalled ==
    ASSUME NEW c, WellTyped(c), MovesAmounts(c), NEW f, NEW e, NEW own, Accepts(c, f, e, own),
           AmountsStored(c.t.schema, e.st)
    PROVE  /\ AmountsStored(c.t.schema, Transaction(c, f, e, own).v)
           /\ LedgerStep(AmountsIn(e.st), AmountsIn(Transaction(c, f, e, own).v), IssuedBy(c.t.version, f, e.args))
  <1> DEFINE s == c.t.schema
             fn == c.functions[f]
             body == PerformBody(e, fn.body).v
             new == Transaction(c, f, e, own).v
             d == [args |-> e.args, sender |-> e.sender]
             n == IssuedBy(c.t.version, f, e.args)
  <1>1. /\ \A id \in AmountStates \cap StateIDs(s) : StartsEmpty(s, id) /\ ~IsVoteTemplate(c.t)
        /\ OneStep(d, fn.body, n)
    <2>1. f \in Entrypoints(c.t) /\ e.args \in fn.calls /\ e.sender \in Users
      BY DEF Accepts
    <2>2. \A id \in AmountStates \cap StateIDs(s) : StartsEmpty(s, id) /\ ~IsVoteTemplate(c.t)
      BY DEF MovesAmounts
    <2>3. OneStep(d, fn.body, n)
      BY <2>1 DEF MovesAmounts
    <2> QED BY <2>2, <2>3
  <1>2. AmountWords(s)
    BY <1>1 DEF AmountWords, StartsEmpty, TypeOf
  <1>3. Stored(s, e.st)
    BY DEF AmountsStored
  <1>4. FitCall(s, f, fn, e) /\ PerformBody(e, fn.body).ok
    BY AcceptedCalls
  <1>5. d.args = e.args /\ d.sender = e.sender
    OBVIOUS
  <1>6. /\ Stored(s, new)
        /\ ~IsVoteTemplate(c.t) => new = body
        /\ IsVoteTemplate(c.t) => DOMAIN new = DOMAIN e.st
    BY <1>3, AcceptedStorage
  <1>7. /\ AmountsStored(s, body)
        /\ LedgerStep(AmountsIn(e.st), AmountsIn(body), n)
    <2> HIDE DEF s, fn, d, n
    <2> QED BY <1>1, <1>2, <1>4, <1>5, BodyAmounts DEF s
  <1>8. CASE ~IsVoteTemplate(c.t)
    BY <1>6, <1>7, <1>8
  <1>9. CASE IsVoteTemplate(c.t)
    <2>1. AmountStates \cap StateIDs(s) = {}
      BY <1>1, <1>9
    <2>2. DOMAIN body = DOMAIN e.st
      BY <1>3, <1>4, BodyKeeps
    <2>3. AmountsStored(s, new)
      BY <1>6, <1>9 DEF AmountsStored
    <2> HIDE DEF new, body, s, n
    <2>4. AmountsIn(new) = AmountsIn(body)
      BY <1>6, <1>7, <1>9, <2>1, <2>2, NoAmounts
    <2> QED BY <1>7, <2>3, <2>4 DEF new, s, n
  <1> QED BY <1>8, <1>9

\* Such a call is a step of the ledger that the contract keeps.
LEMMA LedgerFollows ==
    ASSUME AmountsIn(storage) \in KeptAmounts, NEW n,
           LedgerStep(AmountsIn(storage), AmountsIn(storage'), n), issued \in Int, issued' = issued + n
    PROVE  [Amounts!LNext]_(Amounts!lvars)
  <1> DEFINE kept == AmountsIn(storage)
             new == AmountsIn(storage')
  <1>1. AmountsIn(storage)' = new
    OBVIOUS
  <1>2. CASE new = kept /\ n = 0
    BY <1>1, <1>2 DEF Amounts!lvars
  <1>3. ASSUME NEW a \in AllAccounts, NEW x \in 1 .. Word,
               \/ kept[a] + x <= Word /\ new = Adjusted(kept, a, x) /\ n = x
               \/ x <= kept[a] /\ new = Adjusted(kept, a, 0 - x) /\ n = 0 - x
               \/ \E b \in AllAccounts :
                    /\ x <= kept[a] /\ n = 0
                    /\ Adjusted(kept, a, 0 - x)[b] + x <= Word
                    /\ new = Adjusted(Adjusted(kept, a, 0 - x), b, x)
        PROVE  Amounts!LNext
    <2> HIDE DEF kept, new
    <2>1. kept[a] \in 0 .. Word /\ kept[a] + (0 - x) = kept[a] - x
      BY WordAssumption DEF KeptAmounts, kept
    <2>2. Adjusted(kept, a, 0 - x) = [kept EXCEPT ![a] = kept[a] - x]
      BY <2>1 DEF Adjusted
    <2>3. CASE kept[a] + x <= Word /\ new = Adjusted(kept, a, x) /\ n = x
      <3>1. Amounts!Issue(a, x)
        BY <1>1, <2>3 DEF Amounts!Issue, Adjusted, kept, new
      <3> QED BY <3>1 DEF Amounts!LNext
    <2>4. CASE x <= kept[a] /\ new = Adjusted(kept, a, 0 - x) /\ n = 0 - x
      <3>1. issued' = issued - x
        BY <2>4
      <3>2. Amounts!Retire(a, x)
        BY <1>1, <2>2, <2>4, <3>1 DEF Amounts!Retire, kept, new
      <3> QED BY <3>2 DEF Amounts!LNext
    <2>5. ASSUME NEW b \in AllAccounts, x <= kept[a], n = 0,
                 Adjusted(kept, a, 0 - x)[b] + x <= Word,
                 new = Adjusted(Adjusted(kept, a, 0 - x), b, x)
          PROVE  Amounts!LNext
      <3>1. issued' = issued
        BY <2>5
      <3> DEFINE left == [kept EXCEPT ![a] = kept[a] - x]
      <3>2. left[b] + x <= Word /\ new = [left EXCEPT ![b] = left[b] + x]
        BY <2>2, <2>5 DEF Adjusted
      <3>3. Amounts!Move(a, b, x)
        BY <1>1, <2>5, <3>1, <3>2 DEF Amounts!Move, kept, new
      <3> QED BY <3>3 DEF Amounts!LNext
    <2> QED BY <1>3, <2>3, <2>4, <2>5
  <1> QED BY <1>2, <1>3 DEF LedgerStep

\* The calls of the contracts of all runs are steps of the ledger.
AmountScenarios == \A n \in DOMAIN Scenarios : MovesAmounts(Scenarios[n].of)

\* Storage keeps the amounts of its schema, and no other state of a ledger.
LInv == AmountsStored(Run.of.t.schema, storage)

\* It does as deployed, with nothing issued,
LEMMA StartLInv ==
    ASSUME WellTypedScenarios, AmountScenarios
    PROVE  Init => LInv /\ Amounts!LInit
  <1> SUFFICES ASSUME Init
               PROVE  LInv /\ Amounts!LInit
    OBVIOUS
  <1>1. PICK name \in DOMAIN Scenarios : Deploy(name, Scenarios[name].of.t)
    BY DEF Init
  <1> DEFINE c == Scenarios[name].of
  <1>2. WellTyped(c) /\ MovesAmounts(c) /\ Run.of = c /\ storage = Deployed(c.t)
    BY <1>1 DEF WellTypedScenarios, AmountScenarios, Deploy, Run
  <1>3. issued = 0
    BY DEF Init
  <1> HIDE DEF c
  <1>4. AmountsStored(c.t.schema, storage) /\ AmountsIn(storage) = [a \in AllAccounts |-> 0]
    BY <1>2, AmountsStart
  <1> QED BY <1>2, <1>3, <1>4 DEF LInv, Amounts!LInit

\* and after every step, which is a step of the ledger or none.
LEMMA StepLInv ==
    ASSUME WellTypedScenarios, AmountScenarios, IInv, LInv, [Next]_vars
    PROVE  LInv' /\ [Amounts!LNext]_(Amounts!lvars)
  <1> DEFINE c == Run.of
             s == Run.of.t.schema
  <1>1. WellTyped(c) /\ MovesAmounts(c) /\ Consistent(c, storage, snapshot, marking) /\ issued \in Int
    BY DEF IInv, WellTypedScenarios, AmountScenarios, Run
  <1>2. ASSUME scenario' = scenario, AmountsStored(s, storage')
        PROVE  LInv'
    BY <1>2 DEF LInv, Run
  <1>3. CASE Transact
    <2>1. PICK f \in Entrypoints(Run.of.t), sender \in Users : \E args \in Run.of.functions[f].calls :
             /\ Accepts(Run.of, f, CallOf(args, sender), owner)
             /\ Accepted(Transaction(Run.of, f, CallOf(args, sender), owner), Run.of.t.version, f, args)
             /\ scenario' = scenario
      BY <1>3, TransactCalls
    <2>2. PICK args \in Run.of.functions[f].calls :
             /\ Accepts(Run.of, f, CallOf(args, sender), owner)
             /\ Accepted(Transaction(Run.of, f, CallOf(args, sender), owner), Run.of.t.version, f, args)
             /\ scenario' = scenario
      BY <2>1
    <2> DEFINE e == CallOf(args, sender)
               new == Transaction(c, f, e, owner).v
               n == IssuedBy(c.t.version, f, args)
    <2>3. storage' = new /\ e.st = storage /\ e.args = args /\ issued' = issued + n
      BY <2>2 DEF Accepted, CallOf
    <2>4. Accepts(c, f, e, owner) /\ AmountsStored(c.t.schema, e.st)
      BY <2>2, <2>3 DEF LInv
    <2>5. /\ AmountsStored(c.t.schema, new)
          /\ LedgerStep(AmountsIn(e.st), AmountsIn(new), n)
      <3>1. n = IssuedBy(c.t.version, f, e.args)
        BY <2>3
      <3> HIDE DEF c, e, n
      <3> QED BY <1>1, <2>4, <3>1, AmountsCalled
    <2> HIDE DEF e, new, n
    <2>6. LedgerStep(AmountsIn(storage), AmountsIn(storage'), n)
      BY <2>3, <2>5
    <2>7. AmountsIn(storage) \in KeptAmounts
      <3>1. AmountTypes(s)
        BY <1>1, AmountsStart, WordAmounts
      <3> QED BY <3>1, AmountsTyped DEF LInv, KeptAmounts
    <2> QED BY <1>1, <1>2, <2>2, <2>3, <2>5, <2>6, <2>7, LedgerFollows
  <1>4. CASE CastVote
    <2>1. IsVoteTemplate(c.t) /\ scenario' = scenario /\ issued' = issued
      BY <1>4 DEF CastVote, CastVoteIn, IsVote, Calling
    <2>2. PICK n \in Ids, commitment \in Commitments : storage' = Voted(storage, n, commitment)
      BY <1>4, Zenon DEF CastVote, CastVoteIn
    <2> DEFINE new == Voted(storage, n, commitment)
    <2>3. DOMAIN new = DOMAIN storage
      BY DEF Voted, Put
    <2>4. VoteStates(s) /\ Stored(s, storage) /\ PollStored(storage)
      BY <1>1, <2>1 DEF WellTyped, Consistent
    <2>5. Stored(s, new)
      BY <2>4, VotedStorage
    <2>6. AmountStates \cap StateIDs(s) = {}
      BY <1>1, <2>1 DEF MovesAmounts
    <2> HIDE DEF new
    <2>7. AmountsStored(s, new)
      BY <2>3, <2>5 DEF LInv, AmountsStored
    <2>8. AmountsIn(new) = AmountsIn(storage)
      BY <2>3, <2>6, NoAmounts DEF LInv
    <2>9. storage' = new
      BY <2>2 DEF new
    <2>10. AmountsIn(storage') = AmountsIn(storage)
      BY <2>8, <2>9
    <2> QED BY <1>2, <2>1, <2>7, <2>9, <2>10 DEF Amounts!lvars
  <1>5. CASE TransferOwnership \/ RenounceOwnership \/ AdvanceEpoch \/ UNCHANGED vars
    <2>1. scenario' = scenario /\ storage' = storage /\ issued' = issued
      BY <1>5 DEF TransferOwnership, RenounceOwnership, AdvanceEpoch, Administered, Calling, vars
    <2> QED BY <1>2, <2>1 DEF LInv, Amounts!lvars
  <1> QED BY <1>3, <1>4, <1>5 DEF Next

\* Every contract whose calls take and give one amount, or issue or retire it, implements
\* the ledger: after any calls, nothing was made or lost but what they issued and retired.
THEOREM ContractsImplementLedger ==
    ASSUME WellTypedScenarios, AmountScenarios
    PROVE  Spec => ImplementsLedger
  <1>1. Init => IInv /\ LInv /\ Amounts!LInit
    BY InitIInv, StartLInv
  <1>2. IInv /\ LInv /\ [Next]_vars => IInv' /\ LInv' /\ [Amounts!LNext]_(Amounts!lvars)
    BY StepIInv, StepLInv
  <1> QED BY <1>1, <1>2, PTL DEF Spec, ImplementsLedger, Amounts!LSpec
=============================================================================
