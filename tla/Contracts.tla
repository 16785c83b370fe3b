-------------------------------- MODULE Contracts --------------------------------
(****************************************************************************)
(* A template at work: the contract generated of it takes transactions, and *)
(* the two Go engines run the same calls.  Each template is a schema, of    *)
(* src/erc, of a .btw text or a plain net; one is picked and deployed, and  *)
(* then called by any user with any arguments.  A transaction that reverts  *)
(* changes nothing, and the engines are run on the calls that the contract  *)
(* accepts, as internal/server/runtime_parity_test.go does.                 *)
(****************************************************************************)
EXTENDS ContractCalls

CONSTANTS Scenarios,   \* the runs, a function from their names: a contract (of) as Generate
                       \* makes it, the functions that are called, and how many calls are made
          Commitments  \* the commitments of votes, numbers that are not 0

ASSUME ContractsAssumption ==
  /\ \A n \in DOMAIN Scenarios : Scenarios[n].calls \in Nat
  /\ Commitments \subseteq Nat \ {0}

VARIABLES scenario,  \* the name of the run
          storage,   \* the contract's storage
          owner,     \* contractOwner
          epoch,     \* currentEpoch
          snapshot,  \* the metamodel runtime's state
          marking,   \* the petri model's state
          issued,    \* what the calls issued and did not retire
          calls      \* the calls so far

vars == <<scenario, storage, owner, epoch, snapshot, marking, issued, calls>>

\* The run: its contract, its functions and its number of calls.
Run == Scenarios[scenario]
IsVote == IsVoteTemplate(Run.of.t)
CallOf(args, sender) == [st |-> storage, args |-> args, sender |-> sender, epoch |-> epoch]

Deploy(name, t) ==
  /\ scenario = name
  /\ storage = Deployed(t)
  /\ snapshot = NewSnapshot(t.schema)
  /\ marking = NewState(t.schema)

Init ==
  /\ \E name \in DOMAIN Scenarios : Deploy(name, Scenarios[name].of.t)
  /\ owner \in Users
  /\ epoch = 0
  /\ issued = 0
  /\ calls = 0

\* A call of a function of a run is used up.
Calling(run, f) ==
  /\ f \in run.functions
  /\ calls < run.calls
  /\ calls' = calls + 1
  /\ scenario' = scenario

\* The arguments of a call, and its sender as the caller.
BindingsOf(args, sender) ==
  [p \in DOMAIN args \cup {<<"caller">>} |-> IF p = <<"caller">> THEN sender ELSE args[p]]
\* A call of an action of the schema: the engines run it with its bindings.
Ran(schema, f, bindings) ==
  /\ snapshot' = ExecuteWithBindings(schema, snapshot, f, bindings)
  /\ marking' = Fire(schema, marking, f)

\* A call of the contract itself, which is no action of the schema.
Administered(f) ==
  /\ Calling(Run, f)
  /\ UNCHANGED <<storage, snapshot, marking, issued>>

-----------------------------------------------------------------------------
(* What a function issues into the accounts of the ledger, and retires. *)

IssuedBy(version, f, args) ==
  LET n(p) == IF <<p>> \in DOMAIN args THEN args[<<p>>] ELSE 0
  IN CASE version = "ERC-0721" -> IF f = <<"mint">> THEN 1 ELSE IF f = <<"burn">> THEN -1 ELSE 0
       [] version = "ERC-04626" -> IF f \in {<<"deposit">>, <<"mint">>} THEN n("shares")
                                   ELSE IF f \in {<<"withdraw">>, <<"redeem">>} THEN -n("shares") ELSE 0
       [] version = "ERC-05725" -> IF f = <<"create">> THEN n("total")
                                   ELSE IF f = <<"claim">> THEN -n("claimAmount")
                                   ELSE IF f = <<"revoke">> THEN -n("unvestedAmount") ELSE 0
       [] OTHER -> IF f \in {<<"mint">>, <<"mintBatch">>} THEN n("amount")
                   ELSE IF f \in {<<"burn">>, <<"burnBatch">>} THEN -n("amount")
                   ELSE IF f = <<"vaultHarvest">> THEN n("yieldAmount") ELSE 0

\* What an accepted transaction leaves.
Accepted(result, version, f, args) ==
  /\ result.ok
  /\ storage' = result.v
  /\ issued' = issued + IssuedBy(version, f, args)
  /\ UNCHANGED <<owner, epoch>>

TransactIn(run) ==
  \E f \in Entrypoints(run.of.t), sender \in Users :
    /\ Calling(run, f)
    /\ \E args \in run.of.functions[f].calls :
         /\ Accepted(Transaction(run.of, f, CallOf(args, sender), owner), run.of.t.version, f, args)
         /\ Ran(run.of.t.schema, f, BindingsOf(args, sender))
Transact == TransactIn(Run)

\* A vote whose proof the verifier accepts; the server runs the net without a choice,
\* which the proof hides.
CastVoteIn(run) ==
  \E n \in Ids, c \in Commitments :
    /\ Calling(run, <<"castVote">>)
    /\ MayVote(storage, n)
    /\ storage' = Voted(storage, n, c)
    /\ Ran(run.of.t.schema, <<"castVote">>, [p \in {<<"nullifier">>} |-> n])
    /\ UNCHANGED <<owner, epoch, issued>>
CastVote == IsVote /\ CastVoteIn(Run)

TransferOwnership ==
  /\ owner # Zero
  /\ \E newOwner \in Users : owner' = newOwner
  /\ epoch' = epoch
  /\ Administered(<<"transferOwnership">>)

RenounceOwnership ==
  /\ owner # Zero
  /\ owner' = Zero
  /\ epoch' = epoch
  /\ Administered(<<"renounceOwnership">>)

\* The contract of a template with schedules has a clock that its owner moves.
AdvanceEpoch ==
  /\ Run.of.timed
  /\ owner # Zero
  /\ \E n \in 1 .. Word - epoch : epoch' = epoch + n
  /\ owner' = owner
  /\ Administered(<<"advanceEpoch">>)

Next ==
  \/ Transact
  \/ CastVote
  \/ TransferOwnership
  \/ RenounceOwnership
  \/ AdvanceEpoch

Spec == Init /\ [][Next]_vars

-----------------------------------------------------------------------------
(* Types. *)

\* Every entry of every state has a value of the state's type.
StorageTyped(s, st) ==
  \A id \in StateIDs(s) : st[id] \in [KeySpace(StateByID(s, id).type) -> ValuesOf(StateByID(s, id).type)]
\* The type invariant: no number leaves the range of a uint256 (the checked arithmetic
\* of the statements), and the metamodel runtime counts no token below 0.
TypeOK ==
  /\ owner \in Accounts /\ epoch \in 0 .. Word /\ issued \in Int
  /\ StorageTyped(Run.of.t.schema, storage)
  /\ \A id \in TokenPlaces(Run.of.t.schema) : snapshot.tokens[id] \in Nat

-----------------------------------------------------------------------------
(* The contract and the engines. *)

\* A literal weight of an arc with keys is a binding's name to applyDataArc.
KeyedLiterals(s) == \E k \in DOMAIN s.arcs : s.arcs[k].keys # <<>> /\ isNumericLiteral(s.arcs[k].value)

SameCounts(s, snap, st) == \A id \in TokenPlaces(s) : snap.tokens[id] = st[id][<<>>]
\* The entries are the same but for what the runtime started with: the generator drops
\* the initial value of a map.
SameEntries(s, snap, st) ==
  \A id \in WordMaps(s) : \A k \in KeySpace(StateByID(s, id).type) :
    snap.data[id][k] = st[id][k] + InitialWord(StateByID(s, id), k)
\* Run on the calls that the contract accepts, the metamodel runtime keeps the same
\* numbers as the contract: in every token state, and in every map of words beyond what
\* an initial_state block gives it, which only the runtime starts with.
Parity ==
  ~IsVote => /\ SameCounts(Run.of.t.schema, snapshot, storage)
             /\ ~KeyedLiterals(Run.of.t.schema) => SameEntries(Run.of.t.schema, snapshot, storage)

\* The word limit is the contract's alone.
RoomFor(s, f) == \A k \in DOMAIN s.arcs : IsOutput(s, k, f) => storage[s.arcs[k].target][<<>>] < Word

SameChoices(contract, schema) ==
  \A f \in ActionIDs(schema) : RoomFor(schema, f) =>
    \A sender \in Users :
      (Enabled(schema, snapshot, f) /\ (isPrivilegedAction(f) => sender = owner))
        <=> Transaction(contract, f, CallOf(<<>>, sender), owner).ok
Agreeing(contract, schema) ==
  /\ PlainTokens(schema) => SameTokens(schema, snapshot, marking)
  /\ PlainNet(schema) => SameChoices(contract, schema)
\* The engines agree on the tokens they both keep and on what is enabled; on a plain
\* net the contract does too: it accepts an action exactly when they do.
EnginesAgree == Agreeing(Run.of, Run.of.t.schema)

-----------------------------------------------------------------------------
(* What a template promises. *)

\* The states whose amounts the templates move, and their entries.
AmountStates == {<<"balances">>, <<"BALANCES">>, <<"totalLocked">>, <<"vaultTotalAssets">>, <<"vestTotalLocked">>}
AllAccounts ==
  ({<<"balances">>, <<"BALANCES">>} \X {<<a>> : a \in Accounts})
    \cup ({<<"balances">>} \X (Ids \X Accounts))
    \cup ({<<"totalLocked">>, <<"vaultTotalAssets">>, <<"vestTotalLocked">>} \X {<<>>})
AmountsIn(st) ==
  [a \in AllAccounts |-> IF a[1] \in DOMAIN st /\ a[2] \in DOMAIN st[a[1]] THEN st[a[1]][a[2]] ELSE 0]

Amounts == INSTANCE Ledger WITH
  Accounts <- AllAccounts,
  Limit    <- Word,
  kept     <- AmountsIn(storage)

\* Every transaction of every token template is a step of the ledger: it moves an
\* amount from an account that has it, or changes the accounts by what the function
\* issues or retires, and nothing else.
ImplementsLedger == Amounts!LSpec

\* The statements of a call that are about accounts.
OnAccounts(e, ops) ==
  {k \in DOMAIN ops : ops[k].do # "none" /\ <<ops[k].place, KeyOf(e, ops[k])>> \in AllAccounts}
\* A call takes one amount, gives one, or gives what it takes, and issues the rest (n).
OneStep(e, body, n) ==
  LET from == OnAccounts(e, body.inputs)
      to   == OnAccounts(e, body.outputs)
      TakenAt(k) == OperandOf(e, body.inputs[k].value)
      GivenAt(k) == OperandOf(e, body.outputs[k].value)
  IN /\ \A j, k \in from : j = k
     /\ \A j, k \in to : j = k
     /\ \A j \in from, k \in to : TakenAt(j) = GivenAt(k)
     /\ (from = {} <=> to = {}) => n = 0
     /\ from = {} => \A k \in to : n = GivenAt(k)
     /\ to = {} => \A k \in from : n = 0 - TakenAt(k)
\* A contract whose amounts start at 0, and whose calls are all such steps.
MovesAmounts(c) ==
  /\ \A id \in AmountStates \cap StateIDs(c.t.schema) : StartsEmpty(c.t.schema, id) /\ ~IsVoteTemplate(c.t)
  /\ \A f \in Entrypoints(c.t), sender \in Users :
       \A args \in c.functions[f].calls :
         OneStep([args |-> args, sender |-> sender], c.functions[f].body, IssuedBy(c.t.version, f, args))

\* The counters of supply follow the entries they count: the shares of a vault, the
\* supply of a multi-token, and the weighted total of the .btw token.
SupplyMatches ==
  \A supply \in Supplies : supply.total \in StateIDs(Run.of.t.schema) =>
    \A key \in KeySpace(StateByID(Run.of.t.schema, supply.total).type) :
      SumIn(storage, supply.entries, CountedKeys(StateByID(Run.of.t.schema, supply.entries).type, key))
        = storage[supply.total][key]

\* A poll is created while its status is 0, and closed while it is 1.
PollGuarded ==
  IsVote => \A sender \in Users, f \in {<<"createPoll">>, <<"closePoll">>} :
    \A args \in Run.of.functions[f].calls :
      Admitted(Run.of, f, CallOf(args, sender), owner)
        => storage[<<"pollConfig">>][<<>>] = IF f = <<"createPoll">> THEN 0 ELSE 1

\* The life of a poll on chain: its status only goes up, after closePoll no nullifier
\* is used any more, and a used nullifier stays used with the commitment it came with.
VotesWithinPoll ==
  [][ IsVote =>
        /\ storage'[<<"pollConfig">>][<<>>] >= storage[<<"pollConfig">>][<<>>]
        /\ storage[<<"pollConfig">>][<<>>] # 1 => storage'[<<"nullifiers">>] = storage[<<"nullifiers">>]
        /\ \A n \in Ids : storage[<<"nullifiers">>][<<n>>] =>
             /\ storage'[<<"nullifiers">>][<<n>>]
             /\ storage'[<<"voteCommitments">>][<<n>>] = storage[<<"voteCommitments">>][<<n>>]
    ]_vars
=============================================================================
