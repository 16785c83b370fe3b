------------------------------ MODULE ContractCalls ------------------------------
(****************************************************************************)
(* What solidity/codegen.go writes into the body of a function for the arcs *)
(* of its action, and what a transaction does to the storage of a contract  *)
(* under Solidity 0.8: every arithmetic step is checked, and a failed step  *)
(* undoes the whole call.                                                   *)
(*                                                                          *)
(* Storage is a function from a state to the entry of each of its key       *)
(* tuples; a scalar has the one key <<>>.  A contract is [t, timed,         *)
(* functions], a function of it [conditions, body, params, calls], as       *)
(* SolidityContract generates them.  Events, error messages, layout and the *)
(* getters of single entries are left out.                                  *)
(****************************************************************************)
EXTENDS NetRuntime, Sums, FiniteSets

CONSTANTS Word,        \* the largest uint256
          Holds(_, _)  \* whether a generated condition holds of a call

ASSUME WordAssumption == Word \in Nat /\ Word >= 2

\* An address has 160 bits and a number 256.
ASSUME KeysAssumption == IsFiniteSet(Accounts) /\ IsFiniteSet(Ids)

Users == Accounts \ {Zero}

\* The struct of generateStructs, and a deleted one.
VestingSchedule(start, cliff, end, total, revocable) ==
  [start |-> start, cliff |-> cliff, end |-> end, total |-> total, revocable |-> revocable, revokedAt |-> 0]
ZeroValue(type) ==
  CASE ValueType(type) = <<"bool">> -> FALSE
    [] ValueType(type) = <<"address">> -> Zero
    [] ValueType(type) = <<"VestingSchedule">> -> VestingSchedule(0, 0, 0, 0, FALSE)
    [] OTHER -> 0

\* A type whose values are numbers, and the values of a type.
Numeric(type) == ValueType(type) \notin {<<"bool">>, <<"address">>, <<"VestingSchedule">>}
ValuesOf(type) ==
  CASE ValueType(type) = <<"bool">> -> BOOLEAN
    [] ValueType(type) = <<"address">> -> Accounts
    [] ValueType(type) = <<"VestingSchedule">> ->
         [start : 0 .. Word, cliff : 0 .. Word, end : 0 .. Word, total : 0 .. Word,
          revocable : BOOLEAN, revokedAt : {0}]
    [] OTHER -> 0 .. Word

\* generateStateVariables: a scalar starts at its initial value.
InitialEntry(st) == IF ~IsMap(st.type) /\ st.initial # 0 THEN st.initial ELSE ZeroValue(st.type)
InitialStorage(s) ==
  [id \in StateIDs(s) |-> [k \in KeySpace(StateByID(s, id).type) |-> InitialEntry(StateByID(s, id))]]
\* The vote contract has a map of commitments more.
IsVoteTemplate(t) == t.version = "Vote"
Deployed(t) ==
  IF IsVoteTemplate(t)
  THEN [id \in StateIDs(t.schema) \cup {<<"voteCommitments">>} |->
          IF id = <<"voteCommitments">> THEN [k \in {<<n>> : n \in Ids} |-> 0]
          ELSE InitialStorage(t.schema)[id]]
  ELSE InitialStorage(t.schema)

\* isPrivilegedAction: the functions with onlyOwner.
isPrivilegedAction(action) ==
  action \in {<<"mint">>, <<"tokenMint">>, <<"vaultHarvest">>, <<"createPoll">>, <<"closePoll">>}

\* The functions that generateFunction makes; castVote of a poll is its own.
Entrypoints(t) == ActionIDs(t.schema) \ (IF IsVoteTemplate(t) THEN {<<"castVote">>} ELSE {})

-----------------------------------------------------------------------------
(* The statements of a function body: one for every arc of the schema, which is *)
(* none when the arc is no input (output) of the action.                        *)

Statement(do, arc, place, value) == [do |-> do, place |-> place, keys |-> arc.keys, value |-> value]
NoStatement == [do |-> "none", place |-> <<>>, keys |-> <<>>, value |-> <<>>]
DefaultValue(st) == IF IsMap(st.type) THEN <<"amount">> ELSE <<"1">>

\* Mutation of StatementValue: the value of an arc of a scalar is not read.
StatementValueMapOnly(arc, st) == IF arc.value = <<>> \/ ~IsMap(st.type) THEN DefaultValue(st) ELSE arc.value
StatementValue(arc, st) == IF arc.value = <<>> THEN DefaultValue(st) ELSE arc.value

\* Mutation of isReadArc: any key.
isReadArcAnyKeys(s, action, arc) ==
  /\ \E k \in DOMAIN s.arcs : IsOutput(s, k, action) /\ s.arcs[k].target = arc.source
  /\ IsMap(StateByID(s, arc.source).type)
\* A read arc: an output arc has the same state and keys, and the state is a map.
isReadArc(s, action, arc) ==
  /\ \E k \in DOMAIN s.arcs :
       IsOutput(s, k, action) /\ s.arcs[k].target = arc.source /\ s.arcs[k].keys = arc.keys
  /\ IsMap(StateByID(s, arc.source).type)

inputOp(s, action, arc) ==
  LET st == StateByID(s, arc.source)
  IN CASE isReadArc(s, action, arc) -> NoStatement
       [] ~isReadArc(s, action, arc) /\ IsMap(st.type) /\ ValueType(st.type) = <<"VestingSchedule">> ->
            Statement("delete", arc, arc.source, <<>>)
       [] ~isReadArc(s, action, arc) /\ (~IsMap(st.type) \/ ValueType(st.type) = <<"uint256">>) ->
            Statement("-=", arc, arc.source, StatementValue(arc, st))
       [] OTHER -> NoStatement
outputOp(s, arc) ==
  LET st == StateByID(s, arc.target)
  IN CASE IsMap(st.type) /\ ValueType(st.type) \in {<<"bool">>, <<"address">>} ->
            Statement("=", arc, arc.target, StatementValue(arc, st))
       [] IsMap(st.type) /\ ValueType(st.type) = <<"VestingSchedule">> ->
            Statement("schedule", arc, arc.target, <<>>)
       [] ~IsMap(st.type) \/ ValueType(st.type) = <<"uint256">> ->
            Statement("+=", arc, arc.target, StatementValue(arc, st))
       [] OTHER -> NoStatement

generateArcOperations(s, action) ==
  [inputs  |-> [k \in DOMAIN s.arcs |->
                  IF IsInput(s, k, action) THEN inputOp(s, action, s.arcs[k]) ELSE NoStatement],
   outputs |-> [k \in DOMAIN s.arcs |->
                  IF IsOutput(s, k, action) THEN outputOp(s, s.arcs[k]) ELSE NoStatement]]

-----------------------------------------------------------------------------
(* A call is [st, args, sender, epoch]: the storage it runs on and what it is  *)
(* given.  A result is [ok, v]; it reverts when not ok.                        *)

Good(v)  == [ok |-> TRUE, v |-> v]
Reverted == [ok |-> FALSE, v |-> 0]

\* Mutation of Checked: no test for less than 0.
CheckedAbove(n) == n <= Word
Checked(n) == n \in 0 .. Word

\* One statement: the storage after it, or a revert.
NameOf(e, name) == IF name = <<"caller">> THEN e.sender ELSE e.args[name]
KeyOf(e, op) == [k \in DOMAIN op.keys |-> NameOf(e, op.keys[k])]
OperandOf(e, v) == IF isNumericLiteral(v) THEN LiteralOf(v) ELSE NameOf(e, v)
ScheduleOf(e) ==
  VestingSchedule(e.args[<<"start">>], e.args[<<"cliff">>], e.args[<<"end">>], e.args[<<"total">>],
                  e.args[<<"revocable">>])

Put(st, place, key, v) == [st EXCEPT ![place] = [st[place] EXCEPT ![key] = v]]
PutNumber(st, place, key, n) == IF Checked(n) THEN Good(Put(st, place, key, n)) ELSE Reverted
Do(e, st, op) ==
  CASE op.do = "none" -> Good(st)
    [] op.do = "-=" -> PutNumber(st, op.place, KeyOf(e, op), st[op.place][KeyOf(e, op)] - OperandOf(e, op.value))
    [] op.do = "+=" -> PutNumber(st, op.place, KeyOf(e, op), st[op.place][KeyOf(e, op)] + OperandOf(e, op.value))
    [] op.do = "=" -> Good(Put(st, op.place, KeyOf(e, op), OperandOf(e, op.value)))
    [] op.do = "delete" -> Good(Put(st, op.place, KeyOf(e, op), VestingSchedule(0, 0, 0, 0, FALSE)))
    [] OTHER -> Good(Put(st, op.place, KeyOf(e, op), ScheduleOf(e)))

\* One statement after another, until one reverts.
OneMore(e, r, op) == IF op.do # "none" /\ r.ok THEN Do(e, r.v, op) ELSE r
ResultsAfter(e, r, ops) ==
  LET After[k \in 0 .. Len(ops)] == IF k = 0 THEN r ELSE OneMore(e, After[k - 1], ops[k])
  IN After
Perform(e, r, ops) == ResultsAfter(e, r, ops)[Len(ops)]

\* generateFunction writes the inputs before the outputs.
PerformBody(e, body) == Perform(e, Perform(e, Good(e.st), body.inputs), body.outputs)

-----------------------------------------------------------------------------
(* Schedules: the contract of a template with them has a clock. *)

Scalar(e, name)     == e.st[<<name>>][<<>>]
EntryAt(e, name, key) == e.st[<<name>>][key]
\* The names of the schedules and of the claimed amounts (generateEpochFunctions).
SchedulesIn(e) == IF <<"schedules">> \in DOMAIN e.st THEN "schedules" ELSE "vestSchedules"
ClaimedIn(e)   == IF <<"claimed">> \in DOMAIN e.st THEN "claimed" ELSE "vestClaimed"

vestedOf(s, epoch) ==
  CASE epoch < s.cliff -> Good(0)
    [] epoch >= s.cliff /\ epoch >= s.end -> Good(s.total)
    [] OTHER -> IF epoch < s.start \/ s.total * (epoch - s.start) > Word THEN Reverted
                ELSE Good((s.total * (epoch - s.start)) \div (s.end - s.start))
vestedAmount(e, id) == vestedOf(EntryAt(e, SchedulesIn(e), <<id>>), e.epoch)
claimableOf(vested, claimed) ==
  IF vested.ok THEN Good(IF vested.v <= claimed THEN 0 ELSE vested.v - claimed) ELSE Reverted
claimableAmount(e, id) == claimableOf(vestedAmount(e, id), EntryAt(e, ClaimedIn(e), <<id>>))

\* generateEpochGuards.
EpochGuard(f, e) ==
  CASE f = <<"vestClaim">> -> LET c == claimableAmount(e, e.args[<<"tokenId">>])
                              IN c.ok /\ e.args[<<"claimAmount">>] <= c.v
    [] f = <<"vestRevoke">> -> EntryAt(e, "vestSchedules", <<e.args[<<"tokenId">>]>>).revocable
    [] OTHER -> TRUE

-----------------------------------------------------------------------------
(* Transactions. *)

\* The lifecycle of the vote contract, written after the statements.
PollConfig(t, f, st) ==
  CASE IsVoteTemplate(t) /\ f = <<"createPoll">> -> Put(st, <<"pollConfig">>, <<>>, 1)
    [] IsVoteTemplate(t) /\ f = <<"closePoll">> -> Put(st, <<"pollConfig">>, <<>>, 2)
    [] OTHER -> st

\* What a function asks for: access, conditions in order, epoch guard.
Admitted(c, f, e, owner) ==
  /\ isPrivilegedAction(f) => e.sender = owner
  /\ \A k \in DOMAIN c.functions[f].conditions : Holds(c.functions[f].conditions[k], e)
  /\ c.timed => EpochGuard(f, e)

\* A generated function.
Transaction(c, f, e, owner) ==
  LET body == PerformBody(e, c.functions[f].body)
  IN IF Admitted(c, f, e, owner) /\ body.ok THEN Good(PollConfig(c.t, f, body.v)) ELSE Reverted

\* Mutation of MayVote: in a poll of any status.
MayVoteAnyTime(st, nullifier) == ~st[<<"nullifiers">>][<<nullifier>>]
\* generateVoteCastFunction, for a proof that the verifier accepts.
MayVote(st, nullifier) == st[<<"pollConfig">>][<<>>] = 1 /\ ~st[<<"nullifiers">>][<<nullifier>>]
Voted(st, nullifier, commitment) ==
  Put(Put(st, <<"nullifiers">>, <<nullifier>>, TRUE), <<"voteCommitments">>, <<nullifier>>, commitment)

-----------------------------------------------------------------------------
(* Contracts whose statements fit their states, as the compiler's types ask. *)

\* A value of a statement that is a number: a literal, or an argument with the name of one.
NamesNumber(args, v) ==
  isNumericLiteral(v) \/ (v # <<"caller">> /\ v \in DOMAIN args /\ inferParamType(v) = "uint256")
\* The state of a statement has the key, and takes the value, that a call gives.
Fits(s, e, op) ==
  op.do # "none" =>
    LET type == StateByID(s, op.place).type
    IN /\ \A k \in DOMAIN op.keys : op.keys[k] \in DOMAIN e.args \cup {<<"caller">>}
       /\ KeyOf(e, op) \in KeySpace(type)
       /\ op.do \in {"-=", "+="} => Numeric(type) /\ NamesNumber(e.args, op.value)
       /\ op.do = "=" => OperandOf(e, op.value) \in ValuesOf(type)
       /\ op.do = "schedule" => ScheduleOf(e) \in ValuesOf(type)
\* The statements of a function are its arcs', and fit in every call of it.
FunctionFits(s, f, fn) ==
  /\ fn.body = generateArcOperations(s, f)
  /\ \A args \in fn.calls :
       /\ \A p \in DOMAIN args : inferParamType(p) = "uint256" => args[p] \in 0 .. Word
       /\ \A sender \in Users, k \in DOMAIN s.arcs :
            /\ Fits(s, [args |-> args, sender |-> sender], fn.body.inputs[k])
            /\ Fits(s, [args |-> args, sender |-> sender], fn.body.outputs[k])
\* The states that generateVoteCastFunction writes to, which no other function does.
VoteStates(s) ==
  /\ <<"nullifiers">> \in StateIDs(s) /\ StateByID(s, <<"nullifiers">>).type = <<<<"uint256">>, <<"bool">>>>
  /\ <<"pollConfig">> \in StateIDs(s) /\ StateByID(s, <<"pollConfig">>).type = <<<<"uint256">>>>
  /\ InitialEntry(StateByID(s, <<"pollConfig">>)) = 0
  /\ <<"voteCommitments">> \notin StateIDs(s)
  /\ OneArcEach(s)
  /\ \A k \in DOMAIN s.arcs :
       /\ s.arcs[k].source \in {<<"nullifiers">>, <<"pollConfig">>} => s.arcs[k].target = <<"castVote">>
       /\ s.arcs[k].target \in {<<"nullifiers">>, <<"pollConfig">>} => s.arcs[k].source = <<"castVote">>
\* All tokens and words that an action moves are as many as one argument says.
OneAmount(s, f, name) ==
  \A k \in DOMAIN s.arcs : IsInput(s, k, f) \/ IsOutput(s, k, f) =>
    /\ TouchesTokens(s, k) => s.arcs[k].value = name
    /\ s.arcs[k].keys # <<>> => ValueName(s.arcs[k]) = name
\* Token states are numbers, and an action takes a token from each state that it has an
\* input of, or else moves nothing: the runtime does not run it without one.
CountsAlong(s) ==
  /\ \A k \in DOMAIN s.states : IsToken(s.states[k]) => Numeric(s.states[k].type)
  /\ \A k \in DOMAIN s.arcs : s.arcs[k].source \in TokenPlaces(s) =>
       \/ s.arcs[k].value = <<>>
       \/ isNumericLiteral(s.arcs[k].value) /\ LiteralOf(s.arcs[k].value) >= 1
       \/ OneAmount(s, s.arcs[k].target, s.arcs[k].value)
\* No two arcs join the same state and action the same way.
SingleArcs(s) ==
  \A j, k \in DOMAIN s.arcs : s.arcs[j].source = s.arcs[k].source /\ s.arcs[j].target = s.arcs[k].target => j = k
\* The contract of a plain net of token states.
PlainContract(c) ==
  /\ PlainTokens(c.t.schema) /\ SingleArcs(c.t.schema) /\ ~c.timed /\ ~IsVoteTemplate(c.t)
  /\ \A f \in ActionIDs(c.t.schema) : DOMAIN c.functions[f].conditions = {} /\ <<>> \in c.functions[f].calls
\* A schema with its contract: initial values are words, and functions fit.
WellTyped(c) ==
  /\ Sound(c.t.schema)
  /\ \A st \in ToSet(c.t.schema.states) : InitialEntry(st) \in ValuesOf(st.type)
  /\ \A f \in Entrypoints(c.t) : FunctionFits(c.t.schema, f, c.functions[f])
  /\ IF IsVoteTemplate(c.t) THEN VoteStates(c.t.schema) ELSE CountsAlong(c.t.schema)
  /\ PlainNet(c.t.schema) => PlainContract(c)

-----------------------------------------------------------------------------
(* Counters of supply and the entries they count: those whose key starts with the *)
(* key of the counter.                                                            *)

Supplies ==
  {[total |-> <<"totalShares">>,      entries |-> <<"balances">>],
   [total |-> <<"vaultTotalShares">>, entries |-> <<"vaultShares">>],
   [total |-> <<"tokenSupply">>,      entries |-> <<"tokenBalances">>],
   [total |-> <<"TOTAL">>,            entries |-> <<"BALANCES">>]}
CountedKeys(type, key) == {k \in KeySpace(type) : SubSeq(k, 1, Len(key)) = key}

\* The sum of the entries of a state with some keys.
SumIn(st, place, keys) == SumOf([k \in keys |-> st[place][k]])
\* What statements move in these entries, all of them up or all of them down.
MovedBy(e, ops, place, keys) ==
  SumOf([k \in DOMAIN ops |->
           IF ops[k].do # "none" /\ ops[k].place = place /\ KeyOf(e, ops[k]) \in keys
           THEN OperandOf(e, ops[k].value) ELSE 0])
\* A call that does to a counter, in sum, what it does to the entries.
MovesAlike(e, body, supply, key, keys) ==
  MovedBy(e, body.outputs, supply.entries, keys) + MovedBy(e, body.inputs, supply.total, {key})
    = MovedBy(e, body.inputs, supply.entries, keys) + MovedBy(e, body.outputs, supply.total, {key})
\* Words that start at 0.
StartsEmpty(s, id) ==
  /\ id \in StateIDs(s) /\ ValueType(StateByID(s, id).type) = <<"uint256">>
  /\ InitialEntry(StateByID(s, id)) = 0
\* A contract all of whose calls move each supply with its entries.
Supplied(c) ==
  \A supply \in Supplies : supply.total \in StateIDs(c.t.schema) =>
    /\ ~IsVoteTemplate(c.t)
    /\ StartsEmpty(c.t.schema, supply.total) /\ StartsEmpty(c.t.schema, supply.entries)
    /\ \A key \in KeySpace(StateByID(c.t.schema, supply.total).type),
          f \in Entrypoints(c.t), sender \in Users :
         \A args \in c.functions[f].calls :
           MovesAlike([args |-> args, sender |-> sender], c.functions[f].body, supply, key,
                      CountedKeys(StateByID(c.t.schema, supply.entries).type, key))
=============================================================================
