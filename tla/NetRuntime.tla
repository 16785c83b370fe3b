-------------------------------- MODULE NetRuntime --------------------------------
(****************************************************************************)
(* The two engines that run a schema in Go: the metamodel's Runtime         *)
(* (internal/metamodel/runtime.go and snapshot.go) and the petri State      *)
(* (internal/petri/state.go, over the model that bridge.go makes).          *)
(*                                                                          *)
(* A snapshot is [tokens, data]: the counts of the token states, and of     *)
(* every state with a map of words the entry of every key tuple, 0 where it *)
(* is missing.  The runtime also adds to maps of addresses, booleans and    *)
(* schedules, for which its numbers mean nothing: those are left out.       *)
(****************************************************************************)
EXTENDS MetaSchema, Integers, Functions

CONSTANTS Accounts,  \* the addresses
          Zero,      \* address(0), one of them
          Ids,       \* the numbers that name tokens, polls, choices and nullifiers
          TextOf     \* the string that is the key of an address or a number

ASSUME RuntimeAssumption ==
  Zero \in Accounts /\ Ids \subseteq Nat /\ Accounts \cup Ids \subseteq DOMAIN TextOf

\* inferParamType: the type of a parameter by its name.
inferParamType(name) ==
  CASE name \in {<<"from">>, <<"to">>, <<"owner">>, <<"spender">>, <<"operator">>, <<"receiver">>,
                 <<"beneficiary">>, <<"caller">>} -> "address"
    [] name \in {<<"approved">>, <<"isApproved">>, <<"revocable">>} -> "bool"
    [] OTHER -> "uint256"

ValueType(type) == Last(type)
KeyValues(keyType) == IF keyType = <<"address">> THEN Accounts ELSE Ids
\* The key tuples of a type.
KeySpace(type) ==
  CASE Depth(type) = 0 -> {<<>>}
    [] Depth(type) = 1 -> {<<k>> : k \in KeyValues(type[1])}
    [] OTHER -> KeyValues(type[1]) \X KeyValues(type[2])

\* The states whose map the runtime keeps as numbers.
CountsWords(st) == IsData(st) /\ IsMap(st.type) /\ ValueType(st.type) = <<"uint256">>
WordMaps(s) == {st.id : st \in {st \in ToSet(s.states) : CountsWords(st)}}
TokenPlaces(s) == {s.states[k].id : k \in {k \in DOMAIN s.states : IsToken(s.states[k])}}

\* What the initial value of a state has under its keys: a map of one level, from
\* strings; under two keys it has no map of the second, which counts as an empty one.
InitialWord(st, keys) ==
  IF Len(keys) = 1 /\ TextOf[keys[1]] \in DOMAIN st.entries THEN st.entries[TextOf[keys[1]]] ELSE 0
\* NewSnapshotFromSchema.
NewSnapshot(s) ==
  [tokens |-> [id \in TokenPlaces(s) |-> InitialTokens(StateByID(s, id))],
   data   |-> [id \in WordMaps(s) |->
                 [k \in KeySpace(StateByID(s, id).type) |-> InitialWord(StateByID(s, id), k)]]]

-----------------------------------------------------------------------------
(* Bindings are a function from names to values; a number is found under the *)
(* name of a number only, and a missing one is 0.                            *)

GetInt64(b, name) == IF name \in DOMAIN b /\ inferParamType(name) = "uint256" THEN b[name] ELSE 0
\* GetString of every key; <<>> when one is missing.
GetKeys(b, keys) ==
  IF \A k \in DOMAIN keys : keys[k] \in DOMAIN b THEN [k \in DOMAIN keys |-> b[keys[k]]] ELSE <<>>

Decimals == {<<"0">>, <<"1">>, <<"2">>}
isNumericLiteral(v) == v \in Decimals
LiteralOf(v) == CASE v = <<"0">> -> 0 [] v = <<"1">> -> 1 [] OTHER -> 2

\* arcWeight, and the amount of applyDataArc, which knows no literals.
arcWeight(arc, b) ==
  CASE arc.value = <<>> -> 1
    [] isNumericLiteral(arc.value) -> LiteralOf(arc.value)
    [] OTHER -> GetInt64(b, arc.value)

\* Mutation of ValueName: no default.
ValueNameWritten(arc) == arc.value
\* The binding an arc to a map takes its amount from.
ValueName(arc) == IF arc.value = <<>> THEN <<"amount">> ELSE arc.value

-----------------------------------------------------------------------------
(* The loops of both engines over the arcs of an action, as changes of counts: one *)
(* for every arc of the schema, of nothing when it is no input (output) of it.     *)

\* Snapshot.AddTokens, and the counting of a Marking; what is no place of it is
\* passed over.
AddToken(tokens, change) ==
  IF change.n # 0 /\ change.place \in DOMAIN tokens
  THEN [tokens EXCEPT ![change.place] = @ + change.n] ELSE tokens

\* One change after another.
TokensAfter(tokens, changes) ==
  LET After[k \in 0 .. Len(changes)] ==
        IF k = 0 THEN tokens ELSE AddToken(After[k - 1], changes[k])
  IN After
AddTokens(tokens, changes) == TokensAfter(tokens, changes)[Len(changes)]

\* What the input arcs take and the output arcs give, with the weight of each.
Taken(s, action, weight) ==
  [k \in DOMAIN s.arcs |-> [place |-> s.arcs[k].source,
                            n |-> IF s.arcs[k].target = action THEN 0 - weight[k] ELSE 0]]
Given(s, action, weight) ==
  [k \in DOMAIN s.arcs |-> [place |-> s.arcs[k].target,
                            n |-> IF s.arcs[k].source = action THEN weight[k] ELSE 0]]
\* All inputs are taken before an output is given.
MoveTokens(s, tokens, action, weight) ==
  AddTokens(AddTokens(tokens, Taken(s, action, weight)), Given(s, action, weight))

\* The same for the entries of data states: a change without all its keys does nothing.
AddEntry(data, change) ==
  IF change.n # 0 /\ change.place \in DOMAIN data /\ change.keys # <<>>
  THEN [data EXCEPT ![change.place] =
          [data[change.place] EXCEPT ![change.keys] = data[change.place][change.keys] + change.n]]
  ELSE data
DataAfter(data, changes) ==
  LET After[k \in 0 .. Len(changes)] ==
        IF k = 0 THEN data ELSE AddEntry(After[k - 1], changes[k])
  IN After
AddEntries(data, changes) == DataAfter(data, changes)[Len(changes)]

-----------------------------------------------------------------------------
(* Runtime. *)

\* Mutation of Enabled: only the first input arc is tested.
EnabledFirstArc(s, snap, action) ==
  /\ HasAction(s, action)
  /\ \A k \in DOMAIN s.arcs :
       /\ IsInput(s, k, action) /\ \A j \in 1 .. k - 1 : ~IsInput(s, j, action)
       /\ s.arcs[k].source \in TokenPlaces(s)
       => snap.tokens[s.arcs[k].source] >= 1
\* Enabled: every token state an input arc comes from holds a token.
Enabled(s, snap, action) ==
  /\ HasAction(s, action)
  /\ \A k \in DOMAIN s.arcs :
       IsInput(s, k, action) /\ s.arcs[k].source \in TokenPlaces(s)
         => snap.tokens[s.arcs[k].source] >= 1

\* Execute: every token arc weighs 1, data is left alone.
Execute(s, snap, action) ==
  IF Enabled(s, snap, action)
  THEN [snap EXCEPT !.tokens = MoveTokens(s, @, action, [k \in DOMAIN s.arcs |-> 1])]
  ELSE snap

\* A read arc of a data state: an output arc has the same state and keys.
ReadArc(s, action, arc) ==
  /\ \E k \in DOMAIN s.arcs :
       IsOutput(s, k, action) /\ s.arcs[k].target = arc.source /\ s.arcs[k].keys = arc.keys
  /\ IsData(StateByID(s, arc.source))

\* applyDataArc: what the arcs of an action take from and give to entries.
DataTaken(s, action, b) ==
  [k \in DOMAIN s.arcs |->
     [place |-> s.arcs[k].source,
      keys  |-> GetKeys(b, s.arcs[k].keys),
      n     |-> IF IsInput(s, k, action) /\ ~ReadArc(s, action, s.arcs[k])
                THEN 0 - GetInt64(b, ValueName(s.arcs[k])) ELSE 0]]
DataGiven(s, action, b) ==
  [k \in DOMAIN s.arcs |->
     [place |-> s.arcs[k].target,
      keys  |-> GetKeys(b, s.arcs[k].keys),
      n     |-> IF IsOutput(s, k, action) THEN GetInt64(b, ValueName(s.arcs[k])) ELSE 0]]
MoveData(s, data, action, b) ==
  AddEntries(AddEntries(data, DataTaken(s, action, b)), DataGiven(s, action, b))

\* Token states and data states are apart, so each loop is one for either.
Weights(s, b) == [k \in DOMAIN s.arcs |-> arcWeight(s.arcs[k], b)]
applyArcs(s, snap, action, b) ==
  [tokens |-> MoveTokens(s, snap.tokens, action, Weights(s, b)),
   data   |-> MoveData(s, snap.data, action, b)]

\* ExecuteWithBindings and ExecuteWithGuardFuncs with no GuardEvaluator set, as every
\* caller in the repository leaves it: no guard and no constraint is evaluated.
ExecuteWithBindings(s, snap, action, b) ==
  IF Enabled(s, snap, action) THEN applyArcs(s, snap, action, b) ELSE snap

-----------------------------------------------------------------------------
(* petri: FromSchema makes a place of every state, whatever its kind, with its *)
(* scalar initial count; an arc with keys is no arc of the net.                *)

NewState(s) == [id \in StateIDs(s) |-> StateByID(s, id).initial]

PetriEnabled(s, marking, t) ==
  /\ HasAction(s, t)
  /\ \A k \in DOMAIN s.arcs :
       IsInput(s, k, t) /\ s.arcs[k].keys = <<>> => marking[s.arcs[k].source] >= 1

\* Every arc weighs 1, and an arc with keys nothing.
Unkeyed(s) == [k \in DOMAIN s.arcs |-> IF s.arcs[k].keys = <<>> THEN 1 ELSE 0]
Fire(s, marking, t) ==
  IF PetriEnabled(s, marking, t) THEN MoveTokens(s, marking, t, Unkeyed(s)) ELSE marking

-----------------------------------------------------------------------------
(* Schemas, and those both engines run alike. *)

\* A valid schema, whose types have a value, whose counts start natural and whose token
\* states have no map.
Sound(s) ==
  /\ s.arcs \in Seq(ToSet(s.arcs)) /\ s.states \in Seq(ToSet(s.states))
  /\ Validate(s)
  /\ \A k \in DOMAIN s.states : /\ s.states[k].initial \in Nat
                                /\ \A t \in DOMAIN s.states[k].entries : s.states[k].entries[t] \in Nat
                                /\ Depth(s.states[k].type) \in Nat
                                /\ IsToken(s.states[k]) => ~IsMap(s.states[k].type)

TouchesTokens(s, k) == s.arcs[k].source \in TokenPlaces(s) \/ s.arcs[k].target \in TokenPlaces(s)
\* The token states are a plain net of the schema: their arcs have no keys and weigh 1,
\* and an arc without keys is one of theirs.
PlainTokens(s) ==
  \A k \in DOMAIN s.arcs : /\ s.arcs[k].keys = <<>> <=> TouchesTokens(s, k)
                           /\ TouchesTokens(s, k) => s.arcs[k].value = <<>>

\* A schema whose arcs have no keys, weights or guards: a plain net.
PlainNet(s) == /\ \A k \in DOMAIN s.arcs : s.arcs[k].keys = <<>> /\ s.arcs[k].value = <<>>
               /\ \A k \in DOMAIN s.actions : s.actions[k].guard = <<>>

\* Token arcs weigh 1, and no action has two input arcs from one token place.
OneArcEach(s) ==
  /\ \A k \in DOMAIN s.arcs : TouchesTokens(s, k) => s.arcs[k].value = <<>>
  /\ \A j, k \in DOMAIN s.arcs :
       s.arcs[j].source \in TokenPlaces(s) /\ s.arcs[j].source = s.arcs[k].source
         /\ s.arcs[j].target = s.arcs[k].target => j = k

\* Both engines count the same tokens and enable the same actions.
SameTokens(s, snap, net) ==
  /\ \A id \in TokenPlaces(s) : snap.tokens[id] = net[id]
  /\ \A f \in ActionIDs(s) : Enabled(s, snap, f) <=> PetriEnabled(s, net, f)
=============================================================================
