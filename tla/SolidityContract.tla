----------------------------- MODULE SolidityContract -----------------------------
(****************************************************************************)
(* The contract that solidity/codegen.go generates of a schema: the         *)
(* conditions and the parameters of each function, beside the statements of *)
(* ContractCalls; and what a condition means to the EVM.                    *)
(****************************************************************************)
EXTENDS ContractCalls, GuardGrammar, GuardTargets

CONSTANT NumberInputs  \* the numbers to call a function with, by parameter; 1 for the others

ASSUME InputAssumption == \A p \in DOMAIN NumberInputs : NumberInputs[p] \subseteq 0 .. Word

HasWord(s, part) == \E k \in 1 .. Len(s) : HasPrefix(SubSeq(s, k, Len(s)), part)
hasTimeBasedFeatures(schema) ==
  \E st \in ToSet(schema.states) : HasWord(st.id[1], "vest") \/ ValueType(st.type) = <<"VestingSchedule">>

-----------------------------------------------------------------------------
(* The parameters of a function. *)

isLiteralValue(v) == v \in {<<"true">>, <<"false">>} \/ isNumericLiteral(v)
ArcsOf(schema, action) ==
  {schema.arcs[k] : k \in {k \in DOMAIN schema.arcs : IsInput(schema, k, action) \/ IsOutput(schema, k, action)}}

namesIn(arcs) ==
  UNION { ToSet(a.keys) \cup (IF a.value = <<>> \/ isLiteralValue(a.value) THEN {} ELSE {a.value}) : a \in arcs }
collectFunctionParams(schema, action) ==
  (namesIn(ArcsOf(schema, action)) \cup ExtractParameters(ActionByID(schema, action).guard))
    \ ({<<"caller">>} \cup StateIDs(schema))

ScheduleWords == {<<"start">>, <<"cliff">>, <<"end">>, <<"total">>, <<"revocable">>}
StatementsOf(body) == ToSet(body.inputs) \cup ToSet(body.outputs)
BodyWords(body) ==
  UNION { {op.place, op.value} \cup ToSet(op.keys) \cup (IF op.do = "schedule" THEN ScheduleWords ELSE {}) :
          op \in StatementsOf(body) }
extractBodyParamsNone(body) == {}
extractBodyParams(body) ==
  BodyWords(body) \cap (ScheduleWords \cup {<<"amount">>, <<"assets">>, <<"shares">>, <<"nftAmount">>,
                                           <<"claimAmount">>, <<"unvestedAmount">>, <<"yieldAmount">>})
paramsOf(schema, action) ==
  collectFunctionParams(schema, action) \cup extractBodyParams(generateArcOperations(schema, action))

\* The order of formatParams; a name that is not in it is printed in the order in
\* which Go iterates a map.
ParamOrder ==
  {<<"from">>, <<"to">>, <<"owner">>, <<"spender">>, <<"operator">>, <<"receiver">>, <<"beneficiary">>, <<"id">>,
   <<"tokenId">>, <<"nullifier">>, <<"choice">>, <<"pollId">>, <<"commitment">>, <<"weight">>, <<"amount">>,
   <<"assets">>, <<"shares">>, <<"approved">>, <<"isApproved">>, <<"nftAmount">>, <<"claimAmount">>,
   <<"unvestedAmount">>, <<"yieldAmount">>, <<"total">>, <<"start">>, <<"cliff">>, <<"end">>, <<"revocable">>}

\* The values a transaction may have for a parameter.
IdNames == {<<"id">>, <<"tokenId">>, <<"nullifier">>, <<"choice">>, <<"pollId">>}
ParamValues(p) ==
  CASE inferParamType(p) = "address" -> Accounts
    [] inferParamType(p) = "bool" -> BOOLEAN
    [] p \in IdNames -> Ids
    [] OTHER -> IF p[1] \in DOMAIN NumberInputs THEN NumberInputs[p[1]] ELSE {1}
RECURSIVE CallsWith(_)
CallsWith(P) ==
  IF P = {} THEN {<<>>}
  ELSE LET p == CHOOSE p \in P : TRUE
       IN {(p :> v) @@ rest : v \in ParamValues(p), rest \in CallsWith(P \ {p})}

\* A function of the contract: what it requires, does and takes.  A condition is
\* the tree, or trees, that Solidity reads in its text.
GeneratedFunction(texts, body, params) ==
  [conditions |-> [k \in DOMAIN texts |-> Derivations(SolidityLevels, texts[k])],
   body |-> body, params |-> params, calls |-> CallsWith(params)]
\* The contract of a template.
Generate(t) ==
  [t |-> t, timed |-> hasTimeBasedFeatures(t.schema),
   functions |-> [f \in ActionIDs(t.schema) |->
                    GeneratedFunction(requires(ActionByID(t.schema, f).guard), generateArcOperations(t.schema, f),
                               paramsOf(t.schema, f))]]

-----------------------------------------------------------------------------
(* What a condition means, for a call and the storage it runs on. *)

maxWithdraw(e, a) ==
  CASE Scalar(e, "totalShares") = 0 -> Good(0)
    [] EntryAt(e, "balances", <<a>>) * Scalar(e, "totalAssets") > Word -> Reverted
    [] OTHER -> Good((EntryAt(e, "balances", <<a>>) * Scalar(e, "totalAssets")) \div Scalar(e, "totalShares"))
maxRedeem(e, a) == Good(EntryAt(e, "balances", <<a>>))

\* The calls a guard makes.
ViewCall(f, e, x) ==
  CASE f = <<"address">> -> Good(Zero)
    [] f = <<"vestedAmount">> -> vestedAmount(e, x)
    [] f = <<"maxWithdraw">> -> maxWithdraw(e, x)
    [] f = <<"maxRedeem">> -> maxRedeem(e, x)
    [] OTHER -> Reverted

Compare(op, l, r) ==
  CASE op = "==" -> l = r [] op = "!=" -> l # r
    [] OTHER -> RelationHolds(op, l, r)

\* The value of a condition (no template's guard does arithmetic).
RECURSIVE ValueIn(_, _)
ValueIn(node, e) ==
  CASE node = MsgSender -> Good(e.sender)
    [] node[1] \in {"num", "bool"} -> Good(node[2])
    [] node[1] = "id" -> Good(IF node[2] \in DOMAIN e.args THEN e.args[node[2]] ELSE e.st[node[2]][<<>>])
    [] node[1] = "index" ->
         LET keys == [k \in DOMAIN keysOf(node) |-> ValueIn(keysOf(node)[k], e)]
         IN IF \E k \in DOMAIN keys : ~keys[k].ok THEN Reverted
            ELSE Good(e.st[baseOf(node)[2]][[k \in DOMAIN keys |-> keys[k].v]])
    [] node[1] = "field" /\ node # MsgSender -> Good(ValueIn(node[2], e).v[node[3][1]])
    [] node[1] = "call" -> ViewCall(node[2], e, ValueIn(node[3][1], e).v)
    [] node[1] = "bin" /\ node[2] \in {"&&", "||"} ->
         LET l == ValueIn(node[3], e)
         IN IF ~l.ok THEN Reverted ELSE IF l.v = (node[2] = "||") THEN l ELSE ValueIn(node[4], e)
    [] node[1] = "bin" /\ node[2] \notin {"&&", "||"} ->
         LET l == ValueIn(node[3], e)
             r == ValueIn(node[4], e)
         IN IF l.ok /\ r.ok THEN Good(Compare(node[2], l.v, r.v)) ELSE Reverted
    [] OTHER -> Reverted

ConditionHolds(condition, e) == ValueIn(CHOOSE tree \in condition : TRUE, e) = Good(TRUE)

-----------------------------------------------------------------------------
(* What the generator writes. *)

NamesOf(op) == ToSet(op.keys) \cup (IF op.value \in {<<>>} \/ isLiteralValue(op.value) THEN {} ELSE {op.value})
StatementNames(op) == NamesOf(op) \cup (IF op.do = "schedule" THEN ScheduleWords ELSE {})
PlaceOf(schema, a) == IF HasState(schema, a.source) THEN a.source ELSE a.target

WellFormed(schema, f, fn) ==
  /\ \A trees \in ToSet(fn.conditions) :
       /\ Cardinality(trees) = 1
       /\ \A tree \in trees : identifiers(tree) \subseteq fn.params \cup StateIDs(schema) \cup {<<"msg">>}
  /\ \A op \in StatementsOf(fn.body) : StatementNames(op) \subseteq fn.params \cup {<<"caller">>}
  /\ \A a \in ArcsOf(schema, f) : Len(a.keys) = Depth(StateByID(schema, PlaceOf(schema, a)).type)
  /\ Cardinality(fn.params \ ParamOrder) <= 1
\* The functions of a template compile and mean one thing: every name in a condition
\* or a statement is a parameter, a state, or the sender; Solidity reads each
\* condition in exactly one way; every arc with a map has all its keys; and at most
\* one parameter is left to the iteration order of a Go map (formatParams).
WellFormedContract(contract) ==
  \A f \in Entrypoints(contract.t) : WellFormed(contract.t.schema, f, contract.functions[f])
=============================================================================
