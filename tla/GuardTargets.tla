------------------------------ MODULE GuardTargets ------------------------------
(****************************************************************************)
(* What a guard is compiled to: the require statements of the generated     *)
(* contract (solidity/guardgen.go, and the textual fallback of codegen.go), *)
(* with the parameters the function must declare, and the range checks of   *)
(* the circuit (prover/synth/guard.go).                                     *)
(****************************************************************************)
EXTENDS GuardEval, RangeCheck

CONSTANT StateNames  \* the names isLikelyParameter takes for contract storage

-----------------------------------------------------------------------------
(* The require statements. *)

RECURSIVE splitAnd(_)
splitAndOr(node) ==
  IF node[1] = "bin" /\ node[2] \in {"&&", "||"} THEN splitAnd(node[3]) \o splitAnd(node[4]) ELSE <<node>>
splitAnd(node) ==
  IF node[1] = "bin" /\ node[2] = "&&" THEN splitAnd(node[3]) \o splitAnd(node[4]) ELSE <<node>>

OpSymbolsFirst(op) == IF op \in {p[1] \o p[2] : p \in Doubled}
                      THEN <<(CHOOSE p \in Doubled : p[1] \o p[2] = op)[1]>> ELSE <<op>>
OpSymbols(op) == IF op \in {p[1] \o p[2] : p \in Doubled}
                 THEN CHOOSE p \in Doubled : p[1] \o p[2] = op ELSE <<op>>

RECURSIVE NumeralOf(_)
NumeralOf(n) == LET d == CHOOSE d \in Digits : DigitValue[d] = n % 10
                IN IF n < 10 THEN <<d>> ELSE Append(NumeralOf(n \div 10), d)

\* How the contract writes caller, and the tree of it.
Sender == <<"msg", ".", "sender">>
MsgSender == <<"field", <<"id", <<"msg">> >>, <<"sender">> >>

\* The text of a tree.  No parenthesis is printed around an operand.
RECURSIVE translateNode(_), translateArgs(_)
translateArgs(args) ==
  IF args = <<>> THEN <<>>
  ELSE IF Len(args) = 1 THEN translateNode(args[1])
       ELSE translateNode(args[1]) \o <<",", " ">> \o translateArgs(Tail(args))
translateNode(node) ==
  CASE node[1] = "bin" -> translateNode(node[3]) \o <<" ">> \o OpSymbols(node[2]) \o <<" ">>
                            \o translateNode(node[4])
    [] node[1] = "un" -> <<node[2]>> \o translateNode(node[3])
    [] node[1] = "index" -> translateNode(node[2]) \o <<"[">> \o translateNode(node[3]) \o <<"]">>
    [] node[1] = "field" -> translateNode(node[2]) \o <<".">> \o node[3]
    [] node[1] = "call" -> node[2] \o <<"(">> \o translateArgs(node[3]) \o <<")">>
    [] node[1] = "id" -> IF node[2] = <<"caller">> THEN Sender ELSE node[2]
    [] node[1] = "num" -> NumeralOf(node[2])
    [] node[1] = "str" -> <<"\"">> \o node[2] \o <<"\"">>
    [] OTHER -> IF node[2] THEN <<"true">> ELSE <<"false">>

\* Positions where a text reads &&.
AndsOf(s) == {k \in 1 .. Len(s) - 1 : s[k] = "&" /\ s[k + 1] = "&"}

\* codegen.go's fallback for a guard that does not parse: the text is cut at
\* every &&, whatever parenthesis it is in, and an empty piece is dropped.
RECURSIVE cutAtAnds(_)
cutAtAnds(s) ==
  IF AndsOf(s) = {} THEN <<s>>
  ELSE LET k == CHOOSE k \in AndsOf(s) : \A m \in AndsOf(s) : k <= m
       IN <<SubSeq(s, 1, k - 1)>> \o cutAtAnds(SubSeq(s, k + 2, Len(s)))

renameCaller(s) ==
  FoldLeft(LAMBDA acc, c : acc \o (IF c = "caller" THEN Sender ELSE <<c>>), <<>>, s)

notBlank(piece) == \E k \in DOMAIN piece : piece[k] \notin Blanks
fallbackRequires(s) ==
  FoldLeft(LAMBDA acc, p : acc \o (IF notBlank(p) THEN <<renameCaller(p)>> ELSE <<>>), <<>>, cutAtAnds(s))

\* The conditions of the generated function, in order, as generateFunction asks
\* for them; node is the guard's tree.
requiresOf(s, node) ==
  IF node = Nil THEN fallbackRequires(s)
  ELSE FoldLeft(LAMBDA acc, clause : Append(acc, translateNode(clause)), <<>>, splitAnd(node))
requires(s) == IF s = <<>> THEN <<>> ELSE requiresOf(s, Compile(s))

-----------------------------------------------------------------------------
(* The parameters. *)

RECURSIVE identifiers(_)
identifiers(node) ==
  CASE node[1] = "id" -> {node[2]}
    [] node[1] = "bin" -> identifiers(node[3]) \cup identifiers(node[4])
    [] node[1] = "un" -> identifiers(node[3])
    [] node[1] = "index" -> identifiers(node[2]) \cup identifiers(node[3])
    [] node[1] = "field" -> identifiers(node[2])
    [] node[1] = "call" -> UNION {identifiers(node[3][k]) : k \in DOMAIN node[3]}
    [] OTHER -> {}

\* ExtractParameters: every identifier but caller and the known storage names.
\* codegen.go's fallback looks for seven names anywhere in the text.
FallbackParameters == {"amount", "from", "to", "owner", "spender", "id", "tokenId"}
parametersOf(s, node) ==
  IF node = Nil THEN {<<p>> : p \in FallbackParameters \cap ToSet(s)}
  ELSE identifiers(node) \ ({<<n>> : n \in StateNames} \cup {<<"caller">>})
ExtractParameters(s) == IF s = <<>> THEN {} ELSE parametersOf(s, Compile(s))

\* The name whose message genErrMsg gives a comparison with >=.
RECURSIVE rootIdentifier(_)
rootIdentifier(node) ==
  CASE node[1] = "id" -> node[2]
    [] node[1] \in {"index", "field"} -> rootIdentifier(node[2])
    [] OTHER -> <<>>

-----------------------------------------------------------------------------
(* The range checks of a circuit. *)

RECURSIVE keysOf(_), baseOf(_)
keysOf(node) == IF node[1] = "index" THEN Append(keysOf(node[2]), node[3]) ELSE <<>>
baseOf(node) == IF node[1] = "index" THEN baseOf(node[2]) ELSE node

\* The circuit field of state[k1][k2]..: the state and its first key only.
indexExprFieldName(node) ==
  IF /\ node[1] = "index"
     /\ baseOf(node)[1] = "id"
     /\ \A k \in DOMAIN keysOf(node) : keysOf(node)[k][1] = "id"
  THEN <<baseOf(node)[2], keysOf(node)[1][2]>>
  ELSE <<>>

\* The clauses state[..] >= name, or name <= state[..]; the others are left out.
rangeCheckOf(clause) ==
  LET flip == clause[1] = "bin" /\ clause[2] = "<="
      left  == IF flip THEN clause[4] ELSE clause[3]
      right == IF flip THEN clause[3] ELSE clause[4]
  IN IF clause[1] # "bin" THEN {}
     ELSE IF clause[2] \notin {">=", "<="} THEN {}
     ELSE IF indexExprFieldName(left) = <<>> \/ right[1] # "id" THEN {}
     ELSE {[left |-> indexExprFieldName(left), right |-> right[2], clause |-> clause, of |-> left]}

extractRangeChecks(node) == UNION {rangeCheckOf(clause) : clause \in ToSet(splitAnd(node))}

=============================================================================
