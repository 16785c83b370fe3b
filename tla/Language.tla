-------------------------------- MODULE Language --------------------------------
(****************************************************************************)
(* The two languages of a schema at work.  An author writes a guard, or a   *)
(* .btw file, one part at a time, and each text is given to everything that *)
(* reads it: a guard to the evaluator (internal/metamodel/guard), to the    *)
(* Solidity generator (solidity/guardgen.go) and to the circuit generator   *)
(* (prover/synth/guard.go), which must agree on what it means; a .btw file  *)
(* to the builder (src/dsl), whose schema must be one the others can use.   *)
(*                                                                          *)
(* A fragment is a part of the language to write in: the text is            *)
(* before \o part \o ... \o part \o after, of up to len parts, the first    *)
(* from "first" and the others from "more".                                 *)
(****************************************************************************)
EXTENDS GuardGrammar, GuardTargets, DslBuilder

CONSTANTS Fragments,  \* the fragments to write in, a function from their names
          MapNames,   \* the words that name a map of words, keyed by an address
          NumNames,   \* the words that name a word
          AddrNames,  \* the words that name an address
          Cells,      \* the small numbers that maps and words take
          Markings    \* the markings an invariant is evaluated in

VARIABLES fragment,   \* the name of the fragment the author writes in
          parts,      \* what is written, a sequence of parts
          tree,       \* Compile's tree of a guard
          conditions, \* requires: the generated conditions of a guard
          readings,   \* for each condition, the trees that Solidity's grammar gives it
          checks,     \* extractRangeChecks: the range checks of a guard
          schema      \* SchemaOf: the schema of a .btw text

vars == <<fragment, parts, tree, conditions, readings, checks, schema>>

Form == Fragments[fragment]
TextOf(ps) == Form.before \o FlattenSeq(ps) \o Form.after
text == TextOf(parts)

\* What every reader makes of a text.
Read(ps) ==
  LET s == TextOf(ps)
      isGuard == Form.kind = "guard"
      node == IF isGuard THEN Compile(s) ELSE Nil
  IN /\ parts' = ps
     /\ fragment' = fragment
     /\ tree' = node
     /\ conditions' = IF isGuard THEN requires(s) ELSE <<>>
     /\ readings' = [k \in DOMAIN conditions' |-> Derivations(SolidityLevels, conditions'[k])]
     /\ checks' = IF node = Nil THEN {} ELSE extractRangeChecks(node)
     /\ schema' = IF isGuard THEN <<>> ELSE SchemaOf(s)

Init ==
  /\ fragment \in DOMAIN Fragments
  /\ parts = <<>>
  /\ tree = Nil
  /\ conditions = <<>>
  /\ readings = <<>>
  /\ checks = {}
  /\ schema = <<>>

WritePart ==
  /\ Len(parts) < Form.len
  /\ \E p \in (IF parts = <<>> THEN Form.first ELSE Form.more) : Read(Append(parts, p))

Next == WritePart

Spec == Init /\ [][Next]_vars

-----------------------------------------------------------------------------
(* Types. *)

RECURSIVE NodesOf(_)
\* A tree and all the trees in it.
NodesOf(node) ==
  {node} \cup
  CASE node[1] \in {"id", "num", "str", "bool"} -> {}
    [] node[1] = "bin" -> NodesOf(node[3]) \cup NodesOf(node[4])
    [] node[1] = "un" -> NodesOf(node[3])
    [] node[1] = "index" -> NodesOf(node[2]) \cup NodesOf(node[3])
    [] node[1] = "field" -> NodesOf(node[2])
    [] OTHER -> UNION {NodesOf(node[3][k]) : k \in DOMAIN node[3]}

\* The type invariant: a numeral of a tree is an int64 (strconv.ParseInt), a
\* condition is not empty, a check names a field and an identifier.
TypeOK ==
  /\ fragment \in DOMAIN Fragments
  /\ Len(parts) <= Form.len
  /\ tree # Nil => \A n \in NodesOf(tree) : n[1] = "num" => n[2] \in 0 .. MaxInt
  /\ \A k \in DOMAIN conditions : conditions[k] # <<>>
  /\ \A c \in checks : Len(c.left) = 2 /\ c.right # <<>>
  /\ Len(schema) <= 1

-----------------------------------------------------------------------------
(* The parser and the generator. *)

\* The parser's tree of a guard is the one tree the grammar derives, and it has
\* none exactly when the grammar derives none: the recursive descent loses no
\* guard and no grouping (parser.go).
ParserMatchesGrammar ==
  Form.kind = "guard" =>
    Derivations(GuardLevels, text) = IF tree = Nil THEN {} ELSE {tree}

\* How tightly Solidity binds the outermost operator of a tree.
Strength(node) ==
  CASE node[1] = "bin" -> CHOOSE l \in DOMAIN SolidityLevels : node[2] \in SolidityLevels[l].ops
    [] node[1] = "un" -> Len(SolidityLevels) + 1
    [] OTHER -> Len(SolidityLevels) + 2

\* Without parentheses, an operand keeps its place when it binds more tightly than
\* its operator does, or as tightly on the left; an indexed object and the object
\* of a field when it is no operator.
RECURSIVE NeedsNoGrouping(_)
NeedsNoGrouping(node) ==
  CASE node[1] \in {"id", "num", "str", "bool"} -> TRUE
    [] node[1] = "bin" -> /\ Strength(node[3]) >= Strength(node) /\ Strength(node[4]) > Strength(node)
                          /\ NeedsNoGrouping(node[3]) /\ NeedsNoGrouping(node[4])
    [] node[1] = "un" -> Strength(node[3]) >= Strength(node) /\ NeedsNoGrouping(node[3])
    [] node[1] = "index" -> /\ Strength(node[2]) > Len(SolidityLevels) + 1
                            /\ NeedsNoGrouping(node[2]) /\ NeedsNoGrouping(node[3])
    [] node[1] = "field" -> Strength(node[2]) > Len(SolidityLevels) + 1 /\ NeedsNoGrouping(node[2])
    [] OTHER -> \A k \in DOMAIN node[3] : NeedsNoGrouping(node[3][k])

\* The tree with caller written as the contract writes it.
RECURSIVE InContract(_)
InContract(node) ==
  CASE node[1] = "id" -> IF node[2] = <<"caller">> THEN MsgSender ELSE node
    [] node[1] = "bin" -> <<"bin", node[2], InContract(node[3]), InContract(node[4])>>
    [] node[1] = "un" -> <<"un", node[2], InContract(node[3])>>
    [] node[1] = "index" -> <<"index", InContract(node[2]), InContract(node[3])>>
    [] node[1] = "field" -> <<"field", InContract(node[2]), node[3]>>
    [] node[1] = "call" -> <<"call", node[2], [k \in DOMAIN node[3] |-> InContract(node[3][k])]>>
    [] OTHER -> node

\* Quotes and backslashes inside a string are printed as they are.
PlainStrings(node) ==
  \A n \in NodesOf(node) : n[1] = "str" => ToSet(n[2]) \cap {"\"", "\\"} = {}
\* Two signs in a row would be Solidity's decrement.
SignsApart(node) ==
  \A n \in NodesOf(node) : n[1] = "un" /\ n[2] = "-" => ~(n[3][1] = "un" /\ n[3][2] = "-")
\* A parenthesis that groups: it opens a text or follows an operator or a bracket.
Groups(s) == \E k \in DOMAIN s : s[k] = "(" /\ (k = 1 \/ s[Max2(1, k - 1)] \notin Letters)

Clauses == splitAnd(tree)

\* The contract's conditions, read by Solidity's rules, are the clauses of the
\* guard exactly when no clause needs the parentheses that translateNode never
\* prints, and a guard written without grouping has only such clauses.
TranslationKeepsTree ==
  tree # Nil =>
    \A k \in DOMAIN Clauses :
      PlainStrings(Clauses[k]) /\ SignsApart(Clauses[k]) =>
        /\ (readings[k] = {InContract(Clauses[k])}) <=> NeedsNoGrouping(Clauses[k])
        /\ ~Groups(text) => NeedsNoGrouping(Clauses[k])

-----------------------------------------------------------------------------
(* What a guard means. *)

\* A valuation of the words of a guard: the cell of every map (for the one key
\* of the run) and the value of every name.
Valuations == [MapNames \cup NumNames -> Cells]

TheKey == "A"
\* The bindings of a valuation, with its numbers in one of the three forms the
\* runtime meets: int64, word, and a word map where a zero entry is missing.
BindingsOf(v, form) ==
  LET num(n) == IF form = "int" THEN Int64(n) ELSE U256(n)
      entry(n) == IF form = "missing" /\ n = 0 THEN <<>> ELSE (TheKey :> num(n))
  IN [x \in MapNames \cup NumNames \cup AddrNames \cup {"caller"} |->
        CASE x \in MapNames -> [t |-> "any", v |-> entry(v[x])]
          [] x \in NumNames -> num(v[x])
          [] OTHER -> Text(TheKey)]

\* The value of a condition in the contract: checked words, typed operands.  Out
\* stands for what Solidity 0.8 refuses or reverts on: a number that is no word, a
\* division by zero, an operand of the wrong type.
Out == [t |-> "out", v |-> "out"]
InRange(n) == IF n \in 0 .. WordMax THEN [t |-> "num", v |-> n] ELSE Out
IsBool(x) == x.t = "bool"
RECURSIVE Meaning(_, _)
MeaningOfBinary(op, l, r) ==
  CASE op \in {"+", "-", "*", "/", "%"} ->
         IF l.t = "num" /\ r.t = "num" /\ ~(op \in {"/", "%"} /\ r.v = 0)
         THEN InRange(CASE op = "+" -> l.v + r.v [] op = "-" -> l.v - r.v [] op = "*" -> l.v * r.v
                        [] op = "/" -> l.v \div r.v [] OTHER -> l.v % r.v)
         ELSE Out
    [] op \in {">", "<", ">=", "<="} ->
         IF l.t = "num" /\ r.t = "num"
         THEN Truth(CASE op = ">" -> l.v > r.v [] op = "<" -> l.v < r.v
                      [] op = ">=" -> l.v >= r.v [] OTHER -> l.v <= r.v)
         ELSE Out
    [] OTHER -> IF l.t = r.t /\ l.t # "out" /\ l.t # "map" THEN Truth((l.v = r.v) = (op = "==")) ELSE Out
Meaning(node, v) ==
  CASE node = MsgSender -> [t |-> "addr", v |-> TheKey]
    [] node[1] = "num" -> InRange(node[2])
    [] node[1] = "bool" -> Truth(node[2])
    [] node[1] = "id" ->
         (CASE node[2] \in {<<x>> : x \in NumNames} -> InRange(v[node[2][1]])
            [] node[2] \in {<<x>> : x \in AddrNames} -> [t |-> "addr", v |-> TheKey]
            [] node[2] \in {<<x>> : x \in MapNames} -> [t |-> "map", v |-> v[node[2][1]]]
            [] OTHER -> Out)
    [] node[1] = "index" -> IF Meaning(node[2], v).t = "map" /\ Meaning(node[3], v).t = "addr"
                            THEN InRange(Meaning(node[2], v).v) ELSE Out
    [] node[1] = "un" /\ node[2] = "!" ->
         IF IsBool(Meaning(node[3], v)) THEN Truth(~Meaning(node[3], v).v) ELSE Out
    [] node[1] = "bin" /\ node[2] \in {"&&", "||"} ->
         LET l == Meaning(node[3], v)
             r == Meaning(node[4], v)
         IN IF ~IsBool(l) THEN Out
            ELSE IF l.v = (node[2] = "||") THEN l ELSE IF IsBool(r) THEN r ELSE Out
    [] node[1] = "bin" /\ node[2] \notin {"&&", "||"} ->
         MeaningOfBinary(node[2], Meaning(node[3], v), Meaning(node[4], v))
    [] OTHER -> Out

\* The contract's conditions are required in order: the first that fails reverts.
RECURSIVE Required(_, _)
Required(v, k) ==
  IF k > Len(conditions) THEN Truth(TRUE)
  ELSE LET c == Meaning(CHOOSE node \in readings[k] : TRUE, v)
       IN IF ~IsBool(c) THEN Out ELSE IF c.v THEN Required(v, k + 1) ELSE c

\* No number that the guard computes leaves the range of an int64.
FitsInt64(v) ==
  \A n \in NodesOf(InContract(tree)) : Meaning(n, v).t = "num" => Meaning(n, v).v <= MaxInt

\* A guard written without grouping passes in the Go runtime exactly when the
\* generated conditions hold in the contract, wherever the contract can evaluate
\* it: always when the runtime has words, and whether a zero entry is stored or
\* missing, since a word wraps only where the contract reverts; and when it has
\* int64, as long as no number of the guard passes an int64, which wraps
\* (evalArithmetic) where the contract still computes.
ContractAgrees ==
  (Form.meant /\ tree # Nil /\ ~Groups(text)) =>
    \A v \in Valuations :
      LET c == Required(v, 1)
          forms == {"word", "missing"} \cup (IF FitsInt64(v) THEN {"int"} ELSE {})
      IN IsBool(c) => \A form \in forms :
                        EvalCompiled(tree, GuardContext(BindingsOf(v, form))) = IF c.v THEN "pass" ELSE "reject"

\* A value of a state or a name for a circuit: all the numbers that fit the bits of a check.
Witnesses == [MapNames \cup NumNames -> 0 .. Span - 1]
ValueOf(node, v) == toU256(Eval(node, GuardContext(BindingsOf(v, "word"))))

\* The range checks of the circuit: for values that fit its bits, a check holds exactly
\* when its clause does, so that a guard that passes leaves a provable circuit and
\* no checked clause that fails is provable.
RangeChecksMatch ==
  Form.meant /\ checks # {} =>
    \A v \in Witnesses :
      /\ EvalCompiled(tree, GuardContext(BindingsOf(v, "word"))) = "pass" =>
           \A c \in checks : rangeCheckHolds(ValueOf(c.of, v).v, ValueOf(<<"id", c.right>>, v).v)
      /\ \A c \in checks :
           ValueOf(c.of, v).ok /\ ValueOf(<<"id", c.right>>, v).ok =>
             rangeCheckHolds(ValueOf(c.of, v).v, ValueOf(<<"id", c.right>>, v).v)
               <=> EvalCompiled(c.clause, GuardContext(BindingsOf(v, "word"))) = "pass"

\* One token moves from a place to another.
Moved(m, from, to) == [m EXCEPT ![from] = m[from] - 1, ![to] = m[to] + 1]
SumArguments(node) == {Join(n[3][1][2]) : n \in {n \in NodesOf(node) : n[1] = "call" /\ n[2] = <<"sum">>}}

\* A conservation law written with sum("prefix") only, says the same before and
\* after a token moves between two places that each prefix takes in or leaves out.
SumsAreConserved ==
  (fragment = "invariant" /\ tree # Nil) =>
    \A m \in Markings : \A from, to \in DOMAIN m :
      /\ from # to /\ m[from] > 0
      /\ \A p \in SumArguments(tree) : HasPrefix(from, p) <=> HasPrefix(to, p)
      => EvaluateInvariant(text, Moved(m, from, to)) = EvaluateInvariant(text, m)

-----------------------------------------------------------------------------
(* The .btw language. *)

\* A schema the builder accepts is valid for the metamodel and for the petri model, it
\* uses no name that Solidity or the contract keeps, and each arc carries one key per
\* key of its place's type, or none.
BuiltIsValid ==
  schema # <<>> =>
    LET s == schema[1]
    IN /\ Validate(s)
       /\ (StateIDs(s) \cup ActionIDs(s)) \cap Reserved = {}
       /\ \A k \in DOMAIN s.arcs :
            LET a == s.arcs[k]
                place == IF HasState(s, a.source) THEN a.source ELSE a.target
            IN Len(a.keys) \in {0, Depth(StateByID(s, place).type)}

\* The text between the parentheses of the require the author writes.
WrittenGuard == FlattenSeq(parts)

HasArcSymbol(s) == \E k \in 1 .. Len(s) - 1 : <<s[k], s[k + 1]>> \in {<<"-", "|">>, <<"|", ">">>}

\* Every name that the guard of a schema reads is a register, a variable of the
\* function or a name that the contract and the runtime define.  The builder
\* prints that guard again from its tokens, and unless a string in it has an
\* escape it reads as the guard the author wrote, and the guard lexer, which takes
\* a symbol it does not know for the end, reads it whole: the .btw lexer lets no
\* such symbol through but the ones of its own syntax.  (An escape is resolved by
\* the .btw lexer and parseRequireExpr prints the string in bare quotes, so that a
\* quote in it ends it early.)
GuardKept ==
  (fragment = "require" /\ schema # <<>>) =>
    LET g == schema[1].actions[1].guard
    IN /\ Compile(g) # Nil => identifiers(Compile(g)) \subseteq StateIDs(schema[1]) \cup {<<"n">>} \cup BuiltIns
       /\ "\\" \notin ToSet(WrittenGuard) =>
            /\ Compile(g) = Compile(WrittenGuard)
            /\ ToSet(g) \cap {":", "@", "{", "}"} = {} /\ ~HasArcSymbol(g) => Last(Tokenize(g)).lit = <<>>
=============================================================================
