------------------------------ MODULE GuardGrammar ------------------------------
(****************************************************************************)
(* A grammar for guards, stated without a parser: the set of trees that the *)
(* tokens T[i..j] derive, over every way to split them.  It is the          *)
(* reference of the recursive descent of parser.go, and, with Solidity's    *)
(* own levels, the reader of the text that guardgen.go prints.              *)
(****************************************************************************)
EXTENDS GuardSyntax

\* A level of binary operators; chain says that it repeats, to the left.
Level(ops, chain) == [ops |-> ops, chain |-> chain]

GuardLevels ==
  << Level({"||"}, TRUE), Level({"&&"}, TRUE), Level(Comparisons, FALSE),
     Level({"+", "-"}, TRUE), Level({"*", "/", "%"}, TRUE) >>

\* Solidity ranks == and != below the orderings, and lets both repeat.
SolidityLevels ==
  << Level({"||"}, TRUE), Level({"&&"}, TRUE), Level({"==", "!="}, TRUE),
     Level({">", "<", ">=", "<="}, TRUE), Level({"+", "-"}, TRUE), Level({"*", "/", "%"}, TRUE) >>

Leaf(t) ==
  CASE t.type = "id"  -> {<<"id", t.lit>>}
    [] t.type = "str" -> {<<"str", t.lit>>}
    [] t.type \in {"true", "false"} -> {<<"bool", t.type = "true">>}
    [] t.type = "num" /\ NumeralValue(t.lit) # -1 -> {<<"num", NumeralValue(t.lit)>>}
    [] OTHER -> {}

Places(T, i, j, types) == {k \in i .. j : T[k].type \in types}

RECURSIVE Derive(_, _, _, _, _, _), Postfix(_, _, _, _, _), Arguments(_, _, _, _, _)

\* An expression opens a nesting level, as parseExpression does.
Expression(G, T, i, j, d) == IF d + 1 > MaxDepth THEN {} ELSE Derive(G, T, 1, i, j, d + 1)

Derive(G, T, l, i, j, d) ==
  CASE i > j -> {}
    [] i <= j /\ l > Len(G) ->
         IF T[i].type \in {"!", "-"}
         THEN {<<"un", T[i].type, x>> : x \in Derive(G, T, l, i + 1, j, d)}
         ELSE Postfix(G, T, i, j, d)
    [] OTHER ->
         Derive(G, T, l + 1, i, j, d) \cup
         UNION { {<<"bin", T[k].type, x, y>> :
                    x \in Derive(G, T, IF G[l].chain THEN l ELSE l + 1, i, k - 1, d),
                    y \in Derive(G, T, l + 1, k + 1, j, d)} :
                 k \in Places(T, i + 1, j - 1, G[l].ops) }

\* A call needs an identifier before its parenthesis, a group does not.
Postfix(G, T, i, j, d) ==
  CASE i > j -> {}
    [] i = j -> Leaf(T[i])
    [] i < j /\ T[j].type = "]" ->
         UNION { {<<"index", o, e>> : o \in Postfix(G, T, i, k - 1, d),
                                      e \in Expression(G, T, k + 1, j - 1, d)} :
                 k \in Places(T, i + 1, j - 2, {"["}) }
    [] i < j /\ T[j].type = "id" ->
         IF T[j - 1].type = "." THEN {<<"field", o, T[j].lit>> : o \in Postfix(G, T, i, j - 2, d)}
         ELSE {}
    [] i < j /\ T[j].type = ")" ->
         (IF T[i].type = "(" THEN Expression(G, T, i + 1, j - 1, d) ELSE {}) \cup
         UNION { {<<"call", o[2], a>> : o \in {o \in Postfix(G, T, i, k - 1, d) : o[1] = "id"},
                                        a \in Arguments(G, T, k + 1, j - 1, d)} :
                 k \in Places(T, i + 1, j - 1, {"("}) }
    [] OTHER -> {}

Arguments(G, T, i, j, d) ==
  IF i > j THEN {<<>>}
  ELSE {<<e>> : e \in Expression(G, T, i, j, d)} \cup
       UNION { {<<e>> \o rest : e \in Expression(G, T, i, k - 1, d),
                                rest \in Arguments(G, T, k + 1, j, d) \ {<<>>}} :
               k \in Places(T, i + 1, j - 1, {","}) }

\* The trees of a text that ends at its first EOF token.
DeriveAll(G, T) == Expression(G, T, 1, Len(T) - 1, 0)
Derivations(G, s) == DeriveAll(G, Tokenize(s))

=============================================================================
