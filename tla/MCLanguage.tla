------------------------------- MODULE MCLanguage -------------------------------
(****************************************************************************)
(* Instances of Language for TLC: the fragments of the two languages, each  *)
(* of the few symbols that one part of the lexers, parsers and readers      *)
(* tells apart, up to a length at which all their combinations appear.      *)
(****************************************************************************)
EXTENDS Language

One(c) == {<<x>> : x \in c}

\* A fragment of guards: any sequence of up to len parts.
Guards(ps, len) ==
  [kind |-> "guard", meant |-> FALSE, before |-> <<>>, after |-> <<>>,
   first |-> ps, more |-> ps, len |-> len]
\* Operands joined by operators: an operand, then len - 1 times both.
Formulas(operands, operators, len) ==
  [kind |-> "guard", meant |-> TRUE, before |-> <<>>, after |-> <<>>,
   first |-> operands, more |-> {o \o x : o \in operators, x \in operands}, len |-> len]
\* A part of a .btw text between a beginning and an end.
Btw(before, first, more, after, len) ==
  [kind |-> "btw", meant |-> FALSE, before |-> before, after |-> after,
   first |-> first, more |-> more, len |-> len]

Bal == <<"bal", "[", "a", "]">>
Sum(p) == <<"sum", "(", "\"", p, "\"", ")">>
Ge == <<">", "=">>
Le == <<"<", "=">>
Eq == <<"=", "=">>
Ne == <<"!", "=">>
And == <<"&", "&">>
Or == <<"|", "|">>

BFields == <<"register", "B", "map", "[", "address", "]", "uint256", "register", "T", "uint256">>
\* The body of a .btw text is written in lines; a blank parts two words.
Spaced(line) ==
  FlattenSeq([k \in DOMAIN line |-> CASE line[k] = "-|" -> <<"-", "|", " ">>
                                     [] line[k] = "|>" -> <<"|", ">", " ">>
                                     [] OTHER -> <<line[k], " ">>])
Lines(S) == {Spaced(l) : l \in S}

Written ==
  [ operators |-> Guards(One({"a", "=", ">", "!", "&"}), 5),
    signs |-> Guards(One({"a", "1", "-", "(", ")"}), 5),
    logic |-> Guards({<<"a">>, And, Or, <<"(">>, <<")">>, <<"!">>}, 5),
    postfix |-> Guards(One({"a", "[", "]", "(", ")", ",", "."}), 4),
    strings |-> Guards(One({"a", "\"", "'", "\\", "1"}), 4),
    calls |-> Guards({<<"a", "(">>, <<"[", "a">>, <<"]">>, <<",", "a">>, <<")">>, <<".", "a">>}, 4),
    compare |-> Formulas({Bal, <<"x">>, <<"1">>}, {Ge, Le, Eq, <<"-">>, And}, 3),
    connect |-> Formulas({<<"a">>, <<"x">>, <<"!", "a">>, <<"0">>}, {Ne, <<">">>, Or, And}, 3),
    group |-> Formulas({<<"x">>, <<"(", "x">>, <<"x", ")">>}, {<<"-">>, <<"*">>, Le}, 4),
    clauses |-> Formulas({Bal \o Ge \o <<"x">>, <<"x">> \o Le \o Bal, <<"a">> \o Eq \o <<"caller">>,
                         Bal \o <<">", "x">>, Bal \o <<"-", "1">> \o Ge \o <<"1">>}, {And, Or}, 3),
    invariant |-> Guards({Sum("b"), Sum("bx"), Eq, <<"+">>, <<"2">>}, 5),
    declarations |-> Btw(Spaced(<<"schema", "S", "{">>),
        Lines({<<"register", "B", "uint256">>, <<"register", "B", "map", "[", "address", "]", "uint256">>}),
        Lines({<<"register", "T", "map", "[", "address", "]", "map", "[", "address", "]", "bool">>,
               <<"register", "B", "uint256", "observable">>, <<"register", "version", "uint256">>,
               <<"event", "B", "{", "n", ":", "uint256", "}">>,
               <<"event", "E", "{", "n", ":", "uint256", "indexed", "}">>,
               <<"fn", "(", "B", ")", "{", "}">>,
               <<"fn", "(", "f", ")", "requires", "B", "{", "B", "-|", "1", "|>", "f", "@", "event", "E", "}">>,
               <<"fn", "(", "T", ")", "{", "T", "-|", "1", "|>", "B", "}">>,
               <<"fn", "(", "this", ")", "{", "}">>,
               <<"initial_state", "{", "B", ":", "1", "}">>,
               <<"version", "\"", "1", "\"">>, <<"domain", "B">>}),
        <<"}">>, 4),
    arcs |-> Btw(Spaced(<<"schema", "S", "{">> \o BFields \o <<"fn", "(", "f", ")", "{", "var", "n", "amount">>),
        Lines({<<"B", "[", "n", "]">>, <<"f">>, <<"T">>, <<"B", "[", "n", "]", "[", "n", "]">>, <<"n">>}),
        {Spaced(<<"-|", w, "|>">>) : w \in {"n", "1", "m", "caller"}} \cup
        Lines({<<"B", "[", "n", "]">>, <<"B">>, <<"f">>, <<"T">>, <<"T", "[", "n", "]">>}),
        <<"}", "}">>, 4),
    require |-> Btw(Spaced(<<"schema", "S", "{">> \o BFields \o
                          <<"fn", "(", "f", ")", "{", "var", "n", "amount", "require", "(">>),
        {<<"n">>, <<"B", "[", "n", "]">>, <<"(">>, <<"m">>, <<"\"", "n", " ", ">", "\"">>, <<"\"", "\\", "\"">>,
         <<"address", "(">>},
        {<<"n">>, <<"B", "[", "n">>, <<"]">>, Ge, And, Or, <<"(">>, <<")">>, <<"=">>, <<"<">>, <<":">>, <<"1">>,
         <<" ">>, <<"\\">>, <<"\"">>},
        <<")", "}", "}">>, 4) ]
MCFragments == Written

MCMarkings == {[b |-> 2, bx |-> 0, by |-> 1], [b |-> 0, bx |-> 1, by |-> 1]}

MCLetters == {"a", "x", "bal", "caller", "sum", "b", "bx", "true", "false", "msg", "sender", "n", "m", "B", "T", "address"}
MCWords == {"a", "S", "B", "T", "E", "f", "n", "m", "map", "address", "uint256", "bool", "amount", "caller", "this"}
             \cup Keywords
MCDslDigits == DigitValue
MCReserved == {<<"this">>}
MCNumerals == [s \in {"0", "1", "2"} |-> CASE s = "0" -> 0 [] s = "1" -> 1 [] OTHER -> 2]
MCAddresses == [n \in {0, 1} |-> IF n = 0 THEN "zero" ELSE "one"]
=============================================================================
