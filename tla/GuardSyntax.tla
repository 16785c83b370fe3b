------------------------------ MODULE GuardSyntax ------------------------------
(****************************************************************************)
(* The guard language of a schema's actions, as internal/metamodel/guard    *)
(* reads it: a text becomes tokens (lexer.go) and the tokens become a tree  *)
(* (parser.go).  A text is a sequence of symbols; a symbol stands for one   *)
(* character, or, in Letters, for a run of letters.                         *)
(*                                                                          *)
(* A tree is a tuple <<kind, ...>>:                                         *)
(*   <<"bin", op, l, r>>  <<"un", op, e>>  <<"index", o, i>>                *)
(*   <<"field", o, name>> <<"call", f, args>> <<"id", name>>                *)
(*   <<"num", n>>  <<"str", s>>  <<"bool", b>>                              *)
(* and Nil where the parser returns nil.                                    *)
(****************************************************************************)
EXTENDS Integers, Sequences, SequencesExt, FiniteSets

CONSTANTS Letters,   \* symbols that stand for a run of letters
          MaxInt,    \* the largest int64 (2^63 - 1 in the code)
          MaxDepth   \* maxDepth of the parser (100 in the code)

ASSUME SyntaxAssumption ==
  /\ MaxInt \in Nat \ {0}
  /\ MaxDepth \in Nat \ {0}
  /\ Letters \subseteq STRING

Digits == {"0", "1", "2", "3", "4", "5", "6", "7", "8", "9"}
DigitValue == [d \in Digits |->
                 CASE d = "0" -> 0 [] d = "1" -> 1 [] d = "2" -> 2 [] d = "3" -> 3
                   [] d = "4" -> 4 [] d = "5" -> 5 [] d = "6" -> 6 [] d = "7" -> 7
                   [] d = "8" -> 8 [] OTHER -> 9]

Blanks   == {" ", "\t", "\n", "\r"}
Brackets == {"(", ")", "[", "]", ".", ",", "+", "-", "*", "/", "%"}
Quotes   == {"\"", "'"}
\* The operators of two characters, and the first characters that are tokens alone.
Doubled  == {<<">", "=">>, <<"<", "=">>, <<"=", "=">>, <<"!", "=">>, <<"&", "&">>, <<"|", "|">>}
AloneToo == {">", "<", "!"}

Max2(m, n) == IF m >= n THEN m ELSE n

\* The symbol at a position; NUL past the end of the text (lexer.ch = 0).
At(s, i) == IF i \in DOMAIN s THEN s[i] ELSE "NUL"

\* The first position at or after i whose symbol is outside C.
RunEnd(s, i, C) ==
  CHOOSE j \in i .. Max2(i, Len(s) + 1) :
    /\ \A k \in i .. j - 1 : At(s, k) \in C
    /\ At(s, j) \notin C

-----------------------------------------------------------------------------
(* The lexer. *)

Token(type, lit, next) == [type |-> type, lit |-> lit, next |-> next]

\* A string literal runs to the first quote that no backslash precedes, or to
\* the end of the text; only a backslash before the quote is an escape.
ClosingQuote(s, i) ==
  CHOOSE j \in i + 1 .. Len(s) + 1 :
    /\ j = Len(s) + 1 \/ (s[j] = s[i] /\ (j = i + 1 \/ s[j - 1] # "\\"))
    /\ \A k \in i + 1 .. j - 1 : s[k] = s[i] => k > i + 1 /\ s[k - 1] = "\\"
Unescaped(q, s) ==
  FoldLeftDomain(LAMBDA acc, k : acc \o (IF s[k] = "\\" /\ At(s, k + 1) = q THEN <<>> ELSE <<s[k]>>), <<>>, s)
StringTo(s, i, closing) == Token("str", Unescaped(s[i], SubSeq(s, i + 1, closing - 1)), Max2(closing, i) + 1)
StringToken(s, i) == StringTo(s, i, ClosingQuote(s, i))

\* lookupKeyword: true and false are the only reserved words.
WordType(w) == CASE w = <<"true">> -> "true" [] w = <<"false">> -> "false" [] OTHER -> "id"

WordToken(s, i, j) == Token(WordType(SubSeq(s, i, j - 1)), SubSeq(s, i, j - 1), j)
NumberToken(s, i, j) == Token("num", SubSeq(s, i, j - 1), j)

\* A lone =, & or |, and a symbol the lexer does not know, is returned as EOF.
TokenAt(s, i) ==
  LET c == At(s, i)
      next == At(s, i + 1)
  IN CASE c = "NUL" -> Token("EOF", <<>>, i)
       [] c \in Brackets -> Token(c, <<c>>, i + 1)
       [] <<c, next>> \in Doubled -> Token(c \o next, <<c, next>>, i + 2)
       [] c \in AloneToo /\ <<c, next>> \notin Doubled -> Token(c, <<c>>, i + 1)
       [] c \in Quotes -> StringToken(s, i)
       [] c \in Letters \cup {"_"} -> WordToken(s, i, RunEnd(s, i, Letters \cup {"_"} \cup Digits))
       [] c \in Digits -> NumberToken(s, i, RunEnd(s, i, Digits))
       [] OTHER -> Token("EOF", <<c>>, i + 1)
NextToken(s, from) == TokenAt(s, RunEnd(s, from, Blanks))

\* Every token of a text up to and including the first EOF.
RECURSIVE TokensFrom(_, _)
UpToEOF(s, t) == IF t.type = "EOF" THEN <<t>> ELSE <<t>> \o TokensFrom(s, t.next)
TokensFrom(s, i) == UpToEOF(s, NextToken(s, i))

Tokenize(s) == TokensFrom(s, 1)

-----------------------------------------------------------------------------
(* The parser: T is the tokens of the text, i the current one, d the nesting *)
(* of parseExpression.  A result is [node, next]; its node is Nil on error.  *)

Nil == <<>>
Parsed(node, next) == [node |-> node, next |-> next]
Fail == Parsed(Nil, 0)

Comparisons == {">=", "<=", ">", "<", "==", "!="}
LevelsSwapped == << {"&&"}, {"||"}, Comparisons, {"+", "-"}, {"*", "/", "%"} >>
\* The operators of parseOr, parseAnd, parseComparison, parseAdditive and
\* parseMultiplicative, from the loosest to the tightest.
Levels == << {"||"}, {"&&"}, Comparisons, {"+", "-"}, {"*", "/", "%"} >>
ComparisonLevel == 3

\* strconv.ParseInt of a numeral: its value, or -1 when it passes MaxInt.
RECURSIVE NumeralValue(_)
NumeralValueUnchecked(lit) ==
  IF lit = <<>> THEN 0 ELSE 10 * NumeralValue(Front(lit)) + DigitValue[Last(lit)]
WithDigit(high, d) == IF high = -1 \/ 10 * high + d > MaxInt THEN -1 ELSE 10 * high + d
NumeralValue(lit) ==
  IF lit = <<>> THEN 0 ELSE WithDigit(NumeralValue(Front(lit)), DigitValue[Last(lit)])

\* What is made of a result, unless it is an error.
IfParsed(r, made(_)) == IF r.node = Nil THEN Fail ELSE made(r)
\* The same of a result that a closing bracket must follow.
IfClosed(T, r, close, made(_)) == IF r.node = Nil THEN Fail ELSE IF T[r.next].type # close THEN Fail ELSE made(r)

RECURSIVE ParseExpression(_, _, _), ParseLevel(_, _, _, _), ParseRest(_, _, _, _, _),
          ParseUnary(_, _, _), ParsePostfix(_, _, _, _), ParseArguments(_, _, _),
          ParsePrimary(_, _, _)

ParseExpression(T, i, d) ==
  IF d + 1 > MaxDepth THEN Fail ELSE ParseLevel(1, T, i, d + 1)

ParseLevel(l, T, i, d) ==
  IF l > Len(Levels) THEN ParseUnary(T, i, d)
  ELSE IfParsed(ParseLevel(l + 1, T, i, d), LAMBDA left : ParseRest(l, T, left.node, left.next, d))

\* The loop of a level; a comparison takes one operator and stops.
ParseRest(l, T, left, i, d) ==
  IF T[i].type \notin Levels[l] THEN Parsed(left, i)
  ELSE IfParsed(ParseLevel(l + 1, T, i + 1, d),
         LAMBDA right : IF l = ComparisonLevel THEN Parsed(<<"bin", T[i].type, left, right.node>>, right.next)
                        ELSE ParseRest(l, T, <<"bin", T[i].type, left, right.node>>, right.next, d))

ParseUnary(T, i, d) ==
  IF T[i].type \in {"!", "-"}
  THEN IfParsed(ParseUnary(T, i + 1, d), LAMBDA e : Parsed(<<"un", T[i].type, e.node>>, e.next))
  ELSE IfParsed(ParsePrimary(T, i, d), LAMBDA p : ParsePostfix(T, p.node, p.next, d))

ParsePostfix(T, left, i, d) ==
  CASE T[i].type = "[" ->
         IfClosed(T, ParseExpression(T, i + 1, d), "]",
                  LAMBDA e : ParsePostfix(T, <<"index", left, e.node>>, e.next + 1, d))
    [] T[i].type = "." ->
         IF T[i + 1].type # "id" THEN Fail
         ELSE ParsePostfix(T, <<"field", left, T[i + 1].lit>>, i + 2, d)
    [] T[i].type = "(" ->
         IF left[1] # "id" THEN Fail
         ELSE IfClosed(T, ParseArguments(T, i + 1, d), ")",
                       LAMBDA a : ParsePostfix(T, <<"call", left[2], a.node[1]>>, a.next + 1, d))
    [] OTHER -> Parsed(left, i)

\* The arguments of a call: a node that is <<the sequence of their trees>>.
ParseArguments(T, i, d) ==
  IF T[i].type = ")" THEN Parsed(<< <<>> >>, i)
  ELSE IfParsed(ParseExpression(T, i, d), LAMBDA e :
         CASE T[e.next].type # "," -> Parsed(<< <<e.node>> >>, e.next)
           [] T[e.next].type = "," /\ T[e.next + 1].type = ")" -> Fail
           [] OTHER -> IfParsed(ParseArguments(T, e.next + 1, d),
                                LAMBDA more : Parsed(<< <<e.node>> \o more.node[1] >>, more.next)))

ParseNumeral(n, next) == IF n = -1 THEN Fail ELSE Parsed(<<"num", n>>, next)
ParsePrimary(T, i, d) ==
  LET t == T[i]
  IN CASE t.type = "id" -> Parsed(<<"id", t.lit>>, i + 1)
       [] t.type = "num" -> ParseNumeral(NumeralValue(t.lit), i + 1)
       [] t.type = "str" -> Parsed(<<"str", t.lit>>, i + 1)
       [] t.type \in {"true", "false"} -> Parsed(<<"bool", t.type = "true">>, i + 1)
       [] t.type = "(" -> IfClosed(T, ParseExpression(T, i + 1, d), ")", LAMBDA e : Parsed(e.node, e.next + 1))
       [] OTHER -> Fail

\* Parser.Parse: the tree of the whole text, Nil when it is in error or when a
\* token is left over.
TreeOf(T) == IfClosed(T, ParseExpression(T, 1, 0), "EOF", LAMBDA e : e).node
Parse(s) == TreeOf(Tokenize(s))

\* guard.Compile refuses the empty text.
Compile(s) == IF s = <<>> THEN Nil ELSE Parse(s)

=============================================================================
