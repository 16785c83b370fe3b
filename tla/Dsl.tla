---------------------------------- MODULE Dsl ----------------------------------
(****************************************************************************)
(* The .btw language (src/dsl): lexer.go makes tokens of a text, parser.go  *)
(* an AST of the tokens, builder.go a schema of the AST, or refuses.  As in *)
(* GuardSyntax a text is a sequence of symbols, and a symbol in Words is a  *)
(* run of letters.  A name is the sequence of its symbols.                  *)
(****************************************************************************)
EXTENDS MetaSchema, FiniteSets

CONSTANTS Words,     \* symbols that stand for a run of letters
          DslDigits, \* a function: the symbols that are digits, to their value
          KnownTypes \* the type names of isKnownType, each one symbol of Words

ASSUME DslAssumption == KnownTypes \subseteq Words /\ DOMAIN DslDigits \cap Words = {}

Keywords == {"schema", "version", "domain", "asset", "initial_state", "register", "event",
             "fn", "var", "require", "requires", "observable", "indexed"}
TwoSymbols == {<<"-", "|">>, <<"|", ">">>, <<">", "=">>, <<"<", "=">>, <<"=", "=">>,
               <<"!", "=">>, <<"&", "&">>, <<"|", "|">>}
OneSymbol == {"{", "}", "(", ")", "[", "]", ":", "@", ",", ">", "<"}
Spaces == {" ", "\t", "\n"}

-----------------------------------------------------------------------------
(* The lexer. *)

SymbolAt(s, i) == IF i \in DOMAIN s THEN s[i] ELSE "NUL"

\* The first position at or after i whose symbol is not in C, and the first one
\* that is.
PastAll(s, i, C) ==
  CHOOSE j \in i .. Len(s) + 1 : SymbolAt(s, j) \notin C /\ \A k \in i .. j - 1 : s[k] \in C
NextOf(s, i, C) ==
  CHOOSE j \in i .. Len(s) + 1 : /\ SymbolAt(s, j) \in C \cup {"NUL"}
                                /\ \A k \in i .. j - 1 : s[k] \notin C

\* skipWhitespace: blanks, and comments from // or # to the end of the line.
RECURSIVE SkipFrom(_, _)
SkipFrom(s, i) ==
  CASE SymbolAt(s, i) \in Spaces -> SkipFrom(s, PastAll(s, i, Spaces))
    [] SymbolAt(s, i) = "#" \/ (SymbolAt(s, i) = "/" /\ SymbolAt(s, i + 1) = "/") ->
         SkipFrom(s, NextOf(s, i, {"\n"}))
    [] OTHER -> i

DslToken(type, lit, next) == [type |-> type, lit |-> lit, next |-> next]

\* readString: a backslash escapes a quote, a backslash, n and t, and stays before
\* any other symbol; an open string is an error.
EscapedSymbol(c) ==
  CASE c \in {"\"", "\\"} -> <<c>> [] c = "n" -> <<"\n">> [] c = "t" -> <<"\t">>
    [] OTHER -> <<"\\", c>>
RECURSIVE StringFrom(_, _, _)
StringFrom(s, i, lit) ==
  CASE i > Len(s) -> DslToken("BAD", lit, i)
    [] i <= Len(s) /\ s[i] = "\"" -> DslToken("string", lit, i + 1)
    [] i <= Len(s) /\ s[i] = "\\" ->
         StringFrom(s, i + 2, lit \o EscapedSymbol(SymbolAt(s, i + 1)))
    [] OTHER -> StringFrom(s, i + 1, Append(lit, s[i]))

NameSymbols == Words \cup DOMAIN DslDigits \cup {"_", "."}

\* next: two symbols before one, a word may hold dots, anything else is an error.
NextDslToken(s, from) ==
  LET i == SkipFrom(s, from)
      c == SymbolAt(s, i)
      pair == <<c, SymbolAt(s, i + 1)>>
  IN CASE c = "NUL" -> DslToken("EOF", <<>>, i)
       [] pair \in TwoSymbols -> DslToken(pair[1] \o pair[2], pair, i + 2)
       [] pair \notin TwoSymbols /\ c \in OneSymbol -> DslToken(c, <<c>>, i + 1)
       [] c = "\"" -> StringFrom(s, i + 1, <<>>)
       [] c \in DOMAIN DslDigits ->
            LET j == PastAll(s, i, DOMAIN DslDigits) IN DslToken("number", SubSeq(s, i, j - 1), j)
       [] c \in Words \cup {"_"} ->
            LET j == PastAll(s, i, NameSymbols)
                w == SubSeq(s, i, j - 1)
            IN DslToken(IF w \in {<<k>> : k \in Keywords} THEN w[1] ELSE "ident", w, j)
       [] OTHER -> DslToken("BAD", <<c>>, i + 1)

RECURSIVE DslTokensFrom(_, _)
DslTokensFrom(s, i) ==
  LET t == NextDslToken(s, i)
  IN IF t.type \in {"EOF", "BAD"} THEN <<t>> ELSE <<t>> \o DslTokensFrom(s, t.next)

DslTokenize(s) == DslTokensFrom(s, 1)

-----------------------------------------------------------------------------
(* The parser.  T is the tokens, i the next one; an item is [at, ast], where *)
(* at is the position after it, 0 after an error.                           *)

EndToken == DslToken("EOF", <<>>, 0)
Peek(T, i) == IF i \in DOMAIN T THEN T[i] ELSE EndToken
Item(at, ast) == [at |-> at, ast |-> ast]
Error == Item(0, <<>>)

\* What is made of an item, unless it is an error; and the items after x.
Then(item, made(_)) == IF item.at = 0 THEN Error ELSE made(item)
Followed(x, rest) == Then(rest, LAMBDA r : Item(r.at, <<x>> \o r.ast))

\* expect, for each type in turn.
Expect(T, i, types) == \A k \in DOMAIN types : Peek(T, i + k - 1).type = types[k]

RECURSIVE NumberOf(_)
NumberOf(lit) == IF lit = <<>> THEN 0 ELSE 10 * NumberOf(Front(lit)) + DslDigits[Last(lit)]

\* NAME, NAME[index] or NAME[idx1][idx2]: its at, its name and its indices.
RECURSIVE IndicesFrom(_, _)
IndicesFrom(T, i) ==
  CASE Peek(T, i).type # "[" -> Item(i, <<>>)
    [] Expect(T, i, <<"[", "ident", "]">>) -> Followed(T[i + 1].lit, IndicesFrom(T, i + 3))
    [] OTHER -> Error
PlaceRef(T, i) ==
  IF Peek(T, i).type # "ident" THEN Error
  ELSE Then(IndicesFrom(T, i + 1), LAMBDA idx : Item(idx.at, [name |-> T[i].lit, indices |-> idx.ast]))

\* SOURCE -|WEIGHT|> TARGET, where w is the position of the weight.
ArcFrom(source, T, w) ==
  IF /\ Peek(T, w - 1).type = "-|" /\ Peek(T, w).type \in {"ident", "number"}
     /\ Peek(T, w + 1).type = "|>"
  THEN Then(PlaceRef(T, w + 2),
            LAMBDA target : Item(target.at, [source |-> source.name, sourceIndices |-> source.indices,
                                             target |-> target.ast.name, targetIndices |-> target.ast.indices,
                                             weight |-> T[w].lit, literal |-> T[w].type = "number"]))
  ELSE Error
ParseArc(T, i) == Then(PlaceRef(T, i), LAMBDA source : ArcFrom(source.ast, T, source.at + 1))

\* The position of the parenthesis that closes the one before i; parseRequireExpr
\* stops at the end of the text as well.
RECURSIVE ClosingFrom(_, _, _)
ClosingFrom(T, i, depth) ==
  CASE Peek(T, i).type = "EOF" -> i
    [] Peek(T, i).type = ")" /\ depth = 1 -> i
    [] OTHER -> ClosingFrom(T, i + 1, CASE Peek(T, i).type = "(" -> depth + 1
                                        [] Peek(T, i).type = ")" -> depth - 1
                                        [] OTHER -> depth)

\* A guard is the text of its tokens with a blank between two: what was between
\* them in the file is lost, and a string is put back in quotes without escapes.
TokenTextBare(t) == t.lit
TokenText(t) == IF t.type = "string" THEN <<"\"">> \o t.lit \o <<"\"">> ELSE t.lit
GuardText(tokens) ==
  FoldLeft(LAMBDA acc, t : acc \o (IF acc = <<>> THEN <<>> ELSE <<" ">>) \o TokenText(t), <<>>, tokens)

\* The guard from a position to its closing parenthesis.
RequireTo(T, i, close) ==
  Item(IF Peek(T, close).type = ")" THEN close + 1 ELSE close,
       [of |-> "require", is |-> GuardText(SubSeq(T, i, close - 1))])

\* A statement of a function: what it says, under the field it says it in.
ParseStatement(T, i) ==
  CASE Peek(T, i).type = "var" ->
         IF Expect(T, i + 1, <<"ident", "ident">>)
         THEN Item(i + 3, [of |-> "var", is |-> T[i + 1].lit]) ELSE Error
    [] Peek(T, i).type = "require" ->
         IF Peek(T, i + 1).type = "(" THEN RequireTo(T, i + 2, ClosingFrom(T, i + 2, 1)) ELSE Error
    [] Peek(T, i).type = "@" ->
         IF Expect(T, i + 1, <<"event", "ident">>)
         THEN Item(i + 3, [of |-> "event", is |-> T[i + 2].lit]) ELSE Error
    [] OTHER -> Then(ParseArc(T, i), LAMBDA a : Item(a.at, [of |-> "arc", is |-> a.ast]))

\* field: type [indexed] of an event, and "key": number of an initial map.
ParseField(T, i) ==
  IF Expect(T, i, <<"ident", ":", "ident">>)
  THEN Item(IF Peek(T, i + 3).type = "indexed" THEN i + 4 ELSE i + 3, T[i].lit)
  ELSE Error
ParseEntry(T, i) ==
  IF Expect(T, i, <<"string", ":", "number">>)
  THEN Item(i + 3, <<T[i].lit, NumberOf(T[i + 2].lit)>>) ELSE Error

\* A type: a known name, or map[k1,k2] before another type.  A map without keys
\* is accepted, and is a scalar.
RECURSIVE KeysFrom(_, _), ParseType(_, _)
KeysFrom(T, i) ==
  CASE ~Expect(T, i, <<"ident">>) -> Error
    [] Expect(T, i, <<"ident", "]">>) -> Item(i + 2, <<T[i].lit>>)
    [] Expect(T, i, <<"ident", ",">>) -> Followed(T[i].lit, KeysFrom(T, i + 2))
    [] OTHER -> Error
MapOf(keys, value) == Then(value, LAMBDA v : Item(v.at, keys \o v.ast))
ParseType(T, i) ==
  LET name == Peek(T, i).lit
  IN CASE Peek(T, i).type # "ident" -> Error
       [] name = <<"map">> /\ Peek(T, i + 1).type = "[" ->
            Then(KeysFrom(T, i + 2), LAMBDA keys : MapOf(keys.ast, ParseType(T, keys.at)))
       [] name \in {<<k>> : k \in KnownTypes} \/ name = <<"map">> -> Item(i + 1, <<name>>)
       [] OTHER -> Error

ParseRegister(T, i) ==
  IF Peek(T, i + 1).type # "ident" THEN Error
  ELSE Then(ParseType(T, i + 2),
            LAMBDA type : Item(IF Peek(T, type.at).type = "observable" THEN type.at + 1 ELSE type.at,
                               [of |-> "register", name |-> T[i + 1].lit, type |-> type.ast]))

\* requires r1, r2 after fn(name): the position after the roles.
RECURSIVE RolesFrom(_, _)
RolesFrom(T, i) ==
  CASE Peek(T, i).type # "ident" -> Error
    [] Expect(T, i, <<"ident", ",">>) -> Followed(T[i].lit, RolesFrom(T, i + 2))
    [] OTHER -> Item(i + 1, <<T[i].lit>>)

Is(items, of) == SelectSeq(items, LAMBDA x : x.of = of)
\* The last item of a kind is the one that counts; an absent one is empty.
LastOf(items, of) == IF Is(items, of) = <<>> THEN <<>> ELSE Last(Is(items, of)).is
AllOf(items, of)  == LET of_ == Is(items, of) IN [k \in DOMAIN of_ |-> of_[k].is]

\* The items up to the closing brace, each read by the parser of its kind.
RECURSIVE ItemsFrom(_, _, _), ParseItem(_, _, _)
ItemsFrom(kind, T, i) ==
  IF Peek(T, i).type \in {"}", "EOF"} THEN Item(i, <<>>)
  ELSE Then(ParseItem(kind, T, i), LAMBDA first : Followed(first.ast, ItemsFrom(kind, T, first.at)))

\* The items between braces; the position is the one after the closing brace.
Braced(kind, T, i) ==
  IF Peek(T, i).type # "{" THEN Error
  ELSE Then(ItemsFrom(kind, T, i + 1),
            LAMBDA items : IF Peek(T, items.at).type = "}" THEN Item(items.at + 1, items.ast) ELSE Error)

FunctionOf(name, roles, body) ==
  [of |-> "fn", name |-> name, roles |-> roles, vars |-> AllOf(body, "var"), arcs |-> AllOf(body, "arc"),
   require |-> LastOf(body, "require"), event |-> LastOf(body, "event")]
FunctionFrom(name, roles, T) ==
  Then(Braced("statement", T, roles.at), LAMBDA body : Item(body.at, FunctionOf(name, roles.ast, body.ast)))
ParseFunction(T, i) ==
  IF Expect(T, i + 1, <<"(", "ident", ")">>)
  THEN Then(IF Peek(T, i + 4).type = "requires" THEN RolesFrom(T, i + 5) ELSE Item(i + 4, <<>>),
            LAMBDA roles : FunctionFrom(T[i + 2].lit, roles, T))
  ELSE Error

\* An initial value: place: number, or place: {"key": number ...}.
ParseInitial(T, i) ==
  CASE ~Expect(T, i, <<"ident", ":">>) -> Error
    [] Peek(T, i + 2).type = "{" ->
         Then(Braced("entry", T, i + 2),
              LAMBDA entries : Item(entries.at, [place |-> T[i].lit, isMap |-> TRUE, map |-> entries.ast,
                                                 scalar |-> 0]))
    [] Peek(T, i + 2).type = "number" ->
         Item(i + 3, [place |-> T[i].lit, isMap |-> FALSE, map |-> <<>>, scalar |-> NumberOf(T[i + 2].lit)])
    [] OTHER -> Error

\* A declaration of a schema body.
ParseDeclaration(T, i) ==
  CASE Peek(T, i).type \in {"version", "domain", "asset"} ->
         IF Peek(T, i + 1).type = "string"
         THEN Item(i + 2, [of |-> T[i].type, is |-> T[i + 1].lit]) ELSE Error
    [] Peek(T, i).type = "initial_state" ->
         Then(Braced("initial", T, i + 1), LAMBDA v : Item(v.at, [of |-> "initial_state", is |-> v.ast]))
    [] Peek(T, i).type = "register" -> ParseRegister(T, i)
    [] Peek(T, i).type = "event" ->
         IF Peek(T, i + 1).type # "ident" THEN Error
         ELSE Then(Braced("field", T, i + 2),
                   LAMBDA f : Item(f.at, [of |-> "event", name |-> T[i + 1].lit, fields |-> f.ast]))
    [] Peek(T, i).type = "fn" -> ParseFunction(T, i)
    [] OTHER -> Error

ParseItem(kind, T, i) ==
  CASE kind = "statement" -> ParseStatement(T, i)
    [] kind = "field" -> ParseField(T, i)
    [] kind = "entry" -> ParseEntry(T, i)
    [] kind = "initial" -> ParseInitial(T, i)
    [] OTHER -> ParseDeclaration(T, i)

\* parseSchema: what follows the closing brace is not read.
SchemaAst(name, body) ==
  [name |-> name, version |-> LastOf(body, "version"), initial |-> LastOf(body, "initial_state"),
   registers |-> Is(body, "register"), events |-> Is(body, "event"), functions |-> Is(body, "fn")]
ParseTokens(T) ==
  IF Last(T).type = "BAD" \/ ~Expect(T, 1, <<"schema", "ident">>) THEN Error
  ELSE Then(Braced("declaration", T, 3), LAMBDA body : Item(body.at, SchemaAst(T[2].lit, body.ast)))
ParseSchema(text) == ParseTokens(DslTokenize(text))
=============================================================================
