------------------------------- MODULE DslBuilder -------------------------------
(****************************************************************************)
(* From the AST of a .btw text to a metamodel schema (dsl/builder.go): the  *)
(* conversion of Build and the checks of validate.  Which of several errors *)
(* is reported is left out.                                                 *)
(****************************************************************************)
EXTENDS Dsl

CONSTANT Reserved  \* the names checkReservedName refuses, as sequences of symbols

Names(q)  == {q[k].name : k \in DOMAIN q}
RegisterOf(ast, name) ==
  LET k == CHOOSE k \in DOMAIN ast.registers : ast.registers[k].name = name
  IN ast.registers[k]

\* A Go map of pairs: the last value of every key.
LastValues(pairs) ==
  [t \in {pairs[k][1] : k \in DOMAIN pairs} |-> Last(SelectSeq(pairs, LAMBDA p : p[1] = t))[2]]
\* A scalar register becomes a token state and a map a data state.
InitialOf(ast, name) ==
  LET given == SelectSeq(ast.initial, LAMBDA v : v.place = name)
  IN IF given = <<>> THEN [scalar |-> 0, map |-> <<>>] ELSE Last(given)
BuildState(ast, r) ==
  StartingWith(r.name, IF IsMap(r.type) THEN "data" ELSE "token", r.type,
               InitialOf(ast, r.name).scalar, LastValues(InitialOf(ast, r.name).map))

\* buildArc: an arc whose source is its function is an output arc, and its keys are
\* the indices of its target; otherwise they are the indices of its source.
Output(f, a)     == a.source = f.name
PlaceName(f, a)  == IF Output(f, a) THEN a.target ELSE a.source
PlaceIndex(f, a) == IF Output(f, a) THEN a.targetIndices ELSE a.sourceIndices
BuildArc(f, a)   == Arc(a.source, a.target, PlaceIndex(f, a), a.weight)

BuildSchema(ast) ==
  [states  |-> [k \in DOMAIN ast.registers |-> BuildState(ast, ast.registers[k])],
   actions |-> [k \in DOMAIN ast.functions |-> Action(ast.functions[k].name, ast.functions[k].require)],
   arcs    |-> FoldLeft(LAMBDA acc, f : acc \o [k \in DOMAIN f.arcs |-> BuildArc(f, f.arcs[k])],
                        <<>>, ast.functions)]

-----------------------------------------------------------------------------
(* validate. *)

\* 1 and 2: no name is declared twice, and none is reserved; an event's may be.
NamesApart(ast) ==
  LET all == [k \in DOMAIN ast.registers |-> ast.registers[k].name]
               \o [k \in DOMAIN ast.events |-> ast.events[k].name]
               \o [k \in DOMAIN ast.functions |-> ast.functions[k].name]
  IN \A i, j \in DOMAIN all : all[i] = all[j] => i = j
NamesFree(ast) ==
  ({ast.name} \cup Names(ast.registers) \cup Names(ast.functions)) \cap Reserved = {}

\* 3: an arc touches its function and a register, has all the keys of the register
\* or none, and weighs a number, a variable of the function or caller.
IndicesFitAny(type, indices) == TRUE
IndicesFit(type, indices) ==
  /\ Depth(type) = 0 => indices = <<>>
  /\ indices # <<>> => Len(indices) = Depth(type)
WeightKnown(f, a) == a.literal \/ a.weight \in ToSet(f.vars) \/ a.weight = <<"caller">>
ArcFits(ast, f, a) ==
  /\ a.source = f.name \/ a.target = f.name
  /\ PlaceName(f, a) \in Names(ast.registers)
  /\ IndicesFit(RegisterOf(ast, PlaceName(f, a)).type, PlaceIndex(f, a))
  /\ WeightKnown(f, a)

\* 4: extractIdents scans the guard's text for runs of letters, digits and dots;
\* a name before a parenthesis without a blank would be let through, but
\* GuardText puts a blank before every parenthesis.
RECURSIVE IdentsFrom(_, _)
IdentsFrom(s, i) ==
  IF i > Len(s) THEN {}
  ELSE IF s[i] \in Words \cup {"_"}
       THEN LET j == PastAll(s, i, NameSymbols)
            IN {[lit |-> SubSeq(s, i, j - 1), call |-> SymbolAt(s, j) = "("]} \cup IdentsFrom(s, j)
       ELSE IdentsFrom(s, i + 1)
BuiltIns == {<<"caller">>, <<"address">>, <<"true">>, <<"false">>, <<"msg">>, <<"sender">>}
GuardNamesKnown(ast, f) ==
  \A x \in IdentsFrom(f.require, 1) :
    \/ x.lit \in BuiltIns \cup Names(ast.registers) \cup ToSet(f.vars)
    \/ \E y \in IdentsFrom(f.require, 1) : y.lit = x.lit /\ y.call

\* 5: the event of a function is declared.
EventKnown(ast, f) == f.event = <<>> \/ f.event \in Names(ast.events)

AstValid(ast) ==
  /\ NamesApart(ast)
  /\ NamesFree(ast)
  /\ \A k \in DOMAIN ast.functions :
       LET f == ast.functions[k]
       IN /\ \A m \in DOMAIN f.arcs : ArcFits(ast, f, f.arcs[m])
          /\ GuardNamesKnown(ast, f)
          /\ EventKnown(ast, f)

\* Parse and Build: the schema of a text, or <<>> when either refuses it.
Built(item) == IF item.at = 0 THEN <<>> ELSE IF AstValid(item.ast) THEN <<BuildSchema(item.ast)>> ELSE <<>>
SchemaOf(text) == Built(ParseSchema(text))
=============================================================================
