------------------------------- MODULE GuardEval -------------------------------
(****************************************************************************)
(* What a guard evaluates to (internal/metamodel/guard: eval.go, guard.go,  *)
(* aggregate.go, invariant.go).                                             *)
(*                                                                          *)
(* A value is [t, v]: t is "int" for an int64, "u256" for a *uint256.Int,   *)
(* "bool", "str", "nil", or "any", "int64map" and "u256map" for the three   *)
(* map types a guard can index, whose v is a function from strings.  Err is *)
(* an error return, and everything that meets it returns it.                *)
(****************************************************************************)
EXTENDS GuardSyntax

CONSTANTS WordMax,   \* the largest *uint256.Int (2^256 - 1 in the code)
          Numerals,  \* a function: the strings that are decimal numerals, to their value
          Addresses  \* the strings address(n) formats n as, n = 0 being the zero address

ASSUME EvalAssumption ==
  /\ WordMax \in Nat /\ WordMax >= 2 * MaxInt + 1
  /\ \A s \in DOMAIN Numerals : Numerals[s] \in Int
  /\ 0 \in DOMAIN Addresses

Int64(n)  == [t |-> "int", v |-> n]
U256(n)   == [t |-> "u256", v |-> n]
Truth(b)  == [t |-> "bool", v |-> b]
Text(s)   == [t |-> "str", v |-> s]
Err       == [t |-> "err", v |-> "err"]
NilValue  == [t |-> "nil", v |-> "nil"]
No        == [ok |-> FALSE, v |-> 0]
Got(x)    == [ok |-> TRUE, v |-> x]

\* Two's complement: int64 wraps at MaxInt, a word wraps at WordMax.
Wrap64(n)   == ((n + MaxInt + 1) % (2 * MaxInt + 2)) - MaxInt - 1
WrapWord(n) == n % (WordMax + 1)
\* uint64(x) of an int64, and int64(x) of a uint64.
AsUint64(n) == n % (2 * MaxInt + 2)

-----------------------------------------------------------------------------
(* The conversions. *)

toBool(x) == CASE x.t = "bool" -> Got(x.v)
               [] x.t \in {"int", "u256"} -> Got(x.v # 0)
               [] OTHER -> No

toInt64(x) == CASE x.t = "int" -> Got(x.v)
                [] x.t = "u256" /\ x.v <= 2 * MaxInt + 1 -> Got(Wrap64(x.v))
                [] x.t = "str" /\ x.v \in DOMAIN Numerals /\ Numerals[x.v] <= MaxInt -> Got(Numerals[x.v])
                [] OTHER -> No

\* A negative int64 goes through uint64: -1 becomes 2^64 - 1.
toU256(x) == CASE x.t = "u256" -> Got(x.v)
               [] x.t = "int" -> Got(AsUint64(x.v))
               [] x.t = "str" /\ x.v \in DOMAIN Numerals /\ Numerals[x.v] >= 0 -> Got(Numerals[x.v])
               [] OTHER -> No

isU256(x) == x.t = "u256"

\* fmt's "%d" of an int64; the model knows the strings of Numerals.
toString(x) == CASE x.t = "str" -> Got(x.v)
                 [] x.t = "int" /\ \E s \in DOMAIN Numerals : Numerals[s] = x.v ->
                      Got(CHOOSE s \in DOMAIN Numerals : Numerals[s] = x.v)
                 [] OTHER -> No

-----------------------------------------------------------------------------
(* The operators. *)

\* Go's quotient is truncated towards zero and its remainder has the sign of the
\* dividend.
Quot(l, r) == LET q == (IF l < 0 THEN -l ELSE l) \div (IF r < 0 THEN -r ELSE r)
              IN IF (l < 0) = (r < 0) THEN q ELSE -q
Rem(l, r)  == l - r * Quot(l, r)

ArithmeticResult(op, l, r) ==
  CASE op = "+" -> l + r [] op = "-" -> l - r [] op = "*" -> l * r
    [] op = "/" -> Quot(l, r) [] OTHER -> Rem(l, r)

evalArithmetic(op, left, right) ==
  LET wide == isU256(left) \/ isU256(right)
      l == IF wide THEN toU256(left) ELSE toInt64(left)
      r == IF wide THEN toU256(right) ELSE toInt64(right)
  IN CASE ~l.ok \/ ~r.ok -> Err
       [] op \in {"/", "%"} /\ r.v = 0 -> Err
       [] wide -> U256(WrapWord(ArithmeticResult(op, l.v, r.v)))
       [] OTHER -> Int64(Wrap64(ArithmeticResult(op, l.v, r.v)))

RelationHolds(op, l, r) ==
  CASE op = ">" -> l > r [] op = "<" -> l < r [] op = ">=" -> l >= r [] OTHER -> l <= r

evalRelational(op, left, right) ==
  LET wide == isU256(left) \/ isU256(right)
      l == IF wide THEN toU256(left) ELSE toInt64(left)
      r == IF wide THEN toU256(right) ELSE toInt64(right)
  IN IF ~l.ok \/ ~r.ok THEN Err ELSE Truth(RelationHolds(op, l.v, r.v))

\* The first representation both sides have decides: word, int64, bool, string.
\* Two maps reach Go's own ==, which panics: the guard is not evaluated to TRUE.
compareValues(left, right) ==
  LET both(conv(_)) == conv(left).ok /\ conv(right).ok
  IN CASE (isU256(left) \/ isU256(right)) /\ both(toU256) -> toU256(left).v = toU256(right).v
       [] both(toInt64) -> toInt64(left).v = toInt64(right).v
       [] both(toBool) -> toBool(left).v = toBool(right).v
       [] both(toString) -> toString(left).v = toString(right).v
       [] OTHER -> left.t = right.t /\ left.t = "nil"

evalEquality(op, left, right) == Truth(compareValues(left, right) = (op = "=="))

evalBinary(op, left, right) ==
  CASE op \in {"+", "-", "*", "/", "%"} -> evalArithmetic(op, left, right)
    [] op \in {">", "<", ">=", "<="} -> evalRelational(op, left, right)
    [] OTHER -> evalEquality(op, left, right)

evalUnary(op, x) ==
  IF op = "!"
  THEN IF toBool(x).ok THEN Truth(~toBool(x).v) ELSE Err
  ELSE IF toInt64(x).ok THEN Int64(Wrap64(-toInt64(x).v)) ELSE Err

\* A missing entry is a zero: a word, except in a map of int64.  Indexing nil or
\* a number (an outer entry that is missing) is a zero word too.
evalIndex(obj, index) ==
  LET key == toString(index)
  IN CASE obj.t \in {"nil", "u256"} \/ toInt64(obj).ok -> U256(0)
       [] obj.t \notin {"any", "int64map", "u256map"} -> Err
       [] ~key.ok -> Err
       [] key.v \in DOMAIN obj.v -> obj.v[key.v]
       [] OTHER -> IF obj.t = "int64map" THEN Int64(0) ELSE U256(0)

evalField(obj, field) ==
  IF obj.t = "any" /\ field \in DOMAIN obj.v THEN obj.v[field] ELSE Err

\* addBuiltins: address(n) of guard.go.
addressCall(args) ==
  IF Len(args) # 1 THEN Err
  ELSE LET n == toInt64(args[1])
       IN IF n.ok /\ n.v \in DOMAIN Addresses THEN Text(Addresses[n.v]) ELSE Err

\* addressFunc of invariant.go: any argument is accepted, and every address that
\* is not zero is the same placeholder, the address of 1.
invariantAddressCall(args) ==
  LET n == IF args = <<>> THEN Got(0) ELSE toInt64(args[1])
  IN Text(Addresses[IF n.ok /\ n.v # 0 THEN 1 ELSE 0])

-----------------------------------------------------------------------------
(* The aggregates of aggregate.go, over a marking: a function from the names *)
(* of places to counts.                                                     *)

HasPrefix(place, p) == Len(p) <= Len(place) /\ SubSeq(place, 1, Len(p)) = p
Matching(marking, p) == {place \in DOMAIN marking : HasPrefix(place, p)}

RECURSIVE SumOver(_, _)
SumOver(f, S) == IF S = {} THEN 0
                 ELSE LET x == CHOOSE x \in S : TRUE IN f[x] + SumOver(f, S \ {x})

aggregateOfHeld(name, marking, p) == Cardinality({place \in Matching(marking, p) : marking[place] > 0})
\* min is 0 when no place matches, and max is never below 0.
aggregate(name, marking, p) ==
  LET M == Matching(marking, p)
      values == {marking[place] : place \in M}
  IN CASE name = "sum"    -> Wrap64(SumOver(marking, M))
       [] name = "count"  -> Cardinality({place \in M : marking[place] > 0})
       [] name = "tokens" -> IF p \in DOMAIN marking THEN marking[p] ELSE 0
       [] name = "min"    -> IF M = {} THEN 0
                             ELSE CHOOSE v \in values : \A w \in values : v <= w
       [] OTHER           -> CHOOSE v \in values \cup {0} : \A w \in values \cup {0} : v >= w

Aggregates == {"sum", "count", "tokens", "min", "max"}

aggregateCall(name, marking, args) ==
  IF args = <<>> THEN Err
  ELSE IF args[1].t # "str" THEN Err ELSE Int64(aggregate(name, marking, args[1].v))

-----------------------------------------------------------------------------
(* Evaluation.  A context has the bindings, a function from names to values, *)
(* and the marking of an invariant; a guard's context has no marking.       *)

Join(lit) == FoldLeft(LAMBDA acc, c : acc \o c, "", lit)

GuardContext(bindings) == [bindings |-> bindings, invariant |-> FALSE, marking |-> <<>>]
\* EvaluateInvariant binds every place to its count.
InvariantContext(marking) ==
  [bindings |-> [place \in DOMAIN marking |-> Int64(marking[place])],
   invariant |-> TRUE, marking |-> marking]

Call(f, args, ctx) ==
  CASE f = "address" -> IF ctx.invariant THEN invariantAddressCall(args) ELSE addressCall(args)
    [] f \in Aggregates /\ ctx.invariant -> aggregateCall(f, ctx.marking, args)
    [] OTHER -> Err

\* The right operand of && and || is evaluated only when the left does not decide,
\* and both must be truths.
Decided(op, left) == toBool(left).v = (op = "||")

RECURSIVE Eval(_, _)
Eval(node, ctx) ==
  CASE node[1] = "bool" -> Truth(node[2])
    [] node[1] = "num" -> Int64(node[2])
    [] node[1] = "str" -> Text(Join(node[2]))
    [] node[1] = "id" -> IF Join(node[2]) \in DOMAIN ctx.bindings
                         THEN ctx.bindings[Join(node[2])] ELSE Err
    [] node[1] = "un" ->
         LET e == Eval(node[3], ctx) IN IF e.t = "err" THEN Err ELSE evalUnary(node[2], e)
    [] node[1] = "bin" /\ node[2] \in {"&&", "||"} ->
         LET l == Eval(node[3], ctx)
             r == Eval(node[4], ctx)
         IN CASE ~toBool(l).ok -> Err
              [] toBool(l).ok /\ Decided(node[2], l) -> Truth(toBool(l).v)
              [] OTHER -> IF toBool(r).ok THEN Truth(toBool(r).v) ELSE Err
    [] node[1] = "bin" /\ node[2] \notin {"&&", "||"} ->
         LET l == Eval(node[3], ctx)
             r == Eval(node[4], ctx)
         IN IF l.t = "err" \/ r.t = "err" THEN Err ELSE evalBinary(node[2], l, r)
    [] node[1] = "index" ->
         LET o == Eval(node[2], ctx)
             k == Eval(node[3], ctx)
         IN IF o.t = "err" \/ k.t = "err" THEN Err ELSE evalIndex(o, k)
    [] node[1] = "field" ->
         LET o == Eval(node[2], ctx)
         IN IF o.t = "err" THEN Err ELSE evalField(o, Join(node[3]))
    [] OTHER ->
         LET args == [k \in DOMAIN node[3] |-> Eval(node[3][k], ctx)]
         IN IF \E k \in DOMAIN args : args[k].t = "err" THEN Err
            ELSE Call(Join(node[2]), args, ctx)

\* EvalCompiled: the result must be a truth; "err" stands for the error return.
EvalCompiled(node, ctx) ==
  LET e == Eval(node, ctx)
  IN IF toBool(e).ok THEN (IF toBool(e).v THEN "pass" ELSE "reject") ELSE "error"

\* Evaluate: an empty guard passes, an unreadable one is an error.
Evaluate(s, ctx) ==
  IF s = <<>> THEN "pass"
  ELSE IF Compile(s) = Nil THEN "error" ELSE EvalCompiled(Compile(s), ctx)

\* EvaluateInvariant: the same over a marking.
EvaluateInvariant(s, marking) == Evaluate(s, InvariantContext(marking))
=============================================================================
