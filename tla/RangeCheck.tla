------------------------------ MODULE RangeCheck ------------------------------
(****************************************************************************)
(* The range check that a circuit makes of left >= right                    *)
(* (prover/synth/guard.go): the difference, taken in the field, has to fit  *)
(* the bits of the check.                                                   *)
(****************************************************************************)
EXTENDS Integers

CONSTANTS Span,   \* how many numbers the bits of a range check hold (2^64 in the code)
          Prime   \* the order of the circuits' field

ASSUME FieldAssumption == Span \in Nat \ {0} /\ Prime \in Nat /\ Prime >= 2 * Span

\* Mutation of rangeCheckHolds: the difference is taken the wrong way round.
rangeCheckSwapped(left, right) == (right - left) % Prime < Span

\* ToBinary(Sub(left, right), bits) over the field.
rangeCheckHolds(left, right) == (left - right) % Prime < Span
===============================================================================
