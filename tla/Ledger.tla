--------------------------------- MODULE Ledger ---------------------------------
(****************************************************************************)
(* What a token template promises of the amounts it keeps: an amount moves  *)
(* from an account that has it to another, or enters or leaves the accounts *)
(* together with the total that was issued.                                 *)
(****************************************************************************)
EXTENDS Naturals

CONSTANTS Accounts,  \* where amounts are kept
          Limit      \* the largest amount

VARIABLES kept,    \* the amount of every account
          issued   \* what was issued and is not retired

lvars == <<kept, issued>>

LedgerTypeOK == kept \in [Accounts -> 0 .. Limit] /\ issued \in Nat

LInit == /\ kept = [a \in Accounts |-> 0]
         /\ issued = 0

Issue(a, n) ==
  /\ issued' = issued + n
  /\ kept[a] + n <= Limit
  /\ kept' = [kept EXCEPT ![a] = kept[a] + n]

Retire(a, n) ==
  /\ issued' = issued - n
  /\ n <= kept[a]
  /\ kept' = [kept EXCEPT ![a] = kept[a] - n]

\* An amount leaves its account before it enters the other, so one account may be both.
Move(a, b, n) ==
  /\ issued' = issued
  /\ n <= kept[a]
  /\ LET left == [kept EXCEPT ![a] = kept[a] - n]
     IN left[b] + n <= Limit /\ kept' = [left EXCEPT ![b] = left[b] + n]

LNext ==
  \E a \in Accounts, n \in 1 .. Limit :
    \/ Issue(a, n)
    \/ Retire(a, n)
    \/ \E b \in Accounts : Move(a, b, n)

LSpec == LInit /\ [][LNext]_lvars
=============================================================================
