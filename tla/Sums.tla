--------------------------------- MODULE Sums ---------------------------------
(***************************************************************************)
(* The sum of the values of a function of finite domain, one chosen        *)
(* argument at a time.                                                     *)
(***************************************************************************)
EXTENDS Naturals

Pick(S) == CHOOSE x \in S : TRUE

\* The sum of f over each set of its arguments.
PartialSums(f) ==
    LET sum[S \in SUBSET DOMAIN f] ==
          IF S = {} THEN 0 ELSE f[Pick(S)] + sum[S \ {Pick(S)}]
    IN sum

SumOf(f) == PartialSums(f)[DOMAIN f]
===============================================================================
