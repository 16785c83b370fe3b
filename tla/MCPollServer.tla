---------------------------- MODULE MCPollServer ----------------------------
(***************************************************************************)
(* Instances of PollServer for TLC.  Voters, goroutines and the one choice *)
(* are model values; the safety runs identify states that differ only in   *)
(* their names.                                                            *)
(***************************************************************************)
EXTENDS PollServer

\* A creator sends no commitment list, or one with a single voter.
MCPreRegs == {<<>>} \cup {<<v>> : v \in Voters}

\* Only late registration.
MCNoPreRegs == {<<>>}

MCSymmetry == Permutations(Voters) \cup Permutations(Procs)
=============================================================================
