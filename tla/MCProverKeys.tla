---------------------------- MODULE MCProverKeys ----------------------------
(* ProverKeys for TLC: a circuit of each kind, one close-poll, two requests. *)
EXTENDS ProverKeys

CONSTANTS transfer, tallyDecrypt, tally256, main, cli, p1, p2
=============================================================================
