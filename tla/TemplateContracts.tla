---------------------------- MODULE TemplateContracts ----------------------------
(****************************************************************************)
(* The contracts of the templates: what the generator writes is well formed *)
(* and fits the states it is about.                                         *)
(****************************************************************************)
EXTENDS Contracts, SolidityContract, Templates, DslBuilder

\* Of every deployed contract: its functions compile and mean one thing
\* (WellFormedContract), its statements are those of its arcs and fit the types of
\* its states in every call (WellTyped), only votes touch the state of a poll
\* (VoteStates), a plain net is one of token states, every call adds to a counter of
\* supply what it adds to the entries (Supplied), and takes or gives one amount
\* (MovesAmounts); and of every state, a poll is created and closed in this order.
GeneratedWellFormed ==
  /\ calls = 0 => WellFormedContract(Run.of) /\ WellTyped(Run.of)
               /\ Supplied(Run.of) /\ MovesAmounts(Run.of)
  /\ PollGuarded
=============================================================================
