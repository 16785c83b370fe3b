------------------------------- MODULE VoteNet -------------------------------
(***************************************************************************)
(* The vote Petri net (erc/vote.go) as the server uses it: a poll's event  *)
(* log is replayed through a fresh metamodel.Runtime (PollRuntime in       *)
(* internal/server/pollstate.go), and the resulting marking gates castVote *)
(* and yields the published tallies.                                       *)
(*                                                                         *)
(* Only two of the net's places are read back by the server, and those are *)
(* the ones kept here: the token place registrySlots and the data place    *)
(* tallies.  voterRegistry and pollConfig have no arcs at all; nullifiers  *)
(* is written by castVote but never read.                                  *)
(***************************************************************************)
EXTENDS Naturals, Sequences, SequencesExt, FiniteSets

CONSTANTS
    Voters,   \* one registry commitment and one nullifier per voter
    Options,  \* choice indexes a castVote event may carry
    Hidden,   \* a castVote event with no choice (and so no weight) binding
    NoOne     \* the voter of an event that binds none

ASSUME HiddenAssumption == Hidden \notin Options
ASSUME NoOneAssumption  == NoOne \notin Voters
ASSUME OptionsAssumption == IsFiniteSet(Options)

\* store.PollEvent: an action name and its bindings.
Event ==
    [action : {"createPoll", "registerVoter", "castVote", "closePoll"},
     who    : Voters \cup {NoOne},
     choice : Options \cup {Hidden}]

\* NewSnapshotFromSchema: every place of the net is empty.
EmptyMarking == [slots |-> 0, tallies |-> [c \in Options |-> 0]]

\* Runtime.Enabled("castVote"): its one token input is registrySlots.
CastVoteEnabled(m) == m.slots >= 1

\* Mutation of Arcs: castVote does not take its slot.
ArcsKeepingSlot(m, e) ==
    CASE e.action = "registerVoter" -> [m EXCEPT !.slots = @ + 1]
      [] e.action = "castVote" ->
           [m EXCEPT !.tallies = [c \in Options |->
                           m.tallies[c] + (IF e.choice = c THEN 1 ELSE 0)]]
      [] OTHER -> m

\* The arcs of the net: registerVoter -> registrySlots -> castVote, and
\* castVote -> tallies[choice] with the binding "weight", which is 1 when the
\* event carries a choice and absent otherwise.  createPoll and closePoll have
\* no arcs.
Arcs(m, e) ==
    CASE e.action = "registerVoter" -> [m EXCEPT !.slots = @ + 1]
      [] e.action = "castVote" ->
           [slots   |-> m.slots - 1,
            tallies |-> [c \in Options |->
                           m.tallies[c] + (IF e.choice = c THEN 1 ELSE 0)]]
      [] OTHER -> m

\* ExecuteWithBindings refuses a castVote that finds no slot; PollRuntime drops
\* the error, so such an event leaves the marking alone.
Fire(m, e) == IF e.action = "castVote" /\ ~CastVoteEnabled(m) THEN m ELSE Arcs(m, e)

\* PollRuntime: State(t) = fold(apply, initialState, events[0..t]).
Markings(log) ==
    LET State[t \in 0..Len(log)] ==
          IF t = 0 THEN EmptyMarking ELSE Fire(State[t - 1], log[t])
    IN State

Replay(log) == Markings(log)[Len(log)]
==============================================================================
