------------------------------ MODULE BallotBox ------------------------------
(***************************************************************************)
(* What the poll server promises about ballots, whatever its requests      *)
(* race and whatever fails: a ballot box that never gives a ballot         *)
(* back, an audit log that names each ballot at most once, and counts that *)
(* are taken from the box.  It does not promise that the box stops filling *)
(* when a count is published, nor that a count covers the whole box; the   *)
(* server keeps neither.                                                   *)
(***************************************************************************)
CONSTANTS Voters, NoCount

VARIABLES
    ballots,  \* voters whose ballot is in the box
    spoilt,   \* those of them whose ballot cannot be read
    audit,    \* voters whose ballot the log names
    count     \* voters whose ballots the published count adds up

boxVars == <<ballots, spoilt, audit, count>>

BoxInit ==
    /\ ballots = {}
    /\ spoilt = {}
    /\ audit = {}
    /\ count = NoCount

\* A voter's first and only ballot.
Drop(v) ==
    /\ v \notin ballots
    /\ ballots' = ballots \cup {v}
    /\ spoilt' \in {spoilt, spoilt \cup {v}}
    /\ UNCHANGED <<audit, count>>

\* A ballot in the box is named in the log, once.
Log(v) ==
    /\ v \in ballots \ audit
    /\ audit' = audit \cup {v}
    /\ UNCHANGED <<ballots, spoilt, count>>

\* A crash or a failed write may cost the whole log.
LoseLog ==
    /\ audit' = {}
    /\ UNCHANGED <<ballots, spoilt, count>>

\* A count is published over readable ballots of the box.
Publish(S) ==
    /\ S # {}
    /\ S \subseteq ballots \ spoilt
    /\ count' = S
    /\ UNCHANGED <<ballots, spoilt, audit>>

BoxNext ==
    \/ \E v \in Voters : Drop(v) \/ Log(v)
    \/ LoseLog
    \/ \E S \in SUBSET Voters : Publish(S)

BoxSpec == BoxInit /\ [][BoxNext]_boxVars
==============================================================================
