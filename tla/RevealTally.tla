----------------------------- MODULE RevealTally -----------------------------
(***************************************************************************)
(* The reveal phase of a v2 poll and its tally proofs.                     *)
(*                                                                         *)
(* A reveal is three writes under two holds of FSStore.mu: the vote file   *)
(* is marked, tally.json is incremented, and reveals.json receives the     *)
(* bundle.  A tally proof reads the vote files and reveals.json without    *)
(* the mutex, proves for as long as it takes, and replaces tallyproof.json *)
(* by what it proved.  As in PollServer a request is a process whose steps *)
(* are its store calls, and a write may fail in a server that lives on.    *)
(*                                                                         *)
(* Votes and the poll's status come from PollServer: a cast or a stale     *)
(* save in flight may still store a vote, or reopen the poll, after it was *)
(* closed.  A vote file is taken to hold the choice its commitment hides.  *)
(***************************************************************************)
EXTENDS Naturals, FiniteSets, SequencesExt

CONSTANTS
    Voters,      \* nullifiers
    Options,     \* the choices a commitment may hide: at most 256
    Bins,        \* those the tally circuits count: TallyProofMaxChoices = 8
    Tiers,       \* capacities of the tally circuits: 16, 64 and 256
    Procs,       \* request goroutines that may be in flight together
    MaxFaults,   \* bound: crashes and failed writes
    NoOne, NoVote, NoProof,
    Torn         \* a file that does not parse

ASSUME BinsAssumption    == Bins \subseteq Options
ASSUME TiersAssumption   == Tiers \subseteq Nat
ASSUME FaultsAssumption  == MaxFaults \in Nat
ASSUME VotersAssumption  == IsFiniteSet(Voters) /\ NoOne \notin Voters

VoteFile == [choice : Options, revealed : BOOLEAN]
Bundle   == [who : Voters, choice : Options]
Artifact == [listed : SUBSET Voters, tallies : [Bins -> Nat], slots : Tiers]

ASSUME VoteFileAssumption == NoVote \notin VoteFile /\ Torn \notin VoteFile /\ NoVote # Torn
ASSUME BundlesAssumption  == Torn \notin Seq(Bundle)
ASSUME ArtifactAssumption == NoProof \notin Artifact

VARIABLES
    closed,   \* poll.Status as the next ReadPoll finds it
    vote,     \* polls/{id}/votes
    counts,   \* tally.json, which a torn file restarts at zero
    bundles,  \* reveals.json
    proof,    \* tallyproof.json; a torn file reads as none
    faults,   \* times the server has died or a write has failed
    req       \* the requests in flight

files == <<vote, counts, bundles, proof>>
vars  == <<closed, vote, counts, bundles, proof, faults, req>>

\* A request: its handler and store call, the ballot it reveals, and what a
\* tally proof has read and proved.
Request ==
    [op       : {"none", "reveal", "prove"},
     pc       : {"idle", "listVotes", "revealVote", "saveBundle", "listBundles", "saveProof"},
     bundle   : Bundle \cup {NoOne},
     listed   : SUBSET Voters,
     artifact : Artifact \cup {NoProof}]

Idle == [op |-> "none", pc |-> "idle", bundle |-> NoOne,
         listed |-> {}, artifact |-> NoProof]

NoCounts == [c \in Options |-> 0]

TypeOK ==
    /\ closed \in BOOLEAN
    /\ vote \in [Voters -> VoteFile \cup {NoVote, Torn}]
    /\ counts \in [Options -> Nat]
    /\ bundles \in Seq(Bundle) \cup {Torn}
    /\ proof \in Artifact \cup {NoProof}
    /\ faults \in 0 .. MaxFaults
    /\ req \in [Procs -> Request]

Init ==
    /\ closed = FALSE
    /\ vote = [v \in Voters |-> NoVote]
    /\ counts = NoCounts
    /\ bundles = <<>>
    /\ proof = NoProof
    /\ faults = 0
    /\ req = [p \in Procs |-> Idle]

-----------------------------------------------------------------------------
(* What the handlers and the store compute from what they have read. *)

\* The votes ListVotes parses.
Readable == {v \in Voters : vote[v] \in VoteFile}

Revealed(v) == vote[v] \in VoteFile /\ vote[v].revealed

\* Mutation of Sealed: a vote file is taken as it is, revealed or not.
SealedOrNot(v) == vote[v] \in VoteFile

\* The vote file is there and its Revealed flag is not set.
Sealed(v) == vote[v] \in VoteFile /\ ~vote[v].revealed

\* Mutation of Opens: ValidateVoteReveal is not called.
OpensAnyway(b) == TRUE

\* ValidateVoteReveal: the hash of secret and choice is the stored commitment.
Opens(b) == vote[b.who].choice = b.choice

\* The vote files that RevealVote may be rewriting under an unlocked reader.
Rewriting == {req[p].bundle.who : p \in {q \in Procs : req[q].pc = "revealVote"}}

\* selectTallyCircuitSize: the smallest tier that holds n votes, if any.
FittingTier(n) == {t \in Tiers : n <= t /\ \A u \in Tiers : n <= u => t <= u}

\* Mutation of Known: reveals.json is searched by choice.
KnownByChoice(log, b) == \E i \in DOMAIN log : log[i].choice = b.choice

\* SaveRevealBundle's idempotence test.
Known(log, b) == \E i \in DOMAIN log : log[i].who = b.who

\* The bundle that BuildTallyProofWitnessSized's map keeps for each nullifier.
RevealedIn(log, v) == \E i \in DOMAIN log : log[i].who = v
BundleOf(log, v)   == log[CHOOSE i \in DOMAIN log :
                            /\ log[i].who = v
                            /\ \A j \in DOMAIN log : log[j].who = v => j <= i].choice

\* The listed votes that have a bundle, and so an active slot.
Active(log, listed) == {v \in listed : RevealedIn(log, v)}

\* Mutations of Tallies: a choice outside the bins is counted all the same, and
\* a vote without a bundle is counted for whatever its slot holds.
TalliesUnchecked(log, listed) ==
    [b \in Options |-> Cardinality({v \in Active(log, listed) : BundleOf(log, v) = b})]
TalliesUnrevealed(log, listed) ==
    [b \in Bins |-> Cardinality({v \in listed : RevealedIn(log, v) => BundleOf(log, v) = b})]

\* The tallies of the witness, one per bin.
Tallies(log, listed) ==
    [b \in Bins |-> Cardinality({v \in Active(log, listed) : BundleOf(log, v) = b})]

Begin(p, r) ==
    /\ req[p].pc = "idle"
    /\ closed
    /\ req' = [req EXCEPT ![p] = r]

Return(p) == req' = [req EXCEPT ![p] = Idle]

-----------------------------------------------------------------------------
(* handleRevealVote *)

\* ReadPoll finds the poll closed, and the body names a ballot and its choice.
StartReveal(p) ==
    /\ \E v \in Voters, c \in Options :
         Begin(p, [Idle EXCEPT !.op = "reveal", !.pc = "listVotes",
                               !.bundle = [who |-> v, choice |-> c]])
    /\ UNCHANGED <<closed, files, faults>>

\* ListVotes has the ballot, not yet revealed, and the opening fits it.
FindVote(p) ==
    /\ req[p].pc = "listVotes"
    /\ req[p].op = "reveal"
    /\ Sealed(req[p].bundle.who)
    /\ Opens(req[p].bundle)
    /\ req' = [req EXCEPT ![p] = [@ EXCEPT !.pc = "revealVote"]]
    /\ UNCHANGED <<closed, files, faults>>

\* The ballot is unknown, unreadable or revealed, its file is being rewritten
\* under the unlocked read, or the opening does not fit it.
RefuseReveal(p) ==
    /\ req[p].pc = "listVotes"
    /\ req[p].op = "reveal"
    /\ Return(p)
    /\ UNCHANGED <<closed, files, faults>>

\* incrementTally.
Counted(c) == [counts EXCEPT ![c] = @ + 1]

Opened(v) == [vote EXCEPT ![v] = [choice |-> vote[v].choice, revealed |-> TRUE]]

\* FSStore.RevealVote: the flag is tested again under the mutex, then the vote
\* file and the tally are written.
RevealVote(p) ==
    /\ req[p].pc = "revealVote"
    /\ IF Sealed(req[p].bundle.who)
         THEN /\ vote' = Opened(req[p].bundle.who)
              /\ counts' = Counted(req[p].bundle.choice)
              /\ req' = [req EXCEPT ![p] = [@ EXCEPT !.pc = "saveBundle"]]
         ELSE Return(p) /\ UNCHANGED <<vote, counts>>
    /\ UNCHANGED <<closed, bundles, proof, faults>>

\* FSStore.SaveRevealBundle: a file that does not parse is started over.
SaveRevealBundle(p) ==
    /\ req[p].pc = "saveBundle"
    /\ LET log == IF bundles = Torn THEN <<>> ELSE bundles IN
         bundles' = IF Known(log, req[p].bundle) THEN bundles
                                                 ELSE Append(log, req[p].bundle)
    /\ Return(p)
    /\ UNCHANGED <<closed, vote, counts, proof, faults>>

-----------------------------------------------------------------------------
(* handleGenerateTallyProof, with a prover configured *)

StartProof(p) ==
    /\ Begin(p, [Idle EXCEPT !.op = "prove", !.pc = "listVotes"])
    /\ UNCHANGED <<closed, files, faults>>

\* ListVotes, which misses a vote whose file is being rewritten; the votes it
\* returns must fit a circuit.
ListVotes(p) ==
    /\ req[p].pc = "listVotes"
    /\ req[p].op = "prove"
    /\ \E missed \in SUBSET Rewriting :
         LET listed == Readable \ missed IN
           /\ listed # {}
           /\ FittingTier(Cardinality(listed)) # {}
           /\ req' = [req EXCEPT ![p] = [@ EXCEPT !.pc = "listBundles", !.listed = listed]]
    /\ UNCHANGED <<closed, files, faults>>

\* ListRevealBundles, the witness and the proof.  A listed vote revealed with
\* a choice outside the bins fails the request.
Prove(p) ==
    /\ req[p].pc = "listBundles"
    /\ bundles \notin {Torn, <<>>}
    /\ LET listed == req[p].listed IN
         /\ \A v \in Active(bundles, listed) : BundleOf(bundles, v) \in Bins
         /\ \E t \in FittingTier(Cardinality(listed)) :
              req' = [req EXCEPT ![p] =
                        [@ EXCEPT !.pc = "saveProof",
                                  !.artifact = [listed  |-> listed,
                                                tallies |-> Tallies(bundles, listed),
                                                slots   |-> t]]]
    /\ UNCHANGED <<closed, files, faults>>

\* No votes or reveals, too many votes, an unreadable file, a choice outside
\* the bins, or a witness the circuit does not satisfy.
RefuseProof(p) ==
    /\ \/ req[p].pc = "listVotes" /\ req[p].op = "prove"
       \/ req[p].pc = "listBundles"
    /\ Return(p)
    /\ UNCHANGED <<closed, files, faults>>

\* FSStore.SaveTallyProof replaces whatever artifact is there.
SaveTallyProof(p) ==
    /\ req[p].pc = "saveProof"
    /\ proof' = req[p].artifact
    /\ Return(p)
    /\ UNCHANGED <<closed, vote, counts, bundles, faults>>

-----------------------------------------------------------------------------
(* The environment. *)

\* The poll is closed, or a stale save reopens it (PollServer!SavePoll).
StatusChanges ==
    /\ closed' = ~closed
    /\ UNCHANGED <<files, faults, req>>

\* A cast stores its vote, or leaves a torn file (PollServer!SaveVote and
\* StopShort), at the latest when its request read the poll before it was closed.
StoreVote(v, c) ==
    /\ vote[v] = NoVote
    /\ vote' \in {[vote EXCEPT ![v] = f] : f \in {[choice |-> c, revealed |-> FALSE], Torn}}
    /\ UNCHANGED <<closed, counts, bundles, proof, faults, req>>

\* How the store call that p is making may stop short, as in PollServer.  A
\* reveal may have torn the vote file, or have marked it without counting it,
\* with tally.json whole or torn, or have done all but report it.
StopShort(p) ==
    \/ UNCHANGED files
    \/ LET v == req[p].bundle.who IN
         /\ req[p].pc = "revealVote"
         /\ Sealed(v)
         /\ \/ vote' = [vote EXCEPT ![v] = Torn] /\ UNCHANGED counts
            \/ vote' = Opened(v) /\ counts' \in {counts, NoCounts, Counted(req[p].bundle.choice)}
         /\ UNCHANGED <<bundles, proof>>
    \/ /\ req[p].pc = "saveBundle"
       /\ bundles' = Torn
       /\ UNCHANGED <<vote, counts, proof>>
    \/ /\ req[p].pc = "saveProof"
       /\ proof' \in {NoProof, req[p].artifact}
       /\ UNCHANGED <<vote, counts, bundles>>

\* A store call fails.  After a failed RevealVote handleRevealVote answers 500
\* and saves no bundle; a failed SaveRevealBundle it only logs, as "non-fatal for
\* reveal"; nothing follows a failed SaveTallyProof.
WriteFails(p) ==
    /\ faults < MaxFaults
    /\ faults' = faults + 1
    /\ req[p].pc \in {"revealVote", "saveBundle", "saveProof"}
    /\ StopShort(p)
    /\ Return(p)
    /\ UNCHANGED closed

\* The server dies and is restarted, in the store call of one request.
Crash ==
    /\ faults < MaxFaults
    /\ faults' = faults + 1
    /\ req' = [p \in Procs |-> Idle]
    /\ \E p \in Procs : StopShort(p)
    /\ UNCHANGED closed

\* The steps of a request that has begun.
Continue(p) ==
    \/ FindVote(p)
    \/ RefuseReveal(p)
    \/ RevealVote(p)
    \/ SaveRevealBundle(p)
    \/ ListVotes(p)
    \/ Prove(p)
    \/ RefuseProof(p)
    \/ SaveTallyProof(p)

Next ==
    \/ \E p \in Procs : StartReveal(p) \/ StartProof(p) \/ Continue(p) \/ WriteFails(p)
    \/ StatusChanges
    \/ \E v \in Voters, c \in Options : StoreVote(v, c)
    \/ Crash

Spec == Init /\ [][Next]_vars

\* A goroutine that has started a handler runs it to its end.
FairSpec == Spec /\ \A p \in Procs : WF_vars(Continue(p))

-----------------------------------------------------------------------------
(* Properties. *)

RevealedWith(c) == {v \in Voters : Revealed(v) /\ vote[v].choice = c}

\* tally.json never counts a choice more often than it was revealed, although
\* two reveals of one ballot may both pass the handler's test, and whatever a
\* crash or a failed write loses (RevealVote tests the flag again before incrementTally).
CountsWithinReveals ==
    \A c \in Options : counts[c] <= Cardinality(RevealedWith(c))

\* A reveal bundle opens a revealed vote truthfully, and there is one per
\* ballot: the witness of every later proof is built from them (RevealVote
\* before SaveRevealBundle, and its idempotence test).
BundlesOpenVotes ==
    bundles # Torn =>
        /\ \A i \in DOMAIN bundles : bundles[i].who \in RevealedWith(bundles[i].choice)
        /\ \A i, j \in DOMAIN bundles : bundles[i].who = bundles[j].who => i = j

\* A tally artifact counts no more ballots for a choice than have been revealed
\* with it, however old the votes and bundles it was built from, and names the
\* smallest circuit that holds the votes it lists (GenerateTallyProof).
ProofCountsReveals ==
    proof # NoProof =>
        /\ \A b \in Bins : proof.tallies[b] <= Cardinality(RevealedWith(b))
        /\ Cardinality(proof.listed) <= proof.slots
        /\ \A t \in Tiers : t < proof.slots => t < Cardinality(proof.listed)

\* A revealed ballot stays revealed, with its choice, through every later
\* request, crash and failed write: no write of a vote file follows its reveal.
RevealIsPermanent ==
    [][\A v \in Voters : Revealed(v) => vote'[v] = vote[v]]_vars

\* No write has failed and the server has not died.
NoFault == faults = 0

\* As long as nothing has failed, the bundle of every revealed ballot reaches
\* reveals.json (handleRevealVote runs its three writes to the end; it gives up
\* on the bundle when RevealVote fails, and goes on without it when saving fails).
RevealIsBundled ==
    \A v \in Voters :
        Revealed(v) /\ NoFault
            ~> ~NoFault \/ (bundles # Torn /\ RevealedIn(bundles, v))

-----------------------------------------------------------------------------
(* What a comment of the code states and the code does not do. *)

\* TallyProofMaxChoices "matches the 8-bit VoteChoice range in
\* VoteCastCircuit": every choice a reveal may carry has a bin.
RevealsFitBins ==
    bundles # Torn => \A i \in DOMAIN bundles : bundles[i].choice \in Bins
===============================================================================
