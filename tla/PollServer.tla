----------------------------- MODULE PollServer -----------------------------
(***************************************************************************)
(* One poll of the bitwrap server: the HTTP handlers of internal/server    *)
(* over the files of internal/store.                                       *)
(*                                                                         *)
(* net/http runs every request in its own goroutine, and FSStore.mu is     *)
(* held for a single store call only.  A handler that reads the poll       *)
(* record, decides, and writes the whole record back is therefore not      *)
(* atomic: here each request is a process whose steps are the store calls  *)
(* of its handler, in the handler's order, and everything the handler      *)
(* computes between two store calls belongs to the step of the first one.  *)
(* What a request has read stays in req[p] and may be stale when used.     *)
(*                                                                         *)
(* Abstractions.  A voter stands for its registry commitment and its       *)
(* nullifier.  The registry root is the commitment list it is the Merkle   *)
(* root of (computeRegistryRoot is injective on lists of nonzero           *)
(* commitments; clients leave registryRoot empty at creation).  Requests   *)
(* the code answers with an error before any write are not steps.  A write *)
(* may fail while the server lives (a full disk, no file handle left), and *)
(* the server may die in the middle of one; a file that is there and whole *)
(* can always be read.                                                     *)
(***************************************************************************)
EXTENDS VoteNet, Sums

CONSTANTS
    Procs,       \* request goroutines that may be in flight together
    Versions,    \* the VoteSchemaVersion values a client may ask for
    PreRegs,     \* the VoterCommitments lists a creator may send
    ProverOn,    \* s.proverSvc # nil
    MaxEvents,   \* bound: length of the event log
    DiskFails,   \* writes may fail while the server lives
    MaxFaults,   \* bound: crashes and failed writes
    NoPoll,      \* no readable poll file
    NoTally      \* no v3 tally artifact

ASSUME VersionsAssumption == Versions \subseteq {2, 3}
ASSUME PreRegsAssumption  == PreRegs \subseteq Seq(Voters)
ASSUME BoundsAssumption  == MaxEvents \in Nat
ASSUME FaultsAssumption  == MaxFaults \in Nat /\ DiskFails \in BOOLEAN
ASSUME ProverAssumption   == ProverOn \in BOOLEAN

RootSig == [root : Seq(Voters), count : Nat]

PollRecord ==
    [version     : {2, 3},
     status      : {"active", "closed"},
     commitments : Seq(Voters),
     sigs        : Seq(RootSig)]

ASSUME NoPollAssumption  == NoPoll \notin PollRecord
ASSUME NoTallyAssumption == \A S \in SUBSET Voters : S # NoTally

VARIABLES
    poll,        \* polls/{id}.json
    created,     \* the poll's id has been drawn
    votes,       \* the nullifiers that have a file under polls/{id}/votes
    unreadable,  \* those of them whose file was left truncated
    events,      \* polls/{id}/events.json
    tally,       \* polls/{id}/tally.json of a v3 poll: the ballots it counts
    expired,     \* time.Now() is past ExpiresAt
    faults,      \* times the server has died or a write has failed
    req          \* the requests in flight

files == <<poll, votes, unreadable, events, tally>>
vars  == <<poll, created, votes, unreadable, events, tally, expired, faults, req>>

Ops == {"none", "create", "register", "sign", "cast", "close", "expire", "aggregate"}
Pcs == {"idle", "savePoll", "appendEvent", "readEvents", "saveVote",
        "readTally", "listVotes", "saveTally"}

\* A request: its handler, the store call it is about to make, the poll record
\* it holds in memory, its ballot, and the ballots it has aggregated.
Request ==
    [op      : Ops,
     pc      : Pcs,
     rec     : PollRecord \cup {NoPoll},
     who     : Voters \cup {NoOne},
     choice  : Options \cup {Hidden},
     counted : SUBSET Voters]

Idle == [op |-> "none", pc |-> "idle", rec |-> NoPoll,
         who |-> NoOne, choice |-> Hidden, counted |-> {}]

TypeOK ==
    /\ poll \in PollRecord \cup {NoPoll}
    /\ created \in BOOLEAN
    /\ votes \in SUBSET Voters
    /\ unreadable \in SUBSET votes
    /\ events \in Seq(Event)
    /\ tally \in (SUBSET Voters) \cup {NoTally}
    /\ expired \in BOOLEAN
    /\ faults \in 0 .. MaxFaults
    /\ req \in [Procs -> Request]

Init ==
    /\ poll = NoPoll
    /\ created = FALSE
    /\ votes = {}
    /\ unreadable = {}
    /\ events = <<>>
    /\ tally = NoTally
    /\ expired = FALSE
    /\ faults = 0
    /\ req = [p \in Procs |-> Idle]

-----------------------------------------------------------------------------
(* What the handlers compute from what they have read. *)

\* computeRegistryRoot, up to the injection described above.
RegistryRoot(rec) == rec.commitments

Registered(rec) == {rec.commitments[i] : i \in DOMAIN rec.commitments}

\* The freshness test of handleCastVote.  With no signature at all it is skipped.
RootSignedOff(rec) ==
    rec.sigs # <<>> => rec.sigs[Len(rec.sigs)].root = RegistryRoot(rec)

\* Mutation of Signable: the count and root comparisons are dropped.
SignableAgain(rec) == rec.status = "active" /\ rec.commitments # <<>>

\* What handleSignRegistryRoot demands of a record it will sign.
Signable(rec) ==
    /\ rec.status = "active"
    /\ rec.commitments # <<>>
    /\ rec.sigs # <<>> =>
         LET prev == rec.sigs[Len(rec.sigs)] IN
         /\ Len(rec.commitments) > prev.count
         /\ prev.root # RegistryRoot(rec)

\* Mutation of Signed: the new signature replaces the log.
SignedAnew(rec) ==
    [rec EXCEPT !.sigs = <<[root |-> RegistryRoot(rec), count |-> Len(rec.commitments)]>>]

\* The record with the creator's signature over its root and count appended.
Signed(rec) ==
    [rec EXCEPT !.sigs =
        Append(@, [root |-> RegistryRoot(rec), count |-> Len(rec.commitments)])]

\* Mutations of Closed: a status no handler knows, and no change at all.
ClosedMisspelt(rec) == [rec EXCEPT !.status = "close"]
ClosedNever(rec)    == rec

Closed(rec) == [rec EXCEPT !.status = "closed"]

\* The forms of ballot each version accepts.  A v2 client may prove in the
\* browser, hand the server its witness, or send a proof string that the
\* server does not check; a v3 client always proves in the browser.
BallotForms(version) ==
    IF version = 3 THEN {"clientProof"} ELSE {"clientProof", "witness", "opaque"}

\* Proof verification against the registry root the request read: the circuit
\* shows that the voter's commitment is a leaf of that root.
Verified(rec, v, form) ==
    ProverOn /\ form # "opaque" => v \in Registered(rec)

\* Mutation of NullifierUnused: the os.Stat test is dropped.
NullifierUnusedAlways(v) == TRUE

\* SaveVote's test: the vote file does not exist.
NullifierUnused(v) == v \notin votes

\* Mutation of MayAggregate: the status test is dropped.
MayAggregateClosed(rec) == tally = NoTally

\* handleAggregateV3: no artifact yet, and the record it read is open.
MayAggregate(rec) == tally = NoTally /\ rec.status # "closed"

\* Mutation of Countable: unreadable files count as ballots.
CountableUnskipped == votes

\* What ListVotes returns: it skips the files it cannot parse.
Countable == votes \ unreadable

\* Mutation of EnoughBallots: the "no votes to aggregate" test is dropped.
EnoughBallotsAlways(S) == TRUE

EnoughBallots(S) == S # {}

\* Mutations of Appends: registrations, or votes without a visible choice, are
\* not logged.
AppendsButRegister(r) == r.op \notin {"sign", "expire", "register"}
AppendsVisible(r)     == r.op \notin {"sign", "expire"} /\ (r.op = "cast" => r.choice # Hidden)

\* The handlers that append an event after their write: signing and
\* auto-closing do not.
Appends(r) == r.op \notin {"sign", "expire"}

\* The bindings of the event each handler appends.
EventOf(r) ==
    CASE r.op = "create"   -> [action |-> "createPoll", who |-> NoOne, choice |-> Hidden]
      [] r.op = "register" -> [action |-> "registerVoter", who |-> r.who, choice |-> Hidden]
      [] r.op = "cast"     -> [action |-> "castVote", who |-> r.who, choice |-> r.choice]
      [] OTHER             -> [action |-> "closePoll", who |-> NoOne, choice |-> Hidden]

\* Bound on the log: a request starts only if its event will still fit.
LogRoom == Len(events) + Cardinality({p \in Procs : req[p].pc # "idle"}) < MaxEvents

Start(p, op, pc, rec, who) ==
    /\ req[p].pc = "idle"
    /\ LogRoom
    /\ req' = [req EXCEPT ![p] = [Idle EXCEPT !.op = op, !.pc = pc,
                                              !.rec = rec, !.who = who]]

Return(p) == req' = [req EXCEPT ![p] = Idle]

-----------------------------------------------------------------------------
(* Requests: ReadPoll and the checks up to the handler's next store call. *)

\* handleCreatePoll.  The id is drawn at random, so it is created only once.
CreatePoll(p) ==
    /\ ~created
    /\ \E version \in Versions, pre \in PreRegs :
         Start(p, "create", "savePoll",
               [version |-> version, status |-> "active",
                commitments |-> pre, sigs |-> <<>>], NoOne)
    /\ created' = TRUE
    /\ UNCHANGED <<files, expired, faults>>

\* handleRegisterVoter: status is checked, expiry is not.
RegisterVoter(p, v) ==
    /\ poll # NoPoll
    /\ poll.status = "active"
    /\ v \notin Registered(poll)
    /\ Start(p, "register", "savePoll",
             [poll EXCEPT !.commitments = Append(@, v)], v)
    /\ UNCHANGED <<files, created, expired, faults>>

\* handleSignRegistryRoot, the creator's signature being valid.
SignRegistryRoot(p) ==
    /\ poll # NoPoll
    /\ Signable(poll)
    /\ Start(p, "sign", "savePoll", Signed(poll), NoOne)
    /\ UNCHANGED <<files, created, expired, faults>>

\* handleClosePoll, the creator's signature being valid; any version.
ClosePoll(p) ==
    /\ poll # NoPoll
    /\ poll.status = "active"
    /\ Start(p, "close", "savePoll", Closed(poll), NoOne)
    /\ UNCHANGED <<files, created, expired, faults>>

\* handleGetPoll and handleCastVote on an active poll past its deadline.
AutoClose(p) ==
    /\ poll # NoPoll
    /\ poll.status = "active"
    /\ expired
    /\ Start(p, "expire", "savePoll", Closed(poll), NoOne)
    /\ UNCHANGED <<files, created, expired, faults>>

\* handleCastVote up to its ReadEvents.
CastVote(p) ==
    /\ poll # NoPoll
    /\ poll.status = "active"
    /\ ~expired
    /\ poll.commitments # <<>>
    /\ RootSignedOff(poll)
    /\ Start(p, "cast", "readEvents", poll, NoOne)
    /\ UNCHANGED <<files, created, expired, faults>>

\* handleAggregateV3 up to its ReadHomomorphicTally; the status of the record
\* is looked at only after that.
Aggregate(p) ==
    /\ poll # NoPoll
    /\ poll.version = 3
    /\ Start(p, "aggregate", "readTally", poll, NoOne)
    /\ UNCHANGED <<files, created, expired, faults>>

-----------------------------------------------------------------------------
(* The store calls of a request in flight. *)

\* ReadEvents and the slot gate, then the body is decoded and verified.
PassCastGate(p) ==
    /\ req[p].pc = "readEvents"
    /\ CastVoteEnabled(Replay(events))
    /\ \E v \in Voters, form \in BallotForms(req[p].rec.version), c \in Options :
         /\ Verified(req[p].rec, v, form)
         /\ req' = [req EXCEPT ![p] =
                      [Idle EXCEPT !.op = "cast", !.pc = "saveVote", !.who = v,
                                   !.choice = IF form = "witness" THEN c ELSE Hidden]]
    /\ UNCHANGED <<files, created, expired, faults>>

\* The gate is closed, the log is being rewritten under the unlocked read (an
\* unreadable log counts as empty), or the ballot is malformed or not valid.
RefuseCast(p) ==
    /\ req[p].pc = "readEvents"
    /\ Return(p)
    /\ UNCHANGED <<files, created, expired, faults>>

\* What follows a handler's write: the event, or nothing.
LogOrReturn(p) ==
    IF Appends(req[p])
      THEN req' = [req EXCEPT ![p] = [@ EXCEPT !.pc = "appendEvent",
                                               !.rec = NoPoll, !.counted = {}]]
      ELSE Return(p)

\* FSStore.SaveVote: test and write under one hold of the mutex.
SaveVote(p) ==
    /\ req[p].pc = "saveVote"
    /\ IF NullifierUnused(req[p].who)
         THEN votes' = votes \cup {req[p].who} /\ LogOrReturn(p)
         ELSE Return(p) /\ UNCHANGED votes
    /\ UNCHANGED <<poll, created, unreadable, events, tally, expired, faults>>

\* FSStore.AppendEvent, the last store call of every handler that makes it.
AppendEvent(p) ==
    /\ req[p].pc = "appendEvent"
    /\ events' = Append(events, EventOf(req[p]))
    /\ Return(p)
    /\ UNCHANGED <<poll, created, votes, unreadable, tally, expired, faults>>

\* FSStore.SavePoll: the whole record the request holds replaces the file.
SavePoll(p) ==
    /\ req[p].pc = "savePoll"
    /\ poll' = req[p].rec
    /\ LogOrReturn(p)
    /\ UNCHANGED <<created, votes, unreadable, events, tally, expired, faults>>

\* handleAggregateV3 answers 409 with the artifact it found.
AggregateExisting(p) ==
    /\ req[p].pc = "readTally"
    /\ tally # NoTally
    /\ Return(p)
    /\ UNCHANGED <<files, created, expired, faults>>

\* handleAggregateV3 refuses: closed without an artifact, a malformed or
\* unsigned request, no ballots, or a decrypt proof that does not fit them.
AggregateRefused(p) ==
    /\ \/ req[p].pc = "readTally" /\ tally = NoTally
       \/ req[p].pc = "listVotes"
    /\ Return(p)
    /\ UNCHANGED <<files, created, expired, faults>>

AggregateAccepted(p) ==
    /\ req[p].pc = "readTally"
    /\ MayAggregate(req[p].rec)
    /\ req' = [req EXCEPT ![p] = [@ EXCEPT !.pc = "listVotes"]]
    /\ UNCHANGED <<files, created, expired, faults>>

\* The aggregate is recomputed from the listed ballots and the creator's
\* decrypt proof is verified against it.
ListVotes(p) ==
    /\ req[p].pc = "listVotes"
    /\ EnoughBallots(Countable)
    /\ req' = [req EXCEPT ![p] = [@ EXCEPT !.pc = "saveTally", !.counted = Countable]]
    /\ UNCHANGED <<files, created, expired, faults>>

\* SaveHomomorphicTally (temporary file and rename), then the record the
\* request read at its start is marked closed.
SaveHomomorphicTally(p) ==
    /\ req[p].pc = "saveTally"
    /\ tally' = req[p].counted
    /\ req' = [req EXCEPT ![p] = [@ EXCEPT !.pc = "savePoll", !.rec = Closed(req[p].rec)]]
    /\ UNCHANGED <<poll, created, votes, unreadable, events, expired, faults>>

-----------------------------------------------------------------------------
(* The environment. *)

\* The clock passes the poll's deadline.
Expire ==
    /\ ~expired
    /\ expired' = TRUE
    /\ UNCHANGED <<files, created, faults, req>>

\* How the store call that p is making may stop short.  Nothing is written
\* yet, or os.WriteFile has truncated the file and left one that does not
\* parse, or has written it and then fails to close it.  A truncated poll record
\* reads as not found; a truncated log reads as empty and the next AppendEvent
\* starts it over; a truncated vote file blocks its nullifier but is skipped by
\* ListVotes.  The artifact is renamed into place, whole or not at all.
StopShort(p) ==
    \/ UNCHANGED files
    \/ /\ req[p].pc = "savePoll"
       /\ poll' \in {NoPoll, req[p].rec}
       /\ UNCHANGED <<votes, unreadable, events, tally>>
    \/ /\ req[p].pc = "appendEvent"
       /\ events' = <<>>
       /\ UNCHANGED <<poll, votes, unreadable, tally>>
    \/ /\ req[p].pc = "saveVote"
       /\ NullifierUnused(req[p].who)
       /\ votes' = votes \cup {req[p].who}
       /\ unreadable' \in {unreadable, unreadable \cup {req[p].who}}
       /\ UNCHANGED <<poll, events, tally>>

\* A store call fails.  SavePoll, SaveVote and SaveHomomorphicTally make their
\* handler return at once: no event, and no closing after a failed artifact.
\* AppendEvent's error is ignored, as is SavePoll's on auto-closing, and nothing
\* follows either of them.
WriteFails(p) ==
    /\ DiskFails
    /\ faults < MaxFaults
    /\ faults' = faults + 1
    /\ req[p].pc \in {"savePoll", "appendEvent", "saveVote", "saveTally"}
    /\ StopShort(p)
    /\ Return(p)
    /\ UNCHANGED <<created, expired>>

\* The server dies and is restarted: no request survives, and the one whose
\* store call was under way (FSStore.mu) is stopped in it.
Crash ==
    /\ faults < MaxFaults
    /\ faults' = faults + 1
    /\ req' = [p \in Procs |-> Idle]
    /\ \E p \in Procs : StopShort(p)
    /\ UNCHANGED <<created, expired>>

\* The steps of a request that has begun.
Continue(p) ==
    \/ PassCastGate(p)
    \/ RefuseCast(p)
    \/ SaveVote(p)
    \/ AppendEvent(p)
    \/ SavePoll(p)
    \/ AggregateExisting(p)
    \/ AggregateRefused(p)
    \/ AggregateAccepted(p)
    \/ ListVotes(p)
    \/ SaveHomomorphicTally(p)

Next ==
    \/ \E p \in Procs :
         \/ CreatePoll(p)
         \/ \E v \in Voters : RegisterVoter(p, v)
         \/ SignRegistryRoot(p)
         \/ ClosePoll(p)
         \/ AutoClose(p)
         \/ CastVote(p)
         \/ Aggregate(p)
         \/ Continue(p)
         \/ WriteFails(p)
    \/ Expire
    \/ Crash

Spec == Init /\ [][Next]_vars

\* A goroutine that has started a handler runs it to its end.
FairSpec == Spec /\ \A p \in Procs : WF_vars(Continue(p))

-----------------------------------------------------------------------------
(* Properties: what holds whatever the interleaving, wherever a crash falls *)
(* and whichever writes fail.                                               *)

\* A signed log that fits its registry: every signed root is the root of a
\* prefix of the current commitments, and the signed counts strictly increase.
RegistryLog(rec) ==
    /\ \A i \in DOMAIN rec.sigs :
         /\ rec.sigs[i].count \in 1..Len(rec.commitments)
         /\ \A k \in 1..rec.sigs[i].count : rec.sigs[i].root[k] = rec.commitments[k]
         /\ Len(rec.sigs[i].root) = rec.sigs[i].count
    /\ \A i, j \in DOMAIN rec.sigs : i < j => rec.sigs[i].count < rec.sigs[j].count

\* Whole-record saves may lose registrations and signatures, but never leave a
\* signature log that the registry beside it contradicts: a voter who checks
\* the latest signed root is never shown one for voters no longer registered
\* (handleSignRegistryRoot, handleRegisterVoter, SavePoll).
SignedRootsFitRegistry == poll # NoPoll => RegistryLog(poll)

\* A tally artifact counts at least one ballot, only ballots that are stored
\* and readable, and belongs to a v3 poll, even when votes, closes, crashes and
\* other aggregations run between ListVotes and SaveHomomorphicTally.
TallyBacked ==
    tally # NoTally =>
        /\ tally # {}
        /\ tally \subseteq votes \ unreadable
        /\ poll # NoPoll => poll.version = 3

\* The votes logged: the nullifiers of the log's castVote events.
LoggedAt(i) == events[i].action = "castVote"

\* Every castVote event belongs to a stored vote and no vote is logged twice,
\* so the replayed net never counts a ballot that is not on disk nor one ballot
\* twice (SaveVote before AppendEvent, one hold of the mutex in SaveVote).
LogBacked ==
    /\ \A i \in DOMAIN events : LoggedAt(i) => events[i].who \in votes
    /\ \A i, j \in DOMAIN events :
         LoggedAt(i) /\ LoggedAt(j) /\ events[i].who = events[j].who => i = j

\* handlePollResults publishes the replayed tallies: they never add up to more
\* than the votes on disk, whatever order the events reached the log in and
\* whichever of them the replay dropped.
PublishedWithinVotes == SumOf(Replay(events).tallies) <= Cardinality(votes)

\* The voters named by the log's castVote events.
Logged == {events[i].who : i \in {j \in DOMAIN events : LoggedAt(j)}}

\* The abstract ballot box that the files implement.
Box == INSTANCE BallotBox
         WITH NoCount <- NoTally, ballots <- votes, spoilt <- unreadable,
              audit <- Logged, count <- tally

\* Every behaviour of the server, with its races and failures, is a behaviour of
\* the ballot box: no ballot is replaced or lost, none is logged before it is
\* stored or logged twice, and only stored ballots are counted.
ImplementsBallotBox == Box!BoxSpec

\* A settled poll: closed, and no request in flight has read it as active.
Settled ==
    /\ poll # NoPoll
    /\ poll.status = "closed"
    /\ \A p \in Procs : req[p].op \in {"none", "aggregate"}
    /\ \A p \in Procs : req[p].pc \in {"idle", "readTally"}
    /\ \A p \in Procs : req[p].rec # NoPoll => req[p].rec.status = "closed"

\* Once the last request that read the poll as active has returned, the poll is
\* final: no later request, crash or deadline reopens it, adds a ballot or
\* changes its tally (the status test that each handler makes).
SettledIsFinal ==
    [][Settled => Settled' /\ UNCHANGED <<votes, tally>>]_vars

\* No write has failed and the server has not died.
NoFault == faults = 0

\* As long as nothing has failed, every stored vote reaches the event log, so
\* its slot is eventually taken (handleCastVote saves the vote first and the
\* event second, and ignores what AppendEvent returns).
StoredVoteIsLogged ==
    \A v \in Voters :
        v \in votes /\ NoFault
            ~> ~NoFault \/ \E i \in DOMAIN events : LoggedAt(i) /\ events[i].who = v

\* As long as nothing has failed, an aggregation that got as far as its artifact
\* closes the poll, at least for a moment (handleAggregateV3 writes tally.json
\* first and the poll record second, and gives up when either write fails).
AggregationCloses ==
    \A p \in Procs :
        req[p].pc = "saveTally" /\ NoFault
            ~> ~NoFault \/ (poll # NoPoll /\ poll.status = "closed")

-----------------------------------------------------------------------------
(* Properties the comments of the code state.  They hold when requests run  *)
(* one at a time, the first two only until a write fails or the server      *)
(* dies; the runs that expect a violation show what else breaks them.       *)

\* handleCastVote: the slots "enforce the one vote per registration invariant".
\* A registration or a vote whose event could not be written is not counted.
OneVotePerRegistration ==
    NoFault => Cardinality(votes)
                 <= Cardinality({i \in DOMAIN events : events[i].action = "registerVoter"})

\* erc/vote.go: "registrySlots tracks how many registered voters have not yet
\* cast a vote", looked at when no request is in flight and nothing has failed.
SlotsTrackRegistry ==
    NoFault /\ poll # NoPoll /\ (\A p \in Procs : req[p].pc = "idle") =>
        Replay(events).slots + Cardinality(votes) = Len(poll.commitments)

\* store.Poll: RegistryRootSigs "is an append-only log of creator signatures".
SignaturesAppendOnly ==
    [][poll # NoPoll /\ poll' # NoPoll => IsPrefix(poll.sigs, poll'.sigs)]_vars

\* handleAggregateV3: after a crash between the artifact and the poll record
\* "the next aggregate call will resolve idempotently".
AggregateRetryCloses ==
    [][\A p \in Procs : AggregateExisting(p) => poll'.status = "closed"]_vars

\* handleAggregateV3: "Atomic - either the artifact lands and the poll is
\* closed, or nothing changes".
TalliedPollIsClosed ==
    tally # NoTally ~> (poll # NoPoll /\ poll.status = "closed")
=============================================================================
