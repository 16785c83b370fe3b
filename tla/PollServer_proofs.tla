-------------------------- MODULE PollServer_proofs --------------------------
(***************************************************************************)
(* Proofs about PollServer for every number of voters, requests in flight, *)
(* events, crashes and failed writes.                                      *)
(*                                                                         *)
(* None of the safety properties is inductive alone: each says something   *)
(* of the files, and the next write of a file comes from what a request    *)
(* holds in memory.  The invariant Inv below adds, for each file, what the *)
(* requests in flight know about it.                                       *)
(***************************************************************************)
EXTENDS PollServer, SequenceTheorems, TLAPS

-----------------------------------------------------------------------------
(* The inductive invariant. *)

\* Before the poll's id is drawn there is nothing to act on.
NothingYet ==
    ~created => /\ poll = NoPoll
                /\ tally = NoTally
                /\ \A p \in Procs : req[p] = Idle

\* A request about to write or to test a poll record holds one.
HoldsRecord ==
    \A p \in Procs :
        req[p].pc \in {"savePoll", "readEvents", "readTally", "listVotes", "saveTally"}
            => req[p].rec # NoPoll

\* Each store call belongs to the handlers that make it.
InHandler ==
    \A p \in Procs :
        /\ req[p].pc \in {"readEvents", "saveVote"} => req[p].op = "cast"
        /\ req[p].pc \in {"readTally", "listVotes", "saveTally"} => req[p].op = "aggregate"
        /\ req[p].pc = "savePoll" => req[p].op # "cast"

\* A request about to store or to log a ballot has one.
HoldsBallot ==
    \A p \in Procs :
        req[p].op = "cast" /\ req[p].pc \in {"saveVote", "appendEvent"}
            => req[p].who \in Voters

\* Every record, on disk or in memory, has a signature log that fits it.
RecordsFit ==
    /\ poll # NoPoll => RegistryLog(poll)
    /\ \A p \in Procs : req[p].rec # NoPoll => RegistryLog(req[p].rec)

\* All records, on disk or in memory, are of one version, and it is 3 as soon
\* as anything aggregates.
OneVersion ==
    \E version \in {2, 3} :
        /\ poll # NoPoll => poll.version = version
        /\ \A p \in Procs :
             /\ req[p].rec # NoPoll => req[p].rec.version = version
             /\ req[p].pc \in {"readTally", "listVotes", "saveTally"} => version = 3
        /\ tally # NoTally => version = 3

\* What has been aggregated, published or not, is stored and readable.
CountedBacked ==
    /\ tally # NoTally => tally # {} /\ tally \subseteq votes \ unreadable
    /\ \A p \in Procs :
         req[p].pc = "saveTally" =>
            req[p].counted # {} /\ req[p].counted \subseteq votes \ unreadable

\* A request about to log a ballot.
Logging(p) == req[p].op = "cast" /\ req[p].pc = "appendEvent"

\* The ballots in the log and those about to be logged are stored, and no
\* ballot is among them twice.
LogOnce ==
    /\ LogBacked
    /\ \A p \in Procs :
         Logging(p) => req[p].who \in votes /\ req[p].who \notin Logged
    /\ \A p, q \in Procs :
         Logging(p) /\ Logging(q) /\ req[p].who = req[q].who => p = q

Inv ==
    /\ TypeOK
    /\ NothingYet
    /\ HoldsRecord
    /\ InHandler
    /\ HoldsBallot
    /\ RecordsFit
    /\ OneVersion
    /\ CountedBacked
    /\ LogOnce

-----------------------------------------------------------------------------
(* Facts about records and requests. *)

\* The updates a handler makes to a poll record yield poll records.
LEMMA RecordTypes ==
    ASSUME NEW rec \in PollRecord
    PROVE  /\ Closed(rec) \in PollRecord
           /\ Signed(rec) \in PollRecord
           /\ \A v \in Voters : [rec EXCEPT !.commitments = Append(@, v)] \in PollRecord
  <1>1. Closed(rec) \in PollRecord
    BY DEF PollRecord, Closed
  <1>2. Signed(rec) \in PollRecord
    <2> DEFINE sig == [root |-> rec.commitments, count |-> Len(rec.commitments)]
    <2>1. rec.commitments \in Seq(Voters) /\ rec.sigs \in Seq(RootSig)
      BY DEF PollRecord
    <2>2. sig \in RootSig
      BY <2>1, LenProperties DEF RootSig
    <2>3. Append(rec.sigs, sig) \in Seq(RootSig)
      BY <2>1, <2>2, AppendProperties
    <2>4. Signed(rec) = [rec EXCEPT !.sigs = Append(rec.sigs, sig)]
      BY DEF Signed, RegistryRoot
    <2> HIDE DEF sig
    <2> QED BY <2>3, <2>4 DEF PollRecord
  <1>3. ASSUME NEW v \in Voters
        PROVE  [rec EXCEPT !.commitments = Append(@, v)] \in PollRecord
    <2>1. Append(rec.commitments, v) \in Seq(Voters)
      BY AppendProperties DEF PollRecord
    <2> QED BY <2>1 DEF PollRecord
  <1> QED BY <1>1, <1>2, <1>3

\* What a request holds when it starts; the others are as they were.
LEMMA StartFacts ==
    ASSUME TypeOK, NEW p \in Procs, NEW op \in Ops, NEW pc \in Pcs,
           NEW rec \in PollRecord \cup {NoPoll}, NEW who \in Voters \cup {NoOne},
           Start(p, op, pc, rec, who)
    PROVE  /\ req' \in [Procs -> Request]
           /\ req[p].pc = "idle"
           /\ req'[p].op = op
           /\ req'[p].pc = pc
           /\ req'[p].rec = rec
           /\ req'[p].who = who
           /\ \A q \in Procs \ {p} : req'[q] = req[q]
  <1> DEFINE r == [Idle EXCEPT !.op = op, !.pc = pc, !.rec = rec, !.who = who]
  <1>1. /\ req[p].pc = "idle"
        /\ req' = [req EXCEPT ![p] = r]
    BY DEF Start
  <1>2. r \in Request /\ r.op = op /\ r.pc = pc /\ r.rec = rec /\ r.who = who
    BY DEF Idle, Request
  <1> HIDE DEF r
  <1> QED BY <1>1, <1>2 DEF TypeOK

\* A request that returns leaves its goroutine idle.
LEMMA ReturnFacts ==
    ASSUME TypeOK, NEW p \in Procs, Return(p)
    PROVE  /\ req' \in [Procs -> Request]
           /\ req'[p] = Idle
           /\ \A q \in Procs \ {p} : req'[q] = req[q]
  BY DEF TypeOK, Return, Idle, Request, Ops, Pcs

\* A step in which something fails: a crash, or a write without one.
Fault == Crash \/ \E p \in Procs : WriteFails(p)

\* A fault stops one request in its store call and takes the others with it or
\* leaves them alone.
LEMMA FaultFacts ==
    ASSUME TypeOK, Fault
    PROVE  /\ req' \in [Procs -> Request]
           /\ \E p \in Procs : StopShort(p) /\ req'[p] = Idle
           /\ \A q \in Procs : req'[q] \in {Idle, req[q]}
           /\ UNCHANGED <<created, expired>>
           /\ faults' \in 0 .. MaxFaults
  <1>1. CASE Crash
    <2>1. Idle \in Request
      BY DEF Idle, Request, Ops, Pcs
    <2> QED BY <1>1, <2>1, FaultsAssumption DEF Crash, TypeOK
  <1>2. ASSUME NEW p \in Procs, WriteFails(p)
        PROVE  /\ req' \in [Procs -> Request]
               /\ StopShort(p) /\ req'[p] = Idle
               /\ \A q \in Procs : req'[q] \in {Idle, req[q]}
               /\ UNCHANGED <<created, expired>>
               /\ faults' \in 0 .. MaxFaults
    BY <1>2, ReturnFacts, FaultsAssumption DEF WriteFails, TypeOK
  <1> QED BY <1>1, <1>2 DEF Fault

\* What is left of a request after its write.
LEMMA LogOrReturnFacts ==
    ASSUME TypeOK, NEW p \in Procs, LogOrReturn(p)
    PROVE  /\ req' \in [Procs -> Request]
           /\ req'[p].rec = NoPoll
           /\ req'[p].pc \in {"idle", "appendEvent"}
           /\ req'[p].pc = "idle" => req'[p] = Idle
           /\ req'[p].pc = "appendEvent" =>
                req'[p].op = req[p].op /\ req'[p].who = req[p].who
           /\ \A q \in Procs \ {p} : req'[q] = req[q]
  <1>1. CASE Appends(req[p])
    <2> DEFINE r == [req[p] EXCEPT !.pc = "appendEvent", !.rec = NoPoll, !.counted = {}]
    <2>1. req' = [req EXCEPT ![p] = r]
      BY <1>1 DEF LogOrReturn
    <2>2. r \in Request /\ r.pc = "appendEvent" /\ r.rec = NoPoll
            /\ r.op = req[p].op /\ r.who = req[p].who
      BY DEF TypeOK, Request, Pcs
    <2> HIDE DEF r
    <2> QED BY <2>1, <2>2 DEF TypeOK
  <1>2. CASE ~Appends(req[p])
    BY <1>2, ReturnFacts DEF LogOrReturn, Idle
  <1> QED BY <1>1, <1>2

\* An event fits the log whatever request appends it.
LEMMA EventType ==
    ASSUME NEW r \in Request
    PROVE  EventOf(r) \in Event
  BY DEF EventOf, Event, Request

-----------------------------------------------------------------------------
(* Types, and what a request holds at each of its store calls. *)

Shape == TypeOK /\ HoldsRecord /\ InHandler /\ HoldsBallot

\* A request that starts holds a record, or is a cast without a ballot yet.
LEMMA StartShape ==
    ASSUME Shape, NEW p \in Procs, NEW op \in Ops,
           NEW pc \in {"savePoll", "readEvents", "readTally"},
           NEW rec \in PollRecord, NEW who \in Voters \cup {NoOne},
           Start(p, op, pc, rec, who),
           pc = "readEvents" => op = "cast",
           pc = "readTally"  => op = "aggregate",
           pc = "savePoll"   => op # "cast"
    PROVE  req' \in [Procs -> Request] /\ HoldsRecord' /\ InHandler' /\ HoldsBallot'
  <1>1. /\ req' \in [Procs -> Request]
        /\ req'[p].op = op
        /\ req'[p].pc = pc
        /\ req'[p].rec = rec
        /\ \A q \in Procs \ {p} : req'[q] = req[q]
    BY StartFacts DEF Shape, Pcs
  <1>2. rec # NoPoll
    BY NoPollAssumption
  <1> QED BY <1>1, <1>2 DEF Shape, HoldsRecord, InHandler, HoldsBallot

\* A request that returns holds nothing.
LEMMA ReturnShape ==
    ASSUME Shape, NEW p \in Procs, Return(p)
    PROVE  req' \in [Procs -> Request] /\ HoldsRecord' /\ InHandler' /\ HoldsBallot'
  <1>1. /\ req' \in [Procs -> Request]
        /\ req'[p] = Idle
        /\ \A q \in Procs \ {p} : req'[q] = req[q]
    BY ReturnFacts DEF Shape
  <1> QED BY <1>1 DEF Shape, HoldsRecord, InHandler, HoldsBallot, Idle

\* A request that has written holds its ballot at most.
LEMMA LogOrReturnShape ==
    ASSUME Shape, NEW p \in Procs, LogOrReturn(p),
           req[p].op = "cast" => req[p].who \in Voters
    PROVE  req' \in [Procs -> Request] /\ HoldsRecord' /\ InHandler' /\ HoldsBallot'
  <1>1. /\ req' \in [Procs -> Request]
        /\ req'[p].pc \in {"idle", "appendEvent"}
        /\ req'[p].pc = "idle" => req'[p] = Idle
        /\ req'[p].pc = "appendEvent" =>
             req'[p].op = req[p].op /\ req'[p].who = req[p].who
        /\ \A q \in Procs \ {p} : req'[q] = req[q]
    BY LogOrReturnFacts DEF Shape
  <1> QED BY <1>1 DEF Shape, HoldsRecord, InHandler, HoldsBallot, Idle

\* Every step keeps the types and what the requests hold.
LEMMA ShapeStep ==
    ASSUME Shape, [Next]_vars
    PROVE  Shape'
  <1> USE DEF Shape
  <1>1. ASSUME NEW p \in Procs, CreatePoll(p)
        PROVE  Shape'
    <2>1. PICK version \in Versions, pre \in PreRegs :
            Start(p, "create", "savePoll",
                  [version |-> version, status |-> "active",
                   commitments |-> pre, sigs |-> <<>>], NoOne)
      BY <1>1 DEF CreatePoll
    <2>2. [version |-> version, status |-> "active",
           commitments |-> pre, sigs |-> <<>>] \in PollRecord
      BY VersionsAssumption, PreRegsAssumption DEF PollRecord
    <2>3. req' \in [Procs -> Request] /\ HoldsRecord' /\ InHandler' /\ HoldsBallot'
      BY <2>1, <2>2, StartShape DEF Ops
    <2> QED BY <1>1, <2>3 DEF CreatePoll, TypeOK, files
  <1>2. ASSUME NEW p \in Procs, NEW v \in Voters, RegisterVoter(p, v)
        PROVE  Shape'
    <2>1. [poll EXCEPT !.commitments = Append(@, v)] \in PollRecord
      BY <1>2, RecordTypes DEF RegisterVoter, TypeOK
    <2>2. req' \in [Procs -> Request] /\ HoldsRecord' /\ InHandler' /\ HoldsBallot'
      BY <1>2, <2>1, StartShape DEF RegisterVoter, Ops
    <2> QED BY <1>2, <2>2 DEF RegisterVoter, TypeOK, files
  <1>3. ASSUME NEW p \in Procs, SignRegistryRoot(p)
        PROVE  Shape'
    <2>1. Signed(poll) \in PollRecord
      BY <1>3, RecordTypes DEF SignRegistryRoot, TypeOK
    <2>2. req' \in [Procs -> Request] /\ HoldsRecord' /\ InHandler' /\ HoldsBallot'
      BY <1>3, <2>1, StartShape DEF SignRegistryRoot, Ops
    <2> QED BY <1>3, <2>2 DEF SignRegistryRoot, TypeOK, files
  <1>4. ASSUME NEW p \in Procs, ClosePoll(p) \/ AutoClose(p)
        PROVE  Shape'
    <2>1. Closed(poll) \in PollRecord
      BY <1>4, RecordTypes DEF ClosePoll, AutoClose, TypeOK
    <2>2. req' \in [Procs -> Request] /\ HoldsRecord' /\ InHandler' /\ HoldsBallot'
      BY <1>4, <2>1, StartShape DEF ClosePoll, AutoClose, Ops
    <2> QED BY <1>4, <2>2 DEF ClosePoll, AutoClose, TypeOK, files
  <1>5. ASSUME NEW p \in Procs, CastVote(p) \/ Aggregate(p)
        PROVE  Shape'
    <2>1. poll \in PollRecord
      BY <1>5 DEF CastVote, Aggregate, TypeOK
    <2>2. req' \in [Procs -> Request] /\ HoldsRecord' /\ InHandler' /\ HoldsBallot'
      BY <1>5, <2>1, StartShape DEF CastVote, Aggregate, Ops
    <2> QED BY <1>5, <2>2 DEF CastVote, Aggregate, TypeOK, files
  <1>6. ASSUME NEW p \in Procs, PassCastGate(p)
        PROVE  Shape'
    <2>1. PICK v \in Voters, form \in BallotForms(req[p].rec.version), c \in Options :
            req' = [req EXCEPT ![p] =
                      [Idle EXCEPT !.op = "cast", !.pc = "saveVote", !.who = v,
                                   !.choice = IF form = "witness" THEN c ELSE Hidden]]
      BY <1>6 DEF PassCastGate
    <2> DEFINE r == [Idle EXCEPT !.op = "cast", !.pc = "saveVote", !.who = v,
                                 !.choice = IF form = "witness" THEN c ELSE Hidden]
    <2>2. r \in Request /\ r.pc = "saveVote" /\ r.op = "cast" /\ r.who \in Voters
      BY DEF Idle, Request, Ops, Pcs
    <2>3. req' = [req EXCEPT ![p] = r]
      BY <2>1
    <2> HIDE DEF r
    <2>4. req' \in [Procs -> Request] /\ HoldsRecord' /\ InHandler' /\ HoldsBallot'
      BY <2>2, <2>3 DEF TypeOK, HoldsRecord, InHandler, HoldsBallot
    <2> QED BY <1>6, <2>4 DEF PassCastGate, TypeOK, files
  <1>7. ASSUME NEW p \in Procs, RefuseCast(p) \/ AggregateExisting(p) \/ AggregateRefused(p)
        PROVE  Shape'
    <2>1. req' \in [Procs -> Request] /\ HoldsRecord' /\ InHandler' /\ HoldsBallot'
      BY <1>7, ReturnShape DEF RefuseCast, AggregateExisting, AggregateRefused
    <2> QED BY <1>7, <2>1 DEF RefuseCast, AggregateExisting, AggregateRefused, TypeOK, files
  <1>8. ASSUME NEW p \in Procs, SaveVote(p)
        PROVE  Shape'
    <2>1. req[p].op = "cast" /\ req[p].who \in Voters
      BY <1>8 DEF SaveVote, InHandler, HoldsBallot
    <2>2. req' \in [Procs -> Request] /\ HoldsRecord' /\ InHandler' /\ HoldsBallot'
      BY <1>8, <2>1, LogOrReturnShape, ReturnShape DEF SaveVote
    <2> QED BY <1>8, <2>1, <2>2 DEF SaveVote, TypeOK
  <1>9. ASSUME NEW p \in Procs, AppendEvent(p)
        PROVE  Shape'
    <2>1. req' \in [Procs -> Request] /\ HoldsRecord' /\ InHandler' /\ HoldsBallot'
      BY <1>9, ReturnShape DEF AppendEvent
    <2>2. Append(events, EventOf(req[p])) \in Seq(Event)
      BY EventType, AppendProperties DEF TypeOK
    <2> QED BY <1>9, <2>1, <2>2 DEF AppendEvent, TypeOK
  <1>10. ASSUME NEW p \in Procs, SavePoll(p)
         PROVE  Shape'
    <2>1. req' \in [Procs -> Request] /\ HoldsRecord' /\ InHandler' /\ HoldsBallot'
      BY <1>10, LogOrReturnShape DEF SavePoll, InHandler
    <2>2. req[p].rec \in PollRecord \cup {NoPoll}
      BY DEF TypeOK, Request
    <2> QED BY <1>10, <2>1, <2>2 DEF SavePoll, TypeOK
  <1>11. ASSUME NEW p \in Procs, AggregateAccepted(p)
         PROVE  Shape'
    <2>1. req' \in [Procs -> Request] /\ HoldsRecord' /\ InHandler' /\ HoldsBallot'
      BY <1>11, SMTT(20) DEF AggregateAccepted, TypeOK, Request, Pcs, HoldsRecord, InHandler, HoldsBallot
    <2> QED BY <1>11, <2>1 DEF AggregateAccepted, TypeOK, files
  <1>12. ASSUME NEW p \in Procs, ListVotes(p)
         PROVE  Shape'
    <2>1. Countable \in SUBSET Voters
      BY DEF TypeOK, Countable
    <2> DEFINE r == [req[p] EXCEPT !.pc = "saveTally", !.counted = Countable]
    <2>2. req' = [req EXCEPT ![p] = r]
      BY <1>12 DEF ListVotes
    <2>3. r \in Request /\ r.pc = "saveTally" /\ r.op = req[p].op /\ r.rec = req[p].rec
      BY <2>1 DEF TypeOK, Request, Pcs
    <2> HIDE DEF r
    <2>4. req' \in [Procs -> Request] /\ HoldsRecord' /\ InHandler' /\ HoldsBallot'
      BY <1>12, <2>2, <2>3 DEF ListVotes, TypeOK, HoldsRecord, InHandler, HoldsBallot
    <2> QED BY <1>12, <2>4 DEF ListVotes, TypeOK, files
  <1>13. ASSUME NEW p \in Procs, SaveHomomorphicTally(p)
         PROVE  Shape'
    <2>1. req[p].rec \in PollRecord
      BY <1>13 DEF SaveHomomorphicTally, TypeOK, Request, HoldsRecord
    <2>2. Closed(req[p].rec) \in PollRecord /\ Closed(req[p].rec) # NoPoll
      BY <2>1, RecordTypes, NoPollAssumption
    <2> DEFINE r == [req[p] EXCEPT !.pc = "savePoll", !.rec = Closed(req[p].rec)]
    <2>3. req' = [req EXCEPT ![p] = r]
      BY <1>13 DEF SaveHomomorphicTally
    <2>4. r \in Request /\ r.pc = "savePoll" /\ r.op = req[p].op /\ r.rec # NoPoll
      BY <2>1, <2>2 DEF TypeOK, Request, Pcs
    <2> HIDE DEF r
    <2>5. req' \in [Procs -> Request] /\ HoldsRecord' /\ InHandler' /\ HoldsBallot'
      BY <1>13, <2>3, <2>4, ZenonT(40) DEF SaveHomomorphicTally, TypeOK, HoldsRecord, InHandler, HoldsBallot
    <2>6. req[p].counted \in SUBSET Voters
      BY DEF TypeOK, Request
    <2> QED BY <1>13, <2>5, <2>6 DEF SaveHomomorphicTally, TypeOK
  <1>14. CASE Expire
    BY <1>14 DEF Expire, TypeOK, files, HoldsRecord, InHandler, HoldsBallot
  <1>15. CASE Fault
    <2>1. PICK p \in Procs : StopShort(p) /\ req'[p] = Idle
      BY <1>15, FaultFacts
    <2>2. req' \in [Procs -> Request] /\ HoldsRecord' /\ InHandler' /\ HoldsBallot'
      BY <1>15, FaultFacts DEF Idle, HoldsRecord, InHandler, HoldsBallot
    <2>3. /\ poll' \in PollRecord \cup {NoPoll}
          /\ votes' \in SUBSET Voters
          /\ unreadable' \in SUBSET votes'
          /\ events' \in Seq(Event)
          /\ tally' \in (SUBSET Voters) \cup {NoTally}
      <3>1. CASE UNCHANGED files
        BY <3>1 DEF files, TypeOK
      <3>2. CASE poll' \in {NoPoll, req[p].rec} /\ UNCHANGED <<votes, unreadable, events, tally>>
        BY <3>2 DEF TypeOK, Request
      <3>3. CASE events' = <<>> /\ UNCHANGED <<poll, votes, unreadable, tally>>
        BY <3>3 DEF TypeOK
      <3>4. CASE /\ req[p].pc = "saveVote"
                 /\ votes' = votes \cup {req[p].who}
                 /\ unreadable' \in {unreadable, unreadable \cup {req[p].who}}
                 /\ UNCHANGED <<poll, events, tally>>
        BY <3>4 DEF TypeOK, InHandler, HoldsBallot
      <3> QED BY <2>1, <3>1, <3>2, <3>3, <3>4 DEF StopShort
    <2> QED BY <1>15, <2>2, <2>3, FaultFacts DEF TypeOK
  <1>16. CASE UNCHANGED vars
    BY <1>16 DEF vars, TypeOK, HoldsRecord, InHandler, HoldsBallot
  <1> QED
    BY <1>1, <1>2, <1>3, <1>4, <1>5, <1>6, <1>7, <1>8, <1>9, <1>10, <1>11, <1>12,
       <1>13, <1>14, <1>15, <1>16 DEF Next, Continue, Fault

LEMMA InitShape ==
    ASSUME Init
    PROVE  Shape
  <1>1. Idle \in Request
    BY DEF Idle, Request, Ops, Pcs
  <1>2. faults \in 0 .. MaxFaults
    BY FaultsAssumption DEF Init
  <1>3. events \in Seq(Event)
    BY DEF Init
  <1> QED BY <1>1, <1>2, <1>3
          DEF Init, Shape, TypeOK, HoldsRecord, InHandler, HoldsBallot, Idle

\* The types hold in every reachable state, whatever the interleaving, the
\* crashes and the failed writes (every handler of internal/server/polls.go and its store calls).
THEOREM TypeCorrect == Spec => []TypeOK
  <1>1. Init => Shape
    BY InitShape
  <1>2. Shape /\ [Next]_vars => Shape'
    BY ShapeStep
  <1>3. Shape => TypeOK
    BY DEF Shape
  <1> QED BY <1>1, <1>2, <1>3, PTL DEF Spec

-----------------------------------------------------------------------------
(* Where records come from. *)

\* A record with one more commitment, as handleRegisterVoter writes it.
WithVoter(rec, v) == [rec EXCEPT !.commitments = Append(@, v)]

\* What a handler may make of a record it has read.
DerivedFrom(new, rec) ==
    \/ new = rec
    \/ new = Closed(rec)
    \/ Signable(rec) /\ new = Signed(rec)
    \/ \E v \in Voters : new = WithVoter(rec, v)

\* The records of a step come from the records before it: the file is saved
\* from a request, a request's record is derived from the file or from what it
\* held, and only the creation makes one up.
RecordFlow ==
    /\ \/ poll' = poll
       \/ poll' = NoPoll
       \/ \E p \in Procs : req[p].pc = "savePoll" /\ poll' = req[p].rec
    /\ \A p \in Procs :
         \/ req'[p].rec = NoPoll
         \/ req'[p].rec = req[p].rec
         \/ req[p].rec # NoPoll /\ DerivedFrom(req'[p].rec, req[p].rec)
         \/ poll # NoPoll /\ DerivedFrom(req'[p].rec, poll)
         \/ ~created /\ req'[p].rec.sigs = <<>>

LEMMA RecordFlowStep ==
    ASSUME Shape, [Next]_vars
    PROVE  RecordFlow
  <1> USE DEF Shape
  <1>1. ASSUME NEW p \in Procs, CreatePoll(p)
        PROVE  RecordFlow
    <2>1. PICK version \in Versions, pre \in PreRegs :
            Start(p, "create", "savePoll",
                  [version |-> version, status |-> "active",
                   commitments |-> pre, sigs |-> <<>>], NoOne)
      BY <1>1 DEF CreatePoll
    <2>2. [version |-> version, status |-> "active",
           commitments |-> pre, sigs |-> <<>>] \in PollRecord
      BY VersionsAssumption, PreRegsAssumption DEF PollRecord
    <2>3. req'[p].rec.sigs = <<>> /\ \A q \in Procs \ {p} : req'[q] = req[q]
      BY <2>1, <2>2, StartFacts DEF Ops, Pcs
    <2> QED BY <1>1, <2>3 DEF CreatePoll, RecordFlow, files
  <1>2. ASSUME NEW p \in Procs, NEW op \in Ops, NEW pc \in Pcs,
               NEW rec \in PollRecord, NEW who \in Voters \cup {NoOne},
               poll # NoPoll, DerivedFrom(rec, poll), UNCHANGED poll,
               Start(p, op, pc, rec, who)
        PROVE  RecordFlow
    <2>1. req'[p].rec = rec /\ \A q \in Procs \ {p} : req'[q] = req[q]
      BY <1>2, StartFacts
    <2> QED BY <1>2, <2>1 DEF RecordFlow
  <1>3. ASSUME NEW p \in Procs, NEW v \in Voters, RegisterVoter(p, v)
        PROVE  RecordFlow
    <2>1. WithVoter(poll, v) \in PollRecord
      BY <1>3, RecordTypes DEF RegisterVoter, TypeOK, WithVoter
    <2>2. DerivedFrom(WithVoter(poll, v), poll)
      BY DEF DerivedFrom
    <2>3. Start(p, "register", "savePoll", WithVoter(poll, v), v)
      BY <1>3 DEF RegisterVoter, WithVoter
    <2> QED BY <1>2, <1>3, <2>1, <2>2, <2>3 DEF RegisterVoter, files, Ops, Pcs
  <1>4. ASSUME NEW p \in Procs, SignRegistryRoot(p)
        PROVE  RecordFlow
    <2>1. Signed(poll) \in PollRecord
      BY <1>4, RecordTypes DEF SignRegistryRoot, TypeOK
    <2>2. DerivedFrom(Signed(poll), poll)
      BY <1>4 DEF DerivedFrom, SignRegistryRoot
    <2> QED BY <1>2, <1>4, <2>1, <2>2 DEF SignRegistryRoot, files, Ops, Pcs
  <1>5. ASSUME NEW p \in Procs, ClosePoll(p) \/ AutoClose(p)
        PROVE  RecordFlow
    <2>1. Closed(poll) \in PollRecord
      BY <1>5, RecordTypes DEF ClosePoll, AutoClose, TypeOK
    <2>2. DerivedFrom(Closed(poll), poll)
      BY DEF DerivedFrom
    <2> QED BY <1>2, <1>5, <2>1, <2>2 DEF ClosePoll, AutoClose, files, Ops, Pcs
  <1>6. ASSUME NEW p \in Procs, CastVote(p) \/ Aggregate(p)
        PROVE  RecordFlow
    <2>1. poll \in PollRecord /\ DerivedFrom(poll, poll)
      BY <1>6 DEF CastVote, Aggregate, TypeOK, DerivedFrom
    <2> QED BY <1>2, <1>6, <2>1 DEF CastVote, Aggregate, files, Ops, Pcs
  <1>7. ASSUME NEW p \in Procs, UNCHANGED poll,
               Return(p) \/ LogOrReturn(p)
        PROVE  RecordFlow
    BY <1>7, ReturnFacts, LogOrReturnFacts DEF RecordFlow, Idle
  <1>8. ASSUME NEW p \in Procs, PassCastGate(p)
        PROVE  RecordFlow
    BY <1>8 DEF PassCastGate, files, Idle, RecordFlow, TypeOK
  <1>9. ASSUME NEW p \in Procs, SavePoll(p)
        PROVE  RecordFlow
    BY <1>9, LogOrReturnFacts DEF SavePoll, RecordFlow
  <1>10. ASSUME NEW p \in Procs, AggregateAccepted(p) \/ ListVotes(p)
         PROVE  RecordFlow
    <2>1. req'[p].rec = req[p].rec /\ \A q \in Procs \ {p} : req'[q] = req[q]
      <3>1. req[p] \in Request /\ req \in [Procs -> Request]
        BY DEF TypeOK
      <3>2. CASE AggregateAccepted(p)
        BY <3>1, <3>2 DEF AggregateAccepted, Request
      <3>3. CASE ListVotes(p)
        BY <3>1, <3>3 DEF ListVotes, Request
      <3> QED BY <1>10, <3>2, <3>3
    <2> QED BY <1>10, <2>1 DEF AggregateAccepted, ListVotes, files, RecordFlow
  <1>11. ASSUME NEW p \in Procs, SaveHomomorphicTally(p)
         PROVE  RecordFlow
    <2>1. req[p].rec # NoPoll
      BY <1>11 DEF SaveHomomorphicTally, HoldsRecord
    <2>2. req'[p].rec = Closed(req[p].rec) /\ \A q \in Procs \ {p} : req'[q] = req[q]
      BY <1>11 DEF SaveHomomorphicTally, TypeOK, Request
    <2>3. DerivedFrom(req'[p].rec, req[p].rec)
      BY <2>2 DEF DerivedFrom
    <2> QED BY <1>11, <2>1, <2>2, <2>3 DEF SaveHomomorphicTally, RecordFlow
  <1>12. CASE Fault
    <2>1. PICK p \in Procs : StopShort(p)
      BY <1>12, FaultFacts
    <2>2. \/ poll' = poll
          \/ poll' = NoPoll
          \/ req[p].pc = "savePoll" /\ poll' = req[p].rec
      BY <2>1 DEF StopShort, files
    <2>3. \A q \in Procs : req'[q].rec = NoPoll \/ req'[q].rec = req[q].rec
      BY <1>12, FaultFacts DEF Idle
    <2> QED BY <2>2, <2>3 DEF RecordFlow
  <1>13. CASE Expire \/ UNCHANGED vars
    BY <1>13 DEF Expire, files, vars, RecordFlow
  <1>14. ASSUME NEW p \in Procs,
                \/ RefuseCast(p) \/ AggregateExisting(p) \/ AggregateRefused(p)
                \/ SaveVote(p) \/ AppendEvent(p)
         PROVE  RecordFlow
    <2>1. UNCHANGED poll /\ (Return(p) \/ LogOrReturn(p))
      BY <1>14 DEF RefuseCast, AggregateExisting, AggregateRefused, SaveVote,
                   AppendEvent, files
    <2> QED BY <1>7, <2>1
  <1> QED
    BY <1>1, <1>3, <1>4, <1>5, <1>6, <1>8, <1>9, <1>10, <1>11, <1>12, <1>13, <1>14
       DEF Next, Continue, Fault

-----------------------------------------------------------------------------
(* The signature log fits the registry. *)

\* The records a handler derives from one whose log fits, fit.
LEMMA DerivedFits ==
    ASSUME NEW rec \in PollRecord, RegistryLog(rec), NEW new, DerivedFrom(new, rec)
    PROVE  RegistryLog(new)
  <1>0. /\ rec.commitments \in Seq(Voters)
        /\ rec.sigs \in Seq(RootSig)
        /\ Len(rec.sigs) \in Nat /\ DOMAIN rec.sigs = 1..Len(rec.sigs)
        /\ Len(rec.commitments) \in Nat
    BY LenProperties DEF PollRecord
  <1>1. CASE new = rec
    BY <1>1
  <1>2. CASE new = Closed(rec)
    <2>1. new.sigs = rec.sigs /\ new.commitments = rec.commitments
      BY <1>2 DEF Closed, PollRecord
    <2> QED BY <2>1 DEF RegistryLog
  <1>3. ASSUME NEW v \in Voters, new = WithVoter(rec, v)
        PROVE  RegistryLog(new)
    <2>1. new.sigs = rec.sigs /\ new.commitments = Append(rec.commitments, v)
      BY <1>3 DEF WithVoter, PollRecord
    <2>2. /\ Len(new.commitments) = Len(rec.commitments) + 1
          /\ \A k \in 1..Len(rec.commitments) : new.commitments[k] = rec.commitments[k]
      BY <1>0, <2>1, AppendProperties
    <2>3. ASSUME NEW i \in DOMAIN new.sigs
          PROVE  /\ new.sigs[i].count \in 1..Len(new.commitments)
                 /\ \A k \in 1..new.sigs[i].count : new.sigs[i].root[k] = new.commitments[k]
                 /\ Len(new.sigs[i].root) = new.sigs[i].count
      <3>1. /\ rec.sigs[i].count \in 1..Len(rec.commitments)
            /\ \A k \in 1..rec.sigs[i].count : rec.sigs[i].root[k] = rec.commitments[k]
            /\ Len(rec.sigs[i].root) = rec.sigs[i].count
        BY <2>1 DEF RegistryLog
      <3>2. \A k \in 1..rec.sigs[i].count : k \in 1..Len(rec.commitments)
        BY <1>0, <3>1
      <3> QED BY <1>0, <2>1, <2>2, <3>1, <3>2
    <2> QED BY <2>1, <2>3 DEF RegistryLog
  <1>4. CASE Signable(rec) /\ new = Signed(rec)
    <2> DEFINE n   == Len(rec.sigs)
               sig == [root |-> rec.commitments, count |-> Len(rec.commitments)]
    <2>1. new.commitments = rec.commitments /\ new.sigs = Append(rec.sigs, sig)
      BY <1>4 DEF Signed, RegistryRoot, PollRecord
    <2>2. sig \in RootSig
      BY <1>0 DEF RootSig
    <2>3. /\ DOMAIN new.sigs = 1..(n + 1)
          /\ new.sigs[n + 1] = sig
          /\ \A i \in 1..n : new.sigs[i] = rec.sigs[i]
      BY <1>0, <2>1, <2>2, AppendProperties
    <2>4. Len(rec.commitments) \in 1..Len(rec.commitments)
      BY <1>0, <1>4, EmptySeq DEF Signable
    <2>5. \A i \in 1..n : rec.sigs[i].count < Len(rec.commitments)
      <3> SUFFICES ASSUME NEW i \in 1..n PROVE rec.sigs[i].count < Len(rec.commitments)
        OBVIOUS
      <3>1. rec.sigs # <<>> /\ n \in 1..n
        BY <1>0
      <3>2. rec.sigs[n].count < Len(rec.commitments)
        BY <1>4, <3>1 DEF Signable
      <3>3. i = n \/ rec.sigs[i].count < rec.sigs[n].count
        BY <1>0, <3>1 DEF RegistryLog
      <3>4. rec.sigs[i].count \in Nat /\ rec.sigs[n].count \in Nat
        BY <1>0, <3>1 DEF RegistryLog
      <3> QED BY <1>0, <3>2, <3>3, <3>4
    <2> HIDE DEF n
    <2>6. n \in Nat /\ DOMAIN rec.sigs = 1..n
      BY <1>0 DEF n
    <2>7. ASSUME NEW i \in DOMAIN new.sigs
          PROVE  /\ new.sigs[i].count \in 1..Len(new.commitments)
                 /\ \A k \in 1..new.sigs[i].count : new.sigs[i].root[k] = new.commitments[k]
                 /\ Len(new.sigs[i].root) = new.sigs[i].count
      BY <2>1, <2>3, <2>4, <2>6, <2>7, SMTT(20) DEF RegistryLog
    <2>8. ASSUME NEW i \in DOMAIN new.sigs, NEW j \in DOMAIN new.sigs, i < j
          PROVE  new.sigs[i].count < new.sigs[j].count
      BY <2>3, <2>5, <2>6, <2>8, SMTT(20) DEF RegistryLog
    <2> QED BY <2>7, <2>8 DEF RegistryLog
  <1> QED BY <1>1, <1>2, <1>3, <1>4 DEF DerivedFrom

LEMMA RecordsFitStep ==
    ASSUME Shape, RecordsFit, RecordFlow, Shape'
    PROVE  RecordsFit'
  <1>1. poll' # NoPoll => RegistryLog(poll')
    BY DEF RecordsFit, RecordFlow, Shape, HoldsRecord
  <1>2. ASSUME NEW p \in Procs, req'[p].rec # NoPoll
        PROVE  RegistryLog(req'[p].rec)
    <2>1. req'[p].rec \in PollRecord /\ req[p].rec \in PollRecord \cup {NoPoll}
            /\ poll \in PollRecord \cup {NoPoll}
      BY <1>2 DEF Shape, TypeOK, Request
    <2>2. CASE req'[p].rec.sigs = <<>>
      BY <2>2 DEF RegistryLog
    <2> QED BY <1>2, <2>1, <2>2, DerivedFits DEF RecordFlow, RecordsFit
  <1> QED BY <1>1, <1>2 DEF RecordsFit

\* SignedRootsFitRegistry holds for any number of concurrent registrations,
\* signatures and crashes: no interleaving of whole-record saves leaves a
\* signature log that the registry beside it contradicts.
THEOREM SignedRootsFit == Spec => []SignedRootsFitRegistry
  <1>1. Init => Shape /\ RecordsFit
    <2> SUFFICES ASSUME Init PROVE RecordsFit /\ Shape
      OBVIOUS
    <2>1. Shape
      BY InitShape
    <2>2. RecordsFit
      BY DEF Init, RecordsFit, Idle
    <2> QED BY <2>1, <2>2
  <1>2. Shape /\ RecordsFit /\ [Next]_vars => (Shape /\ RecordsFit)'
    BY ShapeStep, RecordFlowStep, RecordsFitStep
  <1>3. RecordsFit => SignedRootsFitRegistry
    BY DEF RecordsFit, SignedRootsFitRegistry
  <1> QED BY <1>1, <1>2, <1>3, PTL DEF Spec

-----------------------------------------------------------------------------
(* The tally is backed by stored ballots. *)

Aggregating == {"readTally", "listVotes", "saveTally"}

\* How a step moves what aggregations know: one starts on a v3 poll only, a
\* count is taken from the readable ballots, the artifact is a count, and no
\* ballot is lost.
TallyFlow ==
    /\ \A p \in Procs :
         req'[p].pc \in Aggregating =>
            req[p].pc \in Aggregating \/ (poll # NoPoll /\ poll.version = 3)
    /\ \A p \in Procs :
         req'[p].pc = "saveTally" =>
            \/ req[p].pc = "saveTally" /\ req'[p].counted = req[p].counted
            \/ req'[p].counted = Countable /\ EnoughBallots(Countable)
    /\ tally' = tally \/ \E p \in Procs : req[p].pc = "saveTally" /\ tally' = req[p].counted
    /\ votes \subseteq votes'
    /\ votes \ unreadable \subseteq votes' \ unreadable'

LEMMA TallyFlowStep ==
    ASSUME Shape, [Next]_vars
    PROVE  TallyFlow
  <1> USE DEF Shape
  <1>1. ASSUME NEW p \in Procs, req'[p].pc \notin Aggregating,
               \A q \in Procs \ {p} : req'[q] = req[q],
               UNCHANGED <<votes, unreadable, tally>>
        PROVE  TallyFlow
    BY <1>1 DEF TallyFlow, Aggregating
  <1>2. ASSUME NEW p \in Procs, NEW op \in Ops, NEW pc \in Pcs,
               NEW rec \in PollRecord, NEW who \in Voters \cup {NoOne},
               UNCHANGED files, pc \in {"savePoll", "readEvents"},
               Start(p, op, pc, rec, who)
        PROVE  TallyFlow
    <2>1. req'[p].pc = pc /\ \A q \in Procs \ {p} : req'[q] = req[q]
      BY <1>2, StartFacts
    <2> QED BY <1>1, <1>2, <2>1 DEF files, Aggregating
  <1>3. ASSUME NEW p \in Procs, CreatePoll(p)
        PROVE  TallyFlow
    <2>1. PICK version \in Versions, pre \in PreRegs :
            Start(p, "create", "savePoll",
                  [version |-> version, status |-> "active",
                   commitments |-> pre, sigs |-> <<>>], NoOne)
      BY <1>3 DEF CreatePoll
    <2>2. [version |-> version, status |-> "active",
           commitments |-> pre, sigs |-> <<>>] \in PollRecord
      BY VersionsAssumption, PreRegsAssumption DEF PollRecord
    <2> QED BY <1>2, <1>3, <2>1, <2>2 DEF CreatePoll, Ops, Pcs
  <1>4. ASSUME NEW p \in Procs,
               \/ \E v \in Voters : RegisterVoter(p, v)
               \/ SignRegistryRoot(p) \/ ClosePoll(p) \/ AutoClose(p) \/ CastVote(p)
        PROVE  TallyFlow
    <2>1. /\ \A v \in Voters : [poll EXCEPT !.commitments = Append(@, v)] \in PollRecord
          /\ Signed(poll) \in PollRecord
          /\ Closed(poll) \in PollRecord
          /\ poll \in PollRecord
      BY <1>4, RecordTypes
         DEF RegisterVoter, SignRegistryRoot, ClosePoll, AutoClose, CastVote, TypeOK
    <2> QED BY <1>2, <1>4, <2>1
            DEF RegisterVoter, SignRegistryRoot, ClosePoll, AutoClose, CastVote, Ops, Pcs
  <1>5. ASSUME NEW p \in Procs, Aggregate(p)
        PROVE  TallyFlow
    <2>1. req'[p].pc = "readTally" /\ \A q \in Procs \ {p} : req'[q] = req[q]
      BY <1>5, StartFacts DEF Aggregate, TypeOK, Ops, Pcs
    <2> QED BY <1>5, <2>1 DEF Aggregate, TallyFlow, files
  <1>6. ASSUME NEW p \in Procs, Return(p) \/ LogOrReturn(p),
               UNCHANGED <<votes, unreadable, tally>>
        PROVE  TallyFlow
    BY <1>1, <1>6, ReturnFacts, LogOrReturnFacts DEF Idle, Aggregating
  <1>7. ASSUME NEW p \in Procs,
               \/ RefuseCast(p) \/ AggregateExisting(p) \/ AggregateRefused(p)
               \/ AppendEvent(p) \/ SavePoll(p)
        PROVE  TallyFlow
    BY <1>6, <1>7 DEF RefuseCast, AggregateExisting, AggregateRefused, AppendEvent,
                      SavePoll, files
  <1>8. ASSUME NEW p \in Procs, PassCastGate(p)
        PROVE  TallyFlow
    <2>1. req'[p].pc = "saveVote" /\ \A q \in Procs \ {p} : req'[q] = req[q]
      BY <1>8 DEF PassCastGate, TypeOK, Idle
    <2> QED BY <1>1, <1>8, <2>1 DEF PassCastGate, files, Aggregating
  <1>9. ASSUME NEW p \in Procs, SaveVote(p)
        PROVE  TallyFlow
    <2>1. CASE NullifierUnused(req[p].who)
      <3>1. /\ req'[p].pc \in {"idle", "appendEvent"}
            /\ \A q \in Procs \ {p} : req'[q] = req[q]
        BY <1>9, <2>1, LogOrReturnFacts DEF SaveVote
      <3>2. /\ votes \subseteq votes'
            /\ votes \ unreadable \subseteq votes' \ unreadable'
            /\ tally' = tally
        BY <1>9, <2>1 DEF SaveVote
      <3> QED BY <3>1, <3>2 DEF TallyFlow, Aggregating
    <2>2. CASE ~NullifierUnused(req[p].who)
      BY <1>6, <1>9, <2>2 DEF SaveVote
    <2> QED BY <2>1, <2>2
  <1>10. ASSUME NEW p \in Procs, AggregateAccepted(p)
         PROVE  TallyFlow
    <2>1. req'[p].pc = "listVotes" /\ \A q \in Procs \ {p} : req'[q] = req[q]
      BY <1>10 DEF AggregateAccepted, TypeOK, Request
    <2> QED BY <1>10, <2>1 DEF AggregateAccepted, TallyFlow, Aggregating, files
  <1>11. ASSUME NEW p \in Procs, ListVotes(p)
         PROVE  TallyFlow
    <2>1. /\ req'[p].pc = "saveTally" /\ req'[p].counted = Countable
          /\ \A q \in Procs \ {p} : req'[q] = req[q]
      <3>1. req[p] \in Request /\ req \in [Procs -> Request]
        BY DEF TypeOK
      <3> QED BY <1>11, <3>1 DEF ListVotes, Request
    <2> QED BY <1>11, <2>1 DEF ListVotes, TallyFlow, Aggregating, files
  <1>12. ASSUME NEW p \in Procs, SaveHomomorphicTally(p)
         PROVE  TallyFlow
    <2>1. /\ req'[p].pc = "savePoll" /\ \A q \in Procs \ {p} : req'[q] = req[q]
      BY <1>12 DEF SaveHomomorphicTally, TypeOK, Request
    <2> QED BY <1>12, <2>1 DEF SaveHomomorphicTally, TallyFlow, Aggregating
  <1>13. CASE Fault
    <2>1. PICK p \in Procs : StopShort(p)
      BY <1>13, FaultFacts
    <2>2. \A q \in Procs : req'[q].pc = "idle" \/ req'[q] = req[q]
      BY <1>13, FaultFacts DEF Idle
    <2>3. /\ tally' = tally
          /\ votes \subseteq votes'
          /\ votes \ unreadable \subseteq votes' \ unreadable'
      BY <2>1 DEF StopShort, NullifierUnused, files
    <2> QED BY <2>2, <2>3 DEF TallyFlow, Aggregating
  <1>14. CASE Expire \/ UNCHANGED vars
    <2>1. UNCHANGED <<votes, unreadable, tally, req>>
      BY <1>14 DEF Expire, files, vars
    <2> QED BY <2>1 DEF TallyFlow
  <1> QED
    BY <1>3, <1>4, <1>5, <1>7, <1>8, <1>9, <1>10, <1>11, <1>12, <1>13, <1>14
       DEF Next, Continue, Fault

\* What has been aggregated stays stored and readable: no step takes a ballot
\* out, and a failure spoils only a file that no listing has returned.
LEMMA CountedBackedStep ==
    ASSUME Shape, CountedBacked, TallyFlow
    PROVE  CountedBacked'
  BY DEF CountedBacked, TallyFlow, Countable, EnoughBallots

\* Every handler keeps the version of the record it has read.
LEMMA DerivedVersion ==
    ASSUME NEW rec \in PollRecord, NEW new, DerivedFrom(new, rec)
    PROVE  new.version = rec.version
  BY DEF DerivedFrom, Closed, Signed, WithVoter, PollRecord

LEMMA NothingYetStep ==
    ASSUME Shape, NothingYet, [Next]_vars
    PROVE  NothingYet'
  <1> SUFFICES ASSUME ~created'
               PROVE  poll' = NoPoll /\ tally' = NoTally /\ \A p \in Procs : req'[p] = Idle
    BY DEF NothingYet
  <1>1. CASE Fault
    <2>1. PICK p \in Procs : StopShort(p)
      BY <1>1, FaultFacts DEF Shape
    <2>2. ~created /\ req[p].pc = "idle" /\ \A q \in Procs : req'[q] = Idle
      BY <1>1, FaultFacts DEF NothingYet, Shape, Idle
    <2> QED BY <2>1, <2>2 DEF StopShort, files, NothingYet
  <1>2. CASE Expire \/ UNCHANGED vars
    BY <1>2 DEF Expire, files, vars, NothingYet
  <1>3. ASSUME NEW p \in Procs,
               \/ CreatePoll(p) \/ (\E v \in Voters : RegisterVoter(p, v))
               \/ SignRegistryRoot(p) \/ ClosePoll(p) \/ AutoClose(p)
               \/ CastVote(p) \/ Aggregate(p)
        PROVE  FALSE
    BY <1>3 DEF CreatePoll, RegisterVoter, SignRegistryRoot, ClosePoll, AutoClose,
                CastVote, Aggregate, NothingYet
  <1>4. ASSUME NEW p \in Procs, Continue(p)
        PROVE  FALSE
    <2>1. ~created
      BY <1>4 DEF Continue, PassCastGate, RefuseCast, SaveVote, AppendEvent, SavePoll,
                  AggregateExisting, AggregateRefused, AggregateAccepted, ListVotes,
                  SaveHomomorphicTally
    <2>2. req[p].pc = "idle"
      BY <2>1 DEF NothingYet, Idle
    <2> QED
      BY <1>4, <2>2 DEF Continue, PassCastGate, RefuseCast, SaveVote, AppendEvent,
                  SavePoll, AggregateExisting, AggregateRefused, AggregateAccepted,
                  ListVotes, SaveHomomorphicTally
  <1> QED BY <1>1, <1>2, <1>3, <1>4 DEF Next, Fault

LEMMA OneVersionStep ==
    ASSUME Shape, NothingYet, OneVersion, [Next]_vars, RecordFlow, TallyFlow, Shape'
    PROVE  OneVersion'
  <1>1. CASE created
    <2>1. PICK version \in {2, 3} :
            /\ poll # NoPoll => poll.version = version
            /\ \A p \in Procs :
                 /\ req[p].rec # NoPoll => req[p].rec.version = version
                 /\ req[p].pc \in {"readTally", "listVotes", "saveTally"} => version = 3
            /\ tally # NoTally => version = 3
      BY DEF OneVersion
    <2>2. poll' # NoPoll => poll'.version = version
      BY <2>1 DEF RecordFlow
    <2>3. ASSUME NEW p \in Procs, req'[p].rec # NoPoll
          PROVE  req'[p].rec.version = version
      <3>1. req[p].rec \in PollRecord \cup {NoPoll} /\ poll \in PollRecord \cup {NoPoll}
        BY DEF Shape, TypeOK, Request
      <3> QED BY <1>1, <2>1, <2>3, <3>1, DerivedVersion DEF RecordFlow
    <2>4. \A p \in Procs :
            req'[p].pc \in {"readTally", "listVotes", "saveTally"} => version = 3
      BY <2>1 DEF TallyFlow, Aggregating
    <2>5. tally' # NoTally => version = 3
      BY <2>1 DEF TallyFlow
    <2> QED BY <2>2, <2>3, <2>4, <2>5 DEF OneVersion
  <1>2. CASE ~created /\ ~created'
    BY <1>2, NothingYetStep DEF NothingYet, OneVersion, Idle
  <1>3. CASE ~created /\ created'
    <2>1. PICK p \in Procs : CreatePoll(p)
      BY <1>3 DEF Next, Continue, RegisterVoter, SignRegistryRoot, ClosePoll, AutoClose,
                  CastVote, Aggregate, PassCastGate, RefuseCast, SaveVote, AppendEvent,
                  SavePoll, AggregateExisting, AggregateRefused, AggregateAccepted,
                  ListVotes, SaveHomomorphicTally, Expire, Crash, WriteFails, vars
    <2>2. PICK version \in Versions, pre \in PreRegs :
            Start(p, "create", "savePoll",
                  [version |-> version, status |-> "active",
                   commitments |-> pre, sigs |-> <<>>], NoOne)
      BY <2>1 DEF CreatePoll
    <2>3. [version |-> version, status |-> "active",
           commitments |-> pre, sigs |-> <<>>] \in PollRecord
      BY VersionsAssumption, PreRegsAssumption DEF PollRecord
    <2>4. /\ req'[p].rec.version = version
          /\ req'[p].pc = "savePoll"
          /\ \A q \in Procs \ {p} : req'[q] = req[q]
      BY <2>2, <2>3, StartFacts DEF Ops, Pcs, Shape
    <2>5. /\ poll' = NoPoll
          /\ tally' = NoTally
          /\ \A q \in Procs \ {p} : req'[q] = Idle
      BY <1>3, <2>1, <2>4 DEF NothingYet, CreatePoll, files
    <2> QED BY <2>4, <2>5, VersionsAssumption DEF OneVersion, Idle
  <1>4. created \in BOOLEAN /\ created' \in BOOLEAN
    BY DEF Shape, TypeOK
  <1> QED BY <1>1, <1>2, <1>3, <1>4

\* TallyBacked: for any number of votes, aggregations, closes and crashes in
\* flight together, a v3 artifact counts stored and readable ballots only
\* (handleAggregateV3 between ListVotes and SaveHomomorphicTally).
THEOREM TallyIsBacked == Spec => []TallyBacked
  <1> DEFINE I == Shape /\ NothingYet /\ OneVersion /\ CountedBacked
  <1>1. Init => I
    <2> SUFFICES ASSUME Init PROVE I
      OBVIOUS
    <2>1. NothingYet /\ OneVersion /\ CountedBacked
      BY DEF Init, NothingYet, OneVersion, CountedBacked, Idle
    <2> QED BY <2>1, InitShape
  <1>2. I /\ [Next]_vars => I'
    BY ShapeStep, RecordFlowStep, TallyFlowStep, NothingYetStep, OneVersionStep,
       CountedBackedStep
  <1>3. I => TallyBacked
    BY DEF OneVersion, CountedBacked, TallyBacked
  <1> QED BY <1>1, <1>2, <1>3, PTL DEF Spec

-----------------------------------------------------------------------------
(* The ballot box.  The poll server implements it, and a settled poll is final: these  *)
(* rest on the invariants above and on LogOnce, which ties the event log to the votes  *)
(* on disk and to the casts in between.  First, the steps that touch ballots or their  *)
(* log.                                                                                *)

\* A cast stores its ballot.
Stores(p) ==
    /\ req[p].pc = "saveVote"
    /\ req[p].op = "cast"
    /\ req[p].who \in Voters \ votes
    /\ votes' = votes \cup {req[p].who}
    /\ UNCHANGED <<unreadable, events, tally>>
    /\ req'[p].who = req[p].who
    /\ \A q \in Procs \ {p} : req'[q] = req[q]

\* A request appends its event.
Records(p) ==
    /\ req[p].pc = "appendEvent"
    /\ events' = Append(events, EventOf(req[p]))
    /\ req'[p] = Idle
    /\ \A q \in Procs \ {p} : req'[q] = req[q]
    /\ UNCHANGED <<votes, unreadable, tally>>

\* Any other step of a request: at most it publishes a count, and no request
\* comes to be about to log a ballot.
Quiet ==
    /\ UNCHANGED <<votes, unreadable, events>>
    /\ \A p \in Procs : Logging(p)' => Logging(p) /\ req'[p].who = req[p].who
    /\ tally' = tally \/ \E p \in Procs : req[p].pc = "saveTally" /\ tally' = req[p].counted

LEMMA StepKinds ==
    ASSUME Shape, [Next]_vars
    PROVE  Quiet \/ Fault \/ \E p \in Procs : Stores(p) \/ Records(p)
  <1> USE DEF Shape
  <1>1. ASSUME NEW p \in Procs, ~Logging(p)',
               \A q \in Procs \ {p} : req'[q] = req[q],
               UNCHANGED <<votes, unreadable, events, tally>>
        PROVE  Quiet
    BY <1>1 DEF Quiet, Logging
  <1>2. ASSUME NEW p \in Procs, NEW op \in Ops, NEW pc \in {"savePoll", "readEvents", "readTally"},
               NEW rec \in PollRecord, NEW who \in Voters \cup {NoOne},
               UNCHANGED files, Start(p, op, pc, rec, who)
        PROVE  Quiet
    <2>1. req'[p].pc = pc /\ \A q \in Procs \ {p} : req'[q] = req[q]
      BY <1>2, StartFacts DEF Pcs
    <2> QED BY <1>1, <1>2, <2>1 DEF files, Logging
  <1>3. ASSUME NEW p \in Procs, CreatePoll(p)
        PROVE  Quiet
    <2>1. PICK version \in Versions, pre \in PreRegs :
            Start(p, "create", "savePoll",
                  [version |-> version, status |-> "active",
                   commitments |-> pre, sigs |-> <<>>], NoOne)
      BY <1>3 DEF CreatePoll
    <2>2. [version |-> version, status |-> "active",
           commitments |-> pre, sigs |-> <<>>] \in PollRecord
      BY VersionsAssumption, PreRegsAssumption DEF PollRecord
    <2> QED BY <1>2, <1>3, <2>1, <2>2 DEF CreatePoll, Ops
  <1>4. ASSUME NEW p \in Procs,
               \/ \E v \in Voters : RegisterVoter(p, v)
               \/ SignRegistryRoot(p) \/ ClosePoll(p) \/ AutoClose(p)
               \/ CastVote(p) \/ Aggregate(p)
        PROVE  Quiet
    <2>1. /\ \A v \in Voters : [poll EXCEPT !.commitments = Append(@, v)] \in PollRecord
          /\ Signed(poll) \in PollRecord
          /\ Closed(poll) \in PollRecord
          /\ poll \in PollRecord
      BY <1>4, RecordTypes DEF RegisterVoter, SignRegistryRoot, ClosePoll, AutoClose,
                               CastVote, Aggregate, TypeOK
    <2> QED BY <1>2, <1>4, <2>1 DEF RegisterVoter, SignRegistryRoot, ClosePoll,
                                    AutoClose, CastVote, Aggregate, Ops
  <1>5. ASSUME NEW p \in Procs, PassCastGate(p)
        PROVE  Quiet
    <2>1. req'[p].pc = "saveVote" /\ \A q \in Procs \ {p} : req'[q] = req[q]
      BY <1>5 DEF PassCastGate, TypeOK, Idle
    <2> QED BY <1>1, <1>5, <2>1 DEF PassCastGate, files, Logging
  <1>6. ASSUME NEW p \in Procs, Return(p), UNCHANGED <<votes, unreadable, events, tally>>
        PROVE  Quiet
    BY <1>1, <1>6, ReturnFacts DEF Idle, Logging
  <1>7. ASSUME NEW p \in Procs, RefuseCast(p) \/ AggregateExisting(p) \/ AggregateRefused(p)
        PROVE  Quiet
    BY <1>6, <1>7 DEF RefuseCast, AggregateExisting, AggregateRefused, files
  <1>8. ASSUME NEW p \in Procs, SaveVote(p)
        PROVE  Quiet \/ Stores(p)
    <2>1. CASE NullifierUnused(req[p].who)
      <3>1. req[p].pc = "saveVote" /\ req[p].op = "cast" /\ req[p].who \in Voters \ votes
        BY <1>8, <2>1 DEF SaveVote, InHandler, HoldsBallot, NullifierUnused
      <3>2. Appends(req[p])
        BY <3>1 DEF Appends
      <3>3. req'[p].who = req[p].who /\ \A q \in Procs \ {p} : req'[q] = req[q]
        <4>1. req[p] \in Request /\ req \in [Procs -> Request]
          BY DEF TypeOK
        <4> QED BY <1>8, <2>1, <3>2, <4>1, ZenonT(40) DEF SaveVote, LogOrReturn, Request
      <3> QED BY <1>8, <2>1, <3>1, <3>3 DEF SaveVote, Stores
    <2>2. CASE ~NullifierUnused(req[p].who)
      BY <1>6, <1>8, <2>2 DEF SaveVote
    <2> QED BY <2>1, <2>2
  <1>9. ASSUME NEW p \in Procs, AppendEvent(p)
        PROVE  Records(p)
    BY <1>9, ReturnFacts DEF AppendEvent, Records
  <1>10. ASSUME NEW p \in Procs, SavePoll(p)
         PROVE  Quiet
    <2>1. /\ ~Logging(p)'
          /\ \A q \in Procs \ {p} : req'[q] = req[q]
      <3>1. req[p].op # "cast"
        BY <1>10 DEF SavePoll, InHandler
      <3> QED BY <1>10, <3>1, LogOrReturnFacts DEF SavePoll, Logging, Idle
    <2> QED BY <1>1, <1>10, <2>1 DEF SavePoll
  <1>11. ASSUME NEW p \in Procs, AggregateAccepted(p) \/ ListVotes(p)
         PROVE  Quiet
    <2>1. req'[p].pc \in {"listVotes", "saveTally"} /\ \A q \in Procs \ {p} : req'[q] = req[q]
      <3>1. req[p] \in Request /\ req \in [Procs -> Request]
        BY DEF TypeOK
      <3>2. CASE AggregateAccepted(p)
        BY <3>1, <3>2 DEF AggregateAccepted, Request
      <3>3. CASE ListVotes(p)
        BY <3>1, <3>3 DEF ListVotes, Request
      <3> QED BY <1>11, <3>2, <3>3
    <2> QED BY <1>1, <1>11, <2>1 DEF AggregateAccepted, ListVotes, files, Logging
  <1>12. ASSUME NEW p \in Procs, SaveHomomorphicTally(p)
         PROVE  Quiet
    <2>1. req'[p].pc = "savePoll" /\ \A q \in Procs \ {p} : req'[q] = req[q]
      BY <1>12 DEF SaveHomomorphicTally, TypeOK, Request
    <2> QED BY <1>12, <2>1 DEF SaveHomomorphicTally, Quiet, Logging
  <1>13. CASE Expire \/ UNCHANGED vars
    <2>1. UNCHANGED <<votes, unreadable, events, tally, req>>
      BY <1>13 DEF Expire, files, vars
    <2> QED BY <2>1 DEF Quiet, Logging
  <1> QED
    BY <1>3, <1>4, <1>5, <1>7, <1>8, <1>9, <1>10, <1>11, <1>12, <1>13
       DEF Next, Continue, Fault

-----------------------------------------------------------------------------
(* The event log names stored ballots, each once. *)

\* An append adds its event's voter to the log if the event is a vote.
LEMMA LoggedAfterAppend ==
    ASSUME events \in Seq(Event), NEW e \in Event, events' = Append(events, e)
    PROVE  /\ DOMAIN events' = DOMAIN events \cup {Len(events) + 1}
           /\ Len(events) + 1 \notin DOMAIN events
           /\ events'[Len(events) + 1] = e
           /\ \A i \in DOMAIN events : events'[i] = events[i]
           /\ Logged' = IF e.action = "castVote" THEN Logged \cup {e.who} ELSE Logged
  <1>1. /\ Len(events) \in Nat
        /\ DOMAIN events = 1..Len(events)
        /\ DOMAIN events' = 1..(Len(events) + 1)
        /\ events'[Len(events) + 1] = e
        /\ \A i \in 1..Len(events) : events'[i] = events[i]
    BY AppendProperties, LenProperties
  <1>2. /\ DOMAIN events' = DOMAIN events \cup {Len(events) + 1}
        /\ Len(events) + 1 \notin DOMAIN events
    BY <1>1
  <1>3. Logged' = {events'[i].who : i \in {j \in DOMAIN events' : events'[j].action = "castVote"}}
    BY DEF Logged, LoggedAt
  <1>4. Logged = {events[i].who : i \in {j \in DOMAIN events : events[j].action = "castVote"}}
    BY DEF Logged, LoggedAt
  <1> QED BY <1>1, <1>2, <1>3, <1>4

LEMMA LogOnceStep ==
    ASSUME Shape, LogOnce, [Next]_vars
    PROVE  LogOnce'
  <1> USE DEF LogOnce
  <1>0. LogBacked => Logged \subseteq votes
    BY DEF LogBacked, Logged
  <1>1. CASE Quiet
    BY <1>1 DEF Quiet, LogBacked, Logged, LoggedAt
  <1>2. ASSUME NEW p \in Procs, Stores(p)
        PROVE  LogOnce'
    <2>1. LogBacked' /\ Logged' = Logged
      BY <1>2 DEF Stores, LogBacked, Logged, LoggedAt
    <2>2. req[p].who \notin Logged
      BY <1>0, <1>2 DEF Stores
    <2>3. ASSUME NEW q \in Procs, Logging(q)'
          PROVE  req'[q].who \in votes' /\ req'[q].who \notin Logged'
      <3>1. CASE q = p
        BY <1>2, <2>1, <2>2, <3>1 DEF Stores
      <3>2. CASE q # p
        BY <1>2, <2>1, <2>3, <3>2 DEF Stores, Logging
      <3> QED BY <3>1, <3>2
    <2>4. ASSUME NEW q \in Procs, NEW r \in Procs, Logging(q)', Logging(r)',
                 req'[q].who = req'[r].who
          PROVE  q = r
      <3>1. ASSUME NEW s \in Procs, s # p, Logging(s)'
            PROVE  Logging(s) /\ req'[s] = req[s] /\ req'[s].who # req'[p].who
        BY <1>2, <3>1 DEF Stores, Logging
      <3> QED BY <2>4, <3>1
    <2> QED BY <2>1, <2>3, <2>4
  <1>3. ASSUME NEW p \in Procs, Records(p)
        PROVE  LogOnce'
    <2> DEFINE e == EventOf(req[p])
    <2>1. e \in Event /\ events \in Seq(Event) /\ events' = Append(events, e)
      BY <1>3, EventType DEF Records, Shape, TypeOK
    <2>2. e.action = "castVote" <=> Logging(p)
      BY <1>3 DEF Records, EventOf, Logging
    <2>3. Logging(p) => e.who = req[p].who
      BY DEF EventOf, Logging
    <2> HIDE DEF e
    <2>4. /\ DOMAIN events' = DOMAIN events \cup {Len(events) + 1}
          /\ Len(events) + 1 \notin DOMAIN events
          /\ events'[Len(events) + 1] = e
          /\ \A i \in DOMAIN events : events'[i] = events[i]
          /\ Logged' = IF e.action = "castVote" THEN Logged \cup {e.who} ELSE Logged
      BY <2>1, LoggedAfterAppend
    <2>5. \A i \in DOMAIN events : events[i].action = "castVote" =>
            events[i].who \in Logged
      BY DEF Logged, LoggedAt
    <2>6. LogBacked'
      BY <1>3, <2>2, <2>3, <2>4, <2>5 DEF Records, LogBacked, LoggedAt
    <2>7. ASSUME NEW q \in Procs, Logging(q)'
          PROVE  /\ q # p
                 /\ Logging(q)
                 /\ req'[q] = req[q]
      BY <1>3, <2>7 DEF Records, Logging, Idle
    <2>8. \A q \in Procs :
            Logging(q)' => req'[q].who \in votes' /\ req'[q].who \notin Logged'
      BY <1>3, <2>2, <2>3, <2>4, <2>7 DEF Records
    <2> QED BY <2>6, <2>7, <2>8
  <1>4. CASE Fault
    <2>1. PICK p \in Procs : StopShort(p)
      BY <1>4, FaultFacts DEF Shape
    <2>2. \A q \in Procs : Logging(q)' => Logging(q) /\ req'[q].who = req[q].who
      BY <1>4, FaultFacts DEF Logging, Idle, Shape
    <2>3. votes \subseteq votes' /\ (events' = events \/ events' = <<>>)
      BY <2>1 DEF StopShort, files
    <2>4. LogBacked' /\ Logged' \subseteq Logged
      BY <2>3 DEF LogBacked, Logged, LoggedAt
    <2> QED BY <2>2, <2>3, <2>4
  <1> QED BY <1>1, <1>2, <1>3, <1>4, StepKinds

LEMMA LogOnceInit ==
    ASSUME Init
    PROVE  LogOnce
  BY DEF Init, LogOnce, LogBacked, LoggedAt, Logged, Logging, Idle

\* LogBacked for any number of casts in flight and crashes: the log that the
\* slot gate and the published tallies are replayed from never names a ballot
\* that is not on disk, nor one ballot twice (SaveVote, then AppendEvent).
THEOREM LogIsBacked == Spec => []LogBacked
  <1>1. Init => Shape /\ LogOnce
    BY InitShape, LogOnceInit
  <1>2. Shape /\ LogOnce /\ [Next]_vars => (Shape /\ LogOnce)'
    BY ShapeStep, LogOnceStep
  <1>3. LogOnce => LogBacked
    BY DEF LogOnce
  <1> QED BY <1>1, <1>2, <1>3, PTL DEF Spec

-----------------------------------------------------------------------------
(* The server implements the ballot box. *)

LEMMA BoxStep ==
    ASSUME Shape, CountedBacked, LogOnce, [Next]_vars
    PROVE  [Box!BoxNext]_(Box!boxVars)
  <1> USE DEF Box!BoxNext, Box!boxVars
  <1>1. CASE Quiet
    <2>1. UNCHANGED <<votes, unreadable>> /\ Logged' = Logged
      BY <1>1 DEF Quiet, Logged, LoggedAt
    <2>2. CASE tally' = tally
      BY <2>1, <2>2
    <2>3. ASSUME NEW p \in Procs, req[p].pc = "saveTally", tally' = req[p].counted
          PROVE  Box!Publish(req[p].counted) /\ req[p].counted \in SUBSET Voters
      BY <2>1, <2>3 DEF Box!Publish, CountedBacked, Shape, TypeOK
    <2> QED BY <1>1, <2>2, <2>3 DEF Quiet
  <1>2. ASSUME NEW p \in Procs, Stores(p)
        PROVE  Box!Drop(req[p].who) /\ req[p].who \in Voters
    BY <1>2 DEF Stores, Box!Drop, Logged, LoggedAt
  <1>3. ASSUME NEW p \in Procs, Records(p)
        PROVE  [Box!BoxNext]_(Box!boxVars)
    <2> DEFINE e == EventOf(req[p])
    <2>1. e \in Event /\ events \in Seq(Event) /\ events' = Append(events, e)
      BY <1>3, EventType DEF Records, Shape, TypeOK
    <2>2. e.action = "castVote" <=> Logging(p)
      BY <1>3 DEF Records, EventOf, Logging
    <2>3. Logging(p) => e.who = req[p].who
      BY DEF EventOf, Logging
    <2> HIDE DEF e
    <2>4. Logged' = IF e.action = "castVote" THEN Logged \cup {e.who} ELSE Logged
      BY <2>1, LoggedAfterAppend
    <2>5. CASE Logging(p)
      <3>1. req[p].who \in votes \ Logged /\ req[p].who \in Voters
        BY <2>5 DEF LogOnce, Shape, TypeOK
      <3>2. Box!Log(req[p].who)
        BY <1>3, <2>2, <2>3, <2>4, <2>5, <3>1 DEF Records, Box!Log
      <3> QED BY <3>1, <3>2
    <2>6. CASE ~Logging(p)
      BY <1>3, <2>2, <2>4, <2>6 DEF Records
    <2> QED BY <2>5, <2>6
  <1>4. CASE Fault
    <2>1. CASE UNCHANGED <<votes, unreadable, events, tally>>
      BY <2>1 DEF Logged, LoggedAt
    <2>2. CASE events' = <<>> /\ UNCHANGED <<votes, unreadable, tally>>
      BY <2>2 DEF Logged, LoggedAt, Box!LoseLog
    <2>3. ASSUME NEW p \in Procs, req[p].pc = "saveVote", req[p].who \notin votes,
                 votes' = votes \cup {req[p].who},
                 unreadable' \in {unreadable, unreadable \cup {req[p].who}},
                 UNCHANGED <<events, tally>>
          PROVE  Box!Drop(req[p].who) /\ req[p].who \in Voters
      BY <2>3 DEF Box!Drop, Logged, LoggedAt, Shape, InHandler, HoldsBallot
    <2>4. PICK p \in Procs : StopShort(p)
      BY <1>4, FaultFacts DEF Shape
    <2> QED BY <2>1, <2>2, <2>3, <2>4 DEF StopShort, NullifierUnused, files
  <1> QED BY <1>1, <1>2, <1>3, <1>4, StepKinds

\* ImplementsBallotBox: every behaviour of the server is one of the ballot box,
\* whatever its requests race and whatever fails.
THEOREM ServerIsABallotBox == Spec => ImplementsBallotBox
  <1> DEFINE I == Shape /\ CountedBacked /\ LogOnce
  <1>1. Init => Box!BoxInit
    BY DEF Init, Box!BoxInit, Logged
  <1>2. Init => I
    <2> SUFFICES ASSUME Init PROVE I
      OBVIOUS
    <2>1. CountedBacked
      BY DEF Init, CountedBacked, Idle
    <2> QED BY <2>1, InitShape, LogOnceInit
  <1>3. I /\ [Next]_vars => I'
    BY ShapeStep, TallyFlowStep, CountedBackedStep, LogOnceStep
  <1>4. I /\ [Next]_vars => [Box!BoxNext]_(Box!boxVars)
    BY BoxStep
  <1> QED BY <1>1, <1>2, <1>3, <1>4, PTL DEF Spec, ImplementsBallotBox, Box!BoxSpec

-----------------------------------------------------------------------------
(* A settled poll is final. *)

\* Only an aggregation can begin on a settled poll, and only to be refused.
LEMMA SettledStep ==
    ASSUME Shape, NothingYet, Settled, [Next]_vars
    PROVE  Settled' /\ UNCHANGED <<votes, tally>>
  <1> USE DEF Settled
  <1>1. ASSUME NEW p \in Procs, Return(p), UNCHANGED files
        PROVE  Settled' /\ UNCHANGED <<votes, tally>>
    <2>1. req'[p] = Idle /\ \A q \in Procs \ {p} : req'[q] = req[q]
      BY <1>1, ReturnFacts DEF Shape
    <2> QED BY <1>1, <2>1 DEF Idle, files
  <1>2. ASSUME NEW p \in Procs,
               \/ CreatePoll(p) \/ \E v \in Voters : RegisterVoter(p, v)
               \/ SignRegistryRoot(p) \/ ClosePoll(p) \/ AutoClose(p) \/ CastVote(p)
        PROVE  FALSE
    BY <1>2 DEF CreatePoll, NothingYet, RegisterVoter, SignRegistryRoot, Signable,
                ClosePoll, AutoClose, CastVote
  <1>3. ASSUME NEW p \in Procs, Aggregate(p)
        PROVE  Settled' /\ UNCHANGED <<votes, tally>>
    <2>1. /\ req'[p].op = "aggregate"
          /\ req'[p].pc = "readTally"
          /\ req'[p].rec = poll
          /\ \A q \in Procs \ {p} : req'[q] = req[q]
      BY <1>3, StartFacts DEF Aggregate, Shape, TypeOK, Ops, Pcs
    <2> QED BY <1>3, <2>1 DEF Aggregate, files
  <1>4. ASSUME NEW p \in Procs, RefuseCast(p) \/ AggregateExisting(p) \/ AggregateRefused(p)
        PROVE  Settled' /\ UNCHANGED <<votes, tally>>
    BY <1>1, <1>4 DEF RefuseCast, AggregateExisting, AggregateRefused
  <1>5. ASSUME NEW p \in Procs, AggregateAccepted(p)
        PROVE  FALSE
    BY <1>5 DEF AggregateAccepted, MayAggregate, Shape, HoldsRecord
  <1>6. ASSUME NEW p \in Procs,
               \/ PassCastGate(p) \/ SaveVote(p) \/ AppendEvent(p)
               \/ SavePoll(p) \/ ListVotes(p) \/ SaveHomomorphicTally(p)
        PROVE  FALSE
    BY <1>6 DEF PassCastGate, SaveVote, AppendEvent, SavePoll, ListVotes,
                SaveHomomorphicTally
  <1>7. CASE Fault
    <2>1. PICK p \in Procs : StopShort(p)
      BY <1>7, FaultFacts DEF Shape
    <2>2. UNCHANGED files
      BY <2>1 DEF StopShort
    <2>3. \A q \in Procs : req'[q] \in {Idle, req[q]}
      BY <1>7, FaultFacts DEF Shape
    <2> QED BY <2>2, <2>3 DEF Idle, files
  <1>8. CASE Expire \/ UNCHANGED vars
    BY <1>8 DEF Expire, files, vars
  <1> QED
    BY <1>2, <1>3, <1>4, <1>5, <1>6, <1>7, <1>8 DEF Next, Continue, Fault

LEMMA NothingYetInit ==
    ASSUME Init
    PROVE  NothingYet
  BY DEF Init, NothingYet

\* SettledIsFinal for any number of requests: once the last request that read
\* the poll as active has returned, nothing reopens it, adds a ballot to it or
\* changes its tally.
THEOREM ClosedForGood == Spec => SettledIsFinal
  <1>1. Init => Shape /\ NothingYet
    BY InitShape, NothingYetInit
  <1>2. Shape /\ NothingYet /\ [Next]_vars => (Shape /\ NothingYet)'
    BY ShapeStep, NothingYetStep
  <1>3. Shape /\ NothingYet /\ [Next]_vars
          => [Settled => Settled' /\ UNCHANGED <<votes, tally>>]_vars
    BY SettledStep
  <1> QED BY <1>1, <1>2, <1>3, PTL DEF Spec, SettledIsFinal

\* The whole inductive invariant, of which each theorem above uses a part.
THEOREM InvHolds == Spec => []Inv
  <1> DEFINE I == /\ Shape /\ NothingYet /\ RecordsFit
                  /\ OneVersion /\ CountedBacked /\ LogOnce
  <1>1. Init => I
    <2> SUFFICES ASSUME Init PROVE I
      OBVIOUS
    <2>1. RecordsFit /\ OneVersion /\ CountedBacked
      BY DEF Init, RecordsFit, OneVersion, CountedBacked, Idle
    <2> QED BY <2>1, InitShape, NothingYetInit, LogOnceInit
  <1>2. I /\ [Next]_vars => I'
    BY ShapeStep, RecordFlowStep, TallyFlowStep, NothingYetStep, RecordsFitStep,
       OneVersionStep, CountedBackedStep, LogOnceStep
  <1>3. I => Inv
    BY DEF Inv, Shape
  <1> QED BY <1>1, <1>2, <1>3, PTL DEF Spec
==============================================================================
