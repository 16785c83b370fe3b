----------------------------- MODULE PollLog_proofs -----------------------------
(***************************************************************************)
(* Proofs about the replay of a poll's event log, for logs of every        *)
(* length: PollRuntime's fold is a function of the log that appending an   *)
(* event extends by firing it, and the tallies it yields never add up to   *)
(* more than the ballots the log names.                                    *)
(*                                                                         *)
(* The second part is what the comments of the server promise and what     *)
(* holds as long as requests run one at a time, for every number of voters *)
(* and of requests: its invariants are those of the files and of the one   *)
(* request that may be between two of its store calls.  OneAtATime         *)
(* restricts what happens, not the constants: these theorems speak of      *)
(* every behaviour of Spec in which it stays true, whatever Procs would    *)
(* allow besides.  Crashes and failed writes may happen in it; the two     *)
(* theorems on the slots speak of the states before the first of them      *)
(* (NoFault), since a handler that could not write its event goes on       *)
(* without it.                                                             *)
(***************************************************************************)
EXTENDS PollServer_proofs, Sums_proofs

-----------------------------------------------------------------------------
(* The replay of a log. *)

\* The markings of the two places.
Marking == [slots : Nat, tallies : [Options -> Nat]]

\* State holds the marking after each of the first n events, every entry apart.
Replays(log, n, State) ==
    \A t \in 0..n : State[t] = IF t = 0 THEN EmptyMarking ELSE Fire(State[t - 1], log[t])

\* The first n events have a replay.
CanReplay(log, n) == \E State \in [0..n -> Marking] : Replays(log, n, State)

\* Firing keeps counts natural: a castVote without a slot is refused.
LEMMA FireType ==
    ASSUME NEW m \in Marking, NEW e \in Event
    PROVE  Fire(m, e) \in Marking
  <1>1. CASE e.action = "castVote" /\ ~CastVoteEnabled(m)
    BY <1>1 DEF Fire
  <1>2. CASE e.action = "castVote" /\ CastVoteEnabled(m)
    <2>1. m.slots - 1 \in Nat
      BY <1>2 DEF CastVoteEnabled, Marking
    <2>2. [c \in Options |-> m.tallies[c] + (IF e.choice = c THEN 1 ELSE 0)] \in [Options -> Nat]
      BY DEF Marking
    <2> QED BY <1>2, <2>1, <2>2 DEF Fire, Arcs, Marking
  <1>3. CASE e.action # "castVote"
    BY <1>3 DEF Fire, Arcs, Marking
  <1> QED BY <1>1, <1>2, <1>3

\* The marking of a new net.
LEMMA EmptyMarkingType == EmptyMarking \in Marking
  BY DEF EmptyMarking, Marking

\* Every part of every log has a replay: a shortest one without would extend the
\* replay of what comes before its last event.
LEMMA ReplayExists ==
    ASSUME NEW log \in Seq(Event), NEW n \in 0..Len(log)
    PROVE  CanReplay(log, n)
  <1> DEFINE T == {k \in 0..Len(log) : ~CanReplay(log, k)}
  <1>1. ASSUME NEW k \in T, \A j \in T : k <= j
        PROVE  FALSE
    <2>1. k \in 0..Len(log) /\ ~CanReplay(log, k)
      OBVIOUS
    <2>2. k # 0
      <3>1. [t \in 0..0 |-> EmptyMarking] \in [0..0 -> Marking]
        BY EmptyMarkingType
      <3>2. Replays(log, 0, [t \in 0..0 |-> EmptyMarking])
        BY DEF Replays
      <3>3. CanReplay(log, 0)
        BY <3>1, <3>2 DEF CanReplay
      <3> QED BY <2>1, <3>3
    <2>3. Len(log) \in Nat /\ k \in Nat
      BY <2>1, LenProperties
    <2>4. k - 1 \in 0..Len(log) /\ k - 1 \notin T
      BY <1>1, <2>2, <2>3
    <2>5. PICK s \in [0..(k - 1) -> Marking] : Replays(log, k - 1, s)
      BY <2>4 DEF CanReplay
    <2> DEFINE r == [t \in 0..k |-> IF t < k THEN s[t] ELSE Fire(s[k - 1], log[k])]
    <2>6. log[k] \in Event
      BY <2>1, <2>2, <2>3, ElementOfSeq
    <2>7. s[k - 1] \in Marking /\ Fire(s[k - 1], log[k]) \in Marking
      BY <2>2, <2>3, <2>6, FireType
    <2>8. r \in [0..k -> Marking]
      BY <2>3, <2>7
    <2>9. Replays(log, k, r)
      <3> SUFFICES ASSUME NEW t \in 0..k
                   PROVE  r[t] = IF t = 0 THEN EmptyMarking ELSE Fire(r[t - 1], log[t])
        BY DEF Replays
      <3>1. CASE t = k
        <4>1. r[t] = Fire(s[k - 1], log[k]) /\ r[t - 1] = s[k - 1]
          BY <2>2, <2>3, <3>1
        <4> QED BY <2>2, <3>1, <4>1
      <3>2. CASE t # k
        <4>1. t \in 0..(k - 1) /\ (t # 0 => t - 1 \in 0..(k - 1))
          BY <2>2, <2>3, <3>2
        <4>2. s[t] = IF t = 0 THEN EmptyMarking ELSE Fire(s[t - 1], log[t])
          BY <2>5, <4>1 DEF Replays
        <4>3. r[t] = s[t] /\ (t # 0 => r[t - 1] = s[t - 1])
          BY <2>3, <4>1
        <4> QED BY <4>2, <4>3
      <3> QED BY <3>1, <3>2
    <2>10. CanReplay(log, k)
      BY <2>8, <2>9 DEF CanReplay
    <2> QED BY <2>1, <2>10
  <1>2. T \subseteq Nat
    BY LenProperties
  <1>3. n \notin T
    <2> HIDE DEF T
    <2> QED BY <1>1, <1>2, LeastNat
  <1> QED BY <1>3

\* So Markings holds the marking after every event.
LEMMA MarkingsWork ==
    ASSUME NEW log \in Seq(Event)
    PROVE  Replays(log, Len(log), Markings(log))
  <1> DEFINE Is(s) == s = [t \in 0..Len(log) |->
                             IF t = 0 THEN EmptyMarking ELSE Fire(s[t - 1], log[t])]
  <1>1. Len(log) \in 0..Len(log)
    BY LenProperties
  <1>2. PICK s \in [0..Len(log) -> Marking] : Replays(log, Len(log), s)
    BY <1>1, ReplayExists DEF CanReplay
  <1>3. Is(s)
    BY <1>2 DEF Replays
  <1>4. Markings(log) = CHOOSE z : Is(z)
    BY Zenon DEF Markings
  <1>5. Is(Markings(log))
    <2> HIDE DEF Is
    <2> QED BY <1>3, <1>4
  <1> QED BY <1>5, Zenon DEF Replays

\* Two replays agree on the events they have both seen.
LEMMA ReplaysAgree ==
    ASSUME NEW a, NEW b, NEW n \in Nat, NEW s, NEW r, Replays(a, n, s), Replays(b, n, r),
           \A t \in 1..n : a[t] = b[t]
    PROVE  s[n] = r[n]
  <1> DEFINE T == {t \in 0..n : s[t] # r[t]}
  <1>1. ASSUME NEW k \in T, \A j \in T : k <= j
        PROVE  FALSE
    <2>1. k \in 0..n /\ s[k] # r[k]
      OBVIOUS
    <2>2. /\ s[k] = IF k = 0 THEN EmptyMarking ELSE Fire(s[k - 1], a[k])
          /\ r[k] = IF k = 0 THEN EmptyMarking ELSE Fire(r[k - 1], b[k])
      BY <2>1 DEF Replays
    <2>3. CASE k = 0
      BY <2>1, <2>2, <2>3
    <2>4. CASE k # 0
      <3>1. k - 1 \in 0..n /\ ~(k <= k - 1) /\ k \in 1..n
        BY <2>1, <2>4
      <3>2. k - 1 \notin T
        BY <1>1, <3>1
      <3>3. s[k - 1] = r[k - 1]
        BY <3>1, <3>2
      <3> QED BY <2>1, <2>2, <2>4, <3>1, <3>3
    <2> QED BY <2>3, <2>4
  <1>2. T \subseteq Nat
    OBVIOUS
  <1>3. n \notin T
    <2> HIDE DEF T
    <2> QED BY <1>1, <1>2, LeastNat
  <1> QED BY <1>3

\* The replay of no events.
LEMMA ReplayEmpty == Replay(<<>>) = EmptyMarking
  <1>1. <<>> \in Seq(Event) /\ Len(<<>>) = 0
    OBVIOUS
  <1>2. Replays(<<>>, 0, Markings(<<>>))
    BY <1>1, MarkingsWork
  <1> QED BY <1>1, <1>2 DEF Replays, Replay

\* A replay ends in a marking.
LEMMA ReplayType ==
    ASSUME NEW log \in Seq(Event)
    PROVE  Replay(log) \in Marking
  <1>1. Len(log) \in Nat /\ Len(log) \in 0..Len(log)
    BY LenProperties
  <1>2. PICK s \in [0..Len(log) -> Marking] : Replays(log, Len(log), s)
    BY <1>1, ReplayExists DEF CanReplay
  <1>3. Markings(log)[Len(log)] = s[Len(log)]
    BY <1>1, <1>2, MarkingsWork, ReplaysAgree
  <1> QED BY <1>1, <1>2, <1>3 DEF Replay

\* An event fires on what the log before it left.
LEMMA ReplayAppend ==
    ASSUME NEW log \in Seq(Event), NEW e \in Event
    PROVE  Replay(Append(log, e)) = Fire(Replay(log), e)
  <1> DEFINE n == Len(log)
             next == Append(log, e)
  <1>1. /\ n \in Nat
        /\ next \in Seq(Event)
        /\ Len(next) = n + 1
        /\ next[n + 1] = e
        /\ \A t \in 1..n : next[t] = log[t]
    BY LenProperties, AppendProperties
  <1>2. Replays(next, n + 1, Markings(next)) /\ Replays(log, n, Markings(log))
    BY <1>1, MarkingsWork
  <1> HIDE DEF n, next
  <1>3. Replays(next, n, Markings(next))
    BY <1>1, <1>2 DEF Replays
  <1>4. Markings(next)[n] = Markings(log)[n]
    BY <1>1, <1>2, <1>3, ReplaysAgree
  <1>5. n + 1 \in 0..(n + 1) /\ n + 1 # 0 /\ (n + 1) - 1 = n
    BY <1>1
  <1>6. Markings(next)[n + 1] = Fire(Markings(next)[n], next[n + 1])
    BY <1>2, <1>5 DEF Replays
  <1>7. Replay(next) = Markings(next)[n + 1] /\ Replay(log) = Markings(log)[n]
    BY <1>1 DEF Replay, n
  <1>8. Replay(next) = Fire(Replay(log), e)
    BY <1>1, <1>4, <1>6, <1>7
  <1> QED BY <1>8 DEF next

-----------------------------------------------------------------------------
(* The published tallies. *)

\* A vote adds at most one to the tallies, and no other event changes them.
LEMMA FireAddsOne ==
    ASSUME NEW m \in Marking, NEW e \in Event
    PROVE  SumOf(Fire(m, e).tallies)
             <= SumOf(m.tallies) + (IF e.action = "castVote" THEN 1 ELSE 0)
  <1>1. /\ m.tallies \in [Options -> Nat]
        /\ Fire(m, e) \in Marking
        /\ Fire(m, e).tallies \in [Options -> Nat]
    BY FireType DEF Marking
  <1>2. SumOf(m.tallies) \in Nat /\ SumOf(Fire(m, e).tallies) \in Nat
    BY <1>1, SumType, OptionsAssumption
  <1>3. CASE Fire(m, e).tallies = m.tallies
    BY <1>2, <1>3
  <1>4. CASE e.action = "castVote" /\ CastVoteEnabled(m)
    <2> DEFINE g == [c \in Options |-> m.tallies[c] + (IF e.choice = c THEN 1 ELSE 0)]
    <2>1. Fire(m, e).tallies = g
      BY <1>4 DEF Fire, Arcs
    <2>2. g \in [Options -> Nat]
      BY <1>1
    <2>3. CASE e.choice \in Options
      <3>1. /\ \A x \in Options \ {e.choice} : g[x] = m.tallies[x]
            /\ g[e.choice] = m.tallies[e.choice] + 1
            /\ m.tallies[e.choice] \in Nat
        BY <1>1, <2>3
      <3> HIDE DEF g
      <3>2. SumOf(g) + m.tallies[e.choice] = SumOf(m.tallies) + g[e.choice]
        BY <1>1, <2>2, <2>3, <3>1, SumChange, OptionsAssumption
      <3>3. SumOf(g) \in Nat
        BY <1>2, <2>1
      <3>4. SumOf(g) = SumOf(m.tallies) + 1
        BY <1>2, <3>1, <3>2, <3>3
      <3> QED BY <1>2, <1>4, <2>1, <3>4
    <2>4. CASE e.choice \notin Options
      <3>1. g = m.tallies
        BY <1>1, <2>4
      <3> QED BY <1>3, <2>1, <3>1
    <2> QED BY <2>3, <2>4
  <1>5. CASE e.action # "castVote"
    <2>1. Fire(m, e).tallies = m.tallies
      BY <1>5 DEF Fire, Arcs, Marking
    <2> QED BY <1>3, <2>1
  <1>6. CASE e.action = "castVote" /\ ~CastVoteEnabled(m)
    BY <1>3, <1>6 DEF Fire
  <1> QED BY <1>4, <1>5, <1>6

\* The replayed tallies never add up to more than the ballots in the log.
PublishedWithinLog ==
    /\ IsFiniteSet(votes)
    /\ SumOf(Replay(events).tallies) <= Cardinality(Logged)

\* A new poll publishes nothing.
LEMMA NothingPublished == SumOf(Replay(<<>>).tallies) = 0
  <1>1. Replay(<<>>).tallies = [c \in Options |-> 0]
    BY ReplayEmpty DEF EmptyMarking
  <1> QED BY <1>1, SumOfZeros, OptionsAssumption

\* The ballots of the log are among those on disk.
LEMMA LoggedFinite ==
    ASSUME LogBacked, IsFiniteSet(votes)
    PROVE  /\ Logged \subseteq votes
           /\ IsFiniteSet(Logged)
           /\ Cardinality(Logged) \in Nat
           /\ Cardinality(votes) \in Nat
           /\ Cardinality(Logged) <= Cardinality(votes)
  <1>1. Logged \subseteq votes
    BY DEF LogBacked, Logged
  <1> QED BY <1>1, FS_Subset, FS_CardinalityType

\* AppendEvent adds at most one to the tallies, and then also names one ballot more
\* (LogOnce); a truncated log starts over with neither.
LEMMA PublishedWithinLogStep ==
    ASSUME Shape, LogOnce, PublishedWithinLog, [Next]_vars
    PROVE  PublishedWithinLog'
  <1>1. /\ IsFiniteSet(Logged)
        /\ Cardinality(Logged) \in Nat
        /\ events \in Seq(Event)
        /\ IsFiniteSet(votes)
    BY LoggedFinite DEF LogOnce, PublishedWithinLog, Shape, TypeOK
  <1>2. ASSUME UNCHANGED events, IsFiniteSet(votes')
        PROVE  PublishedWithinLog'
    BY <1>2 DEF PublishedWithinLog, Logged, LoggedAt
  <1>3. CASE Quiet
    BY <1>1, <1>2, <1>3 DEF Quiet
  <1>4. ASSUME NEW p \in Procs, Stores(p)
        PROVE  PublishedWithinLog'
    <2>1. votes' = votes \cup {req[p].who} /\ UNCHANGED events
      BY <1>4 DEF Stores
    <2> QED BY <1>1, <1>2, <2>1, FS_AddElement
  <1>5. ASSUME NEW p \in Procs, Records(p)
        PROVE  PublishedWithinLog'
    <2> DEFINE e == EventOf(req[p])
    <2>1. e \in Event /\ events' = Append(events, e) /\ votes' = votes
      BY <1>5, EventType DEF Records, Shape, TypeOK
    <2>2. e.action = "castVote" => Logging(p) /\ e.who = req[p].who
      BY <1>5 DEF Records, EventOf, Logging
    <2> HIDE DEF e
    <2>3. Logged' = IF e.action = "castVote" THEN Logged \cup {e.who} ELSE Logged
      BY <1>1, <2>1, LoggedAfterAppend
    <2>4. e.action = "castVote" => e.who \notin Logged
      BY <2>2 DEF LogOnce
    <2>5. Cardinality(Logged') = Cardinality(Logged) + (IF e.action = "castVote" THEN 1 ELSE 0)
      <3>1. e.action = "castVote" => Cardinality(Logged \cup {e.who}) = Cardinality(Logged) + 1
        BY <1>1, <2>4, FS_AddElement
      <3> QED BY <1>1, <2>3, <3>1
    <2> DEFINE m == Replay(events)
    <2>6. m \in Marking /\ Replay(events') = Fire(m, e)
      BY <1>1, <2>1, ReplayType, ReplayAppend
    <2>7. /\ SumOf(Fire(m, e).tallies)
               <= SumOf(m.tallies) + (IF e.action = "castVote" THEN 1 ELSE 0)
          /\ SumOf(m.tallies) <= Cardinality(Logged)
      BY <2>1, <2>6, FireAddsOne DEF PublishedWithinLog
    <2>8. SumOf(m.tallies) \in Nat /\ SumOf(Fire(m, e).tallies) \in Nat
      <3>1. m.tallies \in [Options -> Nat] /\ Fire(m, e).tallies \in [Options -> Nat]
        BY <2>1, <2>6, FireType DEF Marking
      <3> HIDE DEF m
      <3> QED BY <3>1, SumType, OptionsAssumption
    <2> HIDE DEF m
    <2>9. SumOf(Fire(m, e).tallies) <= Cardinality(Logged')
      BY <1>1, <2>5, <2>7, <2>8
    <2> QED BY <1>1, <2>1, <2>6, <2>9 DEF PublishedWithinLog
  <1>6. CASE Fault
    <2>0. PICK p \in Procs : StopShort(p)
      BY <1>6, FaultFacts DEF Shape
    <2>1. IsFiniteSet(votes')
      <3>1. \A v : IsFiniteSet(votes \cup {v})
        BY <1>1, FS_AddElement
      <3>2. votes' = votes \/ votes' = votes \cup {req[p].who}
        BY <2>0 DEF StopShort, files
      <3> QED BY <1>1, <3>1, <3>2
    <2>2. CASE UNCHANGED events
      BY <1>2, <2>1, <2>2
    <2>3. CASE events' = <<>>
      <3>1. SumOf(Replay(events').tallies) = 0
        BY <2>3, NothingPublished
      <3>2. Logged' = {}
        BY <2>3 DEF Logged
      <3> QED BY <2>1, <3>1, <3>2, FS_EmptySet DEF PublishedWithinLog
    <2> QED BY <2>0, <2>2, <2>3 DEF StopShort, files
  <1> QED BY <1>3, <1>4, <1>5, <1>6, StepKinds

\* A new poll has no log.
LEMMA PublishedWithinLogInit ==
    ASSUME Init
    PROVE  PublishedWithinLog
  <1>1. events = <<>> /\ votes = {} /\ Logged = {}
    BY DEF Init, Logged
  <1> QED BY <1>1, NothingPublished, FS_EmptySet DEF PublishedWithinLog

\* The published tallies never add up to more than the votes on disk, for every
\* number of voters, options, requests in flight, events and failures: whatever order
\* the events reached the log in and whichever of them PollRuntime drops.
THEOREM PublishedIsBacked == Spec => []PublishedWithinVotes
  <1>1. Init => Shape /\ LogOnce /\ PublishedWithinLog
    BY InitShape, LogOnceInit, PublishedWithinLogInit
  <1>2. Shape /\ LogOnce /\ PublishedWithinLog /\ [Next]_vars
          => (Shape /\ LogOnce /\ PublishedWithinLog)'
    BY ShapeStep, LogOnceStep, PublishedWithinLogStep
  <1>3. Shape /\ LogOnce /\ PublishedWithinLog => PublishedWithinVotes
    <2> SUFFICES ASSUME Shape, LogOnce, PublishedWithinLog
                 PROVE  PublishedWithinVotes
      OBVIOUS
    <2>1. /\ Cardinality(Logged) \in Nat
          /\ Cardinality(votes) \in Nat
          /\ Cardinality(Logged) <= Cardinality(votes)
      BY LoggedFinite DEF LogOnce, PublishedWithinLog
    <2>2. SumOf(Replay(events).tallies) \in Nat
      <3>1. Replay(events).tallies \in [Options -> Nat]
        BY ReplayType DEF Shape, TypeOK, Marking
      <3> QED BY <3>1, SumType, OptionsAssumption
    <2> QED BY <2>1, <2>2 DEF PublishedWithinLog, PublishedWithinVotes
  <1> QED BY <1>1, <1>2, <1>3, PTL DEF Spec

-----------------------------------------------------------------------------
(* What a step of one request does to the files and to what it holds. *)

OthersStay(p) == \A q \in Procs \ {p} : req'[q] = req[q]

\* The record a handler starts with: a new one, or one derived from the file.
Reads(r) ==
    IF r.op = "create"
      THEN ~created /\ r.rec.commitments \in PreRegs
      ELSE /\ poll # NoPoll
           /\ IF r.op = "register"
                THEN \E v \in Voters : r.rec = WithVoter(poll, v)
                ELSE r.rec.commitments = poll.commitments
           /\ r.rec.sigs = poll.sigs \/ r.rec = Signed(poll)

Begins(p) ==
    /\ UNCHANGED <<poll, votes, events>>
    /\ req'[p].pc \in {"savePoll", "readEvents", "readTally"}
    /\ req'[p].rec # NoPoll
    /\ Reads(req'[p])

PassesGate(p) ==
    /\ UNCHANGED <<poll, votes, events>>
    /\ req[p].pc = "readEvents"
    /\ CastVoteEnabled(Replay(events))
    /\ req'[p].pc = "saveVote" /\ req'[p].op = "cast" /\ req'[p].rec = NoPoll

\* An aggregation goes on with the record it has read.
GoesOn(p) ==
    /\ UNCHANGED <<poll, votes, events>>
    /\ req[p].rec # NoPoll
    /\ req[p].op = "aggregate" /\ req'[p].op = "aggregate"
    /\ req'[p].pc \in {"listVotes", "saveTally", "savePoll"}
    /\ req'[p].rec.commitments = req[p].rec.commitments
    /\ req'[p].rec.sigs = req[p].rec.sigs

SavesVote(p) ==
    /\ Stores(p)
    /\ UNCHANGED poll
    /\ req'[p].op = "cast" /\ req'[p].pc = "appendEvent" /\ req'[p].rec = NoPoll

SavesPoll(p) ==
    /\ req[p].pc = "savePoll" /\ req[p].op # "cast" /\ req[p].rec # NoPoll
    /\ poll' = req[p].rec
    /\ UNCHANGED <<votes, events>>
    /\ req'[p].rec = NoPoll
    /\ \/ req'[p] = Idle /\ req[p].op # "register"
       \/ req'[p].pc = "appendEvent" /\ req'[p].op = req[p].op

LogsEvent(p) == Records(p) /\ UNCHANGED poll

Returns(p) ==
    /\ UNCHANGED <<poll, votes, events>>
    /\ req[p].pc \notin {"idle", "savePoll", "appendEvent"}
    /\ req'[p] = Idle

RequestStep(p) ==
    /\ OthersStay(p)
    /\ \/ Begins(p) /\ req[p].pc = "idle"
       \/ req[p].pc # "idle" /\ \/ PassesGate(p) \/ GoesOn(p) \/ SavesVote(p)
                                \/ SavesPoll(p) \/ LogsEvent(p) \/ Returns(p)

\* Every step of the server is a fault, the clock, or a step of one request of the
\* kinds above: the handlers differ in what they ask for, not in what they may do.
LEMMA RequestSteps ==
    ASSUME Shape, [Next]_vars
    PROVE  \/ Fault
           \/ UNCHANGED <<poll, votes, events, req>>
           \/ \E p \in Procs : RequestStep(p)
  <1> USE DEF Shape
  <1>1. ASSUME NEW p \in Procs, NEW op \in Ops, NEW pc \in {"savePoll", "readEvents", "readTally"},
               NEW rec \in PollRecord, NEW who \in Voters \cup {NoOne},
               Start(p, op, pc, rec, who), UNCHANGED files,
               IF op = "create"
                 THEN ~created /\ rec.commitments \in PreRegs
                 ELSE /\ poll # NoPoll
                      /\ IF op = "register"
                           THEN \E v \in Voters : rec = WithVoter(poll, v)
                           ELSE rec.commitments = poll.commitments
                      /\ rec.sigs = poll.sigs \/ rec = Signed(poll)
        PROVE  RequestStep(p)
    <2>1. /\ req[p].pc = "idle"
          /\ req'[p].op = op
          /\ req'[p].pc = pc
          /\ req'[p].rec = rec
          /\ \A q \in Procs \ {p} : req'[q] = req[q]
      BY <1>1, StartFacts DEF Pcs
    <2>2. rec # NoPoll
      BY NoPollAssumption
    <2>3. Reads(req'[p])
      BY <1>1, <2>1 DEF Reads
    <2>4. Begins(p)
      BY <1>1, <2>1, <2>2, <2>3 DEF Begins, files
    <2> QED BY <2>1, <2>4 DEF RequestStep, OthersStay
  <1>2. ASSUME NEW p \in Procs, CreatePoll(p)
        PROVE  RequestStep(p)
    <2>1. PICK version \in Versions, pre \in PreRegs :
            Start(p, "create", "savePoll",
                  [version |-> version, status |-> "active",
                   commitments |-> pre, sigs |-> <<>>], NoOne)
      BY <1>2 DEF CreatePoll
    <2> DEFINE rec == [version |-> version, status |-> "active",
                       commitments |-> pre, sigs |-> <<>>]
    <2>2. rec \in PollRecord /\ rec.commitments \in PreRegs
      BY VersionsAssumption, PreRegsAssumption DEF PollRecord
    <2>3. ~created /\ UNCHANGED files
      BY <1>2 DEF CreatePoll
    <2> HIDE DEF rec
    <2> QED BY <1>1, <2>1, <2>2, <2>3 DEF rec, Ops
  <1>3. ASSUME NEW p \in Procs, NEW v \in Voters, RegisterVoter(p, v)
        PROVE  RequestStep(p)
    <2>1. poll \in PollRecord /\ poll # NoPoll /\ UNCHANGED files
      BY <1>3 DEF RegisterVoter, TypeOK
    <2>2. WithVoter(poll, v) \in PollRecord
      BY <2>1, RecordTypes DEF WithVoter
    <2>3. WithVoter(poll, v).sigs = poll.sigs
      BY <2>1 DEF WithVoter, PollRecord
    <2>4. Start(p, "register", "savePoll", WithVoter(poll, v), v)
      BY <1>3 DEF RegisterVoter, WithVoter
    <2> QED BY <1>1, <2>1, <2>2, <2>3, <2>4 DEF Ops
  <1>4. ASSUME NEW p \in Procs, SignRegistryRoot(p)
        PROVE  RequestStep(p)
    <2>1. poll \in PollRecord /\ poll # NoPoll /\ UNCHANGED files
      BY <1>4 DEF SignRegistryRoot, TypeOK
    <2>2. Signed(poll) \in PollRecord /\ Signed(poll).commitments = poll.commitments
      BY <2>1, RecordTypes DEF Signed, PollRecord
    <2>3. Start(p, "sign", "savePoll", Signed(poll), NoOne)
      BY <1>4 DEF SignRegistryRoot
    <2> QED BY <1>1, <2>1, <2>2, <2>3 DEF Ops
  <1>5. ASSUME NEW p \in Procs, ClosePoll(p) \/ AutoClose(p)
        PROVE  RequestStep(p)
    <2>1. poll \in PollRecord /\ poll # NoPoll /\ UNCHANGED files
      BY <1>5 DEF ClosePoll, AutoClose, TypeOK
    <2>2. /\ Closed(poll) \in PollRecord
          /\ Closed(poll).commitments = poll.commitments
          /\ Closed(poll).sigs = poll.sigs
      BY <2>1, RecordTypes DEF Closed, PollRecord
    <2>3. \E op \in {"close", "expire"} : Start(p, op, "savePoll", Closed(poll), NoOne)
      BY <1>5 DEF ClosePoll, AutoClose
    <2> QED BY <1>1, <2>1, <2>2, <2>3 DEF Ops
  <1>6. ASSUME NEW p \in Procs, CastVote(p) \/ Aggregate(p)
        PROVE  RequestStep(p)
    <2>1. poll \in PollRecord /\ poll # NoPoll /\ UNCHANGED files
      BY <1>6 DEF CastVote, Aggregate, TypeOK
    <2>2. \/ Start(p, "cast", "readEvents", poll, NoOne)
          \/ Start(p, "aggregate", "readTally", poll, NoOne)
      BY <1>6 DEF CastVote, Aggregate
    <2> QED BY <1>1, <2>1, <2>2 DEF Ops
  <1>7. ASSUME NEW p \in Procs, PassCastGate(p)
        PROVE  RequestStep(p)
    <2>1. /\ req'[p].pc = "saveVote" /\ req'[p].op = "cast" /\ req'[p].rec = NoPoll
          /\ \A q \in Procs \ {p} : req'[q] = req[q]
      BY <1>7 DEF PassCastGate, TypeOK, Idle
    <2>2. req[p].pc = "readEvents" /\ CastVoteEnabled(Replay(events)) /\ UNCHANGED files
      BY <1>7 DEF PassCastGate
    <2> QED BY <2>1, <2>2 DEF RequestStep, OthersStay, PassesGate, files
  <1>8. ASSUME NEW p \in Procs, Return(p), UNCHANGED <<poll, votes, events>>,
               req[p].pc \notin {"idle", "savePoll", "appendEvent"}
        PROVE  RequestStep(p)
    <2>1. req'[p] = Idle /\ \A q \in Procs \ {p} : req'[q] = req[q]
      BY <1>8, ReturnFacts
    <2> QED BY <1>8, <2>1 DEF RequestStep, OthersStay, Returns
  <1>9. ASSUME NEW p \in Procs, RefuseCast(p) \/ AggregateExisting(p) \/ AggregateRefused(p)
        PROVE  RequestStep(p)
    BY <1>8, <1>9 DEF RefuseCast, AggregateExisting, AggregateRefused, files
  <1>10. ASSUME NEW p \in Procs, SaveVote(p)
         PROVE  RequestStep(p)
    <2>1. req[p].op = "cast" /\ req[p].pc = "saveVote" /\ req[p].who \in Voters /\ UNCHANGED <<poll, events>>
      BY <1>10 DEF SaveVote, InHandler, HoldsBallot
    <2>2. CASE NullifierUnused(req[p].who)
      <3>1. LogOrReturn(p) /\ Appends(req[p])
        BY <1>10, <2>1, <2>2 DEF SaveVote, Appends
      <3> DEFINE r == [req[p] EXCEPT !.pc = "appendEvent", !.rec = NoPoll, !.counted = {}]
      <3>2. req' = [req EXCEPT ![p] = r]
        BY <3>1 DEF LogOrReturn
      <3>3. r.pc = "appendEvent" /\ r.op = req[p].op /\ r.who = req[p].who /\ r.rec = NoPoll
        BY DEF TypeOK, Request
      <3> HIDE DEF r
      <3>4. req'[p] = r /\ \A q \in Procs \ {p} : req'[q] = req[q]
        BY <3>2 DEF TypeOK
      <3>5. Stores(p)
        BY <1>10, <2>1, <2>2, <3>3, <3>4 DEF SaveVote, Stores, NullifierUnused
      <3> QED BY <2>1, <3>3, <3>4, <3>5 DEF RequestStep, OthersStay, SavesVote
    <2>3. CASE ~NullifierUnused(req[p].who)
      BY <1>8, <1>10, <2>1, <2>3 DEF SaveVote
    <2> QED BY <2>2, <2>3
  <1>11. ASSUME NEW p \in Procs, AppendEvent(p)
         PROVE  RequestStep(p)
    <2>1. Records(p)
      BY <1>11, ReturnFacts DEF AppendEvent, Records
    <2> QED BY <1>11, <2>1 DEF AppendEvent, Records, RequestStep, OthersStay, LogsEvent
  <1>12. ASSUME NEW p \in Procs, SavePoll(p)
         PROVE  RequestStep(p)
    <2>1. /\ req[p].pc = "savePoll" /\ req[p].op # "cast" /\ req[p].rec # NoPoll
          /\ poll' = req[p].rec
          /\ UNCHANGED <<votes, events>>
          /\ LogOrReturn(p)
      BY <1>12 DEF SavePoll, InHandler, HoldsRecord
    <2>2. /\ req'[p].rec = NoPoll
          /\ req'[p].pc \in {"idle", "appendEvent"}
          /\ req'[p].pc = "idle" => req'[p] = Idle
          /\ req'[p].pc = "appendEvent" => req'[p].op = req[p].op
          /\ \A q \in Procs \ {p} : req'[q] = req[q]
      BY <2>1, LogOrReturnFacts
    <2>3. req[p].op = "register" => req'[p].pc = "appendEvent"
      BY <2>1 DEF LogOrReturn, Appends, TypeOK, Request
    <2> QED BY <2>1, <2>2, <2>3 DEF RequestStep, OthersStay, SavesPoll
  <1>13. ASSUME NEW p \in Procs,
                AggregateAccepted(p) \/ ListVotes(p) \/ SaveHomomorphicTally(p)
         PROVE  RequestStep(p)
    <2>1. req[p] \in Request /\ req \in [Procs -> Request]
      BY DEF TypeOK
    <2>2. req[p].op = "aggregate" /\ req[p].rec # NoPoll /\ req[p].pc # "idle"
            /\ UNCHANGED <<poll, votes, events>>
      BY <1>13 DEF AggregateAccepted, ListVotes, SaveHomomorphicTally, InHandler, HoldsRecord, files
    <2>3. req[p].rec \in PollRecord
      BY <2>1, <2>2 DEF Request
    <2>4. Closed(req[p].rec).commitments = req[p].rec.commitments
            /\ Closed(req[p].rec).sigs = req[p].rec.sigs
      BY <2>3 DEF Closed, PollRecord
    <2>5. /\ req'[p].op = "aggregate"
          /\ req'[p].pc \in {"listVotes", "saveTally", "savePoll"}
          /\ req'[p].rec = req[p].rec \/ req'[p].rec = Closed(req[p].rec)
          /\ \A q \in Procs \ {p} : req'[q] = req[q]
      <3>1. CASE AggregateAccepted(p)
        BY <2>1, <2>2, <3>1 DEF AggregateAccepted, Request
      <3>2. CASE ListVotes(p)
        BY <2>1, <2>2, <3>2 DEF ListVotes, Request
      <3>3. CASE SaveHomomorphicTally(p)
        BY <2>1, <2>2, <3>3 DEF SaveHomomorphicTally, Request
      <3> QED BY <1>13, <3>1, <3>2, <3>3
    <2> QED BY <2>2, <2>4, <2>5 DEF RequestStep, OthersStay, GoesOn
  <1>14. CASE Expire \/ UNCHANGED vars
    BY <1>14 DEF Expire, files, vars
  <1> QED
    BY <1>2, <1>3, <1>4, <1>5, <1>6, <1>7, <1>9, <1>10, <1>11, <1>12, <1>13, <1>14
       DEF Next, Continue, Fault

-----------------------------------------------------------------------------
(* One request at a time. *)

\* Never two requests between their first and their last store call.
OneAtATime == \A p, q \in Procs : req[p].pc # "idle" /\ req[q].pc # "idle" => p = q

\* A goroutine between requests has forgotten the last one.
IdleHoldsNothing == \A p \in Procs : req[p].pc = "idle" => req[p] = Idle

\* Faults are counted and the count never goes back.
LEMMA NoFaultBefore ==
    ASSUME TypeOK, [Next]_vars, NoFault'
    PROVE  NoFault /\ ~Fault
  <1>1. faults \in Nat
    BY FaultsAssumption DEF TypeOK
  <1>2. ~Fault
    BY <1>1 DEF Fault, Crash, WriteFails, NoFault
  <1>3. UNCHANGED faults
    BY <1>2 DEF Fault, Next, Continue, CreatePoll, RegisterVoter, SignRegistryRoot, ClosePoll,
                AutoClose, CastVote, Aggregate, PassCastGate, RefuseCast, SaveVote,
                AppendEvent, SavePoll, AggregateExisting, AggregateRefused,
                AggregateAccepted, ListVotes, SaveHomomorphicTally, Expire, vars
  <1> QED BY <1>2, <1>3 DEF NoFault

\* While one request runs at a time, the others are idle before and after its step.
LEMMA OneRequestSteps ==
    ASSUME Shape, [Next]_vars, OneAtATime, OneAtATime'
    PROVE  \/ Fault
           \/ UNCHANGED <<poll, votes, events, req>>
           \/ \E p \in Procs :
                /\ RequestStep(p)
                /\ \A q \in Procs \ {p} : req[q].pc = "idle" /\ req'[q] = req[q]
  <1>1. ASSUME NEW p \in Procs, RequestStep(p), NEW q \in Procs \ {p}
        PROVE  req[q].pc = "idle"
    <2>1. req[p].pc # "idle" \/ req'[p].pc # "idle"
      BY <1>1 DEF RequestStep, Begins
    <2>2. req'[q] = req[q]
      BY <1>1 DEF RequestStep, OthersStay
    <2> QED BY <2>1, <2>2 DEF OneAtATime
  <1> QED BY <1>1, RequestSteps DEF RequestStep, OthersStay

\* Handlers keep nothing for the next request, and a fault leaves nothing.
LEMMA IdleHoldsNothingStep ==
    ASSUME Shape, IdleHoldsNothing, [Next]_vars
    PROVE  IdleHoldsNothing'
  <1>1. CASE Fault
    BY <1>1, FaultFacts DEF IdleHoldsNothing, Shape
  <1>2. CASE UNCHANGED req
    BY <1>2 DEF IdleHoldsNothing
  <1>3. ASSUME NEW p \in Procs, RequestStep(p)
        PROVE  IdleHoldsNothing'
    <2>1. req'[p].pc = "idle" => req'[p] = Idle
      BY <1>3 DEF RequestStep, Begins, PassesGate, GoesOn, SavesVote, SavesPoll,
                  LogsEvent, Records, Returns
    <2> QED BY <1>3, <2>1 DEF RequestStep, OthersStay, IdleHoldsNothing
  <1> QED BY <1>1, <1>2, <1>3, RequestSteps

-----------------------------------------------------------------------------
(* The slots. *)

\* The registrations in the log.
Registrations == {i \in DOMAIN events : events[i].action = "registerVoter"}

\* A registration and a logged ballot are the two sides of a slot's life; a cast
\* past the gate still finds its slot; a stored ballot is logged or about to be.
SlotsAccount ==
    /\ IsFiniteSet(votes)
    /\ Replay(events).slots + Cardinality(Logged) = Cardinality(Registrations)
    /\ \A p \in Procs :
         req[p].op = "cast" /\ req[p].pc \in {"saveVote", "appendEvent"}
           => Replay(events).slots >= 1
    /\ \A v \in votes : v \in Logged \/ \E p \in Procs : Logging(p) /\ req[p].who = v

\* A log has finitely many registrations.
LEMMA RegistrationsFinite ==
    ASSUME Shape
    PROVE  /\ IsFiniteSet(Registrations)
           /\ Cardinality(Registrations) \in Nat
  <1>1. DOMAIN events = 1..Len(events) /\ Len(events) \in Nat
    BY LenProperties DEF Shape, TypeOK
  <1>2. IsFiniteSet(1..Len(events))
    BY <1>1, FS_Interval
  <1>3. Registrations \subseteq 1..Len(events)
    BY <1>1 DEF Registrations
  <1> QED BY <1>2, <1>3, FS_Subset, FS_CardinalityType

\* AppendEvent adds a registration exactly when its event is one.
LEMMA RegistrationsAfterAppend ==
    ASSUME Shape, NEW e \in Event, events' = Append(events, e)
    PROVE  Cardinality(Registrations') = Cardinality(Registrations)
             + (IF e.action = "registerVoter" THEN 1 ELSE 0)
  <1>1. /\ DOMAIN events' = DOMAIN events \cup {Len(events) + 1}
        /\ Len(events) + 1 \notin DOMAIN events
        /\ events'[Len(events) + 1] = e
        /\ \A i \in DOMAIN events : events'[i] = events[i]
    BY LoggedAfterAppend DEF Shape, TypeOK
  <1>2. Registrations' = IF e.action = "registerVoter"
                           THEN Registrations \cup {Len(events) + 1} ELSE Registrations
    BY <1>1 DEF Registrations
  <1>3. Len(events) + 1 \notin Registrations
    BY <1>1 DEF Registrations
  <1>4. Cardinality(Registrations \cup {Len(events) + 1}) = Cardinality(Registrations) + 1
    BY <1>3, RegistrationsFinite, FS_AddElement
  <1> QED BY <1>2, <1>4, RegistrationsFinite

\* What an event does to the slots, when a cast finds one.
LEMMA FireSlots ==
    ASSUME NEW m \in Marking, NEW e \in Event, e.action = "castVote" => CastVoteEnabled(m)
    PROVE  Fire(m, e).slots = CASE e.action = "registerVoter" -> m.slots + 1
                                [] e.action = "castVote" -> m.slots - 1
                                [] OTHER -> m.slots
  BY DEF Fire, Arcs, Marking

\* Every store call keeps the account of the slots: a cast takes its slot when its
\* event is logged, and no other request runs between the gate and that event.
LEMMA SlotsAccountStep ==
    ASSUME Shape, LogOnce, SlotsAccount, [Next]_vars, OneAtATime, OneAtATime', ~Fault
    PROVE  SlotsAccount'
  <1>1. CASE UNCHANGED <<votes, events, req>>
    BY <1>1 DEF SlotsAccount, Registrations, Logged, LoggedAt, Logging
  <1>2. ASSUME NEW p \in Procs, RequestStep(p),
               \A q \in Procs \ {p} : req[q].pc = "idle" /\ req'[q] = req[q]
        PROVE  SlotsAccount'
    <2> DEFINE m == Replay(events)
    <2>1. /\ m \in Marking /\ m.slots \in Nat
          /\ events \in Seq(Event)
          /\ IsFiniteSet(votes) /\ IsFiniteSet(Logged) /\ Cardinality(Logged) \in Nat
      BY ReplayType, LoggedFinite DEF Shape, TypeOK, Marking, LogOnce, SlotsAccount
    <2>2. ASSUME UNCHANGED events
          PROVE  Logged' = Logged /\ Registrations' = Registrations
      BY <2>2 DEF Logged, LoggedAt, Registrations
    <2>3. \A q \in Procs : ~(q = p) => ~Logging(q) /\ ~Logging(q)'
      BY <1>2 DEF Logging
    <2>4. ASSUME UNCHANGED <<votes, events>>,
                 req'[p].op = "cast" /\ req'[p].pc \in {"saveVote", "appendEvent"}
                   => m.slots >= 1,
                 ~Logging(p)
          PROVE  SlotsAccount'
      <3>1. \A v \in votes : v \in Logged
        BY <2>3, <2>4 DEF SlotsAccount
      <3> QED BY <1>2, <2>2, <2>4, <3>1 DEF SlotsAccount
    <2>5. CASE Begins(p) /\ req[p].pc = "idle"
      BY <2>4, <2>5 DEF Begins, Logging
    <2>6. CASE PassesGate(p)
      <3>1. m.slots >= 1
        BY <2>6 DEF PassesGate, CastVoteEnabled
      <3> HIDE DEF m
      <3> QED BY <2>4, <2>6, <3>1 DEF PassesGate, Logging
    <2>7. CASE GoesOn(p)
      BY <2>4, <2>7 DEF GoesOn, Logging
    <2>8. CASE Returns(p)
      BY <2>4, <2>8 DEF Returns, Logging, Idle
    <2>9. CASE SavesPoll(p)
      <3>1. ~(req'[p].op = "cast" /\ req'[p].pc \in {"saveVote", "appendEvent"})
        BY <2>9 DEF SavesPoll, Idle
      <3> HIDE DEF m
      <3> QED BY <2>4, <2>9, <3>1 DEF SavesPoll, Logging
    <2>10. CASE SavesVote(p)
      <3>1. /\ req[p].pc = "saveVote" /\ req[p].op = "cast"
            /\ votes' = votes \cup {req[p].who}
            /\ events' = events
            /\ req'[p].op = "cast" /\ req'[p].pc = "appendEvent" /\ req'[p].who = req[p].who
        BY <2>10 DEF SavesVote, Stores
      <3>2. IsFiniteSet(votes')
        BY <2>1, <3>1, FS_AddElement
      <3>3. m.slots >= 1
        BY <3>1 DEF SlotsAccount
      <3>4. ~Logging(p) /\ Logging(p)'
        BY <3>1 DEF Logging
      <3>5. \A v \in votes' : v \in Logged \/ v = req'[p].who
        BY <2>3, <3>1, <3>4 DEF SlotsAccount
      <3>6. m.slots + Cardinality(Logged) = Cardinality(Registrations)
        BY DEF SlotsAccount
      <3> HIDE DEF m
      <3>7. Replay(events)' = m
        BY <3>1 DEF m
      <3> QED BY <1>2, <2>2, <3>1, <3>2, <3>3, <3>4, <3>5, <3>6, <3>7 DEF SlotsAccount
    <2>11. CASE LogsEvent(p)
      <3> DEFINE e == EventOf(req[p])
      <3>1. /\ e \in Event /\ events' = Append(events, e) /\ votes' = votes
            /\ req[p].pc = "appendEvent" /\ req'[p] = Idle
        BY <2>11, EventType DEF LogsEvent, Records, Shape, TypeOK
      <3>2. e.action = "castVote" <=> Logging(p)
        BY <3>1 DEF EventOf, Logging
      <3>3. Logging(p) => e.who = req[p].who /\ e.who \notin Logged /\ m.slots >= 1
        BY DEF LogOnce, EventOf, Logging, SlotsAccount
      <3> HIDE DEF e
      <3>4. Logged' = IF e.action = "castVote" THEN Logged \cup {e.who} ELSE Logged
        BY <2>1, <3>1, LoggedAfterAppend
      <3>5. Cardinality(Logged') = Cardinality(Logged) + (IF e.action = "castVote" THEN 1 ELSE 0)
        <4>1. e.action = "castVote" => Cardinality(Logged \cup {e.who}) = Cardinality(Logged) + 1
          BY <2>1, <3>2, <3>3, FS_AddElement
        <4> QED BY <2>1, <3>4, <4>1
      <3>6. Cardinality(Registrations') = Cardinality(Registrations)
              + (IF e.action = "registerVoter" THEN 1 ELSE 0)
        BY <3>1, RegistrationsAfterAppend
      <3>7. Replay(events') = Fire(m, e)
        BY <2>1, <3>1, ReplayAppend
      <3>8. Fire(m, e).slots = CASE e.action = "registerVoter" -> m.slots + 1
                                 [] e.action = "castVote" -> m.slots - 1
                                 [] OTHER -> m.slots
        <4>1. e.action = "castVote" => CastVoteEnabled(m)
          BY <3>2, <3>3 DEF CastVoteEnabled
        <4>2. m \in Marking /\ e \in Event
          BY <2>1, <3>1
        <4> HIDE DEF m
        <4> QED BY <4>1, <4>2, FireSlots
      <3>9. m.slots + Cardinality(Logged) = Cardinality(Registrations)
        BY DEF SlotsAccount
      <3> HIDE DEF m
      <3>10. Replay(events').slots + Cardinality(Logged') = Cardinality(Registrations')
        <4>1. Cardinality(Registrations) \in Nat
          BY RegistrationsFinite
        <4>2. CASE e.action = "registerVoter"
          BY <2>1, <3>5, <3>6, <3>7, <3>8, <3>9, <4>1, <4>2
        <4>3. CASE e.action = "castVote"
          BY <2>1, <3>5, <3>6, <3>7, <3>8, <3>9, <4>1, <4>3
        <4>4. CASE e.action \notin {"registerVoter", "castVote"}
          BY <2>1, <3>5, <3>6, <3>7, <3>8, <3>9, <4>1, <4>4
        <4> QED BY <4>2, <4>3, <4>4
      <3>11. \A v \in votes : v \in Logged'
        BY <2>3, <3>2, <3>3, <3>4 DEF SlotsAccount
      <3>12. \A q \in Procs : ~(req'[q].op = "cast" /\ req'[q].pc \in {"saveVote", "appendEvent"})
        BY <1>2, <3>1 DEF Idle
      <3> QED BY <2>1, <3>1, <3>10, <3>11, <3>12 DEF SlotsAccount
    <2> QED BY <1>2, <2>5, <2>6, <2>7, <2>8, <2>9, <2>10, <2>11 DEF RequestStep
  <1> QED BY <1>1, <1>2, OneRequestSteps

\* No log, no slots, no registrations.
LEMMA SlotsAccountInit ==
    ASSUME Init
    PROVE  SlotsAccount
  <1>1. votes = {} /\ events = <<>> /\ \A p \in Procs : req[p] = Idle
    BY DEF Init
  <1>2. Logged = {} /\ Registrations = {}
    BY <1>1 DEF Logged, Registrations
  <1>3. Replay(events).slots = 0
    BY <1>1, ReplayEmpty DEF EmptyMarking
  <1> QED BY <1>1, <1>2, <1>3, FS_EmptySet DEF SlotsAccount, Idle

\* The ballots fit the registrations: those logged have used their slots, and
\* the one about to be logged still has its own.
LEMMA OneVoteFits ==
    ASSUME Shape, LogOnce, SlotsAccount, OneAtATime
    PROVE  OneVotePerRegistration
  <1>1. /\ Logged \subseteq votes
        /\ IsFiniteSet(Logged) /\ Cardinality(Logged) \in Nat
        /\ Cardinality(votes) \in Nat /\ Cardinality(Registrations) \in Nat
        /\ Replay(events).slots \in Nat
    BY LoggedFinite, RegistrationsFinite, ReplayType
       DEF Shape, TypeOK, LogOnce, SlotsAccount, Marking
  <1>2. Replay(events).slots + Cardinality(Logged) = Cardinality(Registrations)
    BY DEF SlotsAccount
  <1>3. ASSUME NEW p \in Procs, Logging(p)
        PROVE  Cardinality(votes) <= Cardinality(Registrations)
    <2>1. \A q \in Procs : Logging(q) => q = p
      BY <1>3 DEF OneAtATime, Logging
    <2>2. votes = Logged \cup {req[p].who} /\ req[p].who \notin Logged
      BY <1>1, <1>3, <2>1 DEF SlotsAccount, LogOnce
    <2>3. Cardinality(votes) = Cardinality(Logged) + 1
      BY <1>1, <2>2, FS_AddElement
    <2>4. Replay(events).slots >= 1
      BY <1>3 DEF SlotsAccount, Logging
    <2> QED BY <1>1, <1>2, <2>3, <2>4
  <1>4. CASE \A p \in Procs : ~Logging(p)
    <2>1. votes = Logged
      BY <1>1, <1>4 DEF SlotsAccount
    <2> QED BY <1>1, <1>2, <2>1 DEF OneVotePerRegistration, Registrations
  <1> QED BY <1>3, <1>4 DEF OneVotePerRegistration, Registrations

\* As long as requests run one at a time, and until a write fails or the server
\* dies, no more ballots are stored than voters were registered through the server:
\* the slot gate of handleCastVote does "enforce the one vote per registration
\* invariant".
THEOREM OneVoteEach == Spec /\ []OneAtATime => []OneVotePerRegistration
  <1> DEFINE I == Shape /\ LogOnce /\ (NoFault => SlotsAccount)
  <1>1. Init => I
    BY InitShape, LogOnceInit, SlotsAccountInit
  <1>2. I /\ OneAtATime /\ OneAtATime' /\ [Next]_vars => I'
    BY ShapeStep, LogOnceStep, SlotsAccountStep, NoFaultBefore DEF Shape
  <1>3. I /\ OneAtATime => OneVotePerRegistration
    BY OneVoteFits DEF OneVotePerRegistration
  <1> QED BY <1>1, <1>2, <1>3, PTL DEF Spec

-----------------------------------------------------------------------------
(* The registry and its signature log. *)

Registering(p) == req[p].op = "register" /\ req[p].pc = "appendEvent"

\* The record a request holds is the file's, up to the request's own change.
UpToDate(r) ==
    LET known == Len(r.rec.commitments) IN
    /\ r.op = "create"   => poll = NoPoll /\ known = 0
    /\ r.op # "create"   => poll # NoPoll
    /\ r.op = "register" => known = Len(poll.commitments) + 1
    /\ r.op \notin {"create", "register"} => known = Len(poll.commitments)

\* Every commitment is in the log, but the one about to be logged.
RegistryAccount ==
    /\ poll = NoPoll => Cardinality(Registrations) = 0
    /\ poll # NoPoll =>
         Len(poll.commitments) = Cardinality(Registrations)
           + (IF \E p \in Procs : Registering(p) THEN 1 ELSE 0)
    /\ \A p \in Procs : Registering(p) => poll # NoPoll
    /\ \A p \in Procs : req[p].rec # NoPoll => UpToDate(req[p])

\* No request holds a signature log that lacks a signature of the file's.
SignaturesKept ==
    \A p \in Procs :
        poll # NoPoll /\ req[p].rec # NoPoll => IsPrefix(poll.sigs, req[p].rec.sigs)

\* Every store call keeps the account of the registry: a registration adds its
\* commitment to the list it has read, and that is still the list on disk.
LEMMA RegistryAccountStep ==
    ASSUME Shape, NothingYet, IdleHoldsNothing, RegistryAccount, PreRegs = {<<>>},
           [Next]_vars, OneAtATime, OneAtATime', Shape', ~Fault
    PROVE  RegistryAccount'
  <1>0. /\ Cardinality(Registrations) \in Nat
        /\ poll # NoPoll => poll \in PollRecord /\ Len(poll.commitments) \in Nat
    BY RegistrationsFinite, LenProperties DEF Shape, TypeOK, PollRecord
  <1>1. CASE UNCHANGED <<poll, events, req>>
    BY <1>1 DEF RegistryAccount, Registrations, Registering, UpToDate
  <1>2. ASSUME NEW p \in Procs, RequestStep(p),
               \A q \in Procs \ {p} : req[q].pc = "idle" /\ req'[q] = req[q]
        PROVE  RegistryAccount'
    <2>1. ASSUME NEW q \in Procs, q # p
          PROVE  /\ ~Registering(q) /\ ~Registering(q)'
                 /\ req[q].rec = NoPoll /\ req'[q].rec = NoPoll
      BY <1>2, <2>1 DEF IdleHoldsNothing, Registering, Idle
    <2>2. ASSUME UNCHANGED <<poll, events>>, ~Registering(p), ~Registering(p)',
                 req'[p].rec # NoPoll => UpToDate(req'[p])
          PROVE  RegistryAccount'
      <3>1. Registrations' = Registrations
        BY <2>2 DEF Registrations
      <3>2. \A q \in Procs : ~Registering(q) /\ ~Registering(q)'
        BY <2>1, <2>2
      <3>3. \A q \in Procs : req'[q].rec # NoPoll => UpToDate(req[q])'
        BY <2>1, <2>2 DEF UpToDate
      <3> QED BY <2>2, <3>1, <3>2, <3>3 DEF RegistryAccount
    <2>3. CASE Begins(p) /\ req[p].pc = "idle"
      <3>1. ~Registering(p) /\ ~Registering(p)' /\ UNCHANGED <<poll, events>>
        BY <2>3 DEF Begins, Registering
      <3>2. CASE req'[p].op = "create"
        <4>1. ~created /\ req'[p].rec.commitments = <<>>
          BY <2>3, <3>2 DEF Begins, Reads
        <4>2. poll = NoPoll
          BY <4>1 DEF NothingYet
        <4>3. UpToDate(req'[p])
          BY <3>2, <4>1, <4>2 DEF UpToDate
        <4> QED BY <2>2, <3>1, <4>3
      <3>3. CASE req'[p].op = "register"
        <4>1. PICK v \in Voters : poll # NoPoll /\ req'[p].rec = WithVoter(poll, v)
          BY <2>3, <3>3 DEF Begins, Reads
        <4>2. poll \in PollRecord /\ poll.commitments \in Seq(Voters)
          BY <1>0, <4>1 DEF PollRecord
        <4>3. req'[p].rec.commitments = Append(poll.commitments, v)
          BY <4>1, <4>2 DEF WithVoter, PollRecord
        <4>4. Len(req'[p].rec.commitments) = Len(poll.commitments) + 1
          BY <4>2, <4>3, AppendProperties
        <4>5. UpToDate(req'[p])
          BY <3>3, <4>1, <4>4 DEF UpToDate
        <4> QED BY <2>2, <3>1, <4>5
      <3>4. CASE req'[p].op \notin {"create", "register"}
        <4>1. poll # NoPoll /\ req'[p].rec.commitments = poll.commitments
          BY <2>3, <3>4 DEF Begins, Reads
        <4>2. UpToDate(req'[p])
          BY <1>0, <3>4, <4>1 DEF UpToDate
        <4> QED BY <2>2, <3>1, <4>2
      <3> QED BY <3>2, <3>3, <3>4
    <2>4. CASE PassesGate(p)
      BY <2>2, <2>4 DEF PassesGate, Registering
    <2>5. CASE GoesOn(p)
      <3>1. UpToDate(req[p])
        BY <2>5 DEF GoesOn, RegistryAccount
      <3>2. UpToDate(req'[p])
        BY <2>5, <3>1 DEF GoesOn, UpToDate
      <3> QED BY <2>2, <2>5, <3>2 DEF GoesOn, Registering
    <2>6. CASE Returns(p)
      BY <2>2, <2>6 DEF Returns, Registering, Idle
    <2>7. CASE SavesVote(p)
      <3>1. req[p].op = "cast" /\ req'[p].op = "cast" /\ UNCHANGED <<poll, events>> /\ req'[p].rec = NoPoll
        BY <2>7 DEF SavesVote, Stores
      <3> QED BY <2>2, <3>1 DEF Registering
    <2>8. CASE SavesPoll(p)
      <3>1. /\ poll' = req[p].rec /\ poll' # NoPoll /\ events' = events
            /\ req'[p].rec = NoPoll /\ req[p].pc = "savePoll"
            /\ UpToDate(req[p])
        BY <2>8 DEF SavesPoll, RegistryAccount
      <3>2. Registrations' = Registrations
        BY <3>1 DEF Registrations
      <3>3. \A q \in Procs : ~Registering(q)
        BY <2>1, <3>1 DEF Registering
      <3>4. (\E q \in Procs : Registering(q)') <=> req[p].op = "register"
        BY <2>1, <2>8 DEF SavesPoll, Registering, Idle
      <3>5. Len(poll'.commitments) = Cardinality(Registrations) + (IF req[p].op = "register" THEN 1 ELSE 0)
        <4>1. CASE req[p].op = "create"
          BY <3>1, <4>1 DEF UpToDate, RegistryAccount
        <4>2. CASE req[p].op # "create"
          <5>1. poll # NoPoll /\ Len(poll.commitments) = Cardinality(Registrations)
            BY <1>0, <3>1, <3>3, <4>2 DEF UpToDate, RegistryAccount
          <5> QED BY <1>0, <3>1, <4>2, <5>1 DEF UpToDate
        <4> QED BY <4>1, <4>2
      <3>6. \A q \in Procs : req'[q].rec = NoPoll
        BY <2>1, <3>1
      <3> QED BY <3>1, <3>2, <3>4, <3>5, <3>6 DEF RegistryAccount
    <2>9. CASE LogsEvent(p)
      <3> DEFINE e == EventOf(req[p])
      <3>1. /\ e \in Event /\ events' = Append(events, e) /\ poll' = poll
            /\ req[p].pc = "appendEvent" /\ req'[p] = Idle
        BY <2>9, EventType DEF LogsEvent, Records, Shape, TypeOK
      <3>2. e.action = "registerVoter" <=> Registering(p)
        BY <3>1 DEF EventOf, Registering
      <3> HIDE DEF e
      <3>3. Cardinality(Registrations') = Cardinality(Registrations)
              + (IF e.action = "registerVoter" THEN 1 ELSE 0)
        BY <3>1, RegistrationsAfterAppend
      <3>4. \A q \in Procs : ~Registering(q)' /\ req'[q].rec = NoPoll
        BY <2>1, <3>1 DEF Registering, Idle
      <3>5. (\E q \in Procs : Registering(q)) <=> Registering(p)
        BY <2>1
      <3>6. poll = NoPoll => Cardinality(Registrations') = 0
        BY <3>2, <3>3, <1>0 DEF RegistryAccount
      <3>7. poll # NoPoll => Len(poll.commitments) = Cardinality(Registrations')
        BY <1>0, <3>2, <3>3, <3>5 DEF RegistryAccount
      <3> QED BY <1>0, <3>1, <3>4, <3>6, <3>7 DEF RegistryAccount
    <2> QED BY <1>2, <2>3, <2>4, <2>5, <2>6, <2>7, <2>8, <2>9 DEF RequestStep
  <1> QED BY <1>1, <1>2, OneRequestSteps

\* No poll, no registrations.
LEMMA RegistryAccountInit ==
    ASSUME Init
    PROVE  RegistryAccount
  <1>1. events = <<>> /\ poll = NoPoll /\ \A p \in Procs : req[p] = Idle
    BY DEF Init
  <1>2. Registrations = {}
    BY <1>1 DEF Registrations
  <1> QED BY <1>1, <1>2, FS_EmptySet DEF RegistryAccount, Registering, Idle

\* With every request returned, no ballot and no registration waits for its event.
LEMMA SlotsTrackAtRest ==
    ASSUME Shape, LogOnce, SlotsAccount, RegistryAccount
    PROVE  SlotsTrackRegistry
  <1> SUFFICES ASSUME poll # NoPoll, \A p \in Procs : req[p].pc = "idle"
               PROVE  Replay(events).slots + Cardinality(votes) = Len(poll.commitments)
    BY DEF SlotsTrackRegistry
  <1>1. \A p \in Procs : ~Logging(p) /\ ~Registering(p)
    BY DEF Logging, Registering
  <1>2. votes = Logged
    <2>1. Logged \subseteq votes
      BY LoggedFinite DEF Shape, TypeOK, LogOnce, SlotsAccount
    <2> QED BY <1>1, <2>1 DEF SlotsAccount
  <1>3. Len(poll.commitments) = Cardinality(Registrations)
    BY <1>1, RegistrationsFinite DEF RegistryAccount
  <1> QED BY <1>2, <1>3 DEF SlotsAccount

\* As long as requests run one at a time and polls are created without commitments,
\* and until a write fails or the server dies, the replayed slots count the registered
\* voters that have not voted whenever no request is in flight, as the vote template
\* says of registrySlots.
THEOREM SlotsTrack ==
    ASSUME PreRegs = {<<>>}
    PROVE  Spec /\ []OneAtATime => []SlotsTrackRegistry
  <1> DEFINE I == /\ Shape /\ NothingYet /\ LogOnce /\ IdleHoldsNothing
                  /\ NoFault => SlotsAccount /\ RegistryAccount
  <1>1. Init => I
    BY InitShape, NothingYetInit, LogOnceInit, SlotsAccountInit, RegistryAccountInit
       DEF Init, IdleHoldsNothing
  <1>2. I /\ OneAtATime /\ OneAtATime' /\ [Next]_vars => I'
    BY ShapeStep, NothingYetStep, LogOnceStep, IdleHoldsNothingStep, SlotsAccountStep,
       RegistryAccountStep, NoFaultBefore DEF Shape
  <1>3. I => SlotsTrackRegistry
    BY SlotsTrackAtRest DEF SlotsTrackRegistry
  <1> QED BY <1>1, <1>2, <1>3, PTL DEF Spec

-----------------------------------------------------------------------------
(* The signature log only grows. *)

\* A sequence is a prefix of itself.
LEMMA PrefixItself ==
    ASSUME NEW S, NEW s \in Seq(S)
    PROVE  IsPrefix(s, s)
  BY LenProperties DEF IsPrefix

\* Appending keeps what was there.
LEMMA PrefixOfAppend ==
    ASSUME NEW S, NEW s \in Seq(S), NEW e \in S
    PROVE  IsPrefix(s, Append(s, e))
  BY LenProperties, AppendProperties DEF IsPrefix

\* A signed record keeps the signatures it had.
LEMMA SignedKeeps ==
    ASSUME NEW rec \in PollRecord
    PROVE  IsPrefix(rec.sigs, rec.sigs) /\ IsPrefix(rec.sigs, Signed(rec).sigs)
  <1> DEFINE sig == [root |-> RegistryRoot(rec), count |-> Len(rec.commitments)]
  <1>1. rec.sigs \in Seq(RootSig) /\ rec.commitments \in Seq(Voters)
    BY DEF PollRecord
  <1>2. sig \in RootSig
    BY <1>1, LenProperties DEF RootSig, RegistryRoot
  <1>3. Signed(rec).sigs = Append(rec.sigs, sig)
    BY DEF Signed, PollRecord
  <1> HIDE DEF sig
  <1> QED BY <1>1, <1>2, <1>3, PrefixItself, PrefixOfAppend

\* A request starts from the record on disk and nobody else signs before it saves.
LEMMA SignaturesKeptStep ==
    ASSUME Shape, NothingYet, IdleHoldsNothing, SignaturesKept,
           [Next]_vars, OneAtATime, OneAtATime'
    PROVE  SignaturesKept'
  <1>1. CASE UNCHANGED <<poll, req>>
    BY <1>1 DEF SignaturesKept
  <1>2. ASSUME NEW p \in Procs, RequestStep(p),
               \A q \in Procs \ {p} : req[q].pc = "idle" /\ req'[q] = req[q]
        PROVE  SignaturesKept'
    <2>1. \A q \in Procs \ {p} : req'[q].rec = NoPoll
      BY <1>2 DEF IdleHoldsNothing, Idle
    <2>2. ASSUME poll' = poll,
                 poll # NoPoll /\ req'[p].rec # NoPoll => IsPrefix(poll.sigs, req'[p].rec.sigs)
          PROVE  SignaturesKept'
      BY <2>1, <2>2 DEF SignaturesKept
    <2>3. CASE Begins(p)
      <3>1. CASE req'[p].op = "create"
        BY <2>2, <2>3, <3>1 DEF Begins, Reads, NothingYet
      <3>2. CASE req'[p].op # "create"
        <4>1. poll \in PollRecord
          BY <2>3, <3>2 DEF Begins, Reads, Shape, TypeOK
        <4>2. req'[p].rec.sigs = poll.sigs \/ req'[p].rec.sigs = Signed(poll).sigs
          BY <2>3, <3>2 DEF Begins, Reads
        <4>3. IsPrefix(poll.sigs, req'[p].rec.sigs)
          BY <4>1, <4>2, SignedKeeps
        <4> QED BY <2>2, <2>3, <4>3 DEF Begins
      <3> QED BY <3>1, <3>2
    <2>4. CASE GoesOn(p)
      BY <2>2, <2>4 DEF GoesOn, SignaturesKept
    <2>5. CASE PassesGate(p) \/ SavesVote(p) \/ LogsEvent(p) \/ Returns(p)
      BY <2>2, <2>5 DEF PassesGate, SavesVote, LogsEvent, Records, Returns, Idle
    <2>6. CASE SavesPoll(p)
      BY <2>1, <2>6 DEF SavesPoll, SignaturesKept
    <2> QED BY <1>2, <2>3, <2>4, <2>5, <2>6 DEF RequestStep
  <1>3. CASE Fault
    <2>1. PICK p \in Procs : StopShort(p) /\ req'[p] = Idle
      BY <1>3, FaultFacts DEF Shape
    <2>2. \A q \in Procs : req'[q].rec = NoPoll \/ req'[q].rec = req[q].rec
      BY <1>3, FaultFacts DEF Shape, Idle
    <2>3. CASE poll' = poll
      BY <2>2, <2>3 DEF SignaturesKept
    <2>4. CASE req[p].pc = "savePoll"
      <3>1. \A q \in Procs \ {p} : req[q].rec = NoPoll
        BY <2>4 DEF OneAtATime, IdleHoldsNothing, Idle
      <3> QED BY <2>1, <2>2, <3>1 DEF SignaturesKept, Idle
    <2> QED BY <2>1, <2>3, <2>4 DEF StopShort, files
  <1> QED BY <1>1, <1>2, <1>3, OneRequestSteps

\* The file's own step: what replaces it keeps its signatures.
LEMMA SignaturesAppended ==
    ASSUME Shape, SignaturesKept, [Next]_vars, OneAtATime, OneAtATime'
    PROVE  poll # NoPoll /\ poll' # NoPoll => IsPrefix(poll.sigs, poll'.sigs)
  <1> SUFFICES ASSUME poll # NoPoll, poll' # NoPoll
               PROVE  IsPrefix(poll.sigs, poll'.sigs)
    OBVIOUS
  <1>1. CASE poll' = poll
    <2>1. poll \in PollRecord
      BY DEF Shape, TypeOK
    <2> QED BY <1>1, <2>1, SignedKeeps
  <1>2. CASE poll' # poll /\ Fault
    <2>1. PICK p \in Procs : StopShort(p)
      BY <1>2, FaultFacts DEF Shape
    <2>2. poll' = req[p].rec
      BY <1>2, <2>1 DEF StopShort, files
    <2> QED BY <2>2 DEF SignaturesKept
  <1>3. CASE poll' # poll /\ ~Fault
    <2>1. PICK p \in Procs : RequestStep(p)
      BY <1>3, OneRequestSteps
    <2>2. SavesPoll(p)
      BY <1>3, <2>1 DEF RequestStep, Begins, PassesGate, GoesOn, SavesVote, LogsEvent, Returns
    <2> QED BY <2>2 DEF SavesPoll, SignaturesKept
  <1> QED BY <1>1, <1>2, <1>3

\* As long as requests run one at a time, the signature log on disk is append-only, as
\* store.Poll says of RegistryRootSigs: no save of a whole record drops or rewrites a
\* signature, whatever crashes and whichever writes fail.
THEOREM SignaturesOnlyAppended == Spec /\ []OneAtATime => SignaturesAppendOnly
  <1> DEFINE I == Shape /\ NothingYet /\ IdleHoldsNothing /\ SignaturesKept
  <1>1. Init => I
    BY InitShape, NothingYetInit DEF Init, IdleHoldsNothing, SignaturesKept
  <1>2. I /\ OneAtATime /\ OneAtATime' /\ [Next]_vars => I'
    BY ShapeStep, NothingYetStep, IdleHoldsNothingStep, SignaturesKeptStep
  <1>3. I /\ OneAtATime /\ OneAtATime' /\ [Next]_vars
          => [poll # NoPoll /\ poll' # NoPoll => IsPrefix(poll.sigs, poll'.sigs)]_vars
    BY SignaturesAppended
  <1> QED BY <1>1, <1>2, <1>3, PTL DEF Spec, SignaturesAppendOnly

-----------------------------------------------------------------------------
(* One goroutine. *)

\* A server that handles one request at a time is one of those the theorems above
\* speak of: the slots and the signature log keep what the comments say of them.
THEOREM OneServesAll ==
    ASSUME \A p, q \in Procs : p = q
    PROVE  Spec => []OneVotePerRegistration /\ SignaturesAppendOnly
  <1>1. TypeOK => OneAtATime
    BY DEF OneAtATime
  <1> QED BY <1>1, TypeCorrect, OneVoteEach, SignaturesOnlyAppended, PTL
===============================================================================
