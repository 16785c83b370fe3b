-------------------------- MODULE RevealTally_proofs -------------------------
(***************************************************************************)
(* Proofs about the reveal phase for every number of voters, options,      *)
(* requests in flight, crashes and failed writes.                          *)
(*                                                                         *)
(* What makes the properties inductive is what a reveal in flight knows of *)
(* its ballot: once the opening has been checked the ballot's file is      *)
(* there and, unless another reveal's failed write tears it, holds that    *)
(* choice; and once it is marked no write of it follows.                   *)
(***************************************************************************)
EXTENDS RevealTally, FiniteSetTheorems, SequenceTheorems, TLAPS

-----------------------------------------------------------------------------
(* The inductive invariant. *)

\* What a request knows of the ballot it reveals, at each of its store calls.
Knows(p) ==
    /\ req[p].op = "reveal" => req[p].bundle \in Bundle
    /\ req[p].pc \in {"revealVote", "saveBundle"} => req[p].op = "reveal"
    /\ req[p].pc = "revealVote" =>
         /\ vote[req[p].bundle.who] # NoVote
         /\ vote[req[p].bundle.who] \in VoteFile =>
              vote[req[p].bundle.who].choice = req[p].bundle.choice
    /\ req[p].pc = "saveBundle" => req[p].bundle.who \in RevealedWith(req[p].bundle.choice)

\* An artifact that counts revealed ballots only and fits its circuit.
Backed(a) ==
    /\ \A b \in Bins : a.tallies[b] <= Cardinality(RevealedWith(b))
    /\ Cardinality(a.listed) <= a.slots
    /\ \A t \in Tiers : t < a.slots => t < Cardinality(a.listed)

\* The artifacts on disk and those about to be written are backed.
ArtifactsBacked ==
    /\ proof # NoProof => Backed(proof)
    /\ \A p \in Procs :
         req[p].pc = "saveProof" => req[p].artifact # NoProof /\ Backed(req[p].artifact)

Shape == TypeOK /\ \A p \in Procs : Knows(p)

Inv == Shape /\ BundlesOpenVotes /\ CountsWithinReveals /\ ArtifactsBacked

-----------------------------------------------------------------------------
(* Requests. *)

LEMMA IdleType == Idle \in Request /\ Idle.op = "none" /\ Idle.pc = "idle"
  BY DEF Idle, Request

\* A step that changes one request leaves the others as they were.
LEMMA OneRequest ==
    ASSUME TypeOK, NEW p \in Procs, NEW r \in Request, req' = [req EXCEPT ![p] = r]
    PROVE  /\ req' \in [Procs -> Request]
           /\ req'[p] = r
           /\ \A q \in Procs \ {p} : req'[q] = req[q]
  BY DEF TypeOK

\* A store call fails, or the server dies in one.
Fault == Crash \/ \E p \in Procs : WriteFails(p)

\* A fault stops one request in its store call and takes the others with it or
\* leaves them alone.
LEMMA FaultFacts ==
    ASSUME TypeOK, Fault
    PROVE  /\ req' \in [Procs -> Request]
           /\ \E p \in Procs : StopShort(p)
           /\ \A q \in Procs : req'[q] \in {Idle, req[q]}
           /\ UNCHANGED closed
           /\ faults' \in 0 .. MaxFaults
  <1>1. CASE Crash
    BY <1>1, IdleType, FaultsAssumption DEF Crash, TypeOK
  <1>2. ASSUME NEW p \in Procs, WriteFails(p)
        PROVE  /\ req' \in [Procs -> Request]
               /\ StopShort(p)
               /\ \A q \in Procs : req'[q] \in {Idle, req[q]}
               /\ UNCHANGED closed
               /\ faults' \in 0 .. MaxFaults
    <2>1. req' = [req EXCEPT ![p] = Idle]
      BY <1>2 DEF WriteFails, Return
    <2>2. /\ req' \in [Procs -> Request]
          /\ req'[p] = Idle
          /\ \A q \in Procs \ {p} : req'[q] = req[q]
      BY <2>1, OneRequest, IdleType
    <2> QED BY <1>2, <2>2, FaultsAssumption DEF WriteFails, TypeOK
  <1> QED BY <1>1, <1>2 DEF Fault

\* A vote file that is marked as revealed keeps its choice.
LEMMA OpenedFacts ==
    ASSUME TypeOK, NEW v \in Voters, Sealed(v), vote' = Opened(v)
    PROVE  /\ vote' \in [Voters -> VoteFile \cup {NoVote, Torn}]
           /\ vote'[v] \in VoteFile
           /\ vote'[v].choice = vote[v].choice
           /\ vote'[v].revealed
           /\ \A u \in Voters \ {v} : vote'[u] = vote[u]
  <1>1. vote[v] \in VoteFile
    BY DEF Sealed
  <1> DEFINE f == [choice |-> vote[v].choice, revealed |-> TRUE]
  <1>2. f \in VoteFile /\ f.choice = vote[v].choice /\ f.revealed
    BY <1>1 DEF VoteFile
  <1>3. vote' = [vote EXCEPT ![v] = f]
    BY DEF Opened
  <1> HIDE DEF f
  <1> QED BY <1>2, <1>3 DEF TypeOK

-----------------------------------------------------------------------------
(* How a step moves the vote files. *)

\* A revealed ballot does not change, and a file that is there stays there: it
\* is readable only if it was, and then its choice is the same.
VoteFlow ==
    \A v \in Voters :
        /\ Revealed(v) => vote'[v] = vote[v]
        /\ vote[v] # NoVote =>
             /\ vote'[v] # NoVote
             /\ vote'[v] \in VoteFile => vote[v] \in VoteFile /\ vote'[v].choice = vote[v].choice

LEMMA VoteFlowStep ==
    ASSUME Shape, [Next]_vars
    PROVE  VoteFlow
  <1> USE DEF Shape
  <1>1. CASE UNCHANGED vote
    BY <1>1 DEF VoteFlow
  <1>2. ASSUME NEW p \in Procs, RevealVote(p), Sealed(req[p].bundle.who)
        PROVE  VoteFlow
    <2>1. req[p].bundle.who \in Voters
      BY <1>2 DEF RevealVote, Knows, Bundle
    <2>2. vote' = Opened(req[p].bundle.who)
      BY <1>2 DEF RevealVote
    <2> QED BY <1>2, <2>1, <2>2, OpenedFacts, VoteFileAssumption DEF VoteFlow, Revealed, Sealed
  <1>3. ASSUME NEW v \in Voters, NEW c \in Options, StoreVote(v, c)
        PROVE  VoteFlow
    <2>1. vote[v] = NoVote /\ \E f : vote' = [vote EXCEPT ![v] = f]
      BY <1>3 DEF StoreVote
    <2> QED BY <2>1, VoteFileAssumption DEF VoteFlow, TypeOK, Revealed
  <1>4. ASSUME Fault
        PROVE  VoteFlow
    <2>1. ASSUME NEW p \in Procs, req[p].pc = "revealVote", Sealed(req[p].bundle.who),
                 \/ vote' = [vote EXCEPT ![req[p].bundle.who] = Torn]
                 \/ vote' = Opened(req[p].bundle.who)
          PROVE  VoteFlow
      <3>1. req[p].bundle.who \in Voters
        BY <2>1 DEF Knows, Bundle
      <3>2. CASE vote' = [vote EXCEPT ![req[p].bundle.who] = Torn]
        BY <2>1, <3>1, <3>2, VoteFileAssumption DEF TypeOK, VoteFlow, Revealed, Sealed
      <3>3. CASE vote' = Opened(req[p].bundle.who)
        BY <2>1, <3>1, <3>3, OpenedFacts, VoteFileAssumption DEF VoteFlow, Revealed, Sealed
      <3> QED BY <2>1, <3>2, <3>3
    <2>2. PICK p \in Procs : StopShort(p)
      BY <1>4, FaultFacts
    <2> QED BY <1>1, <2>1, <2>2 DEF StopShort, files
  <1>5. CASE StatusChanges \/ UNCHANGED vars
    BY <1>1, <1>5 DEF StatusChanges, files, vars
  <1>6. ASSUME NEW p \in Procs, StartReveal(p) \/ StartProof(p) \/ Continue(p)
        PROVE  VoteFlow
    BY <1>1, <1>2, <1>6 DEF StartReveal, StartProof, Continue, FindVote, RefuseReveal,
        RevealVote, SaveRevealBundle, ListVotes, Prove, RefuseProof, SaveTallyProof, files
  <1> QED BY <1>3, <1>4, <1>5, <1>6 DEF Next, Fault

-----------------------------------------------------------------------------
(* Types, and what reveals in flight know. *)

\* What a request knows survives every step that leaves the request alone.
LEMMA KnowsStays ==
    ASSUME Shape, VoteFlow, NEW q \in Procs, req'[q] = req[q]
    PROVE  Knows(q)'
  <1> USE DEF Shape
  <1>1. Knows(q)
    OBVIOUS
  <1>3. ASSUME req[q].pc = "revealVote"
        PROVE  /\ vote'[req[q].bundle.who] # NoVote
               /\ vote'[req[q].bundle.who] \in VoteFile =>
                    vote'[req[q].bundle.who].choice = req[q].bundle.choice
    <2>1. req[q].bundle.who \in Voters
      BY <1>1, <1>3 DEF Knows, Bundle
    <2> QED BY <1>1, <1>3, <2>1 DEF Knows, VoteFlow
  <1>4. ASSUME req[q].pc = "saveBundle"
        PROVE  req[q].bundle.who \in RevealedWith(req[q].bundle.choice)'
    <2>1. req[q].bundle.who \in RevealedWith(req[q].bundle.choice)
      BY <1>1, <1>4 DEF Knows
    <2> QED BY <2>1 DEF VoteFlow, RevealedWith, Revealed
  <1> QED BY <1>1, <1>3, <1>4 DEF Knows

\* Idle requests know nothing.
LEMMA IdleKnows ==
    ASSUME NEW p \in Procs, req'[p] = Idle
    PROVE  Knows(p)'
  BY DEF Knows, Idle

LEMMA ShapeStep ==
    ASSUME Shape, VoteFlow, [Next]_vars
    PROVE  Shape'
  <1> USE DEF Shape
  <1> SUFFICES TypeOK' /\ \A p \in Procs : Knows(p)'
    OBVIOUS
  <1>1. ASSUME NEW p \in Procs, NEW r \in Request,
               req' = [req EXCEPT ![p] = r], Knows(p)'
        PROVE  req' \in [Procs -> Request] /\ \A q \in Procs : Knows(q)'
    BY <1>1, OneRequest, KnowsStays
  <1>2. ASSUME NEW p \in Procs, Return(p)
        PROVE  req' \in [Procs -> Request] /\ \A q \in Procs : Knows(q)'
    <2>1. req' = [req EXCEPT ![p] = Idle] /\ Idle \in Request
      BY <1>2, IdleType DEF Return
    <2>2. Knows(p)'
      BY <2>1, OneRequest, IdleKnows
    <2> QED BY <1>1, <2>1, <2>2
  <1>3. ASSUME NEW p \in Procs, StartReveal(p)
        PROVE  Shape'
    <2>1. PICK v \in Voters, c \in Options :
            Begin(p, [Idle EXCEPT !.op = "reveal", !.pc = "listVotes",
                                  !.bundle = [who |-> v, choice |-> c]])
      BY <1>3 DEF StartReveal
    <2> DEFINE r == [Idle EXCEPT !.op = "reveal", !.pc = "listVotes",
                                 !.bundle = [who |-> v, choice |-> c]]
    <2>2. r \in Request /\ r.op = "reveal" /\ r.pc = "listVotes" /\ r.bundle \in Bundle
      BY DEF Idle, Request, Bundle
    <2>3. req' = [req EXCEPT ![p] = r]
      BY <2>1 DEF Begin
    <2> HIDE DEF r
    <2>4. Knows(p)'
      BY <2>2, <2>3, OneRequest DEF Knows
    <2> QED BY <1>1, <1>3, <2>2, <2>3, <2>4 DEF StartReveal, TypeOK, files
  <1>4. ASSUME NEW p \in Procs, StartProof(p)
        PROVE  Shape'
    <2> DEFINE r == [Idle EXCEPT !.op = "prove", !.pc = "listVotes"]
    <2>1. r \in Request /\ r.op = "prove" /\ r.pc = "listVotes"
      BY DEF Idle, Request
    <2>2. req' = [req EXCEPT ![p] = r]
      BY <1>4 DEF StartProof, Begin
    <2> HIDE DEF r
    <2>3. Knows(p)'
      BY <2>1, <2>2, OneRequest DEF Knows
    <2> QED BY <1>1, <1>4, <2>1, <2>2, <2>3 DEF StartProof, TypeOK, files
  <1>5. ASSUME NEW p \in Procs, FindVote(p)
        PROVE  Shape'
    <2> DEFINE r == [req[p] EXCEPT !.pc = "revealVote"]
    <2>1. /\ r \in Request /\ r.op = req[p].op /\ r.pc = "revealVote"
          /\ r.bundle = req[p].bundle
      BY DEF TypeOK, Request
    <2>2. req' = [req EXCEPT ![p] = r] /\ UNCHANGED vote
      BY <1>5 DEF FindVote, files
    <2> HIDE DEF r
    <2>3. /\ req[p].op = "reveal"
          /\ req[p].bundle \in Bundle
          /\ vote[req[p].bundle.who] # NoVote
          /\ vote[req[p].bundle.who].choice = req[p].bundle.choice
      BY <1>5, VoteFileAssumption DEF FindVote, Knows, Sealed, Opens
    <2>4. Knows(p)'
      BY <2>1, <2>2, <2>3, OneRequest DEF Knows
    <2> QED BY <1>1, <1>5, <2>1, <2>2, <2>4 DEF FindVote, TypeOK, files
  <1>6. ASSUME NEW p \in Procs, RefuseReveal(p) \/ RefuseProof(p)
        PROVE  Shape'
    BY <1>2, <1>6 DEF RefuseReveal, RefuseProof, TypeOK, files
  <1>7. ASSUME NEW p \in Procs, RevealVote(p), Sealed(req[p].bundle.who)
        PROVE  Shape'
    <2> DEFINE v == req[p].bundle.who
               c == req[p].bundle.choice
               r == [req[p] EXCEPT !.pc = "saveBundle"]
    <2>1. /\ req[p].op = "reveal" /\ req[p].bundle \in Bundle
          /\ vote[v].choice = c
      BY <1>7 DEF RevealVote, Knows, Sealed
    <2>2. v \in Voters /\ c \in Options
      BY <2>1 DEF Bundle
    <2>3. vote' = Opened(v)
      BY <1>7 DEF RevealVote
    <2>4. /\ r \in Request /\ r.op = "reveal" /\ r.pc = "saveBundle"
          /\ r.bundle = req[p].bundle
      BY <2>1 DEF TypeOK, Request
    <2>5. req' = [req EXCEPT ![p] = r]
      BY <1>7 DEF RevealVote
    <2>6. counts' \in [Options -> Nat]
      BY <1>7, <2>2 DEF RevealVote, Counted, TypeOK
    <2> HIDE DEF r
    <2>7. Knows(p)'
      <3>1. vote'[v] \in VoteFile /\ vote'[v].choice = c /\ vote'[v].revealed
        BY <1>7, <2>1, <2>2, <2>3, OpenedFacts
      <3>2. req'[p].bundle = req[p].bundle
        BY <2>4, <2>5, OneRequest
      <3>3. (v \in RevealedWith(c))'
        BY <2>2, <3>1, <3>2 DEF RevealedWith, Revealed
      <3> QED BY <2>1, <2>4, <2>5, <3>3, OneRequest DEF Knows
    <2>8. vote' \in [Voters -> VoteFile \cup {NoVote, Torn}]
      BY <1>7, <2>2, <2>3, OpenedFacts
    <2> QED BY <1>1, <1>7, <2>4, <2>5, <2>6, <2>7, <2>8 DEF RevealVote, TypeOK
  <1>8. ASSUME NEW p \in Procs, RevealVote(p), ~Sealed(req[p].bundle.who)
        PROVE  Shape'
    BY <1>2, <1>8 DEF RevealVote, TypeOK
  <1>9. ASSUME NEW p \in Procs, SaveRevealBundle(p)
        PROVE  Shape'
    <2> DEFINE log == IF bundles = Torn THEN <<>> ELSE bundles
    <2>1. req[p].bundle \in Bundle /\ log \in Seq(Bundle)
      BY <1>9 DEF SaveRevealBundle, Knows, TypeOK
    <2>2. bundles' \in {bundles, Append(log, req[p].bundle)}
      BY <1>9 DEF SaveRevealBundle
    <2> HIDE DEF log
    <2>3. Append(log, req[p].bundle) \in Seq(Bundle)
      BY <2>1, AppendProperties
    <2>4. bundles' \in Seq(Bundle) \cup {Torn}
      BY <2>2, <2>3, Zenon DEF TypeOK
    <2> QED BY <1>2, <1>9, <2>4 DEF SaveRevealBundle, TypeOK
  <1>10. ASSUME NEW p \in Procs, ListVotes(p)
         PROVE  Shape'
    <2>1. PICK missed \in SUBSET Rewriting :
            req' = [req EXCEPT ![p] =
                      [req[p] EXCEPT !.pc = "listBundles", !.listed = Readable \ missed]]
      BY <1>10 DEF ListVotes
    <2> DEFINE r == [req[p] EXCEPT !.pc = "listBundles", !.listed = Readable \ missed]
    <2>2. r \in Request /\ r.op = req[p].op /\ r.pc = "listBundles" /\ r.op = "prove"
      BY <1>10 DEF TypeOK, Request, Readable, ListVotes
    <2>3. req' = [req EXCEPT ![p] = r]
      BY <2>1
    <2> HIDE DEF r
    <2>4. Knows(p)'
      BY <2>2, <2>3, OneRequest DEF Knows
    <2> QED BY <1>1, <1>10, <2>2, <2>3, <2>4 DEF ListVotes, TypeOK, files
  <1>11. ASSUME NEW p \in Procs, Prove(p)
         PROVE  Shape'
    <2>1. PICK t \in Tiers :
            req' = [req EXCEPT ![p] =
                      [req[p] EXCEPT !.pc = "saveProof",
                                     !.artifact = [listed  |-> req[p].listed,
                                                   tallies |-> Tallies(bundles, req[p].listed),
                                                   slots   |-> t]]]
      BY <1>11 DEF Prove, FittingTier
    <2> DEFINE a == [listed  |-> req[p].listed,
                     tallies |-> Tallies(bundles, req[p].listed),
                     slots   |-> t]
               r == [req[p] EXCEPT !.pc = "saveProof", !.artifact = a]
    <2>2. Tallies(bundles, req[p].listed) \in [Bins -> Nat]
      <3>1. req[p].listed \in SUBSET Voters
        BY DEF TypeOK, Request
      <3>2. \A b \in Bins :
              Cardinality({v \in Active(bundles, req[p].listed) : BundleOf(bundles, v) = b}) \in Nat
        BY <3>1, VotersAssumption, FS_Subset, FS_CardinalityType DEF Active
      <3> QED BY <3>2 DEF Tallies
    <2>3. a \in Artifact
      BY <2>2 DEF TypeOK, Request, Artifact
    <2> HIDE DEF a
    <2>4. r \in Request /\ r.op = req[p].op /\ r.pc = "saveProof" /\ r.bundle = req[p].bundle
      BY <2>3 DEF TypeOK, Request
    <2>5. req' = [req EXCEPT ![p] = r]
      BY <2>1 DEF a
    <2> HIDE DEF r
    <2>6. Knows(p)'
      BY <2>4, <2>5, OneRequest DEF Knows
    <2> QED BY <1>1, <1>11, <2>4, <2>5, <2>6 DEF Prove, TypeOK, files
  <1>12. ASSUME NEW p \in Procs, SaveTallyProof(p)
         PROVE  Shape'
    BY <1>2, <1>12 DEF SaveTallyProof, TypeOK, Request
  <1>13. ASSUME NEW v \in Voters, NEW c \in Options, StoreVote(v, c)
         PROVE  Shape'
    <2>1. PICK f \in VoteFile \cup {Torn} : vote' = [vote EXCEPT ![v] = f]
      BY <1>13 DEF StoreVote, VoteFile
    <2>2. UNCHANGED <<closed, counts, bundles, proof, faults, req>>
      BY <1>13 DEF StoreVote
    <2>3. TypeOK'
      BY <2>1, <2>2 DEF TypeOK
    <2> QED BY <2>2, <2>3, KnowsStays
  <1>14. CASE StatusChanges \/ UNCHANGED vars
    BY <1>14, KnowsStays DEF StatusChanges, files, vars, TypeOK
  <1>15. CASE Fault
    <2>1. PICK p \in Procs : StopShort(p)
      BY <1>15, FaultFacts
    <2>2. \A q \in Procs : Knows(q)'
      BY <1>15, FaultFacts, KnowsStays, IdleKnows
    <2>3. vote' \in [Voters -> VoteFile \cup {NoVote, Torn}] /\ counts' \in [Options -> Nat]
      <3>1. CASE UNCHANGED <<vote, counts>>
        BY <3>1 DEF TypeOK
      <3>2. CASE req[p].pc = "revealVote" /\ Sealed(req[p].bundle.who)
        <4> DEFINE v == req[p].bundle.who
                   c == req[p].bundle.choice
        <4>1. v \in Voters /\ c \in Options
          BY <3>2 DEF Knows, Bundle
        <4>2. NoCounts \in [Options -> Nat] /\ Counted(c) \in [Options -> Nat]
          BY <4>1 DEF NoCounts, Counted, TypeOK
        <4>3. CASE vote' = [vote EXCEPT ![v] = Torn] /\ UNCHANGED counts
          BY <4>1, <4>3 DEF TypeOK
        <4>4. CASE vote' = Opened(v) /\ counts' \in {counts, NoCounts, Counted(c)}
          BY <3>2, <4>1, <4>2, <4>4, OpenedFacts DEF TypeOK
        <4> QED BY <2>1, <3>1, <3>2, <4>3, <4>4 DEF StopShort, files
      <3> QED BY <2>1, <3>1, <3>2 DEF StopShort, files
    <2>4. bundles' \in Seq(Bundle) \cup {Torn}
      BY <2>1 DEF StopShort, files, TypeOK
    <2>5. proof' \in Artifact \cup {NoProof}
      BY <2>1 DEF StopShort, files, TypeOK, Request
    <2>6. closed' \in BOOLEAN
      BY <1>15, FaultFacts DEF TypeOK
    <2> QED BY <1>15, <2>2, <2>3, <2>4, <2>5, <2>6, FaultFacts DEF TypeOK
  <1> QED
    BY <1>3, <1>4, <1>5, <1>6, <1>7, <1>8, <1>9, <1>10, <1>11, <1>12, <1>13, <1>14, <1>15
       DEF Next, Continue, Fault

LEMMA ShapeInit ==
    ASSUME Init
    PROVE  Shape
  <1>1. /\ <<>> \in Seq(Bundle)
        /\ NoCounts \in [Options -> Nat]
        /\ Idle \in Request
    BY IdleType DEF NoCounts
  <1>2. TypeOK
    <2>1. closed \in BOOLEAN /\ counts \in [Options -> Nat] /\ bundles \in Seq(Bundle) \cup {Torn}
      BY <1>1 DEF Init
    <2>2. vote \in [Voters -> VoteFile \cup {NoVote, Torn}]
      BY DEF Init
    <2>3. proof \in Artifact \cup {NoProof}
      BY DEF Init
    <2>4. faults \in 0 .. MaxFaults
      BY FaultsAssumption DEF Init
    <2>5. req \in [Procs -> Request]
      BY <1>1 DEF Init
    <2> QED BY <2>1, <2>2, <2>3, <2>4, <2>5 DEF TypeOK
  <1>3. \A p \in Procs : Knows(p)
    BY DEF Init, Knows, Idle
  <1> QED BY <1>2, <1>3 DEF Shape

\* TypeOK, with what each reveal in flight knows of its ballot.
THEOREM RevealTypes == Spec => []TypeOK
  <1>1. Shape /\ [Next]_vars => Shape'
    BY VoteFlowStep, ShapeStep
  <1>2. Shape => TypeOK
    BY DEF Shape
  <1> QED BY ShapeInit, <1>1, <1>2, PTL DEF Spec

\* RevealIsPermanent for any number of reveals, casts, proofs and faults: no
\* step writes a vote file after its reveal.
THEOREM RevealStays == Spec => RevealIsPermanent
  <1>1. Shape /\ [Next]_vars => Shape'
    BY VoteFlowStep, ShapeStep
  <1>2. Shape /\ [Next]_vars => [\A v \in Voters : Revealed(v) => vote'[v] = vote[v]]_vars
    BY VoteFlowStep DEF VoteFlow
  <1> QED BY ShapeInit, <1>1, <1>2, PTL DEF Spec, RevealIsPermanent

-----------------------------------------------------------------------------
(* Bundles, counts and artifacts. *)

LEMMA RevealedGrows ==
    ASSUME Shape, VoteFlow, Shape', NEW c \in Options
    PROVE  /\ RevealedWith(c) \subseteq RevealedWith(c)'
           /\ IsFiniteSet(RevealedWith(c)')
           /\ Cardinality(RevealedWith(c)) \in Nat
           /\ Cardinality(RevealedWith(c)') \in Nat
           /\ Cardinality(RevealedWith(c)) <= Cardinality(RevealedWith(c)')
  <1>1. RevealedWith(c) \subseteq RevealedWith(c)'
    BY DEF RevealedWith, Revealed, VoteFlow
  <1>2. RevealedWith(c)' \subseteq Voters
    BY DEF RevealedWith
  <1>3. IsFiniteSet(RevealedWith(c)') /\ IsFiniteSet(RevealedWith(c))
    BY <1>1, <1>2, VotersAssumption, FS_Subset
  <1> QED BY <1>1, <1>3, FS_Subset, FS_CardinalityType

\* A bundle added by a reveal opens the ballot that the reveal has marked.
LEMMA BundlesStep ==
    ASSUME Shape, VoteFlow, Shape', BundlesOpenVotes, [Next]_vars
    PROVE  BundlesOpenVotes'
  <1> USE DEF Shape
  <1>1. \A c \in Options : RevealedWith(c) \subseteq RevealedWith(c)'
    BY RevealedGrows
  <1>2. ASSUME bundles' = bundles
        PROVE  BundlesOpenVotes'
    <2>1. ASSUME bundles # Torn, NEW i \in DOMAIN bundles
          PROVE  bundles[i].choice \in Options
      <3>1. bundles \in Seq(Bundle)
        BY <2>1 DEF TypeOK
      <3>2. bundles[i] \in Bundle
        BY <2>1, <3>1, ElementOfSeq, LenProperties
      <3> QED BY <3>2 DEF Bundle
    <2> QED BY <1>1, <1>2, <2>1 DEF BundlesOpenVotes
  <1>3. ASSUME NEW p \in Procs, SaveRevealBundle(p)
        PROVE  BundlesOpenVotes'
    <2> DEFINE log == IF bundles = Torn THEN <<>> ELSE bundles
               b == req[p].bundle
    <2>1. b \in Bundle /\ b.who \in RevealedWith(b.choice) /\ log \in Seq(Bundle)
      BY <1>3 DEF SaveRevealBundle, Knows, TypeOK
    <2>2. UNCHANGED vote
      BY <1>3 DEF SaveRevealBundle
    <2>3. /\ \A i \in DOMAIN log : log[i].who \in RevealedWith(log[i].choice)
          /\ \A i, j \in DOMAIN log : log[i].who = log[j].who => i = j
      BY DEF BundlesOpenVotes
    <2>4. CASE ~Known(log, b)
      <3>1. bundles' = Append(log, b)
        BY <1>3, <2>4 DEF SaveRevealBundle
      <3>2. ASSUME NEW c \in Options
            PROVE  RevealedWith(c)' = RevealedWith(c)
        BY <2>2 DEF RevealedWith, Revealed
      <3> HIDE DEF log, b
      <3>3. /\ DOMAIN bundles' = DOMAIN log \cup {Len(log) + 1}
            /\ Len(log) + 1 \notin DOMAIN log
            /\ bundles'[Len(log) + 1] = b
            /\ \A i \in DOMAIN log : bundles'[i] = log[i]
        BY <2>1, <3>1, AppendProperties, LenProperties
      <3>4. \A i \in DOMAIN log : log[i].who # b.who
        BY <2>4 DEF Known
      <3>5. \A i \in DOMAIN log : log[i] \in Bundle
        BY <2>1
      <3>6. \A i \in DOMAIN bundles' :
              /\ bundles'[i].choice \in Options
              /\ bundles'[i].who \in RevealedWith(bundles'[i].choice)
        BY <2>1, <2>3, <3>3, <3>5 DEF Bundle
      <3>7. \A i, j \in DOMAIN bundles' : bundles'[i].who = bundles'[j].who => i = j
        BY <2>3, <3>3, <3>4
      <3>8. \A i \in DOMAIN bundles' : (bundles[i].who \in RevealedWith(bundles[i].choice))'
        BY <2>2, <3>6 DEF RevealedWith, Revealed
      <3> QED BY <3>7, <3>8 DEF BundlesOpenVotes
    <2>5. CASE Known(log, b)
      BY <1>2, <1>3, <2>5 DEF SaveRevealBundle
    <2> QED BY <2>4, <2>5
  <1>4. CASE Fault
    <2>1. bundles' = bundles \/ bundles' = Torn
      BY <1>4, FaultFacts DEF StopShort, files
    <2> QED BY <1>2, <2>1 DEF BundlesOpenVotes
  <1>5. CASE StatusChanges \/ UNCHANGED vars
    BY <1>2, <1>5 DEF StatusChanges, files, vars
  <1>6. ASSUME NEW p \in Procs, StartReveal(p) \/ StartProof(p) \/ Continue(p)
        PROVE  BundlesOpenVotes'
    BY <1>2, <1>3, <1>6 DEF StartReveal, StartProof, Continue, FindVote, RefuseReveal,
        RevealVote, ListVotes, Prove, RefuseProof, SaveTallyProof, files
  <1>7. ASSUME NEW v \in Voters, NEW c \in Options, StoreVote(v, c)
        PROVE  BundlesOpenVotes'
    BY <1>2, <1>7 DEF StoreVote
  <1> QED BY <1>4, <1>5, <1>6, <1>7 DEF Next, Fault

\* BundlesOpenVotes: however reveals interleave, fail and are retried, each
\* bundle is the truthful opening of a revealed ballot and no ballot has two.
THEOREM BundlesAreTrue == Spec => []BundlesOpenVotes
  <1>1. Init => Shape /\ BundlesOpenVotes
    <2> SUFFICES ASSUME Init PROVE BundlesOpenVotes
      BY ShapeInit
    <2>1. bundles = <<>>
      BY DEF Init
    <2>2. DOMAIN bundles = {}
      BY <2>1
    <2> QED BY <2>2 DEF BundlesOpenVotes
  <1>2. Shape /\ BundlesOpenVotes /\ [Next]_vars => (Shape /\ BundlesOpenVotes)'
    BY VoteFlowStep, ShapeStep, BundlesStep
  <1> QED BY <1>1, <1>2, PTL DEF Spec

\* A count grows only with the ballot that is revealed in the same hold.
LEMMA CountsStep ==
    ASSUME Shape, VoteFlow, Shape', CountsWithinReveals, [Next]_vars
    PROVE  CountsWithinReveals'
  <1> USE DEF Shape
  <1>0. \A c \in Options : counts[c] \in Nat
    BY DEF TypeOK
  <1>1. ASSUME counts' = counts
        PROVE  CountsWithinReveals'
    BY <1>0, <1>1, RevealedGrows DEF CountsWithinReveals
  <1>2. ASSUME counts' = NoCounts
        PROVE  CountsWithinReveals'
    BY <1>2, RevealedGrows DEF CountsWithinReveals, NoCounts
  <1>3. ASSUME NEW p \in Procs, req[p].pc = "revealVote", Sealed(req[p].bundle.who),
               vote' = Opened(req[p].bundle.who), counts' = Counted(req[p].bundle.choice)
        PROVE  CountsWithinReveals'
    <2>0. PICK v, c : v = req[p].bundle.who /\ c = req[p].bundle.choice
      OBVIOUS
    <2>1. v \in Voters /\ c \in Options /\ vote[v].choice = c /\ Sealed(v)
      BY <1>3, <2>0 DEF Sealed, Knows, Bundle
    <2>2. vote' = Opened(v) /\ counts' = [counts EXCEPT ![c] = counts[c] + 1]
      BY <1>3, <2>0 DEF Counted
    <2>3. RevealedWith(c)' = RevealedWith(c) \cup {v} /\ v \notin RevealedWith(c)
      BY <2>1, <2>2, OpenedFacts DEF RevealedWith, Revealed, Sealed
    <2>4. /\ IsFiniteSet(RevealedWith(c))
          /\ Cardinality(RevealedWith(c)) \in Nat
      BY VotersAssumption, FS_Subset, FS_CardinalityType DEF RevealedWith
    <2>5. Cardinality(RevealedWith(c)') = Cardinality(RevealedWith(c)) + 1
      BY <2>3, <2>4, FS_AddElement
    <2>6. ASSUME NEW o \in Options
          PROVE  counts'[o] <= Cardinality(RevealedWith(o)')
      <3>1. counts[o] <= Cardinality(RevealedWith(o))
        BY DEF CountsWithinReveals
      <3>2. CASE o = c
        BY <1>0, <2>1, <2>2, <2>4, <2>5, <3>1, <3>2 DEF TypeOK
      <3>3. CASE o # c
        BY <1>0, <2>1, <2>2, <3>1, <3>3, RevealedGrows DEF TypeOK
      <3> QED BY <3>2, <3>3
    <2> QED BY <2>6 DEF CountsWithinReveals
  <1>4. ASSUME NEW p \in Procs, RevealVote(p), ~Sealed(req[p].bundle.who)
        PROVE  CountsWithinReveals'
    BY <1>1, <1>4 DEF RevealVote
  <1>5. CASE Fault
    <2>1. PICK p \in Procs : StopShort(p)
      BY <1>5, FaultFacts
    <2> QED BY <1>1, <1>2, <1>3, <2>1 DEF StopShort, files
  <1>6. CASE StatusChanges \/ UNCHANGED vars
    BY <1>1, <1>6 DEF StatusChanges, files, vars
  <1>7. ASSUME NEW p \in Procs, StartReveal(p) \/ StartProof(p) \/ Continue(p)
        PROVE  CountsWithinReveals'
    BY <1>1, <1>3, <1>4, <1>7 DEF StartReveal, StartProof, Continue, FindVote, RefuseReveal,
        RevealVote, SaveRevealBundle, ListVotes, Prove, RefuseProof, SaveTallyProof, files
  <1>8. ASSUME NEW v \in Voters, NEW c \in Options, StoreVote(v, c)
        PROVE  CountsWithinReveals'
    BY <1>1, <1>8 DEF StoreVote
  <1> QED BY <1>5, <1>6, <1>7, <1>8 DEF Next, Fault

\* What an artifact counts stays revealed.
LEMMA BackedStays ==
    ASSUME Shape, VoteFlow, Shape', NEW a \in Artifact, Backed(a)
    PROVE  Backed(a)'
  <1>1. ASSUME NEW b \in Bins
        PROVE  a.tallies[b] <= Cardinality(RevealedWith(b)')
    <2>1. /\ b \in Options /\ a.tallies[b] \in Nat
          /\ a.tallies[b] <= Cardinality(RevealedWith(b))
      BY BinsAssumption DEF Artifact, Backed
    <2> QED BY <2>1, RevealedGrows
  <1> QED BY <1>1 DEF Backed

\* The tallies of a witness count revealed ballots.
LEMMA WitnessBacked ==
    ASSUME Shape, BundlesOpenVotes, bundles # Torn,
           NEW listed \in SUBSET Voters, NEW b \in Bins
    PROVE  Tallies(bundles, listed)[b] <= Cardinality(RevealedWith(b))
  <1> DEFINE counted == {v \in Active(bundles, listed) : BundleOf(bundles, v) = b}
  <1>1. counted \subseteq RevealedWith(b)
    <2> SUFFICES ASSUME NEW v \in Active(bundles, listed), BundleOf(bundles, v) = b
                 PROVE  v \in RevealedWith(b)
      OBVIOUS
    <2>1. PICK i \in DOMAIN bundles : bundles[i].who = v
      BY DEF Active, RevealedIn
    <2>2. \A j \in DOMAIN bundles : bundles[j].who = v => j = i
      BY <2>1 DEF BundlesOpenVotes
    <2>3. i \in Nat
      <3>1. bundles \in Seq(Bundle)
        BY DEF Shape, TypeOK
      <3> QED BY <2>1, <3>1, LenProperties
    <2>4. BundleOf(bundles, v) = bundles[i].choice
      BY <2>1, <2>2, <2>3 DEF BundleOf
    <2> QED BY <2>1, <2>4 DEF BundlesOpenVotes
  <1>2. IsFiniteSet(RevealedWith(b))
    BY VotersAssumption, FS_Subset DEF RevealedWith
  <1>3. Tallies(bundles, listed)[b] = Cardinality(counted)
    BY DEF Tallies
  <1> QED BY <1>1, <1>2, <1>3, FS_Subset

LEMMA ArtifactsStep ==
    ASSUME Shape, VoteFlow, Shape', BundlesOpenVotes, ArtifactsBacked, [Next]_vars
    PROVE  ArtifactsBacked'
  <1> USE DEF Shape
  <1>1. ASSUME proof' # NoProof,
               \/ proof' = proof
               \/ \E p \in Procs : req[p].pc = "saveProof" /\ proof' = req[p].artifact
        PROVE  Backed(proof)'
    <2>1. PICK a : a = proof'
      OBVIOUS
    <2>2. a \in Artifact /\ Backed(a)
      BY <1>1, <2>1 DEF ArtifactsBacked, TypeOK, Request
    <2>3. Backed(a)'
      BY <2>2, BackedStays
    <2> QED BY <2>1, <2>3 DEF Backed
  <1>2. ASSUME NEW p \in Procs, req'[p].pc = "saveProof",
               req[p].pc = "saveProof", req'[p].artifact = req[p].artifact
        PROVE  req'[p].artifact # NoProof /\ Backed(req[p].artifact)'
    <2>1. PICK a : a = req[p].artifact
      OBVIOUS
    <2>2. a \in Artifact /\ Backed(a)
      BY <1>2, <2>1 DEF ArtifactsBacked, TypeOK, Request
    <2>3. Backed(a)'
      BY <2>2, BackedStays
    <2> QED BY <1>2, <2>1, <2>2, <2>3, ArtifactAssumption DEF Backed
  <1>3. ASSUME NEW p \in Procs, Prove(p)
        PROVE  req'[p].artifact # NoProof /\ Backed(req[p].artifact)'
    <2>1. PICK listed : listed = req[p].listed
      OBVIOUS
    <2>2. listed \in SUBSET Voters
      BY <2>1 DEF TypeOK, Request
    <2>3. PICK t \in FittingTier(Cardinality(listed)) :
            req' = [req EXCEPT ![p] =
                      [req[p] EXCEPT !.pc = "saveProof",
                                     !.artifact = [listed  |-> listed,
                                                   tallies |-> Tallies(bundles, listed),
                                                   slots   |-> t]]]
      BY <1>3, <2>1 DEF Prove
    <2>4. PICK a : a = [listed |-> listed, tallies |-> Tallies(bundles, listed), slots |-> t]
      OBVIOUS
    <2>5. req'[p].artifact = a
      BY <2>3, <2>4 DEF TypeOK, Request
    <2>6. req'[p].pc = "saveProof"
      BY <2>3 DEF TypeOK, Request
    <2>7. Backed(a)
      <3>1. \A b \in Bins : a.tallies[b] <= Cardinality(RevealedWith(b))
        BY <1>3, <2>2, <2>4, WitnessBacked DEF Prove
      <3>2. Cardinality(listed) \in Nat
        BY <2>2, VotersAssumption, FS_Subset, FS_CardinalityType
      <3>3. /\ t \in Tiers /\ t \in Nat
            /\ Cardinality(listed) <= t
            /\ \A u \in Tiers : Cardinality(listed) <= u => t <= u
        BY TiersAssumption DEF FittingTier
      <3>4. \A u \in Tiers : u < t => u < Cardinality(listed)
        BY <3>2, <3>3, TiersAssumption
      <3> QED BY <2>4, <3>1, <3>3, <3>4 DEF Backed
    <2>8. a \in Artifact
      <3>1. Tallies(bundles, listed) \in [Bins -> Nat]
        <4>1. \A b \in Bins :
                Cardinality({v \in Active(bundles, listed) : BundleOf(bundles, v) = b}) \in Nat
          BY <2>2, VotersAssumption, FS_Subset, FS_CardinalityType DEF Active
        <4> QED BY <4>1 DEF Tallies
      <3> QED BY <2>2, <2>4, <3>1 DEF Artifact, FittingTier
    <2>9. Backed(a)'
      BY <2>7, <2>8, BackedStays
    <2> QED BY <2>5, <2>8, <2>9, ArtifactAssumption DEF Backed
  <1>4. ASSUME NEW p \in Procs, NEW r \in Request, r.pc # "saveProof",
               req' = [req EXCEPT ![p] = r], UNCHANGED proof
        PROVE  ArtifactsBacked'
    <2>1. req'[p] = r /\ \A q \in Procs \ {p} : req'[q] = req[q]
      BY <1>4, OneRequest
    <2> QED BY <1>1, <1>2, <1>4, <2>1 DEF ArtifactsBacked
  <1>5. ASSUME NEW p \in Procs, Return(p),
               proof' = proof \/ (req[p].pc = "saveProof" /\ proof' = req[p].artifact)
        PROVE  ArtifactsBacked'
    <2>1. req'[p] = Idle /\ \A q \in Procs \ {p} : req'[q] = req[q]
      BY <1>5, IdleType, OneRequest DEF Return
    <2> QED BY <1>1, <1>2, <1>5, <2>1, IdleType DEF ArtifactsBacked
  <1>6. ASSUME NEW p \in Procs, StartReveal(p)
        PROVE  ArtifactsBacked'
    <2>1. PICK v \in Voters, c \in Options :
            req' = [req EXCEPT ![p] =
                      [Idle EXCEPT !.op = "reveal", !.pc = "listVotes",
                                   !.bundle = [who |-> v, choice |-> c]]]
      BY <1>6 DEF StartReveal, Begin
    <2> DEFINE r == [Idle EXCEPT !.op = "reveal", !.pc = "listVotes",
                                 !.bundle = [who |-> v, choice |-> c]]
    <2>2. r \in Request /\ r.pc = "listVotes"
      BY DEF Idle, Request, Bundle
    <2>3. req' = [req EXCEPT ![p] = r]
      BY <2>1
    <2> HIDE DEF r
    <2> QED BY <1>4, <1>6, <2>2, <2>3 DEF StartReveal, files
  <1>7. ASSUME NEW p \in Procs, StartProof(p)
        PROVE  ArtifactsBacked'
    <2> DEFINE r == [Idle EXCEPT !.op = "prove", !.pc = "listVotes"]
    <2>1. r \in Request /\ r.pc = "listVotes"
      BY DEF Idle, Request
    <2>2. req' = [req EXCEPT ![p] = r]
      BY <1>7 DEF StartProof, Begin
    <2> HIDE DEF r
    <2> QED BY <1>4, <1>7, <2>1, <2>2 DEF StartProof, files
  <1>8. ASSUME NEW p \in Procs, FindVote(p)
        PROVE  ArtifactsBacked'
    <2> DEFINE r == [req[p] EXCEPT !.pc = "revealVote"]
    <2>1. r \in Request /\ r.pc = "revealVote"
      BY DEF TypeOK, Request
    <2>2. req' = [req EXCEPT ![p] = r]
      BY <1>8 DEF FindVote
    <2> HIDE DEF r
    <2> QED BY <1>4, <1>8, <2>1, <2>2 DEF FindVote, files
  <1>9. ASSUME NEW p \in Procs, RevealVote(p)
        PROVE  ArtifactsBacked'
    <2>1. CASE Sealed(req[p].bundle.who)
      <3> DEFINE r == [req[p] EXCEPT !.pc = "saveBundle"]
      <3>1. r \in Request /\ r.pc = "saveBundle"
        BY DEF TypeOK, Request
      <3>2. req' = [req EXCEPT ![p] = r]
        BY <1>9, <2>1 DEF RevealVote
      <3> HIDE DEF r
      <3> QED BY <1>4, <1>9, <3>1, <3>2 DEF RevealVote
    <2>2. CASE ~Sealed(req[p].bundle.who)
      BY <1>5, <1>9, <2>2 DEF RevealVote
    <2> QED BY <2>1, <2>2
  <1>10. ASSUME NEW p \in Procs, ListVotes(p)
         PROVE  ArtifactsBacked'
    <2>1. PICK listed \in SUBSET Voters :
            req' = [req EXCEPT ![p] =
                      [req[p] EXCEPT !.pc = "listBundles", !.listed = listed]]
      BY <1>10 DEF ListVotes, Readable
    <2> DEFINE r == [req[p] EXCEPT !.pc = "listBundles", !.listed = listed]
    <2>2. r \in Request /\ r.pc = "listBundles"
      BY DEF TypeOK, Request
    <2>3. req' = [req EXCEPT ![p] = r]
      BY <2>1
    <2> HIDE DEF r
    <2> QED BY <1>4, <1>10, <2>2, <2>3 DEF ListVotes, files
  <1>11. ASSUME NEW p \in Procs, Prove(p)
         PROVE  ArtifactsBacked'
    <2>1. UNCHANGED proof /\ \A q \in Procs \ {p} : req'[q] = req[q]
      BY <1>11 DEF Prove, FittingTier, files, TypeOK
    <2> QED BY <1>1, <1>2, <1>3, <1>11, <2>1 DEF ArtifactsBacked
  <1>12. ASSUME NEW p \in Procs,
                RefuseReveal(p) \/ RefuseProof(p) \/ SaveRevealBundle(p) \/ SaveTallyProof(p)
         PROVE  ArtifactsBacked'
    BY <1>5, <1>12 DEF RefuseReveal, RefuseProof, SaveRevealBundle, SaveTallyProof, files
  <1>13. CASE Fault
    <2>1. PICK p \in Procs : StopShort(p)
      BY <1>13, FaultFacts
    <2>2. proof' # NoProof =>
            \/ proof' = proof
            \/ req[p].pc = "saveProof" /\ proof' = req[p].artifact
      BY <2>1 DEF StopShort, files
    <2>3. \A q \in Procs : req'[q].pc = "saveProof" => req'[q] = req[q]
      BY <1>13, FaultFacts, IdleType
    <2> QED BY <1>1, <1>2, <2>2, <2>3 DEF ArtifactsBacked
  <1>14. ASSUME UNCHANGED <<proof, req>>
         PROVE  ArtifactsBacked'
    BY <1>1, <1>2, <1>14 DEF ArtifactsBacked
  <1>15. ASSUME \/ StatusChanges \/ UNCHANGED vars
                \/ \E v \in Voters, c \in Options : StoreVote(v, c)
         PROVE  ArtifactsBacked'
    BY <1>14, <1>15 DEF StatusChanges, StoreVote, files, vars
  <1> QED
    BY <1>6, <1>7, <1>8, <1>9, <1>10, <1>11, <1>12, <1>13, <1>15 DEF Next, Continue, Fault

-----------------------------------------------------------------------------
(* The remaining invariants. *)

LEMMA InvInit ==
    ASSUME Init
    PROVE  Inv
  <1>1. bundles = <<>> /\ proof = NoProof /\ counts = NoCounts
          /\ \A p \in Procs : req[p].pc = "idle"
    BY IdleType DEF Init
  <1>2. BundlesOpenVotes
    <2>1. DOMAIN bundles = {}
      BY <1>1
    <2> QED BY <2>1 DEF BundlesOpenVotes
  <1>3. CountsWithinReveals
    <2>1. ASSUME NEW c \in Options
          PROVE  Cardinality(RevealedWith(c)) \in Nat
      BY VotersAssumption, FS_Subset, FS_CardinalityType DEF RevealedWith
    <2> QED BY <1>1, <2>1 DEF CountsWithinReveals, NoCounts
  <1>4. ArtifactsBacked
    BY <1>1 DEF ArtifactsBacked
  <1> QED BY <1>2, <1>3, <1>4, ShapeInit DEF Inv

LEMMA InvStep ==
    ASSUME Inv, [Next]_vars
    PROVE  Inv'
  BY VoteFlowStep, ShapeStep, BundlesStep, CountsStep, ArtifactsStep DEF Inv

\* CountsWithinReveals for any number of concurrent reveals and faults: the
\* running tally never exceeds the revealed ballots.
THEOREM CountsBounded == Spec => []CountsWithinReveals
  <1>1. Inv => CountsWithinReveals
    BY DEF Inv
  <1> QED BY InvInit, InvStep, <1>1, PTL DEF Spec

\* ProofCountsReveals: a tally artifact counts revealed ballots only and names
\* the smallest circuit that holds them, whatever it overtook or overwrote.
THEOREM ProofIsBacked == Spec => []ProofCountsReveals
  <1>1. Inv => ProofCountsReveals
    BY DEF Inv, ArtifactsBacked, Backed, ProofCountsReveals
  <1> QED BY InvInit, InvStep, <1>1, PTL DEF Spec
==============================================================================
