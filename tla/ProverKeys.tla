----------------------------- MODULE ProverKeys -----------------------------
(***************************************************************************)
(* The prover's keys: the key store on disk (prover/keystore.go), the      *)
(* circuits a server compiles or loads when it starts (prover/service.go,  *)
(* prover/circuits.go), the ones it compiles on first use                  *)
(* (prover/lazy_compile.go), and the close-poll command, which uses a key  *)
(* store as well (cmd/bitwrap/close_poll.go).                              *)
(*                                                                         *)
(* A circuit's keys are three files, <name>.cs, .pk and .vk.  Every        *)
(* Groth16 setup draws fresh randomness, so a proof made with the proving  *)
(* key of one setup does not verify under the verifying key of another:    *)
(* a file is the number of the setup that wrote it.                        *)
(*                                                                         *)
(* An assumption: no two processes work on the key directory at once, that *)
(* is, close-poll is not run while a server on the same directory starts,  *)
(* nor next to another close-poll.  The code has no lock to ensure this.   *)
(***************************************************************************)
EXTENDS Naturals

CONSTANTS
    Small,        \* circuits every server compiles when it starts
    Decrypt,      \* tallyDecrypt_8, for the v3 circuits: see Stored
    Big,          \* tallyProof_256
    Server,       \* the server's main goroutine
    CLIs,         \* close-poll commands that use the server's key directory
    Procs,        \* request goroutines
    MaxSetups,    \* bound: setups of each circuit
    MaxFailures,  \* bound: key file writes that fail
    MaxCrashes,   \* bound: processes killed
    NoCircuit, NoOne,
    Torn          \* a file that does not parse

Stored   == Small \cup {Decrypt}   \* standardCircuits()
Circuits == Stored \cup {Big}

ASSUME CircuitsAssumption == Decrypt \notin Small /\ Big \notin Stored /\ NoCircuit \notin Circuits
ASSUME ServerAssumption   == Server \notin CLIs /\ NoOne \notin Procs
ASSUME LimitsAssumption   == MaxSetups \in Nat /\ MaxFailures \in Nat /\ MaxCrashes \in Nat
ASSUME TornAssumption     == Torn \notin Nat

Writers == CLIs \cup {Server}

Parts  == {"cs", "pk", "vk"}
Absent == 0                     \* no file: setups are numbered from 1
File   == Nat \cup {Torn}
Keys   == [Parts -> Nat]        \* a CompiledCircuit
NoKeys == [x \in Parts |-> Absent]

\* The order in which Save writes and Load reads a circuit's files.
Order == <<"cs", "pk", "vk">>

VARIABLES
    disk,      \* the key directory
    setups,    \* how often each circuit has been set up
    server,    \* "down", "registering", "serving", or "bare": without a prover
    keyDir,    \* the server was started with -key-dir
    todo,      \* circuits the starting server has still to register
    mem,       \* the circuits its prover holds
    job,       \* the circuit each writer is working on
    ask,       \* the EnsureCompiled calls in flight
    lazyMu,    \* who holds lazyMu
    failures, crashes

vars == <<disk, setups, server, keyDir, todo, mem, job, ask, lazyMu, failures, crashes>>

\* A writer's circuit, its progress through the three files, what it has so far.
Job == [pc  : {"idle", "has", "load", "compile", "create", "write", "have"},
        c   : Stored \cup {NoCircuit},
        at  : 1..3,
        got : Keys]

Resting == [pc |-> "idle", c |-> NoCircuit, at |-> 1, got |-> NoKeys]

Ask  == [pc : {"idle", "lock", "compile"}, c : Circuits \cup {NoCircuit}]
None == [pc |-> "idle", c |-> NoCircuit]

TypeOK ==
    /\ disk \in [Stored -> [Parts -> File]]
    /\ setups \in [Circuits -> Nat]
    /\ server \in {"down", "registering", "serving", "bare"}
    /\ keyDir \in BOOLEAN
    /\ todo \in SUBSET Stored
    /\ mem \in [Circuits -> Keys]
    /\ job \in [Writers -> Job]
    /\ ask \in [Procs -> Ask]
    /\ lazyMu \in Procs \cup {NoOne}
    /\ failures \in 0..MaxFailures
    /\ crashes \in 0..MaxCrashes

Empty == [c \in Circuits |-> NoKeys]

Init ==
    /\ disk = [c \in Stored |-> NoKeys]
    /\ setups = [c \in Circuits |-> 0]
    /\ server = "down"
    /\ keyDir = FALSE
    /\ todo = {}
    /\ mem = Empty
    /\ job = [w \in Writers |-> Resting]
    /\ ask = [p \in Procs |-> None]
    /\ lazyMu = NoOne
    /\ failures = 0
    /\ crashes = 0

-----------------------------------------------------------------------------
(* What the prover computes. *)

\* KeyStore.Has looks at the proving key only.
Has(c) == disk[c]["pk"] # Absent

\* os.Create: the file is empty until it is written, whatever it held.
Created(f) == Torn

\* Mutation of Written: an error of WriteTo is not noticed.
WrittenUnchecked(f, s) == {s, Torn}

\* What WriteTo leaves in a file when it succeeds.
Written(f, s) == {s}

Fresh(c) == setups[c] + 1

\* groth16.Setup, with fresh randomness.
Setup(c)    == [x \in Parts |-> Fresh(c)]
Drawn(C)     == [c \in Circuits |-> IF c \in C THEN Fresh(c) ELSE setups[c]]
CanSetUp(C) == \A c \in C : setups[c] < MaxSetups

\* A process that may be reading or writing key files.
Touching(w) == IF w = Server THEN server = "registering" ELSE job[w].pc \notin {"idle", "have"}

MayBegin(w) == \A u \in Writers \ {w} : ~Touching(u)

\* Circuits that EnsureCompiled can compile: RegisterLazyCircuit is called by
\* RegisterStandardCircuits only, which a server with a key directory skips.
Lazy == IF keyDir THEN {} ELSE Circuits \ Small

\* Mutation of CompiledMeanwhile: no second look under the lock.
CompiledNever(c) == FALSE

\* GetCircuit finds the circuit.
CompiledMeanwhile(c) == mem[c] # NoKeys

\* Mutation of Unlocked: only the successful path releases the lock.
UnlockedIf(done) == IF done THEN NoOne ELSE lazyMu

\* defer lazyMu.Unlock(), whether or not the compilation succeeded.
Unlocked(done) == NoOne

Goto(w, pc) == job' = [job EXCEPT ![w] = [@ EXCEPT !.pc = pc, !.at = 1]]

-----------------------------------------------------------------------------
(* Starting a server: NewArcnetService. *)

\* Without a key directory: RegisterStandardCircuits compiles in parallel, and
\* stores once all are compiled; requests are not served before.
StartWithoutKeyDir ==
    /\ server = "down"
    /\ CanSetUp(Small)
    /\ server' = "serving"
    /\ keyDir' = FALSE
    /\ setups' = Drawn(Small)
    /\ mem' = [c \in Circuits |-> IF c \in Small THEN Setup(c) ELSE NoKeys]
    /\ UNCHANGED <<disk, todo, job, ask, lazyMu, failures, crashes>>

StartWithKeyDir ==
    /\ server = "down"
    /\ MayBegin(Server)
    /\ server' = "registering"
    /\ keyDir' = TRUE
    /\ todo' = Stored
    /\ UNCHANGED <<disk, setups, mem, job, ask, lazyMu, failures, crashes>>

\* RegisterWithKeyStore takes the circuits in the order of a map.
NextCircuit ==
    /\ server = "registering"
    /\ job[Server].pc = "idle"
    /\ \E c \in todo : job' = [job EXCEPT ![Server] = [Resting EXCEPT !.pc = "has", !.c = c]]
    /\ UNCHANGED <<disk, setups, server, keyDir, todo, mem, ask, lazyMu, failures, crashes>>

\* StoreCircuit; after the last circuit the server serves.
StoreCircuit ==
    LET c == job[Server].c IN
    /\ job[Server].pc = "have"
    /\ mem' = [mem EXCEPT ![c] = job[Server].got]
    /\ todo' = todo \ {c}
    /\ server' = IF todo' = {} THEN "serving" ELSE server
    /\ job' = [job EXCEPT ![Server] = Resting]
    /\ UNCHANGED <<disk, setups, keyDir, ask, lazyMu, failures, crashes>>

-----------------------------------------------------------------------------
(* Key store calls: CompileAndSave in the server, and the same sequence      *)
(* spelt out in buildTallyDecryptProof.                                      *)

\* close-poll reaches buildTallyDecryptProof.
StartClosePoll(w) ==
    /\ job[w].pc = "idle"
    /\ MayBegin(w)
    /\ job' = [job EXCEPT ![w] = [Resting EXCEPT !.pc = "has", !.c = Decrypt]]
    /\ UNCHANGED <<disk, setups, server, keyDir, todo, mem, ask, lazyMu, failures, crashes>>

\* Mutation of LookForKeys: close-poll compiles and saves without looking.
LookForKeysServerOnly(w) ==
    /\ job[w].pc = "has"
    /\ Goto(w, IF w = Server /\ Has(job[w].c) THEN "load" ELSE "compile")
    /\ UNCHANGED <<disk, setups, server, keyDir, todo, mem, ask, lazyMu, failures, crashes>>

LookForKeys(w) ==
    /\ job[w].pc = "has"
    /\ Goto(w, IF Has(job[w].c) THEN "load" ELSE "compile")
    /\ UNCHANGED <<disk, setups, server, keyDir, todo, mem, ask, lazyMu, failures, crashes>>

\* KeyStore.Load reads the next file.
LoadFile(w) ==
    LET i == job[w].at
        f == disk[job[w].c][Order[i]]
    IN
    /\ job[w].pc = "load"
    /\ f \in Nat \ {Absent}
    /\ job' = [job EXCEPT ![w] = [@ EXCEPT !.got[Order[i]] = f,
                                           !.pc = IF i = 3 THEN "have" ELSE "load",
                                           !.at = IF i = 3 THEN 1 ELSE i + 1]]
    /\ UNCHANGED <<disk, setups, server, keyDir, todo, mem, ask, lazyMu, failures, crashes>>

\* KeyStore.Load fails.  The registration fails with it and the server goes on
\* without a prover; close-poll compiles instead.
LoadFails(w) ==
    /\ job[w].pc = "load"
    /\ disk[job[w].c][Order[job[w].at]] \in {Absent, Torn}
    /\ IF w = Server
         THEN /\ server' = "bare"
              /\ mem' = Empty
              /\ todo' = {}
              /\ job' = [job EXCEPT ![w] = Resting]
         ELSE Goto(w, "compile") /\ UNCHANGED <<server, mem, todo>>
    /\ UNCHANGED <<disk, setups, keyDir, ask, lazyMu, failures, crashes>>

\* Mutation of CompileCircuit: the verifying key is dropped.
CompileCircuitNoVk(w) ==
    LET c == job[w].c IN
    /\ job[w].pc = "compile"
    /\ CanSetUp({c})
    /\ setups' = Drawn({c})
    /\ job' = [job EXCEPT ![w] = [@ EXCEPT !.pc = "create",
                                           !.got = [x \in {"cs", "pk"} |-> Fresh(c)]]]
    /\ UNCHANGED <<disk, server, keyDir, todo, mem, ask, lazyMu, failures, crashes>>

CompileCircuit(w) ==
    LET c == job[w].c IN
    /\ job[w].pc = "compile"
    /\ CanSetUp({c})
    /\ setups' = Drawn({c})
    /\ job' = [job EXCEPT ![w] = [@ EXCEPT !.pc = "create", !.got = Setup(c)]]
    /\ UNCHANGED <<disk, server, keyDir, todo, mem, ask, lazyMu, failures, crashes>>

\* KeyStore.Save: os.Create of the next file.
CreateFile(w) ==
    /\ job[w].pc = "create"
    /\ disk' = [disk EXCEPT ![job[w].c][Order[job[w].at]] = Created(@)]
    /\ job' = [job EXCEPT ![w] = [@ EXCEPT !.pc = "write"]]
    /\ UNCHANGED <<setups, server, keyDir, todo, mem, ask, lazyMu, failures, crashes>>

\* KeyStore.Save: WriteTo.
WriteFile(w) ==
    LET i == job[w].at
        x == Order[i]
    IN
    /\ job[w].pc = "write"
    /\ \E f \in Written(disk[job[w].c][x], job[w].got[x]) :
         disk' = [disk EXCEPT ![job[w].c][x] = f]
    /\ job' = [job EXCEPT ![w] = [@ EXCEPT !.pc = IF i = 3 THEN "have" ELSE "create",
                                           !.at = IF i = 3 THEN 1 ELSE i + 1]]
    /\ UNCHANGED <<setups, server, keyDir, todo, mem, ask, lazyMu, failures, crashes>>

\* KeyStore.Save fails on a file, which stays as it is; both callers go on with
\* the keys they have compiled.
SaveFails(w) ==
    /\ job[w].pc \in {"create", "write"}
    /\ failures < MaxFailures
    /\ failures' = failures + 1
    /\ Goto(w, "have")
    /\ UNCHANGED <<disk, setups, server, keyDir, todo, mem, ask, lazyMu, crashes>>

\* close-poll posts its proof and ends.
PostProof(w) ==
    /\ job[w].pc = "have"
    /\ job' = [job EXCEPT ![w] = Resting]
    /\ UNCHANGED <<disk, setups, server, keyDir, todo, mem, ask, lazyMu, failures, crashes>>

-----------------------------------------------------------------------------
(* EnsureCompiled, called by GenerateTallyProof for a tally circuit.         *)

\* The first GetCircuit, without the lock, does not find the circuit.
EnsureCompiled(p) ==
    /\ server = "serving"
    /\ ask[p].pc = "idle"
    /\ \E c \in Circuits \ {Decrypt} :
         /\ mem[c] = NoKeys
         /\ ask' = [ask EXCEPT ![p] = [pc |-> "lock", c |-> c]]
    /\ UNCHANGED <<disk, setups, server, keyDir, todo, mem, job, lazyMu, failures, crashes>>

\* The lock is taken.  The call returns at once if the circuit is there by now,
\* or is not registered.
TakeLock(p) ==
    LET c == ask[p].c IN
    /\ ask[p].pc = "lock"
    /\ lazyMu = NoOne
    /\ IF CompiledMeanwhile(c) \/ c \notin Lazy
         THEN ask' = [ask EXCEPT ![p] = None] /\ UNCHANGED lazyMu
         ELSE ask' = [ask EXCEPT ![p] = [@ EXCEPT !.pc = "compile"]] /\ lazyMu' = p
    /\ UNCHANGED <<disk, setups, server, keyDir, todo, mem, job, failures, crashes>>

CompileLazily(p) ==
    LET c == ask[p].c IN
    /\ ask[p].pc = "compile"
    /\ CanSetUp({c})
    /\ setups' = Drawn({c})
    /\ mem' = [mem EXCEPT ![c] = Setup(c)]
    /\ lazyMu' = Unlocked(TRUE)
    /\ ask' = [ask EXCEPT ![p] = None]
    /\ UNCHANGED <<disk, server, keyDir, todo, job, failures, crashes>>

\* CompileCircuit fails.
CompileFails(p) ==
    /\ ask[p].pc = "compile"
    /\ lazyMu' = Unlocked(FALSE)
    /\ ask' = [ask EXCEPT ![p] = None]
    /\ UNCHANGED <<disk, setups, server, keyDir, todo, mem, job, failures, crashes>>

-----------------------------------------------------------------------------
(* The environment: processes are stopped; files stay as they are.  A       *)
(* machine that loses written data with its power is not modelled.          *)

Halt ==
    /\ server' = "down"
    /\ todo' = {}
    /\ mem' = Empty
    /\ job' = [job EXCEPT ![Server] = Resting]
    /\ ask' = [p \in Procs |-> None]
    /\ lazyMu' = NoOne
    /\ UNCHANGED <<disk, setups, keyDir, failures>>

\* The operator restarts a running server, as often as he likes.
StopServer == server \in {"serving", "bare"} /\ Halt /\ UNCHANGED crashes

\* The server is killed while it registers its circuits.
CrashServer ==
    /\ server = "registering"
    /\ crashes < MaxCrashes
    /\ crashes' = crashes + 1
    /\ Halt

KillClosePoll(w) ==
    /\ job[w].pc # "idle"
    /\ crashes < MaxCrashes
    /\ crashes' = crashes + 1
    /\ job' = [job EXCEPT ![w] = Resting]
    /\ UNCHANGED <<disk, setups, server, keyDir, todo, mem, ask, lazyMu, failures>>

Store(w) ==
    \/ LookForKeys(w)
    \/ LoadFile(w)
    \/ LoadFails(w)
    \/ CompileCircuit(w)
    \/ CreateFile(w)
    \/ WriteFile(w)
    \/ SaveFails(w)

Continue(p) == TakeLock(p) \/ CompileLazily(p) \/ CompileFails(p)

Next ==
    \/ StartWithoutKeyDir \/ StartWithKeyDir \/ NextCircuit \/ StoreCircuit
    \/ \E w \in Writers : Store(w)
    \/ \E w \in CLIs : StartClosePoll(w) \/ PostProof(w) \/ KillClosePoll(w)
    \/ \E p \in Procs : EnsureCompiled(p) \/ Continue(p)
    \/ StopServer \/ CrashServer

Spec == Init /\ [][Next]_vars

\* A call runs to its end.  Strong fairness for the lock: sync.Mutex hands over
\* to a goroutine that has waited for more than a millisecond.
FairSpec ==
    /\ Spec
    /\ \A p \in Procs : WF_vars(Continue(p)) /\ SF_vars(TakeLock(p))

-----------------------------------------------------------------------------
(* Properties. *)

OfOneSetup(k) == k["cs"] = k["pk"] /\ k["pk"] = k["vk"]
Whole(c)      == disk[c]["vk"] \in Nat \ {Absent} /\ OfOneSetup(disk[c])

\* Whoever has finished loading or compiling a circuit holds three parts of one
\* setup, although Save may stop anywhere and Load may find what several runs
\* left behind: a proof the server makes verifies (Save, Load, CompileAndSave).
KeysFit ==
    /\ \A c \in Circuits : OfOneSetup(mem[c])
    /\ \A w \in Writers : job[w].pc = "have" => OfOneSetup(job[w].got)

\* Once a circuit's three files are there they stay as they are, through every
\* later start, failure and close-poll: an artifact proved under them still
\* verifies, and a key a browser has cached still proves (CompileAndSave).
WholeKeysStay ==
    [][\A c \in Stored : Whole(c) => disk'[c] = disk[c]]_vars

\* As long as every save succeeded, a serving server holds the very keys that
\* /api/keys hands to browsers and that a close-poll has proved with, so it
\* accepts their proofs, however often anything was killed.
ServedKeysVerify ==
    failures = 0 /\ server = "serving" /\ keyDir =>
        /\ \A c \in Stored : Whole(c) /\ disk[c] = mem[c]
        /\ \A w \in CLIs : job[w].pc = "have" => job[w].got["pk"] = mem[Decrypt]["vk"]

\* A server never changes the keys of a circuit it holds while it runs, however
\* many requests find it missing at once (EnsureCompiled's second look).
CompiledOnce ==
    [][\A c \in Circuits : mem[c] # NoKeys /\ server = "serving" /\ server' = "serving"
                               => mem'[c] = mem[c]]_vars

\* A server is without its prover only if a process was killed or a write
\* failed before (RegisterWithKeyStore, Load).
BareOnlyAfterPartialSave == server = "bare" => crashes + failures > 0

\* Every EnsureCompiled call returns (the lock is released on every path).
AskersReturn == \A p \in Procs : ask[p].pc # "idle" ~> ask[p].pc = "idle"

-----------------------------------------------------------------------------
(* What the code says and does not do. *)

\* CompileAndSave: "Failed to save keys (will recompile next time)".  With no
\* process killed, every start gets its prover, whatever writes failed before.
FailedSaveRecompiles == server # "bare"
=============================================================================
