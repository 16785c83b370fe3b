-------------------------- MODULE ProverKeys_proofs --------------------------
(***************************************************************************)
(* Proofs about the key store: whoever holds a circuit's keys holds three  *)
(* parts of one setup, keys that are complete stay as they are, a server   *)
(* with a key directory holds what it serves, and it never changes the     *)
(* keys of a circuit while it runs.  Without a kill or a failed write, no  *)
(* server is without its prover.                                           *)
(*                                                                         *)
(* The argument.  Only one process at a time touches the directory         *)
(* (OneToucher).  Save writes the verifying key last and runs only when    *)
(* there is none, so a verifying key on disk means a complete set          *)
(* (VkIsLast); what a writer has loaded or saved so far agrees with the    *)
(* disk (Fits).                                                            *)
(* While no save fails, a server takes over what is on disk (Served), and  *)
(* a call that compiles on first use holds the lock (UnderLock).           *)
(* While nothing is killed or fails, a proving key on disk is part of a    *)
(* complete set or is being saved (Complete).                              *)
(***************************************************************************)
EXTENDS ProverKeys, TLAPS

Drawing == {"compile", "create", "write"}

OneToucher == \A u, w \in Writers : Touching(u) /\ Touching(w) => u = w

ServerRegisters == job[Server].pc # "idle" => server = "registering"

HasVk(c) == disk[c]["vk"] \in Nat \ {Absent}

VkIsLast == \A c \in Stored : HasVk(c) => OfOneSetup(disk[c])

\* A writer's job agrees with the files as far as it has got.
Fits(w) ==
    LET j == job[w] IN
    /\ j.pc # "idle" => j.c \in Stored
    /\ j.pc \in Drawing => ~HasVk(j.c)
    /\ j.pc = "compile" => j.at = 1
    /\ j.pc \in {"create", "write"} => OfOneSetup(j.got) /\ j.got["vk"] # Absent
    /\ j.pc \in {"load", "create", "write"} =>
         /\ j.at \in {2, 3} => j.got["cs"] = disk[j.c]["cs"]
         /\ j.at = 3 => j.got["pk"] = disk[j.c]["pk"]
    /\ j.pc = "have" => OfOneSetup(j.got)

MemFits == \A c \in Circuits : OfOneSetup(mem[c])

DiskInv ==
    /\ TypeOK
    /\ OneToucher
    /\ ServerRegisters
    /\ VkIsLast
    /\ \A w \in Writers : Fits(w)
    /\ MemFits

-----------------------------------------------------------------------------
(* Types. *)

LEMMA SmallFacts ==
    /\ Server \in Writers
    /\ CLIs \subseteq Writers
    /\ Stored \subseteq Circuits
    /\ Decrypt \in Stored
    /\ NoKeys \in Keys
    /\ Absent \in Nat
    /\ Empty \in [Circuits -> Keys]
    /\ Resting \in Job
    /\ None \in Ask
    /\ Order[1] = "cs" /\ Order[2] = "pk" /\ Order[3] = "vk"
    /\ Parts = {"cs", "pk", "vk"}
  BY DEF Writers, Circuits, Stored, NoKeys, Keys, Absent, Empty, Resting, Job, None, Ask,
         Order, Parts

LEMMA SetupType ==
    ASSUME TypeOK, NEW c \in Circuits
    PROVE  /\ Setup(c) \in Keys
           /\ OfOneSetup(Setup(c))
           /\ Setup(c)["vk"] # Absent
  BY DEF TypeOK, Setup, Fresh, Keys, OfOneSetup, Parts, Absent

LEMMA DrawnType ==
    ASSUME TypeOK, NEW C
    PROVE  Drawn(C) \in [Circuits -> Nat]
  BY DEF TypeOK, Drawn, Fresh

\* What a step of one writer does to its job.
LEMMA JobFields ==
    ASSUME NEW j \in Job,
           NEW pc \in {"idle", "has", "load", "compile", "create", "write", "have"},
           NEW i \in 1..3, NEW g \in Keys
    PROVE  /\ [j EXCEPT !.pc = pc] \in Job
           /\ [j EXCEPT !.pc = pc, !.at = i] \in Job
           /\ [j EXCEPT !.pc = pc, !.at = 1] \in Job
           /\ [j EXCEPT !.pc = pc, !.got = g] \in Job
           /\ [j EXCEPT !.got = g, !.pc = pc, !.at = i] \in Job
<1>1. 1 \in 1..3
  OBVIOUS
<1>2. \A k \in 1..3 : [j EXCEPT !.pc = pc, !.at = k] \in Job
  BY DEF Job
<1>3. [j EXCEPT !.pc = pc] \in Job /\ [j EXCEPT !.pc = pc, !.got = g] \in Job
  BY DEF Job
<1>4. [j EXCEPT !.got = g, !.pc = pc, !.at = i] \in Job
  BY DEF Job
<1> QED BY <1>1, <1>2, <1>3, <1>4

LEMMA JobParts ==
    ASSUME NEW j \in Job
    PROVE  /\ j.at \in 1..3
           /\ j.got \in Keys
           /\ j.c \in Stored \cup {NoCircuit}
           /\ Order[j.at] \in Parts
<1>1. j.at \in 1..3 /\ j.got \in Keys /\ j.c \in Stored \cup {NoCircuit}
  BY DEF Job
<1>2. j.at = 1 \/ j.at = 2 \/ j.at = 3
  BY <1>1
<1>3. Order[j.at] \in Parts
  BY <1>2, SmallFacts
<1> QED BY <1>1, <1>3

LEMMA Begun ==
    ASSUME NEW c \in Stored
    PROVE  [Resting EXCEPT !.pc = "has", !.c = c] \in Job
  BY SmallFacts DEF Resting, Job

LEMMA TypeStep ==
    ASSUME TypeOK, [Next]_vars,
           \A w \in Writers : job[w].pc # "idle" => job[w].c \in Stored
    PROVE  TypeOK'
<1> USE SmallFacts DEF TypeOK
<1>1. CASE UNCHANGED vars
  BY <1>1 DEF vars
<1>2. CASE StartWithoutKeyDir
  BY <1>2, SetupType, DrawnType DEF StartWithoutKeyDir
<1>3. CASE StartWithKeyDir
  BY <1>3 DEF StartWithKeyDir
<1>4. CASE NextCircuit
  <2>1. PICK c \in todo : job' = [job EXCEPT ![Server] = [Resting EXCEPT !.pc = "has", !.c = c]]
    BY <1>4 DEF NextCircuit
  <2> DEFINE r == [Resting EXCEPT !.pc = "has", !.c = c]
  <2>2. r \in Job
    BY Begun
  <2> HIDE DEF r
  <2>3. job' \in [Writers -> Job]
    BY <2>1, <2>2 DEF r
  <2> QED BY <1>4, <2>3 DEF NextCircuit
<1>5. CASE StoreCircuit
  <2>1. job[Server].got \in Keys
    BY DEF Job
  <2> QED BY <1>5, <2>1 DEF StoreCircuit
<1>6. ASSUME NEW w \in Writers, Store(w)
      PROVE  TypeOK'
  <2> DEFINE i == job[w].at
             x == Order[i]
             f == disk[job[w].c][x]
  <2>1. job[w] \in Job /\ i \in 1..3 /\ job[w].got \in Keys /\ x \in Parts
    BY JobParts
  <2>2. CASE LookForKeys(w)
    <3> DEFINE r == [job[w] EXCEPT !.pc = IF Has(job[w].c) THEN "load" ELSE "compile", !.at = 1]
    <3>1. job' = [job EXCEPT ![w] = r]
      BY <2>2 DEF LookForKeys, Goto
    <3>2. r \in Job
      BY <2>1, JobFields
    <3> HIDE DEF r
    <3>3. job' \in [Writers -> Job]
      BY <3>1, <3>2
    <3> QED BY <2>2, <3>3 DEF LookForKeys
  <2>3. CASE LoadFile(w)
    <3> DEFINE g  == [job[w].got EXCEPT ![x] = f]
               pc == IF i = 3 THEN "have" ELSE "load"
               k  == IF i = 3 THEN 1 ELSE i + 1
               r  == [job[w] EXCEPT !.got = g, !.pc = pc, !.at = k]
    <3>1. f \in Nat /\ job' = [job EXCEPT ![w] = r]
      BY <2>3 DEF LoadFile
    <3>2. g \in Keys
      BY <2>1, <3>1 DEF Keys
    <3>3. k \in 1..3 /\ pc \in {"load", "have"}
      BY <2>1
    <3> HIDE DEF g, pc, k
    <3>4. r \in Job
      BY <2>1, <3>2, <3>3, JobFields
    <3> HIDE DEF r
    <3>5. job' \in [Writers -> Job]
      BY <3>1, <3>4
    <3> QED BY <2>3, <3>5 DEF LoadFile
  <2>4. CASE LoadFails(w)
    <3>1. CASE w = Server
      BY <2>4, <3>1 DEF LoadFails
    <3>2. CASE w # Server
      <4> DEFINE r == [job[w] EXCEPT !.pc = "compile", !.at = 1]
      <4>1. job' = [job EXCEPT ![w] = r]
        BY <2>4, <3>2 DEF LoadFails, Goto
      <4>2. r \in Job
        BY <2>1, JobFields
      <4> HIDE DEF r
      <4>3. job' \in [Writers -> Job]
        BY <4>1, <4>2
      <4> QED BY <2>4, <3>2, <4>3 DEF LoadFails
    <3> QED BY <3>1, <3>2
  <2>5. CASE CompileCircuit(w)
    <3> DEFINE r == [job[w] EXCEPT !.pc = "create", !.got = Setup(job[w].c)]
    <3>1. job' = [job EXCEPT ![w] = r] /\ job[w].c \in Circuits
      BY <2>5 DEF CompileCircuit
    <3>2. r \in Job
      BY <2>1, <3>1, SetupType, JobFields
    <3> HIDE DEF r
    <3>3. job' \in [Writers -> Job]
      BY <3>1, <3>2
    <3> QED BY <2>5, <3>3, DrawnType DEF CompileCircuit
  <2>6. CASE CreateFile(w)
    <3> DEFINE r == [job[w] EXCEPT !.pc = "write"]
    <3>1. job' = [job EXCEPT ![w] = r]
      BY <2>6 DEF CreateFile
    <3>2. r \in Job
      BY <2>1, JobFields
    <3> HIDE DEF r
    <3>3. job' \in [Writers -> Job]
      BY <3>1, <3>2
    <3>4. disk' \in [Stored -> [Parts -> File]]
      BY <2>6 DEF CreateFile, Created, File
    <3> QED BY <2>6, <3>3, <3>4 DEF CreateFile
  <2>7. CASE WriteFile(w)
    <3> DEFINE pc == IF i = 3 THEN "have" ELSE "create"
               k  == IF i = 3 THEN 1 ELSE i + 1
               r  == [job[w] EXCEPT !.pc = pc, !.at = k]
    <3>1. job' = [job EXCEPT ![w] = r]
      BY <2>7 DEF WriteFile
    <3>2. k \in 1..3 /\ pc \in {"create", "have"}
      BY <2>1
    <3> HIDE DEF pc, k
    <3>3. r \in Job
      BY <2>1, <3>2, JobFields
    <3> HIDE DEF r
    <3>4. job' \in [Writers -> Job]
      BY <3>1, <3>3
    <3>5. job[w].got[x] \in File
      BY <2>1 DEF Keys, File
    <3>6. disk' = [disk EXCEPT ![job[w].c][x] = job[w].got[x]]
      BY <2>7 DEF WriteFile, Written
    <3>7. disk' \in [Stored -> [Parts -> File]]
      BY <3>5, <3>6
    <3> QED BY <2>7, <3>4, <3>7 DEF WriteFile
  <2>8. CASE SaveFails(w)
    <3> DEFINE r == [job[w] EXCEPT !.pc = "have", !.at = 1]
    <3>1. job' = [job EXCEPT ![w] = r]
      BY <2>8 DEF SaveFails, Goto
    <3>2. r \in Job
      BY <2>1, JobFields
    <3> HIDE DEF r
    <3>3. job' \in [Writers -> Job]
      BY <3>1, <3>2
    <3> QED BY <2>8, <3>3, LimitsAssumption DEF SaveFails
  <2> QED BY <1>6, <2>2, <2>3, <2>4, <2>5, <2>6, <2>7, <2>8 DEF Store
<1>7. ASSUME NEW w \in CLIs, StartClosePoll(w) \/ PostProof(w) \/ KillClosePoll(w)
      PROVE  TypeOK'
  <2>1. job' \in [Writers -> Job]
    BY <1>7, Begun DEF StartClosePoll, PostProof, KillClosePoll
  <2> QED BY <1>7, <2>1, LimitsAssumption DEF StartClosePoll, PostProof, KillClosePoll
<1>8. ASSUME NEW p \in Procs, EnsureCompiled(p) \/ Continue(p)
      PROVE  TypeOK'
  <2>1. CASE EnsureCompiled(p)
    BY <2>1 DEF EnsureCompiled, Ask
  <2>2. CASE TakeLock(p)
    BY <2>2 DEF TakeLock, Ask
  <2>3. CASE CompileLazily(p)
    <3>1. CASE ask[p].c \in Circuits
      BY <2>3, <3>1, SetupType, DrawnType DEF CompileLazily, Unlocked
    <3>2. CASE ask[p].c \notin Circuits
      <4>1. mem' = mem
        BY <2>3, <3>2 DEF CompileLazily
      <4> QED BY <2>3, <4>1, DrawnType DEF CompileLazily, Unlocked
    <3> QED BY <3>1, <3>2
  <2>4. CASE CompileFails(p)
    BY <2>4 DEF CompileFails, Unlocked
  <2> QED BY <1>8, <2>1, <2>2, <2>3, <2>4 DEF Continue
<1>9. CASE StopServer \/ CrashServer
  BY <1>9, LimitsAssumption DEF StopServer, CrashServer, Halt
<1> QED BY <1>1, <1>2, <1>3, <1>4, <1>5, <1>6, <1>7, <1>8, <1>9 DEF Next
-----------------------------------------------------------------------------
(* The invariant on the files. *)

LEMMA OthersRest ==
    ASSUME DiskInv, NEW w \in Writers, job[w].pc \notin {"idle", "have"}
    PROVE  /\ Touching(w)
           /\ \A u \in Writers \ {w} : ~Touching(u) /\ job[u].pc \in {"idle", "have"}
<1>1. Touching(w)
  BY DEF DiskInv, ServerRegisters, Touching
<1>2. ASSUME NEW u \in Writers \ {w}
      PROVE  ~Touching(u) /\ job[u].pc \in {"idle", "have"}
  <2>1. ~Touching(u)
    BY <1>1 DEF DiskInv, OneToucher
  <2> QED BY <2>1 DEF DiskInv, ServerRegisters, Touching
<1> QED BY <1>1, <1>2

\* A writer that does not move, while the files do not change or it has no
\* business with them.
LEMMA FitsKept ==
    ASSUME NEW u \in Writers, Fits(u), job'[u] = job[u],
           disk' = disk \/ job[u].pc \in {"idle", "have"}
    PROVE  Fits(u)'
  BY DEF Fits, HasVk, Drawing

\* Nobody comes to touch the directory by a step of a writer that does already.
LEMMA ToucherKept ==
    ASSUME OneToucher, \A u \in Writers : Touching(u)' => Touching(u)
    PROVE  OneToucher'
  BY DEF OneToucher

LEMMA StoreStep ==
    ASSUME DiskInv, TypeOK', NEW w \in Writers, Store(w)
    PROVE  /\ OneToucher' /\ ServerRegisters' /\ VkIsLast' /\ MemFits'
           /\ \A u \in Writers : Fits(u)'
<1> DEFINE j == job[w]
           c == job[w].c
           i == job[w].at
           x == Order[i]
<1>1. j.pc \notin {"idle", "have"}
  BY DEF Store, LookForKeys, LoadFile, LoadFails, CompileCircuit, CreateFile, WriteFile, SaveFails
<1>2. /\ Touching(w)
      /\ \A u \in Writers \ {w} : ~Touching(u) /\ job[u].pc \in {"idle", "have"}
  BY <1>1, OthersRest
<1>3. /\ TypeOK /\ OneToucher /\ ServerRegisters /\ VkIsLast /\ MemFits
      /\ j \in Job /\ i \in 1..3 /\ j.got \in Keys /\ x \in Parts
      /\ c \in Stored /\ job \in [Writers -> Job]
      /\ disk \in [Stored -> [Parts -> File]]
      /\ \A u \in Writers : Fits(u)
  <2>1. TypeOK /\ OneToucher /\ ServerRegisters /\ VkIsLast /\ MemFits /\ \A u \in Writers : Fits(u)
    BY DEF DiskInv
  <2>2. job \in [Writers -> Job] /\ disk \in [Stored -> [Parts -> File]] /\ j \in Job
    BY <2>1 DEF TypeOK
  <2>3. c \in Stored
    BY <1>1, <2>1 DEF Fits
  <2> QED BY <2>1, <2>2, <2>3, JobParts
<1>4. /\ Fits(w)
      /\ i = 1 \/ i = 2 \/ i = 3
      /\ Order[1] = "cs" /\ Order[2] = "pk" /\ Order[3] = "vk"
  BY <1>3, SmallFacts
\* The steps that move w alone and leave the server as it is.
<1>5. ASSUME \A u \in Writers \ {w} : job'[u] = job[u], server' = server
      PROVE  OneToucher' /\ ServerRegisters'
  <2>1. \A u \in Writers : Touching(u)' => Touching(u)
    BY <1>2, <1>5 DEF Touching
  <2>2. job'[Server].pc # "idle" => server' = "registering"
    BY <1>2, <1>3, <1>5, SmallFacts DEF Touching, ServerRegisters
  <2> QED BY <1>3, <2>1, <2>2, ToucherKept DEF ServerRegisters
<1>6. ASSUME \A u \in Writers \ {w} : job'[u] = job[u], Fits(w)'
      PROVE  \A u \in Writers : Fits(u)'
  BY <1>2, <1>3, <1>6, FitsKept
<1>7. CASE LookForKeys(w)
  <2> DEFINE r == [j EXCEPT !.pc = IF Has(c) THEN "load" ELSE "compile", !.at = 1]
  <2>1. job' = [job EXCEPT ![w] = r] /\ disk' = disk /\ server' = server /\ mem' = mem
    BY <1>7 DEF LookForKeys, Goto
  <2>2. /\ r.pc = (IF Has(c) THEN "load" ELSE "compile")
        /\ r.at = 1 /\ r.c = c /\ r.got = j.got
    BY <1>3 DEF Job
  <2> HIDE DEF r
  <2>3. job'[w] = r /\ \A u \in Writers \ {w} : job'[u] = job[u]
    BY <1>3, <2>1
  <2>4. ~Has(c) => ~HasVk(c)
    BY <1>3 DEF VkIsLast, HasVk, OfOneSetup, Has
  <2>5. Fits(w)'
    BY <1>3, <2>1, <2>2, <2>3, <2>4 DEF Fits, HasVk, Drawing
  <2> QED BY <1>3, <1>5, <1>6, <2>1, <2>3, <2>5 DEF VkIsLast, HasVk, OfOneSetup, MemFits
<1>8. CASE LoadFile(w)
  <2> DEFINE f == disk[c][x]
             g == [j.got EXCEPT ![x] = f]
             r == [j EXCEPT !.got = g, !.pc = IF i = 3 THEN "have" ELSE "load",
                            !.at = IF i = 3 THEN 1 ELSE i + 1]
  <2>1. /\ job' = [job EXCEPT ![w] = r] /\ disk' = disk /\ server' = server /\ mem' = mem
        /\ f \in Nat \ {Absent} /\ j.pc = "load"
    BY <1>8 DEF LoadFile
  <2>2. /\ r.pc = (IF i = 3 THEN "have" ELSE "load")
        /\ r.at = (IF i = 3 THEN 1 ELSE i + 1) /\ r.c = c /\ r.got = g
    BY <1>3 DEF Job
  <2>3. g[x] = f /\ \A y \in Parts \ {x} : g[y] = j.got[y]
    BY <1>3 DEF Keys
  <2> HIDE DEF r, g
  <2>4. job'[w] = r /\ \A u \in Writers \ {w} : job'[u] = job[u]
    BY <1>3, <2>1
  <2>5. "cs" \in Parts /\ "pk" \in Parts /\ "vk" \in Parts
    BY SmallFacts
  <2>6. Fits(w)'
    <3>1. CASE i = 1
      BY <1>3, <1>4, <2>1, <2>2, <2>3, <2>4, <2>5, <3>1 DEF Fits, HasVk, Drawing
    <3>2. CASE i = 2
      BY <1>3, <1>4, <2>1, <2>2, <2>3, <2>4, <2>5, <3>2 DEF Fits, HasVk, Drawing
    <3>3. CASE i = 3
      <4>1. HasVk(c) /\ OfOneSetup(disk[c])
        BY <1>3, <1>4, <2>1, <3>3 DEF HasVk, VkIsLast
      <4>2. g["cs"] = disk[c]["cs"] /\ g["pk"] = disk[c]["pk"] /\ g["vk"] = disk[c]["vk"]
        BY <1>4, <2>1, <2>3, <2>5, <3>3 DEF Fits
      <4>3. OfOneSetup(g)
        BY <4>1, <4>2 DEF OfOneSetup
      <4> QED BY <1>3, <2>2, <2>4, <3>3, <4>3 DEF Fits, Drawing
    <3> QED BY <1>4, <3>1, <3>2, <3>3
  <2> QED BY <1>3, <1>5, <1>6, <2>1, <2>4, <2>6 DEF VkIsLast, HasVk, OfOneSetup, MemFits
<1>9. CASE LoadFails(w)
  <2>1. ~HasVk(c)
    <3>1. disk[c][x] \in {Absent, Torn}
      BY <1>9 DEF LoadFails
    <3>2. disk[c][x] \notin Nat \ {Absent}
      BY <3>1, TornAssumption
    <3> QED BY <1>3, <1>4, <3>2 DEF VkIsLast, HasVk, OfOneSetup
  <2>2. CASE w = Server
    <3>1. /\ job' = [job EXCEPT ![w] = Resting] /\ disk' = disk /\ server' = "bare" /\ mem' = Empty
      BY <1>9, <2>2 DEF LoadFails
    <3>2. job'[w] = Resting /\ \A u \in Writers \ {w} : job'[u] = job[u]
      BY <1>3, <3>1
    <3>3. Fits(w)'
      BY <3>2 DEF Fits, Resting, Drawing
    <3>4. \A u \in Writers : Touching(u)' => Touching(u)
      BY <1>2, <3>1, <3>2 DEF Touching
    <3>5. ServerRegisters'
      BY <2>2, <3>2 DEF ServerRegisters, Resting
    <3>6. MemFits'
      BY <3>1 DEF MemFits, Empty, NoKeys, OfOneSetup, Parts
    <3> QED BY <1>3, <1>6, <3>1, <3>2, <3>3, <3>4, <3>5, <3>6, ToucherKept
            DEF VkIsLast, HasVk, OfOneSetup
  <2>3. CASE w # Server
    <3> DEFINE r == [j EXCEPT !.pc = "compile", !.at = 1]
    <3>1. job' = [job EXCEPT ![w] = r] /\ disk' = disk /\ server' = server /\ mem' = mem
      BY <1>9, <2>3 DEF LoadFails, Goto
    <3>2. r.pc = "compile" /\ r.at = 1 /\ r.c = c /\ r.got = j.got
      BY <1>3 DEF Job
    <3> HIDE DEF r
    <3>3. job'[w] = r /\ \A u \in Writers \ {w} : job'[u] = job[u]
      BY <1>3, <3>1
    <3>4. Fits(w)'
      BY <1>3, <2>1, <3>1, <3>2, <3>3 DEF Fits, HasVk, Drawing
    <3> QED BY <1>3, <1>5, <1>6, <3>1, <3>3, <3>4 DEF VkIsLast, HasVk, OfOneSetup, MemFits
  <2> QED BY <2>2, <2>3
<1>10. CASE CompileCircuit(w)
  <2> DEFINE r == [j EXCEPT !.pc = "create", !.got = Setup(c)]
  <2>1. /\ job' = [job EXCEPT ![w] = r] /\ disk' = disk /\ server' = server /\ mem' = mem
        /\ j.pc = "compile"
    BY <1>10 DEF CompileCircuit
  <2>2. r.pc = "create" /\ r.at = i /\ r.c = c /\ r.got = Setup(c)
    BY <1>3 DEF Job
  <2> HIDE DEF r
  <2>3. job'[w] = r /\ \A u \in Writers \ {w} : job'[u] = job[u]
    BY <1>3, <2>1
  <2>4. OfOneSetup(Setup(c)) /\ Setup(c)["vk"] # Absent
    BY <1>3, SetupType, SmallFacts
  <2>5. ~HasVk(c) /\ i = 1
    BY <1>4, <2>1 DEF Fits, Drawing
  <2>6. Fits(w)'
    BY <1>3, <2>1, <2>2, <2>3, <2>4, <2>5 DEF Fits, HasVk, Drawing
  <2> QED BY <1>3, <1>5, <1>6, <2>1, <2>3, <2>6 DEF VkIsLast, HasVk, OfOneSetup, MemFits
<1>11. CASE CreateFile(w)
  <2> DEFINE r == [j EXCEPT !.pc = "write"]
  <2>1. /\ job' = [job EXCEPT ![w] = r] /\ server' = server /\ mem' = mem
        /\ disk' = [disk EXCEPT ![c][x] = Torn] /\ j.pc = "create"
    BY <1>11 DEF CreateFile, Created
  <2>2. r.pc = "write" /\ r.at = i /\ r.c = c /\ r.got = j.got
    BY <1>3 DEF Job
  <2> HIDE DEF r
  <2>3. job'[w] = r /\ \A u \in Writers \ {w} : job'[u] = job[u]
    BY <1>3, <2>1
  <2>4. /\ \A d \in Stored \ {c} : disk'[d] = disk[d]
        /\ disk'[c][x] = Torn /\ \A y \in Parts \ {x} : disk'[c][y] = disk[c][y]
    BY <1>3, <2>1
  <2>5. "cs" \in Parts /\ "pk" \in Parts /\ "vk" \in Parts
    BY SmallFacts
  <2>6. disk'[c]["vk"] \notin Nat \ {Absent}
    BY <1>4, <2>1, <2>4, <2>5, TornAssumption DEF HasVk, Fits, Drawing
  <2>7. Fits(w)'
    <3>1. CASE i = 1
      BY <1>4, <2>1, <2>2, <2>3, <2>6, <3>1 DEF Fits, HasVk, Drawing
    <3>2. CASE i = 2
      BY <1>4, <2>1, <2>2, <2>3, <2>4, <2>5, <2>6, <3>2 DEF Fits, HasVk, Drawing
    <3>3. CASE i = 3
      BY <1>4, <2>1, <2>2, <2>3, <2>4, <2>5, <2>6, <3>3 DEF Fits, HasVk, Drawing
    <3> QED BY <1>4, <3>1, <3>2, <3>3
  <2>8. VkIsLast'
    BY <1>3, <2>4, <2>6 DEF VkIsLast, HasVk, OfOneSetup
  <2> QED BY <1>3, <1>5, <1>6, <2>1, <2>3, <2>7, <2>8 DEF OfOneSetup, MemFits
<1>12. CASE WriteFile(w)
  <2> DEFINE r == [j EXCEPT !.pc = IF i = 3 THEN "have" ELSE "create",
                            !.at = IF i = 3 THEN 1 ELSE i + 1]
  <2>1. /\ job' = [job EXCEPT ![w] = r] /\ server' = server /\ mem' = mem
        /\ disk' = [disk EXCEPT ![c][x] = j.got[x]] /\ j.pc = "write"
    BY <1>12 DEF WriteFile, Written
  <2>2. /\ r.pc = (IF i = 3 THEN "have" ELSE "create")
        /\ r.at = (IF i = 3 THEN 1 ELSE i + 1) /\ r.c = c /\ r.got = j.got
    BY <1>3 DEF Job
  <2> HIDE DEF r
  <2>3. job'[w] = r /\ \A u \in Writers \ {w} : job'[u] = job[u]
    BY <1>3, <2>1
  <2>4. /\ \A d \in Stored \ {c} : disk'[d] = disk[d]
        /\ disk'[c][x] = j.got[x] /\ \A y \in Parts \ {x} : disk'[c][y] = disk[c][y]
    BY <1>3, <2>1
  <2>5. "cs" \in Parts /\ "pk" \in Parts /\ "vk" \in Parts
    BY SmallFacts
  <2>6. CASE i = 3
    <3>1. OfOneSetup(disk'[c])
      BY <1>4, <2>1, <2>4, <2>5, <2>6 DEF OfOneSetup, Fits
    <3>2. VkIsLast'
      BY <1>3, <2>4, <3>1 DEF VkIsLast, HasVk, OfOneSetup
    <3>3. Fits(w)'
      BY <1>3, <1>4, <2>1, <2>2, <2>3, <2>6 DEF Fits, Drawing
    <3> QED BY <1>3, <1>5, <1>6, <2>1, <2>3, <3>2, <3>3 DEF OfOneSetup, MemFits
  <2>7. CASE i # 3
    <3>1. ~HasVk(c) /\ disk'[c]["vk"] \notin Nat \ {Absent}
      BY <1>4, <2>1, <2>4, <2>5, <2>7 DEF HasVk, Fits, Drawing
    <3>2. VkIsLast'
      BY <1>3, <2>4, <3>1 DEF VkIsLast, HasVk, OfOneSetup
    <3>3. Fits(w)'
      <4>1. CASE i = 1
        BY <1>3, <1>4, <2>1, <2>2, <2>3, <2>4, <2>5, <3>1, <4>1 DEF Fits, HasVk, Drawing
      <4>2. CASE i = 2
        BY <1>3, <1>4, <2>1, <2>2, <2>3, <2>4, <2>5, <3>1, <4>2 DEF Fits, HasVk, Drawing
      <4> QED BY <1>4, <2>7, <4>1, <4>2
    <3> QED BY <1>3, <1>5, <1>6, <2>1, <2>3, <3>2, <3>3 DEF OfOneSetup, MemFits
  <2> QED BY <2>6, <2>7
<1>13. CASE SaveFails(w)
  <2> DEFINE r == [j EXCEPT !.pc = "have", !.at = 1]
  <2>1. /\ job' = [job EXCEPT ![w] = r] /\ disk' = disk /\ server' = server /\ mem' = mem
        /\ j.pc \in {"create", "write"}
    BY <1>13 DEF SaveFails, Goto
  <2>2. r.pc = "have" /\ r.at = 1 /\ r.c = c /\ r.got = j.got
    BY <1>3 DEF Job
  <2> HIDE DEF r
  <2>3. job'[w] = r /\ \A u \in Writers \ {w} : job'[u] = job[u]
    BY <1>3, <2>1
  <2>4. Fits(w)'
    BY <1>3, <1>4, <2>1, <2>2, <2>3 DEF Fits, Drawing
  <2> QED BY <1>3, <1>5, <1>6, <2>1, <2>3, <2>4 DEF VkIsLast, HasVk, OfOneSetup, MemFits
<1> QED BY <1>7, <1>8, <1>9, <1>10, <1>11, <1>12, <1>13 DEF Store

LEMMA DiskInit == Init => DiskInv
<1> SUFFICES ASSUME Init PROVE DiskInv
  OBVIOUS
<1>1. TypeOK
  <2>1. NoKeys \in Keys /\ NoKeys \in [Parts -> File]
    BY SmallFacts DEF NoKeys, Keys, File, Absent
  <2>2. disk \in [Stored -> [Parts -> File]] /\ mem \in [Circuits -> Keys]
    BY <2>1 DEF Init, Empty
  <2>3. Resting \in Job
    BY <2>1 DEF Resting, Job
  <2>4. job \in [Writers -> Job] /\ ask \in [Procs -> Ask]
    BY <2>3 DEF Init, Ask, None
  <2>5. failures \in 0..MaxFailures /\ crashes \in 0..MaxCrashes
    BY LimitsAssumption DEF Init
  <2> QED BY <2>2, <2>4, <2>5 DEF Init, TypeOK
<1>2. \A w \in Writers : Fits(w) /\ ~Touching(w)
  BY DEF Init, Fits, Touching, Resting, Drawing
<1>3. VkIsLast
  BY SmallFacts DEF Init, VkIsLast, HasVk, NoKeys
<1>4. MemFits
  BY SmallFacts DEF Init, MemFits, Empty, NoKeys, OfOneSetup
<1> QED BY <1>1, <1>2, <1>3, <1>4, SmallFacts DEF DiskInv, OneToucher, ServerRegisters, Init, Resting

\* No step but those of Store touches the files.
LEMMA OtherStep ==
    ASSUME DiskInv, [Next]_vars, ~\E w \in Writers : Store(w)
    PROVE  /\ disk' = disk
           /\ OneToucher' /\ ServerRegisters' /\ MemFits'
           /\ \A u \in Writers : Fits(u)'
<1>1. /\ TypeOK /\ OneToucher /\ ServerRegisters /\ MemFits
      /\ job \in [Writers -> Job] /\ mem \in [Circuits -> Keys]
      /\ \A u \in Writers : Fits(u)
  BY DEF DiskInv, TypeOK
<1>2. ASSUME NEW w \in Writers, \A u \in Writers \ {w} : job'[u] = job[u],
             disk' = disk, Fits(w)'
      PROVE  \A u \in Writers : Fits(u)'
  BY <1>1, <1>2, FitsKept
<1>3. CASE UNCHANGED vars
  BY <1>1, <1>3, FitsKept DEF vars, OneToucher, Touching, ServerRegisters, MemFits, OfOneSetup
<1>4. CASE StartWithoutKeyDir
  <2>1. \A u \in Writers : Touching(u)' => Touching(u)
    BY <1>4 DEF StartWithoutKeyDir, Touching
  <2>2. MemFits'
    BY <1>1, <1>4, SetupType, SmallFacts DEF StartWithoutKeyDir, MemFits, OfOneSetup, NoKeys
  <2> QED BY <1>1, <1>4, <2>1, <2>2, FitsKept, ToucherKept DEF StartWithoutKeyDir, ServerRegisters
<1>5. CASE StartWithKeyDir
  <2>1. OneToucher'
    BY <1>1, <1>5 DEF StartWithKeyDir, MayBegin, OneToucher, Touching
  <2> QED BY <1>1, <1>5, <2>1, FitsKept DEF StartWithKeyDir, ServerRegisters, MemFits, OfOneSetup
<1>6. CASE NextCircuit
  <2>1. PICK c \in todo : job' = [job EXCEPT ![Server] = [Resting EXCEPT !.pc = "has", !.c = c]]
    BY <1>6 DEF NextCircuit
  <2>2. /\ \A u \in Writers \ {Server} : job'[u] = job[u]
        /\ job'[Server] = [Resting EXCEPT !.pc = "has", !.c = c]
    BY <1>1, <2>1, SmallFacts
  <2>3. c \in Stored
    BY <1>1 DEF TypeOK
  <2>4. Fits(Server)'
    BY <2>2, <2>3 DEF Fits, Resting, Drawing
  <2>5. \A u \in Writers : Touching(u)' => Touching(u)
    BY <1>6, <2>2 DEF NextCircuit, Touching
  <2> QED BY <1>1, <1>2, <1>6, <2>2, <2>4, <2>5, SmallFacts, ToucherKept
          DEF NextCircuit, ServerRegisters, MemFits, OfOneSetup
<1>7. CASE StoreCircuit
  <2>1. /\ \A u \in Writers \ {Server} : job'[u] = job[u]
        /\ job'[Server] = Resting /\ disk' = disk
        /\ mem' = [mem EXCEPT ![job[Server].c] = job[Server].got]
        /\ job[Server].pc = "have"
    BY <1>1, <1>7, SmallFacts DEF StoreCircuit
  <2>2. OfOneSetup(job[Server].got)
    BY <1>1, <2>1, SmallFacts DEF Fits
  <2>3. MemFits'
    BY <1>1, <2>1, <2>2 DEF MemFits, OfOneSetup
  <2>4. Fits(Server)' /\ ServerRegisters'
    BY <2>1 DEF Fits, Resting, Drawing, ServerRegisters
  <2>5. \A u \in Writers : Touching(u)' => Touching(u)
    BY <1>1, <1>7, <2>1 DEF StoreCircuit, Touching, ServerRegisters
  <2> QED BY <1>1, <1>2, <2>1, <2>3, <2>4, <2>5, SmallFacts, ToucherKept
<1>8. ASSUME NEW w \in CLIs, StartClosePoll(w)
      PROVE  /\ disk' = disk
             /\ OneToucher' /\ ServerRegisters' /\ MemFits'
             /\ \A u \in Writers : Fits(u)'
  <2>1. w \in Writers /\ w # Server
    BY SmallFacts, ServerAssumption
  <2>2. /\ \A u \in Writers \ {w} : job'[u] = job[u]
        /\ job'[w] = [Resting EXCEPT !.pc = "has", !.c = Decrypt]
        /\ disk' = disk /\ server' = server /\ mem' = mem
    BY <1>1, <1>8, <2>1 DEF StartClosePoll
  <2>3. Fits(w)'
    BY <2>2, SmallFacts DEF Fits, Resting, Drawing
  <2>4. OneToucher'
    BY <1>1, <1>8, <2>1, <2>2 DEF StartClosePoll, MayBegin, OneToucher, Touching
  <2> QED BY <1>1, <1>2, <2>1, <2>2, <2>3, <2>4, SmallFacts DEF ServerRegisters, MemFits, OfOneSetup
<1>9. ASSUME NEW w \in CLIs, PostProof(w) \/ KillClosePoll(w)
      PROVE  /\ disk' = disk
             /\ OneToucher' /\ ServerRegisters' /\ MemFits'
             /\ \A u \in Writers : Fits(u)'
  <2>1. w \in Writers /\ w # Server
    BY SmallFacts, ServerAssumption
  <2>2. /\ \A u \in Writers \ {w} : job'[u] = job[u]
        /\ job'[w] = Resting
        /\ disk' = disk /\ server' = server /\ mem' = mem
    BY <1>1, <1>9, <2>1 DEF PostProof, KillClosePoll
  <2>3. Fits(w)'
    BY <2>2 DEF Fits, Resting, Drawing
  <2>4. \A u \in Writers : Touching(u)' => Touching(u)
    BY <2>1, <2>2 DEF Touching, Resting
  <2> QED BY <1>1, <1>2, <2>1, <2>2, <2>3, <2>4, SmallFacts, ToucherKept
          DEF ServerRegisters, MemFits, OfOneSetup
<1>10. ASSUME NEW p \in Procs, EnsureCompiled(p) \/ Continue(p)
       PROVE  /\ disk' = disk
              /\ OneToucher' /\ ServerRegisters' /\ MemFits'
              /\ \A u \in Writers : Fits(u)'
  <2>1. disk' = disk /\ job' = job /\ server' = server
    BY <1>10 DEF EnsureCompiled, Continue, TakeLock, CompileLazily, CompileFails
  <2>2. MemFits'
    <3>1. CASE CompileLazily(p)
      <4>1. mem' = [mem EXCEPT ![ask[p].c] = Setup(ask[p].c)]
        BY <3>1 DEF CompileLazily
      <4>2. ASSUME NEW d \in Circuits PROVE OfOneSetup(mem'[d])
        <5>1. CASE d = ask[p].c
          BY <1>1, <4>1, <4>2, <5>1, SetupType
        <5>2. CASE d # ask[p].c
          BY <1>1, <4>1, <4>2, <5>2 DEF MemFits
        <5> QED BY <5>1, <5>2
      <4> QED BY <4>2 DEF MemFits, OfOneSetup
    <3>2. CASE ~CompileLazily(p)
      BY <1>1, <1>10, <3>2 DEF EnsureCompiled, Continue, TakeLock, CompileFails, MemFits, OfOneSetup
    <3> QED BY <3>1, <3>2
  <2>3. \A u \in Writers : Touching(u)' => Touching(u)
    BY <2>1 DEF Touching
  <2> QED BY <1>1, <2>1, <2>2, <2>3, FitsKept, ToucherKept DEF ServerRegisters
<1>11. CASE StopServer \/ CrashServer
  <2>1. /\ \A u \in Writers \ {Server} : job'[u] = job[u]
        /\ job'[Server] = Resting /\ disk' = disk /\ server' = "down" /\ mem' = Empty
    BY <1>1, <1>11, SmallFacts DEF StopServer, CrashServer, Halt
  <2>2. Fits(Server)' /\ ServerRegisters'
    BY <2>1 DEF Fits, Resting, Drawing, ServerRegisters
  <2>3. MemFits'
    BY <2>1, SmallFacts DEF MemFits, Empty, NoKeys, OfOneSetup
  <2>4. \A u \in Writers : Touching(u)' => Touching(u)
    BY <2>1 DEF Touching
  <2> QED BY <1>1, <1>2, <2>1, <2>2, <2>3, <2>4, SmallFacts, ToucherKept
<1> QED BY <1>3, <1>4, <1>5, <1>6, <1>7, <1>8, <1>9, <1>10, <1>11 DEF Next

LEMMA DiskStep == DiskInv /\ [Next]_vars => DiskInv'
<1> SUFFICES ASSUME DiskInv, [Next]_vars PROVE DiskInv'
  OBVIOUS
<1>1. TypeOK'
  <2>1. \A w \in Writers : job[w].pc # "idle" => job[w].c \in Stored
    BY DEF DiskInv, Fits
  <2> QED BY <2>1, TypeStep DEF DiskInv
<1>2. CASE \E w \in Writers : Store(w)
  BY <1>1, <1>2, StoreStep DEF DiskInv
<1>3. CASE ~\E w \in Writers : Store(w)
  <2>1. VkIsLast'
    BY <1>3, OtherStep DEF DiskInv, VkIsLast, HasVk, OfOneSetup
  <2> QED BY <1>1, <1>3, <2>1, OtherStep DEF DiskInv
<1> QED BY <1>2, <1>3

LEMMA DiskHolds == Spec => []DiskInv
  BY DiskInit, DiskStep, PTL DEF Spec

\* Types of the key store, of the prover and of the calls in flight.
THEOREM KeyTypes == Spec => []TypeOK
<1>1. DiskInv => TypeOK
  BY DEF DiskInv
<1> QED BY <1>1, DiskHolds, PTL

\* Whatever is saved, loaded, killed or fails, the server and every close-poll
\* hold the three parts of one setup (KeyStore.Save, Load, CompileAndSave).
THEOREM HeldKeysFit == Spec => []KeysFit
<1>1. DiskInv => KeysFit
  BY DEF DiskInv, KeysFit, MemFits, Fits
<1> QED BY <1>1, DiskHolds, PTL

LEMMA WholeStaysStep ==
    ASSUME DiskInv, [Next]_vars, NEW c \in Stored, Whole(c)
    PROVE  disk'[c] = disk[c]
<1>1. CASE ~\E w \in Writers : Store(w)
  BY <1>1, OtherStep
<1>2. ASSUME NEW w \in Writers, Store(w)
      PROVE  disk'[c] = disk[c]
  <2>1. CASE CreateFile(w) \/ WriteFile(w)
    <3>1. job[w].pc \in Drawing
      BY <2>1 DEF CreateFile, WriteFile, Drawing
    <3>2. ~HasVk(job[w].c)
      BY <3>1 DEF DiskInv, Fits
    <3>3. c # job[w].c
      BY <3>2 DEF Whole, HasVk
    <3>4. disk \in [Stored -> [Parts -> File]]
      BY DEF DiskInv, TypeOK
    <3> QED BY <2>1, <3>3, <3>4 DEF CreateFile, WriteFile
  <2>2. CASE ~(CreateFile(w) \/ WriteFile(w))
    BY <1>2, <2>2 DEF Store, LookForKeys, LoadFile, LoadFails, CompileCircuit, SaveFails
  <2> QED BY <2>1, <2>2
<1> QED BY <1>1, <1>2

\* A circuit's complete keys are never written again (CompileAndSave).
THEOREM KeysStay == Spec => WholeKeysStay
<1>1. DiskInv /\ [Next]_vars => [\A c \in Stored : Whole(c) => disk'[c] = disk[c]]_vars
  BY WholeStaysStep
<1> QED BY <1>1, DiskHolds, PTL DEF Spec, WholeKeysStay

-----------------------------------------------------------------------------
(* Compilation on first use.  A call that is compiling holds lazyMu and has *)
(* seen under it that the circuit is missing; calls live as long as the     *)
(* server serves.                                                           *)

UnderLock(p) ==
    /\ ask[p].pc # "idle" => server = "serving"
    /\ ask[p].pc = "compile" => lazyMu = p /\ mem[ask[p].c] = NoKeys

LEMMA LazyStep ==
    ASSUME DiskInv, [Next]_vars, \A p \in Procs : UnderLock(p)
    PROVE  /\ \A p \in Procs : UnderLock(p)'
           /\ \A c \in Circuits : mem[c] # NoKeys /\ server = "serving" /\ server' = "serving"
                                    => mem'[c] = mem[c]
<1> DEFINE Kept == \A c \in Circuits :
                     mem[c] # NoKeys /\ server = "serving" /\ server' = "serving"
                       => mem'[c] = mem[c]
<1>1. /\ mem \in [Circuits -> Keys] /\ ask \in [Procs -> Ask] /\ lazyMu \in Procs \cup {NoOne}
      /\ ServerRegisters
  BY DEF DiskInv, TypeOK
<1>2. CASE UNCHANGED <<server, mem, ask, lazyMu>>
  BY <1>2 DEF UnderLock
<1>3. CASE UNCHANGED <<ask, lazyMu>> /\ server # "serving"
  BY <1>3 DEF UnderLock
<1>4. CASE server' = "down" /\ ask' = [p \in Procs |-> None]
  BY <1>4 DEF UnderLock, None
<1>5. ASSUME NEW p \in Procs, EnsureCompiled(p) \/ TakeLock(p) \/ CompileFails(p)
      PROVE  Kept /\ \A q \in Procs : UnderLock(q)'
  <2>1. server = "serving" /\ server' = server /\ mem' = mem
    BY <1>5 DEF UnderLock, EnsureCompiled, TakeLock, CompileFails
  <2>2. \A q \in Procs \ {p} : ask'[q] = ask[q]
    BY <1>1, <1>5 DEF EnsureCompiled, TakeLock, CompileFails
  <2>3. \A q \in Procs \ {p} : ask[q].pc = "compile" => lazyMu' = lazyMu
    BY <1>5, ServerAssumption DEF UnderLock, EnsureCompiled, TakeLock, CompileFails
  <2>4. ask'[p].pc = "compile" => lazyMu' = p /\ mem[ask'[p].c] = NoKeys
    <3>1. CASE EnsureCompiled(p)
      <4>1. PICK c \in Circuits : ask' = [ask EXCEPT ![p] = [pc |-> "lock", c |-> c]]
        BY <3>1 DEF EnsureCompiled
      <4> QED BY <1>1, <4>1
    <3>2. CASE TakeLock(p)
      <4>1. ask[p] \in Ask
        BY <1>1
      <4>2. CASE CompiledMeanwhile(ask[p].c) \/ ask[p].c \notin Lazy
        BY <1>1, <3>2, <4>2 DEF TakeLock, None
      <4>3. CASE ~(CompiledMeanwhile(ask[p].c) \/ ask[p].c \notin Lazy)
        <5>1. ask' = [ask EXCEPT ![p] = [ask[p] EXCEPT !.pc = "compile"]] /\ lazyMu' = p
          BY <3>2, <4>3 DEF TakeLock
        <5>2. ask'[p].c = ask[p].c
          BY <1>1, <4>1, <5>1 DEF Ask
        <5> QED BY <4>3, <5>1, <5>2 DEF CompiledMeanwhile
      <4> QED BY <4>2, <4>3
    <3>3. CASE CompileFails(p)
      BY <1>1, <3>3 DEF CompileFails, None
    <3> QED BY <1>5, <3>1, <3>2, <3>3
  <2> QED BY <2>1, <2>2, <2>3, <2>4 DEF UnderLock
<1>6. ASSUME NEW p \in Procs, CompileLazily(p)
      PROVE  Kept /\ \A q \in Procs : UnderLock(q)'
  <2>1. server = "serving" /\ server' = server /\ lazyMu = p /\ mem[ask[p].c] = NoKeys
    BY <1>6 DEF UnderLock, CompileLazily
  <2>2. ask' = [ask EXCEPT ![p] = None] /\ \A c \in Circuits \ {ask[p].c} : mem'[c] = mem[c]
    BY <1>1, <1>6 DEF CompileLazily
  <2>3. \A q \in Procs : ask'[q].pc # "compile"
    BY <1>1, <2>1, <2>2 DEF UnderLock, None
  <2> QED BY <2>1, <2>2, <2>3 DEF UnderLock
<1>7. CASE \E w \in Writers : Store(w)
  <2>1. PICK w \in Writers : Store(w)
    BY <1>7
  <2>2. CASE LoadFails(w) /\ w = Server
    BY <1>3, <2>2 DEF LoadFails, ServerRegisters, DiskInv
  <2>3. CASE ~(LoadFails(w) /\ w = Server)
    BY <1>2, <2>1, <2>3 DEF Store, LookForKeys, LoadFile, LoadFails, CompileCircuit,
                            CreateFile, WriteFile, SaveFails
  <2> QED BY <2>2, <2>3
<1>8. CASE StartWithoutKeyDir \/ StartWithKeyDir \/ NextCircuit \/ StoreCircuit
  BY <1>1, <1>3, <1>8 DEF StartWithoutKeyDir, StartWithKeyDir, NextCircuit, StoreCircuit,
                          ServerRegisters
<1>9. CASE \E w \in CLIs : StartClosePoll(w) \/ PostProof(w) \/ KillClosePoll(w)
  BY <1>2, <1>9 DEF StartClosePoll, PostProof, KillClosePoll
<1>10. CASE StopServer \/ CrashServer
  BY <1>4, <1>10 DEF StopServer, CrashServer, Halt
<1>11. CASE UNCHANGED vars
  BY <1>2, <1>11 DEF vars
<1> QED BY <1>5, <1>6, <1>7, <1>8, <1>9, <1>10, <1>11 DEF Next, Continue

\* Requests that find a circuit missing together compile it once; no step of a
\* running server changes keys it holds (EnsureCompiled).
THEOREM OneCompilation == Spec => CompiledOnce
<1> DEFINE L == DiskInv /\ \A p \in Procs : UnderLock(p)
<1>1. Init => L
  BY DiskInit DEF Init, UnderLock, None
<1>2. L /\ [Next]_vars => L'
  BY DiskStep, LazyStep
<1>3. L /\ [Next]_vars =>
        [\A c \in Circuits : mem[c] # NoKeys /\ server = "serving" /\ server' = "serving"
                               => mem'[c] = mem[c]]_vars
  BY LazyStep
<1> QED BY <1>1, <1>2, <1>3, PTL DEF Spec, CompiledOnce

-----------------------------------------------------------------------------
(* As long as no save fails, what a writer ends up with is what is on disk, *)
(* and so is what a server with a key directory has taken over from it.     *)

Phase ==
    /\ server = "registering" => keyDir
    /\ server # "registering" => todo = {}
    /\ \A p \in Procs : ask[p].pc = "compile" => ~keyDir
    /\ \A w \in CLIs : job[w].pc # "idle" => job[w].c = Decrypt

Held(w) == job[w].pc = "have" => Whole(job[w].c) /\ disk[job[w].c] = job[w].got

Served == keyDir /\ server \in {"registering", "serving"} =>
              \A c \in Stored \ todo : Whole(c) /\ mem[c] = disk[c]

Agree == failures = 0 => Served /\ \A w \in Writers : Held(w)

\* A step of Store moves one writer, which stays at its circuit or gives up.
LEMMA StoreMoves ==
    ASSUME DiskInv, NEW w \in Writers, Store(w)
    PROVE  /\ \A u \in Writers \ {w} : job'[u] = job[u]
           /\ job'[w].c = job[w].c \/ job'[w].pc = "idle"
<1>1. job \in [Writers -> Job] /\ job[w] \in Job
  BY DEF DiskInv, TypeOK
<1>2. CASE LookForKeys(w)
  BY <1>1, <1>2 DEF LookForKeys, Goto, Job
<1>3. CASE LoadFile(w)
  BY <1>1, <1>3 DEF LoadFile, Job
<1>4. CASE LoadFails(w)
  <2>1. CASE w = Server
    BY <1>1, <1>4, <2>1 DEF LoadFails, Resting
  <2>2. CASE w # Server
    BY <1>1, <1>4, <2>2 DEF LoadFails, Goto, Job
  <2> QED BY <2>1, <2>2
<1>5. CASE CompileCircuit(w)
  BY <1>1, <1>5 DEF CompileCircuit, Job
<1>6. CASE CreateFile(w)
  <2>1. job' = [job EXCEPT ![w] = [job[w] EXCEPT !.pc = "write"]]
    BY <1>6 DEF CreateFile
  <2> QED BY <1>1, <2>1 DEF Job
<1>7. CASE WriteFile(w)
  <2>1. PICK pc, at : job' = [job EXCEPT ![w] = [job[w] EXCEPT !.pc = pc, !.at = at]]
    BY <1>7 DEF WriteFile
  <2> QED BY <1>1, <2>1 DEF Job
<1>8. CASE SaveFails(w)
  BY <1>1, <1>8 DEF SaveFails, Goto, Job
<1> QED BY <1>2, <1>3, <1>4, <1>5, <1>6, <1>7, <1>8 DEF Store

LEMMA PhaseStep ==
    ASSUME DiskInv, Phase, [Next]_vars, \A p \in Procs : UnderLock(p)
    PROVE  Phase'
<1>1. /\ job \in [Writers -> Job] /\ ask \in [Procs -> Ask] /\ ServerRegisters
      /\ Server \notin CLIs /\ CLIs \subseteq Writers
  BY ServerAssumption, SmallFacts DEF DiskInv, TypeOK
<1>2. CASE StartWithoutKeyDir \/ StartWithKeyDir \/ NextCircuit \/ StoreCircuit
  <2>1. \A w \in CLIs : job'[w] = job[w]
    BY <1>1, <1>2 DEF StartWithoutKeyDir, StartWithKeyDir, NextCircuit, StoreCircuit
  <2>2. ask' = ask /\ (server = "serving" => keyDir' = keyDir)
    BY <1>2 DEF StartWithoutKeyDir, StartWithKeyDir, NextCircuit, StoreCircuit
  <2>3. server' = "registering" => keyDir'
    BY <1>2 DEF Phase, StartWithoutKeyDir, StartWithKeyDir, NextCircuit, StoreCircuit
  <2>4. server' # "registering" => todo' = {}
    BY <1>1, <1>2 DEF Phase, StartWithoutKeyDir, StartWithKeyDir, NextCircuit, StoreCircuit,
                      ServerRegisters
  <2> QED BY <2>1, <2>2, <2>3, <2>4 DEF Phase, UnderLock
<1>3. ASSUME NEW w \in Writers, Store(w)
      PROVE  Phase'
  <2>1. keyDir' = keyDir /\ ask' = ask
    BY <1>3 DEF Store, LookForKeys, LoadFile, LoadFails, CompileCircuit, CreateFile,
                WriteFile, SaveFails
  <2>2. \/ server' # "registering" /\ todo' = {}
        \/ server' = server /\ todo' = todo
    <3>1. CASE LoadFails(w)
      BY <3>1 DEF LoadFails
    <3>2. CASE ~LoadFails(w)
      BY <1>3, <3>2 DEF Store, LookForKeys, LoadFile, CompileCircuit, CreateFile, WriteFile,
                        SaveFails
    <3> QED BY <3>1, <3>2
  <2>3. \A u \in CLIs : job'[u].pc # "idle" => job'[u].c = Decrypt
    <3>1. \A u \in CLIs \ {w} : job'[u] = job[u]
      BY <1>1, <1>3, StoreMoves
    <3>2. job'[w].c = job[w].c \/ job'[w].pc = "idle"
      BY <1>3, StoreMoves
    <3>3. job[w].pc # "idle"
      BY <1>3 DEF Store, LookForKeys, LoadFile, LoadFails, CompileCircuit, CreateFile,
                  WriteFile, SaveFails
    <3> QED BY <3>1, <3>2, <3>3 DEF Phase
  <2> QED BY <2>1, <2>2, <2>3 DEF Phase
<1>4. ASSUME NEW w \in CLIs, StartClosePoll(w) \/ PostProof(w) \/ KillClosePoll(w)
      PROVE  Phase'
  <2>1. UNCHANGED <<server, keyDir, todo, ask>>
    BY <1>4 DEF StartClosePoll, PostProof, KillClosePoll
  <2>2. \/ job' = [job EXCEPT ![w] = Resting]
        \/ job' = [job EXCEPT ![w] = [Resting EXCEPT !.pc = "has", !.c = Decrypt]]
    BY <1>4 DEF StartClosePoll, PostProof, KillClosePoll
  <2>3. \A u \in CLIs : job'[u].pc # "idle" => job'[u].c = Decrypt
    <3>1. \A u \in CLIs \ {w} : job'[u] = job[u]
      BY <1>1, <2>2
    <3>2. job'[w] = Resting \/ job'[w] = [Resting EXCEPT !.pc = "has", !.c = Decrypt]
      BY <1>1, <2>2
    <3>3. Resting.pc = "idle" /\ [Resting EXCEPT !.pc = "has", !.c = Decrypt].c = Decrypt
      BY DEF Resting
    <3> QED BY <3>1, <3>2, <3>3 DEF Phase
  <2> QED BY <2>1, <2>3 DEF Phase
<1>5. ASSUME NEW p \in Procs, EnsureCompiled(p) \/ Continue(p)
      PROVE  Phase'
  <2>1. UNCHANGED <<server, keyDir, todo, job>>
    BY <1>5 DEF Continue, EnsureCompiled, TakeLock, CompileLazily, CompileFails
  <2>2. \A q \in Procs \ {p} : ask'[q] = ask[q]
    BY <1>1, <1>5 DEF Continue, EnsureCompiled, TakeLock, CompileLazily, CompileFails
  <2>3. ask'[p].pc = "compile" => ~keyDir
    <3>1. CASE EnsureCompiled(p)
      <4>1. PICK c \in Circuits : ask' = [ask EXCEPT ![p] = [pc |-> "lock", c |-> c]]
        BY <3>1 DEF EnsureCompiled
      <4> QED BY <1>1, <4>1
    <3>2. CASE TakeLock(p)
      BY <1>1, <3>2 DEF TakeLock, Lazy, None
    <3>3. CASE CompileLazily(p) \/ CompileFails(p)
      <4>1. ask' = [ask EXCEPT ![p] = None]
        BY <3>3 DEF CompileLazily, CompileFails
      <4> QED BY <1>1, <4>1 DEF None
    <3> QED BY <1>5, <3>1, <3>2, <3>3 DEF Continue
  <2> QED BY <2>1, <2>2, <2>3 DEF Phase
<1>6. CASE StopServer \/ CrashServer
  <2>1. /\ server' = "down" /\ todo' = {} /\ ask' = [p \in Procs |-> None]
        /\ job' = [job EXCEPT ![Server] = Resting]
    BY <1>6 DEF StopServer, CrashServer, Halt
  <2> QED BY <1>1, <2>1 DEF Phase, None
<1>7. CASE UNCHANGED vars
  BY <1>7 DEF vars, Phase
<1> QED BY <1>2, <1>3, <1>4, <1>5, <1>6, <1>7 DEF Next

\* What a writer has finished with is what is on disk.
LEMMA HeldStep ==
    ASSUME DiskInv, [Next]_vars, failures' = 0, \A w \in Writers : Held(w),
           NEW w \in Writers
    PROVE  Held(w)'
<1>1. /\ job \in [Writers -> Job] /\ job[w] \in Job /\ CLIs \subseteq Writers
      /\ Server \in Writers /\ disk \in [Stored -> [Parts -> File]]
      /\ failures \in Nat
  BY SmallFacts, LimitsAssumption DEF DiskInv, TypeOK
<1>2. CASE job'[w] = job[w]
  <2>1. job[w].pc = "have" => job[w].c \in Stored /\ Whole(job[w].c)
    BY DEF DiskInv, Fits, Held
  <2>2. job[w].pc = "have" => disk'[job[w].c] = disk[job[w].c]
    BY <2>1, WholeStaysStep
  <2> QED BY <1>2, <2>1, <2>2 DEF Held, Whole
<1>3. CASE job'[w].pc # "have"
  BY <1>3 DEF Held
<1>4. ASSUME NEW u \in Writers, Store(u)
      PROVE  Held(w)'
  <2>1. CASE u # w
    BY <1>2, <1>4, <2>1, StoreMoves
  <2>2. CASE u = w /\ (LookForKeys(w) \/ LoadFails(w) \/ CompileCircuit(w) \/ CreateFile(w))
    <3>1. job'[w].pc # "have"
      <4>1. CASE LookForKeys(w)
        BY <1>1, <4>1 DEF LookForKeys, Goto, Job
      <4>2. CASE LoadFails(w)
        <5>1. job'[w] = Resting \/ job'[w] = [job[w] EXCEPT !.pc = "compile", !.at = 1]
          BY <1>1, <4>2 DEF LoadFails, Goto
        <5>2. [job[w] EXCEPT !.pc = "compile", !.at = 1].pc = "compile"
          BY <1>1 DEF Job
        <5>3. Resting.pc = "idle"
          BY DEF Resting
        <5> QED BY <5>1, <5>2, <5>3
      <4>3. CASE CompileCircuit(w)
        BY <1>1, <4>3 DEF CompileCircuit, Job
      <4>4. CASE CreateFile(w)
        <5>1. job'[w] = [job[w] EXCEPT !.pc = "write"]
          BY <1>1, <4>4 DEF CreateFile
        <5> QED BY <1>1, <5>1 DEF Job
      <4> QED BY <2>2, <4>1, <4>2, <4>3, <4>4
    <3> QED BY <1>3, <3>1
  <2>3. CASE u = w /\ LoadFile(w)
    <3> DEFINE j == job[w]
               f == disk[j.c][Order[j.at]]
    <3>1. j.pc = "load" /\ f \in Nat \ {Absent} /\ disk' = disk /\ j.c \in Stored /\ Fits(w)
      BY <2>3 DEF LoadFile, DiskInv, Fits
    <3>2. CASE j.at = 3
      <4>1. job'[w].c = j.c /\ job'[w].got = [j.got EXCEPT !["vk"] = f]
        BY <1>1, <2>3, <3>2, SmallFacts DEF LoadFile, Job
      <4>2. /\ f = disk[j.c]["vk"] /\ j.got["cs"] = disk[j.c]["cs"]
            /\ j.got["pk"] = disk[j.c]["pk"]
        BY <3>1, <3>2, SmallFacts DEF Fits
      <4>3. job'[w].got = disk[j.c]
        <5>1. j.got \in [Parts -> Nat] /\ disk[j.c] \in [Parts -> File]
          BY <1>1, <3>1, JobParts DEF Keys
        <5>2. \A y \in Parts : [j.got EXCEPT !["vk"] = f][y] = disk[j.c][y]
          BY <4>2, <5>1, SmallFacts
        <5> QED BY <4>1, <5>1, <5>2
      <4>4. Whole(j.c)
        BY <3>1, <4>2 DEF DiskInv, VkIsLast, HasVk, Whole
      <4> QED BY <3>1, <4>1, <4>3, <4>4 DEF Held, Whole
    <3>3. CASE j.at # 3
      <4>1. job'[w].pc = "load"
        BY <1>1, <2>3, <3>3 DEF LoadFile, Job
      <4> QED BY <1>3, <4>1
    <3> QED BY <3>2, <3>3
  <2>4. CASE u = w /\ WriteFile(w)
    <3> DEFINE j == job[w]
               x == Order[j.at]
    <3>1. /\ j.pc = "write" /\ j.c \in Stored /\ Fits(w)
          /\ disk' = [disk EXCEPT ![j.c][x] = j.got[x]]
      BY <2>4 DEF WriteFile, Written, DiskInv, Fits
    <3>2. CASE j.at = 3
      <4>1. job'[w].c = j.c /\ job'[w].got = j.got
        BY <1>1, <2>4, <3>2 DEF WriteFile, Job
      <4>2. /\ x = "vk" /\ j.got["cs"] = disk[j.c]["cs"] /\ j.got["pk"] = disk[j.c]["pk"]
        BY <3>1, <3>2, SmallFacts DEF Fits
      <4>3. j.got \in [Parts -> Nat] /\ disk[j.c] \in [Parts -> File]
        BY <1>1, <3>1, JobParts DEF Keys
      <4>4. disk'[j.c] = [disk[j.c] EXCEPT !["vk"] = j.got["vk"]]
        BY <1>1, <3>1, <4>2
      <4>5. disk'[j.c] = j.got
        <5>1. \A y \in Parts : [disk[j.c] EXCEPT !["vk"] = j.got["vk"]][y] = j.got[y]
          BY <4>2, <4>3, SmallFacts
        <5> QED BY <4>3, <4>4, <5>1
      <4>6. OfOneSetup(j.got) /\ j.got["vk"] \in Nat \ {Absent}
        BY <3>1, <4>3, SmallFacts DEF Fits
      <4> QED BY <4>1, <4>5, <4>6 DEF Held, Whole, OfOneSetup
    <3>3. CASE j.at # 3
      <4>1. job'[w].pc = "create"
        BY <1>1, <2>4, <3>3 DEF WriteFile, Job
      <4> QED BY <1>3, <4>1
    <3> QED BY <3>2, <3>3
  <2>5. ~SaveFails(u)
    BY <1>1 DEF SaveFails
  <2> QED BY <1>4, <2>1, <2>2, <2>3, <2>4, <2>5 DEF Store
<1>5. CASE StartWithoutKeyDir \/ StartWithKeyDir
  BY <1>2, <1>5 DEF StartWithoutKeyDir, StartWithKeyDir
<1>6. CASE NextCircuit
  <2>1. PICK c \in todo : job' = [job EXCEPT ![Server] = [Resting EXCEPT !.pc = "has", !.c = c]]
    BY <1>6 DEF NextCircuit
  <2>2. job'[w] = job[w] \/ job'[w].pc = "has"
    BY <1>1, <2>1 DEF Resting
  <2> QED BY <1>2, <1>3, <2>2
<1>7. CASE StoreCircuit \/ StopServer \/ CrashServer
  <2>1. job' = [job EXCEPT ![Server] = Resting]
    BY <1>7 DEF StoreCircuit, StopServer, CrashServer, Halt
  <2>2. job'[w] = job[w] \/ job'[w].pc = "idle"
    BY <1>1, <2>1 DEF Resting
  <2> QED BY <1>2, <1>3, <2>2
<1>8. ASSUME NEW u \in CLIs, StartClosePoll(u) \/ PostProof(u) \/ KillClosePoll(u)
      PROVE  Held(w)'
  <2>1. \/ job' = [job EXCEPT ![u] = Resting]
        \/ job' = [job EXCEPT ![u] = [Resting EXCEPT !.pc = "has", !.c = Decrypt]]
    BY <1>8 DEF StartClosePoll, PostProof, KillClosePoll
  <2>2. job'[w] = job[w] \/ job'[w].pc # "have"
    <3>1. \/ job'[w] = job[w]
          \/ job'[w] = Resting
          \/ job'[w] = [Resting EXCEPT !.pc = "has", !.c = Decrypt]
      BY <1>1, <2>1
    <3>2. Resting.pc = "idle" /\ [Resting EXCEPT !.pc = "has", !.c = Decrypt].pc = "has"
      BY DEF Resting
    <3> QED BY <3>1, <3>2
  <2> QED BY <1>2, <1>3, <2>2
<1>9. CASE \E p \in Procs : EnsureCompiled(p) \/ Continue(p)
  BY <1>2, <1>9 DEF Continue, EnsureCompiled, TakeLock, CompileLazily, CompileFails
<1>10. CASE UNCHANGED vars
  BY <1>2, <1>10 DEF vars
<1> QED BY <1>4, <1>5, <1>6, <1>7, <1>8, <1>9, <1>10 DEF Next

LEMMA ServedStep ==
    ASSUME DiskInv, Phase, Served, [Next]_vars, \A w \in Writers : Held(w)
    PROVE  Served'
<1> SUFFICES ASSUME keyDir', server' \in {"registering", "serving"}, NEW c \in Stored, c \notin todo'
             PROVE  Whole(c)' /\ mem'[c] = disk'[c]
  BY DEF Served
<1>1. mem \in [Circuits -> Keys] /\ c \in Circuits /\ Server \in Writers
  BY SmallFacts DEF DiskInv, TypeOK
<1>2. Whole(c) => Whole(c)' /\ disk'[c] = disk[c]
  <2>1. Whole(c) => disk'[c] = disk[c]
    BY WholeStaysStep
  <2> QED BY <2>1 DEF Whole
<1>3. CASE UNCHANGED <<keyDir, server, todo>> /\ mem'[c] = mem[c]
  BY <1>2, <1>3 DEF Served
<1>4. CASE StoreCircuit
  <2>1. /\ keyDir' = keyDir /\ disk' = disk /\ todo' = todo \ {job[Server].c}
        /\ mem' = [mem EXCEPT ![job[Server].c] = job[Server].got]
        /\ job[Server].pc = "have" /\ server = "registering"
    BY <1>4 DEF StoreCircuit, DiskInv, ServerRegisters
  <2>2. CASE c = job[Server].c
    BY <1>1, <1>2, <2>1, <2>2 DEF Held
  <2>3. CASE c # job[Server].c
    BY <1>1, <1>2, <2>1, <2>3 DEF Served
  <2> QED BY <2>2, <2>3
<1>5. CASE StartWithoutKeyDir \/ StartWithKeyDir \/ StopServer \/ CrashServer
  BY <1>5 DEF StartWithoutKeyDir, StartWithKeyDir, StopServer, CrashServer, Halt
<1>6. CASE NextCircuit
  BY <1>3, <1>6 DEF NextCircuit
<1>7. CASE \E w \in Writers : Store(w)
  BY <1>3, <1>7 DEF Store, LookForKeys, LoadFile, LoadFails, CompileCircuit, CreateFile,
                    WriteFile, SaveFails
<1>8. CASE \E w \in CLIs : StartClosePoll(w) \/ PostProof(w) \/ KillClosePoll(w)
  BY <1>3, <1>8 DEF StartClosePoll, PostProof, KillClosePoll
<1>9. ASSUME NEW p \in Procs, EnsureCompiled(p) \/ Continue(p)
      PROVE  mem'[c] = mem[c] /\ UNCHANGED <<keyDir, server, todo>>
  <2>1. ~CompileLazily(p)
    <3>1. SUFFICES ASSUME CompileLazily(p) PROVE FALSE
      OBVIOUS
    <3>2. ~keyDir /\ keyDir' = keyDir
      BY <3>1 DEF Phase, CompileLazily
    <3> QED BY <3>2
  <2> QED BY <1>9, <2>1 DEF Continue, EnsureCompiled, TakeLock, CompileFails
<1>10. CASE UNCHANGED vars
  BY <1>3, <1>10 DEF vars
<1> QED BY <1>3, <1>4, <1>5, <1>6, <1>7, <1>8, <1>9, <1>10 DEF Next

LEMMA FailuresGrow ==
    ASSUME DiskInv, [Next]_vars, failures' = 0
    PROVE  failures = 0
<1>1. failures \in Nat
  BY LimitsAssumption DEF DiskInv, TypeOK
<1>2. CASE \E w \in Writers : SaveFails(w)
  BY <1>1, <1>2 DEF SaveFails
<1>3. CASE ~\E w \in Writers : SaveFails(w)
  <2>1. CASE \E w \in Writers : Store(w)
    BY <1>3, <2>1 DEF Store, LookForKeys, LoadFile, LoadFails, CompileCircuit, CreateFile,
                      WriteFile
  <2>2. CASE \E w \in CLIs : StartClosePoll(w) \/ PostProof(w) \/ KillClosePoll(w)
    BY <2>2 DEF StartClosePoll, PostProof, KillClosePoll
  <2>3. CASE \E p \in Procs : EnsureCompiled(p) \/ Continue(p)
    BY <2>3 DEF EnsureCompiled, Continue, TakeLock, CompileLazily, CompileFails
  <2>4. CASE StartWithoutKeyDir \/ StartWithKeyDir \/ NextCircuit \/ StoreCircuit
    BY <2>4 DEF StartWithoutKeyDir, StartWithKeyDir, NextCircuit, StoreCircuit
  <2>5. CASE StopServer \/ CrashServer \/ UNCHANGED vars
    BY <2>5 DEF StopServer, CrashServer, Halt, vars
  <2> QED BY <2>1, <2>2, <2>3, <2>4, <2>5 DEF Next
<1> QED BY <1>2, <1>3

\* While no save has failed, a serving server with a key directory holds the
\* keys it hands to browsers and close-poll proves with, whatever was killed
\* (NewArcnetService, buildTallyDecryptProof).
THEOREM ServerHoldsServedKeys == Spec => []ServedKeysVerify
<1> DEFINE L == DiskInv /\ (\A p \in Procs : UnderLock(p)) /\ Phase /\ Agree
<1>1. Init => L
  <2> SUFFICES ASSUME Init PROVE L
    OBVIOUS
  <2>1. \A p \in Procs : UnderLock(p)
    BY DEF Init, UnderLock, None
  <2>2. Phase
    BY SmallFacts DEF Init, Phase, None, Resting
  <2>3. Agree
    BY DEF Init, Agree, Served, Held, Resting
  <2> QED BY DiskInit, <2>1, <2>2, <2>3
<1>2. L /\ [Next]_vars => L'
  <2> SUFFICES ASSUME L, [Next]_vars PROVE L'
    OBVIOUS
  <2>1. Agree'
    <3>1. CASE failures' = 0
      <4>1. Served /\ \A w \in Writers : Held(w)
        BY <3>1, FailuresGrow DEF Agree
      <4> QED BY <3>1, <4>1, HeldStep, ServedStep DEF Agree
    <3>2. CASE failures' # 0
      BY <3>2 DEF Agree
    <3> QED BY <3>1, <3>2
  <2> QED BY <2>1, DiskStep, LazyStep, PhaseStep
<1>3. L => ServedKeysVerify
  <2> SUFFICES ASSUME L, failures = 0, server = "serving", keyDir
               PROVE  /\ \A c \in Stored : Whole(c) /\ disk[c] = mem[c]
                      /\ \A w \in CLIs : job[w].pc = "have"
                                           => job[w].got["pk"] = mem[Decrypt]["vk"]
    BY DEF ServedKeysVerify
  <2>1. \A c \in Stored : Whole(c) /\ disk[c] = mem[c]
    BY DEF Phase, Agree, Served
  <2>2. ASSUME NEW w \in CLIs, job[w].pc = "have"
        PROVE  job[w].got["pk"] = mem[Decrypt]["vk"]
    <3>1. job[w].c = Decrypt /\ disk[Decrypt] = job[w].got
      BY <2>2, SmallFacts DEF Phase, Agree, Held
    <3> QED BY <2>1, <3>1, SmallFacts DEF Whole, OfOneSetup
  <2> QED BY <2>1, <2>2
<1> QED BY <1>1, <1>2, <1>3, PTL DEF Spec
-----------------------------------------------------------------------------
(* As long as nothing was killed and no write failed, a proving key on disk *)
(* is part of a complete set, or its writer is still at work; so no load of *)
(* a starting server fails.                                                 *)

Undisturbed == crashes = 0 /\ failures = 0

Saving(w, c) == job[w].c = c /\ job[w].pc \in {"create", "write"}

Complete ==
    /\ server # "bare"
    /\ \A c \in Stored : Has(c) => Whole(c) \/ \E w \in Writers : Saving(w, c)
    /\ \A w \in Writers : job[w].pc = "load" => Whole(job[w].c)

LEMMA CrashesGrow ==
    ASSUME DiskInv, [Next]_vars, crashes' = 0
    PROVE  /\ crashes = 0
           /\ ~CrashServer
           /\ \A w \in CLIs : ~KillClosePoll(w)
<1>1. crashes \in Nat
  BY LimitsAssumption DEF DiskInv, TypeOK
<1>2. ~CrashServer /\ \A w \in CLIs : ~KillClosePoll(w)
  BY <1>1 DEF CrashServer, KillClosePoll
<1>3. CASE \E w \in Writers : Store(w)
  BY <1>2, <1>3 DEF Store, LookForKeys, LoadFile, LoadFails, CompileCircuit, CreateFile,
                    WriteFile, SaveFails
<1>4. CASE \E w \in CLIs : StartClosePoll(w) \/ PostProof(w)
  BY <1>2, <1>4 DEF StartClosePoll, PostProof
<1>5. CASE \E p \in Procs : EnsureCompiled(p) \/ Continue(p)
  BY <1>2, <1>5 DEF EnsureCompiled, Continue, TakeLock, CompileLazily, CompileFails
<1>6. CASE StartWithoutKeyDir \/ StartWithKeyDir \/ NextCircuit \/ StoreCircuit
  BY <1>2, <1>6 DEF StartWithoutKeyDir, StartWithKeyDir, NextCircuit, StoreCircuit
<1>7. CASE StopServer \/ UNCHANGED vars
  BY <1>2, <1>7 DEF StopServer, vars
<1> QED BY <1>2, <1>3, <1>4, <1>5, <1>6, <1>7 DEF Next

\* Without a kill, no step but its own takes a writer from its work.
LEMMA WorkGoesOn ==
    ASSUME DiskInv, [Next]_vars, crashes' = 0, ~\E w \in Writers : Store(w),
           NEW u \in Writers
    PROVE  \/ job'[u] = job[u]
           \/ job[u].pc \in {"idle", "have"} /\ job'[u].pc \in {"idle", "has"}
<1>1. /\ job \in [Writers -> Job] /\ ServerRegisters /\ Server \in Writers /\ CLIs \subseteq Writers
  BY SmallFacts DEF DiskInv, TypeOK
<1>2. ASSUME NEW w \in Writers, job[w].pc \in {"idle", "have"},
             NEW r, job' = [job EXCEPT ![w] = r], r.pc \in {"idle", "has"}
      PROVE  \/ job'[u] = job[u]
             \/ job[u].pc \in {"idle", "have"} /\ job'[u].pc \in {"idle", "has"}
  BY <1>1, <1>2
<1> DEFINE Rest == Resting
<1>3. Rest.pc = "idle"
  BY DEF Resting
<1> HIDE DEF Rest
<1>4. CASE StartWithoutKeyDir \/ StartWithKeyDir
  BY <1>4 DEF StartWithoutKeyDir, StartWithKeyDir
<1>5. CASE NextCircuit
  <2>1. PICK c \in todo : job' = [job EXCEPT ![Server] = [Resting EXCEPT !.pc = "has", !.c = c]]
    BY <1>5 DEF NextCircuit
  <2> DEFINE r == [Resting EXCEPT !.pc = "has", !.c = c]
  <2>2. r.pc = "has"
    BY DEF Resting
  <2>3. job' = [job EXCEPT ![Server] = r] /\ job[Server].pc = "idle"
    BY <1>5, <2>1 DEF NextCircuit
  <2> HIDE DEF r
  <2> QED BY <1>1, <1>2, <2>2, <2>3
<1>6. CASE StoreCircuit \/ StopServer
  <2>1. job' = [job EXCEPT ![Server] = Rest] /\ job[Server].pc \in {"idle", "have"}
    BY <1>1, <1>6 DEF StoreCircuit, StopServer, Halt, ServerRegisters, Rest
  <2> QED BY <1>1, <1>2, <1>3, <2>1
<1>7. ASSUME NEW w \in CLIs, StartClosePoll(w) \/ PostProof(w)
      PROVE  \/ job'[u] = job[u]
             \/ job[u].pc \in {"idle", "have"} /\ job'[u].pc \in {"idle", "has"}
  <2> DEFINE r == [Resting EXCEPT !.pc = "has", !.c = Decrypt]
  <2>1. r.pc = "has"
    BY DEF Resting
  <2>2. /\ job[w].pc \in {"idle", "have"} /\ w \in Writers
        /\ job' = [job EXCEPT ![w] = Rest] \/ job' = [job EXCEPT ![w] = r]
    BY <1>1, <1>7 DEF StartClosePoll, PostProof, Rest
  <2> HIDE DEF r
  <2>3. CASE job' = [job EXCEPT ![w] = Rest]
    BY <1>2, <1>3, <2>2, <2>3
  <2>4. CASE job' = [job EXCEPT ![w] = r]
    BY <1>2, <2>1, <2>2, <2>4
  <2> QED BY <2>2, <2>3, <2>4
<1>8. CASE \E p \in Procs : EnsureCompiled(p) \/ Continue(p)
  BY <1>8 DEF EnsureCompiled, Continue, TakeLock, CompileLazily, CompileFails
<1>9. CASE UNCHANGED vars
  BY <1>9 DEF vars
<1> QED BY <1>4, <1>5, <1>6, <1>7, <1>8, <1>9, CrashesGrow DEF Next

\* While a writer is at work and not saving, a proving key of its circuit is
\* part of a complete set.
LEMMA AloneAtWork ==
    ASSUME DiskInv, Complete, NEW w \in Writers, job[w].pc \in {"has", "load", "compile"},
           Has(job[w].c)
    PROVE  Whole(job[w].c)
<1>1. job[w].c \in Stored
  BY DEF DiskInv, Fits
<1>2. \A u \in Writers : ~Saving(u, job[w].c)
  BY OthersRest DEF Saving
<1> QED BY <1>1, <1>2 DEF Complete

LEMMA CompleteStep ==
    ASSUME DiskInv, Complete, [Next]_vars, crashes' = 0, failures' = 0,
           \A w \in Writers : Held(w)
    PROVE  Complete'
<1>1. /\ job \in [Writers -> Job] /\ disk \in [Stored -> [Parts -> File]]
      /\ failures \in Nat
      /\ \A w \in Writers : job[w].pc # "idle" => job[w].c \in Stored
  BY LimitsAssumption DEF DiskInv, TypeOK, Fits
<1>2. \A w \in Writers : ~SaveFails(w)
  BY <1>1 DEF SaveFails
<1>3. \A c \in Stored : Whole(c) => Whole(c)'
  BY WholeStaysStep DEF Whole
<1>4. CASE ~\E w \in Writers : Store(w)
  <2>1. disk' = disk
    BY <1>4, OtherStep
  <2>2. \A c \in Stored : Has(c)' => Whole(c)' \/ \E w \in Writers : Saving(w, c)'
    <3>1. \A c \in Stored, w \in Writers : Saving(w, c) => Saving(w, c)'
      BY <1>4, WorkGoesOn DEF Saving
    <3> QED BY <1>3, <2>1, <3>1 DEF Complete, Has
  <2>3. \A w \in Writers : job'[w].pc = "load" => Whole(job[w].c)'
    <3> SUFFICES ASSUME NEW w \in Writers, job'[w].pc = "load" PROVE Whole(job[w].c)'
      OBVIOUS
    <3>1. job'[w] = job[w]
      BY <1>4, WorkGoesOn
    <3> QED BY <1>1, <1>3, <3>1 DEF Complete
  <2>4. server' # "bare"
    <3>1. server' \in {server, "registering", "serving", "down"}
      <4>1. CASE \E w \in CLIs : StartClosePoll(w) \/ PostProof(w) \/ KillClosePoll(w)
        BY <4>1 DEF StartClosePoll, PostProof, KillClosePoll
      <4>2. CASE \E p \in Procs : EnsureCompiled(p) \/ Continue(p)
        BY <4>2 DEF EnsureCompiled, Continue, TakeLock, CompileLazily, CompileFails
      <4>3. CASE StartWithoutKeyDir \/ StartWithKeyDir \/ NextCircuit \/ StoreCircuit
        BY <4>3 DEF StartWithoutKeyDir, StartWithKeyDir, NextCircuit, StoreCircuit
      <4>4. CASE StopServer \/ CrashServer \/ UNCHANGED vars
        BY <4>4 DEF StopServer, CrashServer, Halt, vars
      <4> QED BY <1>4, <4>1, <4>2, <4>3, <4>4 DEF Next
    <3> QED BY <3>1 DEF Complete
  <2> QED BY <2>2, <2>3, <2>4 DEF Complete
<1>5. ASSUME NEW w \in Writers, Store(w), NEW c, c = job[w].c
      PROVE  Complete'
  <2>1. /\ \A u \in Writers \ {w} : job'[u] = job[u] /\ job[u].pc \in {"idle", "have"}
        /\ job[w].pc \notin {"idle", "have"} /\ job[w] \in Job /\ c \in Stored
    <3>1. job[w].pc \notin {"idle", "have"}
      BY <1>5 DEF Store, LookForKeys, LoadFile, LoadFails, CompileCircuit, CreateFile,
                  WriteFile, SaveFails
    <3> QED BY <1>1, <1>5, <3>1, StoreMoves, OthersRest
  <2>2. ~LoadFails(w)
    <3> SUFFICES ASSUME LoadFails(w) PROVE FALSE
      OBVIOUS
    <3>1. disk[c][Order[job[w].at]] \in {Absent, Torn} /\ Whole(c)
      BY <1>5 DEF LoadFails, Complete
    <3>2. \A x \in Parts : disk[c][x] \in Nat \ {Absent}
      BY <3>1, SmallFacts DEF Whole, OfOneSetup
    <3> QED BY <2>1, <3>1, <3>2, JobParts, TornAssumption
  <2>3. server' = server
    BY <1>5, <2>2 DEF Store, LookForKeys, LoadFile, CompileCircuit, CreateFile, WriteFile,
                      SaveFails
  \* What the step makes of the writer and its circuit.
  <2>4. /\ job'[w].pc = "load" => Whole(job[w].c)'
        /\ \A d \in Stored \ {c} : disk'[d] = disk[d]
        /\ Has(c)' => Whole(c)' \/ Saving(w, c)'
    <3>1. CASE LookForKeys(w)
      <4>1. disk' = disk /\ job'[w].c = c /\ job'[w].pc = IF Has(c) THEN "load" ELSE "compile"
        BY <1>1, <1>5, <2>1, <3>1 DEF LookForKeys, Goto, Job
      <4>2. job[w].pc = "has"
        BY <3>1 DEF LookForKeys
      <4>3. Has(c) => Whole(c)'
        BY <1>3, <1>5, <2>1, <4>2, AloneAtWork
      <4>4. Whole(job[w].c)' <=> Whole(c)'
        BY <4>1 DEF Whole
      <4> QED BY <4>1, <4>3, <4>4 DEF Has
    <3>2. CASE LoadFile(w)
      <4>1. disk' = disk /\ job'[w].c = c /\ Whole(c)'
        BY <1>1, <1>3, <1>5, <2>1, <3>2 DEF LoadFile, Job, Complete
      <4>2. Whole(job[w].c)' <=> Whole(c)'
        BY <4>1 DEF Whole
      <4> QED BY <4>1, <4>2
    <3>3. CASE CompileCircuit(w)
      <4>1. disk' = disk /\ job'[w].c = c /\ job'[w].pc = "create"
        BY <1>1, <1>5, <2>1, <3>3 DEF CompileCircuit, Job
      <4> QED BY <4>1 DEF Saving
    <3>4. CASE CreateFile(w)
      <4>1. job'[w] = [job[w] EXCEPT !.pc = "write"]
        BY <1>1, <3>4 DEF CreateFile
      <4>2. job'[w].c = c /\ job'[w].pc = "write"
        BY <1>5, <2>1, <4>1 DEF Job
      <4>3. \A d \in Stored \ {c} : disk'[d] = disk[d]
        BY <1>1, <1>5, <3>4 DEF CreateFile
      <4> QED BY <4>2, <4>3 DEF Saving
    <3>5. CASE WriteFile(w)
      <4>1. job'[w].c = c /\ job'[w].pc \in {"have", "create"}
        BY <1>1, <1>5, <2>1, <3>5 DEF WriteFile, Job
      <4>2. \A d \in Stored \ {c} : disk'[d] = disk[d]
        BY <1>1, <1>5, <3>5 DEF WriteFile
      <4>3. job'[w].pc = "have" => Whole(c)'
        BY <4>1, HeldStep DEF Held
      <4> QED BY <4>1, <4>2, <4>3 DEF Saving
    <3> QED BY <1>2, <1>5, <2>2, <3>1, <3>2, <3>3, <3>4, <3>5 DEF Store
  <2>5. \A d \in Stored : Has(d)' => Whole(d)' \/ \E u \in Writers : Saving(u, d)'
    <3> SUFFICES ASSUME NEW d \in Stored, Has(d)'
                 PROVE  Whole(d)' \/ \E u \in Writers : Saving(u, d)'
      OBVIOUS
    <3>1. CASE d = c
      BY <2>4, <3>1
    <3>2. CASE d # c
      <4>1. Has(d)
        BY <2>4, <3>2 DEF Has
      <4>2. ASSUME NEW u \in Writers, Saving(u, d)
            PROVE  Saving(u, d)'
        BY <1>5, <2>1, <3>2, <4>2 DEF Saving
      <4> QED BY <1>3, <4>1, <4>2 DEF Complete
    <3> QED BY <3>1, <3>2
  <2>6. \A u \in Writers : job'[u].pc = "load" => Whole(job[u].c)'
    BY <2>1, <2>4
  <2> QED BY <2>3, <2>5, <2>6 DEF Complete
<1> QED BY <1>4, <1>5

\* A server runs without its prover only after a kill or a failed write: a start
\* by itself never leaves keys that a later start cannot load (RegisterWithKeyStore,
\* CompileAndSave, Load).
THEOREM BareAfterPartialSave == Spec => []BareOnlyAfterPartialSave
<1> DEFINE L == DiskInv /\ (Undisturbed => Complete /\ \A w \in Writers : Held(w))
<1>1. Init => L
  <2> SUFFICES ASSUME Init PROVE L
    OBVIOUS
  <2>1. Complete
    BY SmallFacts DEF Init, Complete, Has, NoKeys, Resting
  <2>2. \A w \in Writers : Held(w)
    BY DEF Init, Held, Resting
  <2> QED BY <2>1, <2>2, DiskInit
<1>2. L /\ [Next]_vars => L'
  <2> SUFFICES ASSUME L, [Next]_vars PROVE L'
    OBVIOUS
  <2>1. CASE Undisturbed'
    <3>1. crashes' = 0 /\ failures' = 0 /\ Undisturbed
      BY <2>1, CrashesGrow, FailuresGrow DEF Undisturbed
    <3>2. Complete' /\ \A w \in Writers : Held(w)'
      BY <3>1, CompleteStep, HeldStep
    <3> QED BY <3>2, DiskStep
  <2>2. CASE ~Undisturbed'
    BY <2>2, DiskStep
  <2> QED BY <2>1, <2>2
<1>3. L => BareOnlyAfterPartialSave
  <2> SUFFICES ASSUME L, server = "bare", ~(crashes + failures > 0) PROVE FALSE
    BY DEF BareOnlyAfterPartialSave
  <2>1. crashes \in Nat /\ failures \in Nat
    BY LimitsAssumption DEF DiskInv, TypeOK
  <2>2. Undisturbed
    BY <2>1 DEF Undisturbed
  <2> QED BY <2>2 DEF Complete
<1> QED BY <1>1, <1>2, <1>3, PTL DEF Spec
=============================================================================
