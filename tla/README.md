# bitwrap, specified

This directory models [bitwrap](../src/README.md): a Go server on which people
hold anonymous polls whose ballots are zero-knowledge proofs, together with the
Petri-net runtime the polls are driven by, a small language and a set of token
templates that define such nets, and the tools around them. The modules are
written from the code; the line each definition stands for is in `PROJECT.json`
(`map`), and so are the hazards the properties are aimed at (`hazards`).

    tlc -workers 2 -config PollServer_race.cfg MCPollServer    # check one run
    tlc -workers 2 -config Contracts.cfg MCContracts           # another
    tlapm PollServer_proofs.tla                                # check the proofs of a module

## 1. The system

One process, `bitwrap`, serves HTTP from a directory of JSON files. `net/http`
runs each request in its own goroutine. Nothing but the file system is shared
between requests, except the prover's table of compiled circuits, the lock for
compiling one on first use, and the rate limiter. `FSStore.mu` is held for a
single store call, and never across two; reads do not take it at all. A command,
`bitwrap close-poll`, talks to the server over HTTP and may share its key
directory.

| Part | State | Operations that change it | What makes it hard |
|---|---|---|---|
| Poll lifecycle (`internal/server/polls*.go`, `internal/store/polls.go`) | the poll record, vote files, event log, v3 tally artifact | create, register, sign root, cast, close, deadline, aggregate | read, decide, write back, with other requests, failed writes and crashes between; files written one after the other, and the error of the last one ignored |
| Reveal phase (`polls.go`, `tally_proof.go`, `store/polls.go`) | vote files, running tally, reveal bundles, tally-proof artifact | reveal, generate tally proof | three writes under two holds of the lock; a proof built from unlocked reads and saved a minute later |
| Vote net and event log (`erc/vote.go`, `pollstate.go`, `metamodel/runtime.go`) | a marking, rebuilt from the log at every use | registerVoter, castVote | the log runs behind the vote files; replay drops events it cannot fire |
| Registry Merkle tree (`internal/server/merkle.go`) | none | root, proof path | |
| Key store and circuit registry (`prover/keystore.go`, `service.go`, `circuits.go`, `lazy_compile.go`) | three key files per circuit; the prover's table; `lazyMu` | save, load, register at start, compile on first use | each setup draws new randomness; a save is three files; kills, failed writes, restarts |
| `close-poll` (`cmd/bitwrap/close_poll.go`) | none of its own; the key directory | fetch, sum, decrypt, prove, post | runs against a server that goes on changing |
| Rate limiter (`ratelimit.go`) | a window per client | allow, cleanup | |
| Object store (`internal/store/store.go`) | files named by the hash of their content; the server calls `SaveObject` only | save | |
| Authentication, deployment, v3 bundle (`auth.go`, `deploy.go`, `bundle_v3.go`) | none | verify, build | |
| Metamodel runtime (`internal/metamodel`) | a snapshot: token counts and data maps | validate, enabled, execute, execute with bindings | a firing reads, consumes and produces through keyed arcs whose weight may be a name, a literal or nothing |
| Petri model (`internal/petri`) | a token state, made from a schema | enabled, fire | a second engine for the same schemas |
| Guard language (`internal/metamodel/guard`) | none | compile, evaluate, sum over a marking | one text is read by four readers; int64, wrapping words and missing entries meet |
| ERC templates (`erc`) | none | the nets of the token standards and of a poll | arcs whose default weight is 1, read arcs, entries deleted by being read |
| DSL (`dsl`) | none | lex, parse, build a schema | any order of declarations; guards are printed again from tokens |
| Solidity generation (`solidity`) | the deployed contract: storage, owner, epoch | every function of the schema, the owner's functions, `castVote` of a poll | text put together from arcs and guards; what is missing shows on chain only |
| Circuit generation from guards (`prover/synth`) | none | range checks of a guard | a check in a field stands for a comparison of integers |
| Arc library, SVG, seal, circuits (`arc`, `internal/svg`, `internal/seal`, `prover/*_gen.go`) | none | functions of their input | |
| Browser client, WASM prover (`public`, `cmd/prover-wasm`) | page state | | |

How they interact. A handler reads the poll record, replays the event log
through the vote net to see whether a slot is left, verifies a proof with the
prover's keys, and writes a vote file and then an event. Closing a v2 poll opens
the reveal phase on the same vote files. Closing a v3 poll is `/aggregate`: the
creator's `close-poll` sums the encrypted ballots, decrypts the sums and proves
it with `tallyDecrypt_8`; the server sums again and verifies with the keys it
holds for that circuit.

A schema comes from a template or from a `.btw` text. The metamodel runtime
executes it in Go, `petri.FromSchema` makes a second net of it, `solidity`
generates a contract, and `prover/synth` a circuit from a guard. What binds them is only that each stands for the
same schema; `runtime_parity_test.go` compares two of them on one example.

What makes each part correct:

- *Lifecycle.* A ballot is never replaced, never counted unless stored, logged at
  most once; a signed registry root always belongs to the registry beside it; a
  poll that is really closed stays so. Until a write fails or the server dies, a
  stored ballot is logged, and a tallied poll has been closed.
- *Reveal.* Nothing is counted that was not revealed; every bundle is a truthful
  opening; a reveal is permanent.
- *Keys.* A proof made under the keys anybody was given verifies under the keys
  the server holds, now and after any restart.
- *Language.* A guard has the one tree its grammar gives it. Written without
  parentheses, it means the same in Go and on chain, for words always and for int64
  as long as none of its numbers leaves that range; the checks of a circuit agree
  with it. A `.btw` text that is accepted is a valid schema whose guards are the ones
  written, unless a string in one has an escape.
- *Engines and contracts.* After any calls the contract accepts, the Go engines hold
  the same numbers, beyond what an `initial_state` block gave a map (only the
  runtime starts with that); an amount is only moved, issued or retired; totals follow
  what they count; a closed poll takes no vote.

## 2. Modules

| Module | Models | Composed with |
|---|---|---|
| `VoteNet` | the vote schema's arcs and `PollRuntime`'s replay | extended by `PollServer` |
| `Sums` | the sum of a function's values, as the properties of tallies and amounts use it | `PollServer`, `ContractCalls` |
| `BallotBox` | abstract: what the server promises about ballots | refined by `PollServer` (`Box`) |
| `PollServer` | one poll: handlers as processes over the files | |
| `RevealTally` | the reveal phase and tally proofs of a v2 poll | takes votes and status as `PollServer` leaves them |
| `ProverKeys` | the key directory, server starts, lazy compilation, `close-poll` | |
| `GuardSyntax`, `GuardGrammar` | the lexer and parser of guards; abstract: the grammar, as all trees it derives | `Language` compares them |
| `GuardEval` | the Go evaluator: contexts, word arithmetic, built-ins, sums over a marking | `NetRuntime`, `Language` |
| `GuardTargets` | the Solidity and the circuit generator's reading of a guard | `SolidityContract`, `Language` |
| `RangeCheck` | what a range check of a circuit computes in its field | `GuardTargets` |
| `Dsl`, `DslBuilder` | the `.btw` lexer, parser and builder | `Language`, `Contracts` |
| `Language` | an author who writes guards and `.btw` texts for all of these | |
| `MetaSchema`, `NetRuntime` | schemas and their validation; the metamodel runtime and the petri state, free of recursive definitions | `Contracts` |
| `Templates` | the seven templates of `erc` | `Contracts` |
| `ContractCalls` | the statements the generator writes for arcs, storage and its types, how a transaction runs, the batched vote; free of recursive definitions | `Contracts`, `SolidityContract` |
| `SolidityContract` | the rest of the generator: parameters, conditions and what they mean (`ConditionHolds`), the calls | `TemplateContracts` |
| `Ledger` | abstract: what a token template promises about amounts | refined by `Contracts` (`Amounts`) |
| `Contracts` | a deployed contract called by any user, and both Go engines beside it; free of recursive definitions | |
| `TemplateContracts` | the contracts that the generator makes of the templates | `MCContracts` |
| `MC...` | instances for TLC | |
| `PollServer_proofs`, `PollLog_proofs` | theorems about `PollServer`: its files and its ballot box; its event log | the second extends the first |
| `RevealTally_proofs`, `ProverKeys_proofs` | theorems about the module of the name | |
| `Engines_proofs`, `Contracts_proofs` | theorems about `NetRuntime` and about `Contracts` | the second extends the first |
| `Sums_proofs`, `Amounts_proofs` | lemmas about sums; theorems about `Ledger` and `RangeCheck` | `Sums_proofs` is extended by `PollLog_proofs`, `Engines_proofs` and `Amounts_proofs` |

**One form for all handlers.** A request is a process. `req[p].pc` names the
store call it is about to make; a step makes that call and everything the handler
computes until its next one, and what the handler has in memory (`rec`, `who`,
`choice`, `counted`) stays in `req[p]` and may be stale when it is written. That
is exactly the granularity of the code: the mutex covers one store call, and
between two of them any other request may run. A request that ends in an error
before it has written anything changes nothing; where it has made a store call
already, it ends by `RefuseCast`, `AggregateRefused`, `RefuseReveal` or
`RefuseProof`.

**Correspondence, lifecycle.** `poll` is `polls/{id}.json`; `votes` and
`unreadable` are the files under `polls/{id}/votes`; `events` is `events.json`;
`tally` is the v3 `tally.json`. `CreatePoll`, `RegisterVoter`, `SignRegistryRoot`,
`ClosePoll`, `AutoClose`, `CastVote` and `Aggregate` are the handlers up to their
first write or to their second read; `SavePoll`, `SaveVote`, `AppendEvent`,
`ListVotes`, `SaveHomomorphicTally` are the calls of `FSStore`.

**Failures.** A store call that writes may stop short in two ways, in `PollServer`
and in `RevealTally` alike. `StopShort(p)` says what it leaves: the file as it was,
the file truncated (which is what `os.WriteFile` does first) or the file written, with the
error coming from its close; the v3 artifact is renamed into place, whole or not at all.
`Crash` ends every request with it. `WriteFails(p)` is a disk that is full or a process
without file handles: the server lives on and the handler does what the code does with
the error. `SavePoll`, `SaveVote` and `SaveHomomorphicTally` return at once, without an
event and without closing the poll; the errors of `AppendEvent` and of an automatic close
are ignored, and that of `SaveRevealBundle` is logged, so that the request is answered as
a success. `RevealVote` may fail between its vote file and its tally. `faults`
counts both, `NoFault` says that there has been neither, and a promise that
failures break is stated under `NoFault`.

**Correspondence, reveal.** `vote`, `counts`, `bundles`, `proof` are the vote
files, `tally.json`, `reveals.json` and `tallyproof.json`. `FindVote`,
`RevealVote`, `SaveRevealBundle` are the three stages of `handleRevealVote`;
`ListVotes`, `Prove`, `SaveTallyProof` those of `GenerateTallyProof`. The circuit
appears as what the proof counts: the active slots per bin.

**Correspondence, keys.** `disk[c][x]` is one of the files `c.cs`, `c.pk`, `c.vk`,
as the number of the setup that wrote it, `Absent` or `Torn`; `mem` is the
prover's table; `job[w]` is a server start or a close-poll going through the three
files one at a time; `ask[p]` is an `EnsureCompiled` call. `Has` looks at the `.pk`
file only, as the code does.

**Correspondence, language.** `fragment` names a small part of one of the two
languages: a beginning, an end, and the pieces that may stand between. `parts` is
what the author has written; each step writes one more piece and gives the whole
text to every reader: `tree` is what `guard.Compile` returns (`Nil` for an error),
`conditions` the Solidity conditions `requires` makes of it, `readings` all trees
that Solidity's own grammar gives each condition, `checks` the range checks of
`synth`, and `schema` the builder's result, of length 0 when it refuses. Words
are single symbols, as the lexers treat a run of letters; blanks, quotes,
escapes and operators are symbols too, so lexing is modelled, not assumed.

**Correspondence, contracts.** `scenario` is the template that was deployed and the
functions that are called; `storage`, `owner` and `epoch` are the contract's
variables. `Transact` is any function `generateFunction` makes, with all
its requires in order and its statements one by one under checked arithmetic; a call
that reverts is not a step. `CastVote`, `TransferOwnership`, `RenounceOwnership` and
`AdvanceEpoch` are the functions the generator adds. In the same step `snapshot`
becomes what `ExecuteWithBindings` makes of the call and `marking` what the petri
state's `Fire` does. `issued` is a history variable: what calls minted and did not burn.
A schema's state has what `initial_state` gives it: a number (`initial`) or, for a map,
numbers by text (`entries`). `TextOf` is the text of an account or an id, so `InitialWord`
is what `NewSnapshotFromSchema` puts under a key; the generator initializes the variable
of a number with it and drops the entries of a map.
A body is one list of statements for inputs and one for outputs, an entry for each
arc of the schema: an arc of another action, or one that the generator skips, has
the entry `NoStatement`. What a `require` means is the constant operator `Holds`, which
`MCContracts` gives the value `ConditionHolds` of `SolidityContract`: conditions are trees
and their meaning is recursive, so `Contracts` itself stays a module that can be proved
about, for whatever a condition means. The schemas and generated functions are values
that `MCContracts` works out once (`Planned`, `Contracted`, `Generated`) and passes as a
constant.

**Data.** A voter stands for its commitment and its nullifier. A registry root is
the list it is the root of: `computeRegistryRoot` is injective on lists of
nonzero commitments up to the collision resistance of MiMC. A signature or proof
is valid or is not. Choices are model values, with and without a bin in the tally
circuits. What is encrypted in a v3 ballot, and how sums are decrypted, is not
represented: a tally is the set of ballots it adds up.

## 3. Runs

| Run | Instance | States | Shows |
|---|---|---|---|
| `race` | two requests, two voters, v2 or v3, 5 events, one crash or one failed write; names up to symmetry | 2,554,461 | types, `SignedRootsFitRegistry`, `TallyBacked`, `LogBacked`, `PublishedWithinVotes`, `SettledIsFinal`, and that the server implements `BallotBox` |
| `sequential` | requests one at a time, 7 events, two crashes or failed writes, fair | 73,075 | what the comments promise holds without concurrency until something fails: `OneVotePerRegistration`, `SlotsTrackRegistry`, `StoredVoteIsLogged`, `AggregationCloses`; and `SignaturesAppendOnly`, whatever fails |
| `slots_race` | two requests, no failure | violation | two casts pass the slot gate before either is logged |
| `preregistered` | one request, no failure, commitments sent at creation | violation | such voters have no slot |
| `aggregate_crash` | one request, one crash | violation | the retry answers 409 and closes nothing |
| `reopened` | two requests that run to their end, no failure | violation | a stale save reopens a tallied poll, and no aggregation closes it again |
| `reveal` | two requests, two ballots, two choices of which one has a bin, circuits of 1 and 2 slots, two crashes or failed writes, fair | 160,324 | `CountsWithinReveals`, `BundlesOpenVotes`, `ProofCountsReveals`, `RevealIsPermanent`, `RevealIsBundled` |
| `reveal_bins` | the same without failures | violation | a reveal whose choice has no bin |
| `keys` | one circuit compiled at start, one v3 circuit, one large one; a server restarted at will with or without its key directory, one close-poll, two requests; 3 setups of each circuit, one failed write, one kill; fair | 166,838 | `KeysFit`, `WholeKeysStay`, `ServedKeysVerify`, `BareOnlyAfterPartialSave`, `CompiledOnce`, `AskersReturn` |
| `language` | 15 fragments of guards and `.btw` texts, all texts of up to 3 to 5 pieces | 64,205 | `ParserMatchesGrammar`, `TranslationKeepsTree`, `ContractAgrees`, `RangeChecksMatch`, `SumsAreConserved`, `BuiltIsValid`, `GuardKept` |
| `contracts` | 13 scenarios: the seven templates (the combined one also in three parts), a plain net, the `.btw` token of the parity test, the same with balances in an `initial_state` block; three accounts, two of them alike | 26,217 | `GeneratedWellFormed`, `Parity`, `EnginesAgree`, `SupplyMatches`, `VotesWithinPoll`, and that every contract implements `Ledger` |
| `keys_failed_save` | no close-poll, one failed write, no kill | violation | the next start has no prover |

**The properties**, and what would break them.

- `SignedRootsFitRegistry`: registrations and signatures are lost when two saves
  race, but a signature whose root is not a prefix of the registry next to it is
  never left behind.
- `TallyBacked`, `ImplementsBallotBox`: an artifact is computed from one listing,
  verified, and written two steps later, while ballots, crashes and a second
  aggregation come between.
- `LogBacked`, `PublishedWithinVotes`: the log lags the votes and may be truncated
  by a crash or a failed write, and started over; results are computed from it.
- `StoredVoteIsLogged`, `AggregationCloses`, `OneVotePerRegistration`,
  `SlotsTrackRegistry`: each relates two files that one handler writes one after the
  other. They claim nothing of a poll after its first failure.
- `SignaturesAppendOnly`: a whole-record save drops signatures when another
  request saved in between; failures alone never make one do so.
- `SettledIsFinal`: a closed poll is only final when no request that read it as
  active is still running. `Settled` names that condition; `reopened` shows a
  poll without it.
- `CountsWithinReveals`: two reveals of one ballot both pass the handler's test,
  and a crash or an error falls between vote file and tally.
- `RevealIsBundled`: the bundle is written after the ballot, under a second hold of
  the lock; only a failure keeps it from following.
- `ProofCountsReveals`: a proof is saved long after the reads it was built from.
- `KeysFit`, `WholeKeysStay`, `ServedKeysVerify`: saves stop anywhere and several
  processes load, compile and overwrite one after the other.
- `CompiledOnce`, `AskersReturn`: the second look under `lazyMu`, and its release
  on the paths that fail.

- `ParserMatchesGrammar`: the recursive descent is compared with a definition by
  splitting, which gives all trees of a text: a lost operand, a chain of
  comparisons or an operator on the wrong level would differ.
- `TranslationKeepsTree`: the generator prints no parentheses. The property says
  for which guards the contract reads what was meant, and that they include every
  guard written without grouping.
- `ContractAgrees`: a guard is evaluated over int64, over wrapping 256-bit words
  and over maps in which a zero is missing, and by Solidity. Wherever the contract
  evaluates it, words give the same answer, with and without the zero; int64 does as
  long as no number of the guard passes `MaxInt`. Beyond that it wraps where the
  contract still computes, and the answers do differ: `x * x * x <= x` at `x = 2`.
- `RangeChecksMatch`: for witnesses below `Span`, `a - b` in the field is small
  exactly when the comparison holds.
- `SumsAreConserved`: `sum("p")` adds all places with the prefix, wanted or not.
- `BuiltIsValid`: the builder checks declarations in the order they come; what
  it accepts must be valid for both engines and have whole keys on every arc.
- `GuardKept`: the guard in the schema is text printed from tokens and lexed again
  by another lexer. A string with an escape comes out without it (section 4), and for
  such a guard only the names it reads are claimed.
- `GeneratedWellFormed`: parameters are gathered from arcs and guards by several
  passes; a statement or condition with a name none of them found would not compile.
  It also checks what the theorems about contracts assume: that a body has the
  statements of the schema's arcs, which fit the types of the states in every call
  (`WellTyped`), that each call moves a counter of supply as it moves what it counts
  (`Supplied`) and takes and gives one amount of the ledger (`MovesAmounts`), and that a
  vote contract is created and closed in this order (`PollGuarded`).
- `Parity`: generator and runtime decide separately which arcs read, what an arc
  without weight moves and which arcs have no effect.
- `EnginesAgree`: both Go engines enable the same actions after any firings, and on a
  plain net the contract accepts the same.
- `ImplementsLedger`, `SupplyMatches`: an amount and its total are moved by
  different arcs with different defaults.
- `VotesWithinPoll`: votes, closing and a change of owner come in any order.

**Bounds.** Every bound is a named constant, tested in a guard. `MaxEvents` bounds the log
by letting a request begin only if its event still fits; five events hold a
creation, two registrations, a vote and a close. Two goroutines suffice for every
race found: each is a pair of one stale writer and one other, and the proofs
cover any number. Two voters are needed for one to be in the registry a request
read and one not. `MaxFaults` bounds crashes and failed writes together, and without `DiskFails` only
crashes count (`aggregate_crash`, whose comment speaks of a crash).
One failure per run separates their effects from each other in
`race`; `sequential` takes two, so that a request which follows a failure may
fail as well; `reveal` takes two, because a torn `reveals.json` matters when
it is written again. `MaxSetups = 3` gives every file a state of its own setup:
one left by a failed save, one drawn by close-poll, one by a later start; a third
setup is used in the run. `Big` is one circuit because `lazyMu` is one lock.

In `language`, a fragment's length is the number of pieces a text may have; three
operands with two operators are what precedence and grouping need, and five
symbols what a nested bracket or a two-symbol operator at the end needs. Numbers
are 0 to 3 in maps and words, `MaxInt = 7` stands for the largest int64 and
`WordMax = 31` for the largest word, so a sum or a product can overflow the one and
not the other; `MaxDepth` is the parser's nesting limit, lowered so that texts
reach it. `Span = 4` with `Prime = 11` keeps the relation the circuit relies on: differences of two
witnesses do not meet in the field.

In `contracts`, `Word = 3` is the largest uint256: amounts 1 and 2 reach it in two
calls, so overflow and exhaustion both happen. Each scenario has a number of
calls: enough to issue, move, approve and burn in each order (3 to 5), six for a
poll (creation, registrations, votes, closing and a change of owner in between),
eight for the parity token, six for the one with balances at the start, and twelve for the
plain net. The combined template is
run whole for two calls, and for three to five calls in its tokens, its vault and
its vesting positions, the last two together with mint.

**Symmetry** is used in `race` over voters and goroutines and in `contracts` over the
two users, whose initial balances are equal; neither run checks a liveness property. No definition and no refinement
mapping names one of them, and the action properties quantify over all.

**Deadlock** is not checked: a poll whose log has reached its bound, or a key
directory whose setups are used up, stops by its bounds, and a server that is
asked nothing does nothing. An author stops at the length of the
fragment, and a scenario when its calls are made.

**Fairness.** `FairSpec` of `PollServer` and `RevealTally` makes a request that has
begun go on (`WF` of `Continue(p)`): a goroutine is scheduled and no handler
waits for another. A step that fails is a step of its own, `WriteFails`, to which
no fairness applies: a disk may stay full or not. Nothing forces a request to arrive, a
deadline to pass or a crash to happen. In `ProverKeys`, `TakeLock(p)` is enabled only while `lazyMu` is
free, and another request may take it over and over: weak fairness would not be
enough. `sync.Mutex` hands over to the oldest goroutine once it has waited more
than a millisecond, so strong fairness of `TakeLock(p)` is what it provides.

## 4. What the code says and does not do

Each of these is a run with a violation; `findings` in `PROJECT.json` quotes the
lines.

1. `slots_race` - the slot gate is read before the vote is stored and the slot is
   taken after it, so two casts in flight use the same last slot.
2. `preregistered` - commitments sent with the creation of a poll get no
   `registerVoter` event, so these voters are refused.
3. `aggregate_crash` - after a crash between artifact and poll record, `/aggregate`
   answers 409 and leaves the poll open, although a comment says the next call
   resolves it. The same follows a record that could not be saved ("tally persisted but
   failed to close poll").
4. `reopened` - with no failure at all, a registration or signature that read the poll
   before the aggregation writes it back as active afterwards; the handler is
   documented as atomic.
5. `reveal_bins` - a v2 poll may offer up to 256 choices and the tally circuits
   count 8: one reveal of another choice leaves the poll without a tally proof.
6. `keys_failed_save` - a save that fails after the `.pk` file was created is logged
   as "will recompile next time", but every later start finds that file, cannot
   load the keys and runs without a prover.

**Other limits of the code** that the models contain and no property states:

- `/close` and the deadline close a v3 poll that has no artifact; `/aggregate` then
  refuses it for good. Only votes that arrive before are ever counted.
- Two registrations, or a registration and a signature, that overlap lose one of
  the two: the later whole-record save wins. So do two aggregations.
- An older tally proof can overwrite a newer one (`SaveTallyProof` has no version).
- `AppendEvent`'s error is ignored by every handler: after a full disk a vote is
  stored without its event, so its slot stays free and its choice uncounted, or a
  registered voter has no slot. A truncated log is started over by the next event, and
  what was in it is gone. The comments' promises are checked until then.
- A crash after `RevealVote`, or a `SaveRevealBundle` that fails ("non-fatal for
  reveal"), loses the ballot's bundle: the retry is answered "already revealed". A
  failure between the vote file and the tally leaves a reveal that the tally does not count. A
  failure inside the first can tear the vote file, so the reveal phase does not
  implement `BallotBox`, where a ballot once readable stays so.
- While a poll has no root signature, casting skips the freshness test.
- A castVote event has a choice only if the client let the server see it;
  the tallies in `handlePollResults` leave the others out.
- Without a key directory, no v3 circuit is ever compiled: verification uses
  `GetCircuit`, and only tally proofs call `EnsureCompiled`. With one,
  `tallyProof_256` is neither registered nor lazy. A close-poll that does not use
  the server's key directory proves under keys of its own, and the server cannot
  verify that.
- ERC-020 and the combined template move `totalSupply` by the default weight 1 and
  balances by `amount`. A mint of 2 breaks `fungibleConservation`
  (`erc/combined.go:114`), which nothing evaluates: no caller sets a guard evaluator
  for constraints, and `forall id:` does not parse. `SupplyMatches` is about
  the other counters.
- No function of ERC-04626 adds to what `deposit` and `mint` require of
  `assetBalances`, so both revert in a new contract.
- The first `claim` of an ERC-05725 schedule deletes it, because no arc writes the
  schedule back; the rest of its amount stays locked. `revoke` writes it with
  `revokedAt` 0. `vestRevoke` of the combined template does not compare
  the amount with what is not vested.
- A literal weight on a keyed arc counts as 0 in the Go runtime, which looks
  it up as a binding, and as itself on chain. `Parity` leaves such schemas out; no template has one.
- An `initial_state` block with a map deploys with runtime and contract apart: the
  runtime starts with its entries, the generator drops them and keeps the numbers of plain states
  only. `dsl/testdata/erc20.btw` starts with a total supply of 1750 and no
  balances on chain. `Parity` says that the two stay apart by exactly these entries.
- An arc without keys to a map has no effect in Go and none, or no compilable one,
  on chain; an example of the repository's README has some.
- The Go runtime tests an input for one token and subtracts once for every arc: two input
  arcs from one place take its count below 0.
- A lone `=`, `&` or `|`, or a symbol unknown to the lexer, ends a guard silently: what
  follows is not read. The `.btw` lexer rejects unknown symbols, so only its own
  `:`, `@`, braces and arc symbols can do this there (`GuardKept`).
- A guard that needs its parentheses means something else on chain than in Go
  (`TranslationKeepsTree`).
- int64 arithmetic in a guard wraps silently, so that a number beyond its range
  passes or rejects where the contract does not (`ContractAgrees`).
- `parseRequireExpr` prints a string in bare quotes after the lexer has resolved its escapes, so
  `require(a == "x\"y")` becomes another guard, or none (`GuardKept`).
- `solidity/genesisgen.go:106` calls `advanceEpoch()` without the argument that the
  generated contract declares.
- No lock protects a key directory against two processes at once. `ProverKeys`
  assumes that the operator does not let this happen.

## 5. Proofs

For every number of voters, goroutines, options, circuits, processes and for
all bounds, TLAPS proves (from the `ASSUME`s of the modules; a theorem that needs
more, one request at a time or a schema of a certain form, states it as a
hypothesis, and the paragraphs below say what it means):

| Theorem | Module | States |
|---|---|---|
| `TypeCorrect`, `SignedRootsFit`, `TallyIsBacked` | `PollServer_proofs` | `[]TypeOK`, `[]SignedRootsFitRegistry`, `[]TallyBacked` |
| `LogIsBacked`, `ServerIsABallotBox`, `ClosedForGood` | `PollServer_proofs` | `[]LogBacked`, `ImplementsBallotBox`, `SettledIsFinal` |
| `PublishedIsBacked` | `PollLog_proofs` | `[]PublishedWithinVotes` |
| `OneVoteEach`, `SlotsTrack`, `SignaturesOnlyAppended` | `PollLog_proofs` | in every behaviour with `[]OneAtATime`: `[]OneVotePerRegistration`, `[]SlotsTrackRegistry`, `SignaturesAppendOnly` |
| `OneServesAll` | `PollLog_proofs` | `[]OneVotePerRegistration` and `SignaturesAppendOnly`, with no hypothesis, when there is one process |
| `RevealTypes`, `RevealStays`, `BundlesAreTrue`, `CountsBounded`, `ProofIsBacked` | `RevealTally_proofs` | `[]TypeOK`, `RevealIsPermanent`, `[]BundlesOpenVotes`, `[]CountsWithinReveals`, `[]ProofCountsReveals` |
| `KeyTypes`, `HeldKeysFit`, `KeysStay`, `OneCompilation`, `ServerHoldsServedKeys`, `BareAfterPartialSave` | `ProverKeys_proofs` | `[]TypeOK`, `[]KeysFit`, `WholeKeysStay`, `CompiledOnce`, `[]ServedKeysVerify`, `[]BareOnlyAfterPartialSave` |
| `EnginesStartAlike`, `EnginesStayAlike`, `TokensStayNatural` | `Engines_proofs` | `SameTokens` (of `EnginesAgree`) at the start and after any action; no count below 0 |
| `CallMatches` | `Contracts_proofs` | an accepted call of any generated function leaves tokens and entries that matched matching |
| `ContractsTyped`, `ContractsParity`, `ContractsAgree` | `Contracts_proofs` | for contracts that are `WellTyped`, with any `initial_state`: `[]TypeOK`, `[]Parity`, `[]EnginesAgree` |
| `SuppliesMatch` | `Contracts_proofs` | for those that are also `Supplied`: `[]SupplyMatches` |
| `ContractsImplementLedger` | `Contracts_proofs` | for those that also do `MovesAmounts`: `ImplementsLedger` |
| `PollsOnChain` | `Contracts_proofs` | the same with `[]PollGuarded`: `VotesWithinPoll` |
| `LedgerConserves` | `Amounts_proofs` | what every refinement of `Ledger` keeps: the accounts hold what was issued |
| `RangeCheckExact` | `Amounts_proofs` | `rangeCheckHolds(l, r) <=> l >= r`, for every width and field |

*Poll server.* None of these is inductive alone, because what is about to be
written sits in a request. The invariant `Inv` therefore says of every request
what is said of the files: the record it holds has a log that fits its own
registry (`RecordsFit`) and the poll's only version (`OneVersion`), the ballots it
counted are stored, readable and of a v3 poll (`CountedBacked`), and a vote about
to be logged is stored, has not been logged, and is about to be logged by no one
else (`LogOnce`). Stale records do not matter for `SignedRootsFitRegistry` then,
because a save replaces registry and log together, and deriving a record from one
that fits yields one that fits (`DerivedFits`). `ServerIsABallotBox` maps every
step to a step of `BallotBox` or a stutter.

*Reveal.* `RevealStays` first: no write follows a reveal. With it, whatever a
request knows of a ballot stays true until it acts (`Knows`), a bundle is true
when written and ever after, and a witness over true bundles counts no choice more
often than it was revealed (`WitnessBacked`); revealed ballots only grow, so an
old artifact stays within them.

*Keys.* The verifying key is written last, so a readable `.vk` means that all
three files are of one setup (`VkIsLast`). That is kept because only one process
touches the files at a time (`OneToucher`) and, at each point of its walk through
the files, what it has written or read so far is of one setup (`Fits`). Load
ends with the verifying key, hence `KeysFit`; and keys that are whole are only
ever loaded, hence `WholeKeysStay`. On top of that, as long as no save has failed,
what a writer has finished with is what is on disk (`Held`), and a server takes
over only that (`Served`); it compiles nothing on first use when it has a key
directory (`Phase`). For `CompiledOnce`: a call that compiles holds `lazyMu` and
has seen under it that the circuit is missing (`UnderLock`).

For `BareOnlyAfterPartialSave`: until something is killed or fails, a proving key on disk is
part of a complete set or its writer is still saving (`Complete`), so whoever begins
to load, with nobody else at the directory, finds a complete set that stays.

*The log.* Results are computed by a fold over the events. That `Markings` is a
function of the log at all, that two replays of the same events agree, and that
appending an event fires it, are inductions over the length of a log
(`ReplayExists`, `ReplaysAgree`, `ReplayAppend`). The library's induction theorems
take an operator, which no installed prover instantiates, so each is done through
the set of the lengths at which the claim fails: `LeastNat` of `Sums_proofs` gives
it a least member if it is not empty, and the proof refutes that. `SumOf` is treated
the same way over finite sets, hence the assumption that `Options` is finite.
`PublishedWithinVotes` compares a sum with the votes, and a crash or a failed
write may empty the log; the invariant compares it with the votes the log
names (`PublishedWithinLog`), which grow and shrink with it, and `LogBacked` says
that these are stored.

*One request at a time.* `slots_race` shows that what the comments promise of slots
fails as soon as two requests overlap. `OneAtATime` is the condition under which it
holds: no two requests in progress. Under it three accounts are invariants, the first
two until a write fails or the server dies (`NoFault`), each
kept by every step of the only request, also half-way through it: the slots left and
the votes logged add up to the registrations logged (`SlotsAccount`); the commitments
in the record are as many, but for one that is saved and not yet logged
(`RegistryAccount`); and the log of a record about to be saved extends the one on disk
(`SignaturesKept`).
`SlotsTrack` assumes in addition that polls are created without commitments
(`PreRegs = {<<>>}`), as `preregistered` shows it has to. The hypothesis is not empty: with
one process every behaviour satisfies it (`OneServesAll`), and the
run `sequential` is such an instance. `SignaturesOnlyAppended` needs no `NoFault`.

*Engines.* A firing in either engine is a list of changes made one after another
(`TokensAfter`), first what the input arcs take and then what the output arcs give. If two
counts agree on some places and two lists change those places alike, they agree on
them afterwards (`ChangesAgree`, `MovesAgree`). Where the token states of a valid
schema are a plain net (`PlainTokens`: their arcs have no keys and no weight, and no
other arc is without keys), the runtime's list and the petri state's do so, and the
arcs that the two test for enabling are the same ones (`EnabledAlike`), so
`EnginesAgree` on such schemas needs no bound. The vote schema and the plain net of
`contracts` are such schemas. `TokensStayNatural` proves what the
runtime's test of one token per input is enough for: arcs of weight 1, none
of them twice into one action; `.btw` schemas with weighted token arcs are outside of it, and only the
contract's checks keep those natural (`TypeOK` of `Contracts`).

*Contracts.* The theorems are about every contract whose functions are those of its
arcs (`WellTyped`): any schema of any size, called any number of times by any user
with any arguments, under any meaning of the conditions, and any largest word of at
least 2. Any natural number may be in an `initial_state` block: the invariant compares an
entry of the runtime with the contract's plus the initial one, and since a call changes both
by the same amount, the difference is never lost. Left out are schemas that do not
validate, or whose token states are maps or no numbers (`Sound`, `CountsAlong`); initial
numbers of plain states beyond a word; a token input that may move 0, or another amount than
the rest of its action (`CountsAlong`): the runtime wants a token there and the contract
does not, so the two really differ; and, from `Parity` but for its tokens, schemas with a
literal weight on a keyed arc (section 4). The invariant `IInv` is `Consistent`: storage has a value of the right type
for every entry, the runtime's tokens and maps are those of storage, and where the
petri state keeps the same tokens it has the same counts. `TypeOK` alone is not
inductive: that the runtime's counts stay natural follows only from their being the
contract's. For `PollsOnChain` the invariant also types the poll's own states.

A call runs over the arcs twice on each side: once for inputs, once for
outputs, a statement here and a change of a count or an entry there. `RunMatches` says
that if each statement does to its entry what the change beside it does
(`TokenAlike`, `EntryAlike`), so do the two runs; it is an induction over the arcs done, by
`LeastNat` as above. `BodiesAlike` shows the premise of what generator and
runtime make of one arc: the same amount (`AmountsAlike`), under the same key
(`KeysAlike`), or no effect in both (`InputAlike`, `OutputAlike`). Three
things need more than that. Where the runtime refuses an action that the contract
accepts, nothing may have moved on chain (`NotEnabled`): an input without a token
can only have been taken if what is taken is 0. A vote is cast by a batch, not by
the generated body; `ConsistentVote` shows that it leaves types and the poll alone. And
for the converse, that the contract accepts what the engines enable, the checked
arithmetic has to go through: on a plain net every statement takes or gives 1, no two
the same count in one half, so a token per input and room per output are enough
(`CanPerform`, `PlainChoice`).

*Supplies and amounts.* What a call's statements say is a matter of the call alone:
`MovesAlike` compares what the outputs give and the inputs take from a counter and from
the entries it counts, and `OneStep` says that a call has at most one
statement in each half that is about an account of the ledger, of equal amounts, and
that it issues the difference. Both are evaluated without a state. What the
storage then adds up to, after any number of calls by any number of accounts, is what
the theorems prove. A statement changes the sum of a finite set of entries by its amount
if it is about one of them (`StepSum`, from `SumChange`), a body by what its
outputs give less what its inputs take (`BodySums`), so a counter that was the sum
stays it (`SuppliesCalled`). For the ledger, `StepAmounts` says the same of the
function of all accounts, `RunAmounts` of a half of a body, and `BodyAmounts`
puts the halves together: an issue, a retirement, a move, or, for an amount of 0 or no
account, a stutter. That an amount is there and fits is what the checked arithmetic
ensures: storage before, between and after the halves is typed. Sums
need the keys to be finitely many, hence the assumption that `Accounts` and `Ids` are
finite (`KeysAssumption`): an address has 160 bits, an id 256.

The hypotheses are facts about what the generator made, and the run `contracts`
checks them of all its contracts and states (`GeneratedWellFormed`):
`WellTypedScenarios`, `SuppliedScenarios` and `AmountScenarios` of the thirteen deployed
contracts, with the keys and arguments of that run, and `PollGuarded`, that a poll
whose `createPoll` is accepted had not been created and one whose `close` is
accepted was open. The last depends on what two conditions mean, which the proof
leaves open. `VotesWithinPoll` under it says that a nullifier votes once, while the
poll is open, and a closed poll stays closed.

*Amounts.* `LedgerConserves` says what it is worth that a contract implements `Ledger`:
in any number of accounts and steps, the amounts kept add up to what was issued and not
retired, and none leaves its range.
`RangeCheckExact` needs only that the field has at least twice as many elements as the range
(`FieldAssumption`), which 64-bit checks in the field of BN254 have by far. It is a
statement about operands in the range; nothing in the check bounds the operands
themselves.

**Checked by TLC only**: liveness and fairness (`StoredVoteIsLogged`,
`AggregationCloses`, `RevealIsBundled`, `AskersReturn`), which TLAPS does not do;
the properties of the runs with violations, which are false; and all of
`language`: parsers, evaluators and generators are recursive over trees and texts,
written with RECURSIVE operators, about which TLAPS cannot reason, and what they
compute for every input would need induction over data as well. Of `contracts`,
`GeneratedWellFormed` is about the output of those generators, which the theorems about
contracts take as given: that the contract of this or that template has well-typed
statements, and calls that balance, is checked of the templates, not proved.

## 6. Not modelled

- Circuits and field arithmetic: a proof is valid or it is not. Constraint systems
  over hashes and curves are no state machines. Authentication's elliptic
  curves likewise, and the decryption in `close-poll`.
- The rate limiter: a counter per key under one mutex, compared with the clock; no
  other part reads it. The object store: the server only saves objects, under
  one mutex, in files named by their content, so no order of requests matters; the
  latest pointers, histories and identities have no caller.
- HTTP parsing, static files, SVG, sealing, the browser; Solidity events, getters,
  messages, and the generators of Foundry tests and genesis scripts, which print.
- `src/arc`: a copy of the petri model with hashes. `CanReach`, which nothing calls.
- The `unsafe*` helpers, by which any caller becomes the owner and gives the contract
  back: `Generate` adds them for local development, `GenerateProduction` leaves them
  out, and the contracts modelled are without them.
- A read that fails on a file that is there and whole: every file is read by one
  `os.ReadFile`.
- Events, roles and the metadata of the templates. Error texts and positions.
- Loss of power: a machine that loses data it had acknowledged is outside the crash
  model, which keeps every finished write. `Purge` and `PurgeAll` have no caller.
  Compiling a circuit at start is taken to succeed; compiling on first use may fail.

## 7. Plan

Done, in order of weight: the lifecycle with its abstraction and proofs, the reveal
phase, the keys, the two languages with all their readers, the nets and contracts.
Next:

1. Proofs: that what the generator makes of a valid schema is `WellTyped`, and which
   arcs make it `Supplied` and `MovesAmounts`. Both need the parameters and conditions of
   `SolidityContract` in a form without RECURSIVE.
2. `ClosePoll`: the command against a server that goes on, and its reading of 409,
   composed with `PollServer`'s aggregation.
3. Longer guards and schemas: `language` checks what pairs of operators do;
   deeper nestings follow the same functions.
