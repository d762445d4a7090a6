# soroban-upgrade-safeguard: a TLA+ verification project

`soroban-upgrade-safeguard` compares two builds of a Soroban contract and says
whether replacing the old one by the new one is safe: whether stored data can
still be read, callers still call, and indexers still decode. It runs once for a
pair, in batches, as a watcher that keeps a verdict up to date, and as a
streaming service that answers job lines on stdin.

This directory models the parts of the program whose correctness depends on
order, on failure, or on the interplay of several rules. TLC checks the models
on small instances, and TLAPS proves theorems about twelve of them for every
value of their constants. Paths such as `src/watch.rs` are relative to the
repository root; `PROJECT.json` maps each definition that models code to the
lines it stands for.

## Contents

1. [The system](#1-the-system): components, state, operations, hard behaviours
2. [The modules](#2-the-modules) and how they correspond to the code
3. [The runs](#3-the-runs): what each one asks, its bounds, what it shows
4. [Fairness](#4-fairness)
5. [Proofs](#5-proofs): what holds for every value of the constants, and why
6. [Disagreements](#6-disagreements) between the code and what is said of it
7. [Not modelled](#7-not-modelled), and known limits of the models
8. [What is left](#8-what-is-left)

To run it, in this directory:

    tlc -workers 2 -config diff.cfg MCVerdict.tla     # one run
    tlapm VerdictProofs.tla                           # one proof module

## 1. The system

A comparison is a pipeline. A *loader* reads a WASM file (from disk, standard
input, a pinned URL, a registry, or over RPC). A *parser* extracts the interface
specification. *Spec diff* compares two specifications into findings. The
*verdict* classifies the findings on compatibility axes and applies the
configuration: suppressions, migrations, gates, budgets. *Sections* amend the
report afterwards: storage schemas, the lineage ledger, WASM complexity, build
manifests, sampled data, inter-contract dependencies. *Rendering* prints it.
Drivers run that pipeline: once for a pair, for every pair of a manifest or of
two directories, in two watch loops, and in the streaming runner. Beside it
stand commands that compute one answer each: lint, lockfile, attest, bundle,
validate-config, fetch and replay.

### What keeps state, and what is hard about it

| Component | State | Operations | What is hard | What makes it correct |
|---|---|---|---|---|
| Watch loop, `src/watch.rs`, `run_batch_watch` | plan, results cache, fingerprints, watched directories, current window | initial cycle, receive, drain (debounce), rebuild the plan, select the impacted pairs, compute a pair, write reports, reconcile watches, shut down | files change between the two reads of a pair, between a read and the event, while a window is open; a cycle fails half-way; the manifest stops resolving; gaps come and go | once all events are handled, the incremental caches equal a from-scratch run; caches never drift apart; every event is worked off; SIGTERM is answered |
| Watch status file, `src/watch_status.rs` | the last document | write at each transition | a supervisor reads it at any time | never a safe verdict over inputs that were handled and are not safe |
| Streaming runner, `src/jsonl.rs` | pending order, seen ids, two channels, a shared receiver, workers | read a line, enqueue, send sentinels, collect, join; receive, process, panic | workers compete for one receiver; sentinels share the channel with jobs; panics; a writer that fails; order of output | one result of the right kind per line that asks for one, in input order when asked, and an end |
| Pair runs and lineage, `run_single`, `run_watch_mode`, `src/lineage.rs` | a JSON ledger of versions shared by runs; the loop's last verdict | load, judge, record, retire, save; edit, kill | a read-modify-write without a lock, and a kill between the steps; a store edited by hand; caps and retirement that hide a version | a save keeps what it loaded; a version that is live is checked against; what is recorded is the build just judged |
| Shared files: caches, outputs, status | a file per name, temporary files, open descriptors | lookup, store, write, flush, rename, clear, crash | one temporary name shared by several processes, a crash between two calls, a full disk | under a private temporary name a reader never finds a torn file; under a shared one it may while two runs write at once, but a cache is whole again once they are done, and heals |
| RPC fetch, record, replay, snapshots | a ledger that advances, the exchanges of a run, a bundle on disk | two dependent reads, retry on a ledger that strayed, record, replay, verify | nodes that lag behind each other, replies that fail or are for something else, a damaged bundle | a baseline is the code of one ledger; a replay is the recording or a refusal; the fetch ends |
| Inter-contract dependencies, `src/dependency.rs` | a graph of contracts, a walk stack, a work list | merge declarations, detect cycles, seed, propagate | cycles through a shared node, diamonds, watch lists | every cycle told; each dependent told once |
| Batch manifests and the batch run, `src/manifest.rs`, `run_batch` | include stack, layers, pairs, a cache of configs, the outcome so far | visit, fold, read a config, judge a pair, conclude | include cycles and diamonds, precedence over files, a config rewritten during the run, a pair that fails among others | a composition is refused exactly when it should be; a pair has the settings its layers say; the exit code reflects every pair |
| Spec diff, `src/diff.rs` (with `src/spec.rs`, `src/mapper.rs`) | the findings so far | five passes by kind, kind-change replacement, cascade | passes that correct each other's output; positional alignment; types that embed each other, cycles included | exactly the types whose layout is not kept, or that embed one, get a critical finding |
| Verdict, `src/report.rs`, `src/suppression.rs`, `src/contract_migration.rs` | coverage, axis verdicts | audit of migrations, classification, suppression, gating, replay of sampled values | rules that clear other findings; inheritance through cascades; half-written migrations | a safe verdict means every break on a gated axis was acknowledged or migrated; a compatible change is safe |
| Call ABI, `src/call_abi.rs` | the call stack, the pairs of types being visited | compare the two directions of each function | recursion through recursive types; contravariance | a break exactly when some reachable flow clashes; without one, what is sent decodes |

### What computes an answer from its inputs

These have no state of their own between calls; what is hard is that several
rules, limits or files have to agree.

| Component | What is hard | What makes it correct |
|---|---|---|
| Inputs: `src/loader.rs`, `src/remote.rs`, `src/oci.rs` | pins, redirects, caches that outlive a run, a path looked at four times, three readers of one build manifest | bytes that do not match their pin are never used; the three readers agree |
| Runtime surface and capabilities | limits, entries of the same kind at different positions | a quiet comparison means the new build can be deployed wherever the old one was |
| Storage schema and inference | partial observation, namesakes, limits | a safe verdict means every storage call is declared and none moved |
| Budgets, complexity, and the sections of a report | precedence, suppressed findings, an order that differs between three drivers | the verdict is explained by its parts; a budget holds in any order |
| Attestations, policy bundles, upgrade bundles | several signatures, names and digests, files that change between two reads, a creation cut short | evidence that verifies vouches for what it names; a policy only tightens |
| Profiles, configuration, schema | inheritance with cycles, escalating settings, two readers of one file | a setting tells where it comes from; a config that is called valid loads |
| Decoders and extraction, saved reports, the minimizer | sections in any order, overlapping predicates, a decoder that fails half-way; documents of several versions; a bounded search, and two files written one after the other | what is read is all there is, by one decoder that owns the version; an upgrade loses nothing that is known and is idempotent; a fixture is no larger than its input and fails as it does |
| Interfaces, lint, impact graph | duplicates, depth limits, truncation | a lockfile stands for its build; a lint without errors can be relied on; the graph shows every reference |

`PROJECT.json` lists every component with its status, those that are left out
included ([7](#7-not-modelled)), and the hazards at their lines.

## 2. The modules

    ContractSpecs ─┬─ SpecDiff ─┬─ Verdict ─┬─ Replay ── MCVerdict         (diff)
                   │            │           └─ VerdictProofs
                   ├─ CallFlow ─┴─ CallAbi ─┬─ MCCallAbi                   (abi)
                   │                        └─ VerdictProofs
                   ├─ BreakPromise            is implemented by SpecDiff
                   └─ ScValues                values, for Replay and MCCallAbi
    BatchWatch ── MCBatchWatch                                             (watch_*)
              └── BatchWatchProofs
    JsonlStream ── MCJsonlStream                                           (stream)
              └─── JsonlStreamProofs      StreamPromise is implemented by JsonlStream
    PairRuns ── MCPairRuns                                                 (lineage)
            └── PairRunsProofs
    SharedFiles ─┐                                                         (files)
    RpcFetch ────┴─ ReadingProofs                                          (rpc)
    Dependencies ── MCDependencies                                         (deps)
                └── DependenciesProofs
    Manifest ── BatchRun ── MCBatchRun                                     (batch)
                        └── BatchRunProofs
    Surface, StorageUse, Budgets, Sections, SignedEvidence, Profiles,
    Documents, Inputs, Extraction, Interfaces ── ImpactGraph
              │ instantiated by
              Commands ── CommandProperties ─┬─ MCCommands                 (commands)
                                             └─ CommandProofs

`X ── Y` reads "Y extends X". A module that holds `RECURSIVE` operators
(`ScValues`, and so `Replay`) is used by TLC only; the modules that are proved
about, `Commands` and its parts among them, write recursion as steps or as
recursive functions.

### BatchWatch

The loop of `run_batch_watch`. A file's content is a version number, 0 for a
missing file. The state is the loop's: `plan` is `BatchPlan`, `results` and
`fingerprints` are the two caches of `src/watch.rs`, `chan` the watcher
thread's channel, `batch` the debounce window, `registered` the directories the
loop believes it watches and `watched` those the operating system does. The
environment edits files, rewrites the manifest and sends SIGTERM at any step.

- The two reads of a pair are two steps, so an edit may fall between them.
- An edit appends its event to the channel only if its directory is watched then.
- `todoGaps`, `todoPairs` and `reading` hold what the cycle has left, so a cycle
  may fail in the middle, where the code's `?` leaves it.
- `IsSafe` and `Compare` stand for the engine; its outcome on a pair of contents
  is a constant.
- The status file is one variable written in one step; the temporary file and
  the rename are `SharedFiles`'.

### JsonlStream and StreamPromise

`run_streaming`: the main thread and the workers are processes; the job channel
is a queue, its receiver is shared behind a mutex (`lock`), the result channel
is another queue, `pending` is `pending_order`. A worker waits, locks, receives
(and unlocks as the temporary guard goes out of scope), processes, sends; it
may panic while processing. The sentinel that ends a worker is a job with an
empty id and no slot, as in the code, and not a message of its own kind.

`StreamPromise` knows lines and results only: each line that asks for a result
gets exactly one of the right kind, except those lost to a panic, in input
order if so configured, and the stream ends. `JsonlStream` implements it
(`ImplementsPromise`).

### ContractSpecs, BreakPromise, SpecDiff

A decoded specification is `[types, fns]`. A type is `[kind, doc, members]`; a
member has a name and a shape; a shape has a constructor, the type it names and
its arguments. An enum's integer value is the shape of its case. `LayoutKept` is
the reference definition: the old members of a struct or union are a prefix of
the new ones, and each old case of an enum persists with its value.

`SpecDiff` is `compare`: a step per pass in the code's order, then
`DetectTypeKindChanges`, then the cascade, whose queue is a set because the
order in the code is that of a hash set. Findings carry severity, category,
type, target and root; wording is left out. Category names are the code's,
because suppressions, claims and axes are keyed by them.

`BreakPromise` is the abstract specification: a set of marked types that only
grows, in which a type may be marked only if its layout is not kept or it embeds
a marked type, until every such type is marked. `SpecDiff` implements it with
the types of critical findings for the marked set (`ImplementsPromise`).

### Verdict, Replay and ScValues

`contract_migration::audit` (step `Audit`) and `with_suppressions_with_specs`
(step `Judge`) after the comparison. The configuration holds the gated axes,
`--strict`, suppression rules and migrations. `ReportedAxes` includes the lookup
a cascade makes for the first finding about its root; `Inherited` is the single
pass over direct claims. `Replay` adds `ReplaySample`, the empirical check: values of the old
types, sampled from storage, are searched for types with findings, and each that
decodes in the old build must decode in the new one. `ScValues` has the two
halves this needs, the values the SDK encodes for a type and the validator.

### CallFlow, CallAbi, MCCallAbi

`CallFlow` is the relation: a flow is a type expression of the encoder met by
one of the decoder; it clashes, or is fine as far as its parts are. `CallAbi` is
the walk of `check_value_flow` and `check_udt_flow` as steps on a call stack with
the pairs of names that are being visited. `MCCallAbi` states the promise in
terms of values: without a break, every value one side encodes for an argument
or a result decodes on the other side. Two readings of a type, in `call_abi.rs`
and in `empirical.rs`, are thereby held against each other.

### PairRuns

The first part has the lineage ledger as functions of its content: integrity,
selection under a cap, a cutoff and retirement, and the validation of a candidate
against every selected version. A record without an interface is skipped, one whose
interface cannot be read counts as empty, and one that does not parse is an error. The second has runs that share one store: load, judge, record
or retire, save by rename, and the watch loop that does so again after each
edit. A run may be killed between any two steps, and the store may be edited by
hand.

### SharedFiles

Five protocols on one disk, system call by system call: the metadata cache, the
URL cache, the OCI cache, `--output` files, and the status file (whose protocol
the lineage store and the metrics snapshot share). A file has two halves,
written one after the other at the writer's own offset; a descriptor follows its
file through a rename. That makes visible what one shared temporary name
(`metadata_cache.rs`) means, as opposed to a private one.

### RpcFetch

A run that reads its baseline by contract id, by code hash, or through a
recorded bundle, against an endpoint whose nodes lag behind each other, while
ledgers close; and then storage, live or from a snapshot file with its
manifest. A request and its reply are one step: some node that lags by `Lag` at
most answers with what it holds at its ledger, or `Replies` answers with a fault;
the handlers are the code's, their early returns as disjuncts, and the retry on a
ledger that strayed leads back to the first read.

### Dependencies

Declarations are merged into edges one by one; `detect_cycles` is a depth-first
search with its three colours; `propagate` takes contracts from a queue and
tells their callers. Contracts are numbered in the order of their names, which
is the order of the `BTreeMap`s, so that the order of what is told is exact. A
finding is identified by its whole target; a watch list looks at the function in it.

### Manifest and BatchRun

`Manifest` walks the include tree with its stack, gathers `[defaults]` layers and
pairs, and folds them: caps, cycles, diamonds, escalating settings. `BatchRun`
takes its pairs from there or from a sweep of two directories, where a contract has
the name of its file without the extension, so that two may be of one name: the
run is refused at the second. With a directory for reports it is refused before it
begins if two reports would be of one file name. It judges the pairs under the
config each one names, read once per path, while an editor may rewrite a config; a
pair that fails is a result of its own. `AcceptsExactly` compares the walk with a definition of acceptance over
the include graph that knows no stack.

### Commands and the modules it instantiates

The parts that compute an answer from their inputs alone share one state
machine: `Init` chooses a request, an action per command computes the answer the
code gives, and `CommandProperties` compares the answer with what it is for, by
definitions that do not use the operators of the model. Where the code reads a
file twice or in two runs, the request holds what each read finds.

- `Surface`: memories, tables, globals, start, imports and the protocol, and the
  findings a change gives.
- `StorageUse`: the bytecode scan under its limits, a module too large to be scanned
  at all (an error), declarations, reconciliation,
  the comparison of schemas.
- `Budgets`: `[[budget]]` and `[[complexity_budget]]`: loading, counting, limits.
- `Sections`: the sections of a report in the order of the library, of the
  bindings and of the command line; and what is read back of a saved report, as
  it is or brought to the latest version step by step.
- `SignedEvidence`: DSSE envelopes, with attestations and policy bundles over
  them; upgrade bundles: creation member by member, verification, reading, and
  the build manifest among the members.
- `Profiles`, `Documents`: inheritance, layers and the mode of a run, and what
  `--show-config` says of each setting; what the schema, the loader and
  `--validate-config` each make of one file.
- `Inputs`: the reference of an input, redirects, digests, registries and tokens,
  two caches across two successive loads, paths and links, expected hashes; and
  the three comparisons with a build manifest.
- `Extraction`: the payloads of a module and the decoder that owns its version;
  and the minimizer, which extracts ever smaller parts of a failing input.
- `Interfaces`, `ImpactGraph`: the declarations of a build, its hash and lockfile,
  and the lint rules with their bounded walk; the graph of an upgrade.

## 3. The runs

Twelve runs; together they take about fifteen minutes on two cores. Each
property of a passing run has a mutant, a plausible wrong version of one
definition (a dropped guard, a forgotten category, a shifted position), under
which the property fails.

| Run | Instance | Asks |
|---|---|---|
| `watch_clean` | two contracts, both modes, three edits, no environment fault | `TypeOK`; `Fresh`: when everything is handled, the caches are those of a from-scratch run; `NoFalseSafe`: the published verdict is never safe over handled inputs that are not |
| `watch_faults` | two contracts, both modes, two edits, all five faults, fair loop | `CoversPlan`: a completed cycle reports exactly its plan; `CachesCoherent`: result and fingerprint caches agree, also after a failed cycle; `EventsSettle`: a burst is worked off unless noise never stops; `ShutdownAnswered` |
| `watch_restored_gap` | directory mode, three edits | `RestoredGapHeals`, which the README of the tool says and the code does not keep ([6](#6-disagreements)): TLC finds the history |
| `stream` | two workers, up to four lines of every kind, both orders, two panics, failing writer | `NoWorkerStranded`: a message for each live thread once the sender is gone; `NothingLost`; `ImplementsPromise` |
| `lineage` | two processes, three runs, watched or not, one edit of a build or of the store, one kill | `HistoryChecked`: a candidate judged safe decodes the data of every live version whose interface the store still holds; `FreshRecorded`: the store keeps its rules and takes a new id; `JudgedCurrent`: a watcher that waits has judged the builds that are there; `SaveKeeps`: a save keeps what its run loaded |
| `files` | three processes, four runs, one fault, one clear, five protocols | `ReplacedWhole`: a reader sees one complete document, always under a private temporary name, under a shared one unless two runs write at once, and in a cache again once they are done ([6](#6-disagreements)); `Heals`: one undisturbed run repairs the entry, whatever happened before |
| `rpc` | two code hashes, three ledgers, one of lag, two retries, one fault of five kinds | `SnapshotTrue`: the baseline is the contract's code at the ledger it names, and never other bytes than those pinned; `ReplaySameOrRefused`; `FetchEnds` |
| `deps` | up to five declarations over three contracts, four sets of findings | `CyclesTold`: what is reported is a cycle, and without the closing calls there is none; `ToldOnce`: every dependent once, at its distance, in the order promised |
| `diff` | 1719 pairs of builds, 12 configurations | `NothingMissed` and `ImplementsPromise` of the comparison; `VerdictExact`: a safe verdict means every break was handled, and a compatible change is safe; `MigrationsHonest`; `SampledDataDecodes`: a safe verdict over a sample means that each value of it still decodes |
| `abi` | 3332 meetings of a client and a contract, values four deep | `NoBreakMissed`, `NoBreakInvented`, `DecodesWhatItIsSent`, `WalkEnds` |
| `batch` | compositions of four manifest files (one with two paths), sweeps of two directories, two configs, one edit | `AcceptsExactly`: a composition is refused exactly when something is wrong with it; `SettingsResolved`: precedence and origin of every setting; `VerdictHonest`: one result per contract, in order and under names that differ, and safe only if nothing gated is left |
| `commands` | 280 000 requests of twenty kinds | `QuietMeansDeployable`, `SafeMeansStorageKept`, `VerdictExplained`, `EvidenceVouches`, `SettingsTell`, `BuildsUnderstood`, `InputsPinned`; each is the conjunction named in [2](#commands-and-the-modules-it-instantiates) |

### What the properties of `commands` say

- `QuietMeansDeployable`: with nothing told above an informational finding, the
  new build imports nothing the old one did not, needs no later protocol, starts
  no new code and fits in the old memory.
- `SafeMeansStorageKept`: with the storage axis gated, safe means that every
  storage call of both builds is declared, or the analysis says that it stopped
  early, and that no declaration moved to another durability or namespace.
- `VerdictExplained`: a report is safe exactly if none of its parts objects, its
  counters add up; budgets come out the same in any order, and within them the
  counts are.
- `EvidenceVouches`: an attestation verifies exactly if it should; a policy bundle
  only tightens; an upgrade bundle that verifies has the bytes of *one* creation;
  an upgraded report says what the saved one said, once and for all; a promoted
  fixture is a part of the input that fails in the same way.
- `SettingsTell`: a setting's value and origin follow the precedence; the library
  and the command line take an invocation for the same run; what
  `--show-config` tells is what decides, and it names the layer; what
  `--validate-config`, the schema and the loader say of one file fits together.
- `BuildsUnderstood`: a lockfile stands for its build, edited by hand as well; a
  lint without errors can be relied on; an impact graph shows every reference
  and never calls a broken type retained; an extraction that is not refused has
  every entry of every section, read by one decoder, the first that owns the
  version, and what is recovered is the longest prefix that can be read.
- `InputsPinned`: whatever a site, a registry, a disk or an earlier run left in a
  cache, the bytes that go on are the ones pinned; the three comparisons with a
  build manifest agree.

### Bounds, and why they suffice

*Watch.* Two contracts are the least for which a window may touch one and not
the other, which is what the impacted set is about. Two versions tell stale from
current. Three edits allow: an edit between the two reads of a pair, its
reversal, and one in the next window. With every fault enabled two edits keep
the run within minutes, and one fault of each kind fits.

*Streaming.* Two workers compete for the receiver, and both may panic. Four
lines allow a job for each worker, a duplicate and a line the main thread
answers, in every order; lines range over blank, malformed, wrong version, I/O
error and jobs with three ids, one the empty string.

*Comparison.* Three types: `Leaf`, `Mid`, which may embed it and itself, and an
event, which may embed either and be embedded by `Mid`. So chains, diamonds,
self-embedding and cycles through an event occur. `Leaf` ranges over all four
kinds, with a member added, removed, inserted, swapped and retyped; the outer
types through their own changes; each type is removed and added; two functions
change in every way the signature comparison tells apart. The configurations
combine rules, a sound migration, one that claims what another claims, one
outside its scope, one without the ordering attestation, and no gate, one gate,
the default gates, `--strict` and the empirical check.

*Call ABI.* Two structs or unions that embed themselves and each other, an error
enum and two functions, whose arguments and results go through options, vectors,
maps, tuples and results; `Depth = 4` unfolds each recursive type at least twice.

*Lineage.* The lost update takes two processes; three runs let one of them read
what a second saved before a third overwrites it. Two builds suffice, since one
reads what the other stored but not the other way round.

*Files.* Two halves of a file are the least that can be torn; three processes
allow a reader beside two writers of one temporary name, one of which crashes.

*RPC.* Two hashes make an upgrade; three ledgers and a lag of one allow the second
read to be older or newer than the first; two retries allow one to succeed and
all to fail.

*Dependencies.* Three contracts with self-calls have every shape of cycle through a
shared node; five declarations close two cycles with a chord, and repeat a
declaration with and without a watch list.

*Batch.* Four files make a diamond, a chain that is too deep, a cycle through two
files and a file reached under two paths; two configs are one per pair. The sweeps
have two files of one name, both compared, both gone and one of each, and two names
that a report's file name does not tell apart.

*Commands.* Each request family is built around what its rules tell apart: every
limit is met exactly, passed by one and not met; every list is empty, single, in
two orders, with a duplicate; every file is there, absent, and changed between
two reads.

`CHECK_DEADLOCK FALSE` stands in every configuration because each program ends:
the watch loops on SIGTERM, the stream at the end of stdin, everything else by
returning.

## 4. Fairness

- *Watch loop* (`watch_faults`): weak fairness of the loop's own steps, a thread
  that the operating system schedules. Nothing is assumed of edits, noise or
  signals; `EventsSettle` has the proviso that unrelated events do not arrive
  for ever, because `drain_events` waits for a quiet window.
- *Streaming*: weak fairness of the main thread and of each worker, and that stdin
  ends (`ReadLine \/ EndOfInput`). A panic is never assumed.
- *RPC*: weak fairness of the run's own steps, each of which is a request with a
  timeout, so it ends in a reply or a failure. Ledgers need not close. The
  recorder is left out of it, since it has its own run.
- *Comparison, verdict and call ABI*: weak fairness of one synchronous call.
- The other runs state safety only.

## 5. Proofs

TLAPS proves these for every value of the constants, under the named
assumptions of the modules (`ConstAssumption`, `StreamAssumption`,
`NoTypeAssumption`, `PairsAssumption`, `ShapeAssumption`, `MeetingsAssumption`,
`ConfigsAssumption`, `PairAssumption`, `RpcAssumption`, `FilesAssumption`,
`AbsentAssumption`, `ContractAssumption`, `DeclarationAssumption`,
`TextAssumption`, `CapsAssumption`, `InvocationAssumption`, `ConfigAssumption`,
`OutcomeAssumption`, `SweepAssumption`, `EditsAssumption`, `LimitsAssumption`,
`HostsAssumption`, `StorageAssumption`, `BudgetsAssumption`, `ReportsAssumption`):
bounds are naturals, the set of workers is finite and not empty, the absent type
name is not a type, a type name is one type expression, the builds compared
are well-formed specifications, a configuration gates axes that exist, contracts
are finitely many numbers and declarations are between contracts
(`all_referenced`), no document of a shared file is the value that stands for a
missing one, a manifest that parses has a list of includes and a list of pairs, a
directory holds finitely many files, the value that stands for no config is
none, the limits of the one-shot commands are naturals, and what their requests
hold is what a parser returns: modules whose sections and bodies are lists, lists
of declarations and tables, findings with a severity and axes.

| Theorem | States |
|---|---|
| `BatchWatchProofs!TypeCorrect` | every variable keeps its type and the work sets are inside the plan, for any contracts, edits and faults |
| `BatchWatchProofs!CachesAgree` | `CachesCoherent` |
| `BatchWatchProofs!PlanCovered` | `CoversPlan` |
| `BatchWatchProofs!SettlesFresh` | `Fresh`, under `Clean` (below), for any contracts, any number of edits and any noise |
| `BatchWatchProofs!SafeIsTrue` | `NoFalseSafe`, under `Clean` |
| `JsonlStreamProofs!TypeCorrect` | types, for any number of workers and lines |
| `JsonlStreamProofs!OneReceiver` | `LockDiscipline`: exactly the lock's holder is in `recv` |
| `JsonlStreamProofs!ThreadsServed` | `NoWorkerStranded` |
| `JsonlStreamProofs!EveryLineAnswered` | `NothingLost` |
| `JsonlStreamProofs!StreamKeepsPromise` | `Spec /\ NoLookAlike => Abstract!Safety`: the threads and channels refine the safety part of `StreamPromise` |
| `VerdictProofs!TypeCorrect` | types, for any builds |
| `VerdictProofs!NoLayoutBreakMissed` | `NothingMissed`, however the types embed each other |
| `VerdictProofs!KeepsPromise` | `Spec => Promise!Safety`: the comparison refines the safety part of `BreakPromise` |
| `VerdictProofs!PipelineInvariant` | the invariant of the comparison, the audit and the judgement together, for any builds and configurations |
| `VerdictProofs!VerdictIsExact` | `VerdictExact`: a safe verdict means every break was handled, a compatible change is safe |
| `VerdictProofs!NothingHalfMigrated` | `MigrationsHonest` |
| `VerdictProofs!CallTypeCorrect` | types, and that the pairs being visited are those of the call stack |
| `VerdictProofs!NoBreakIsMissed` | `NoBreakMissed`, for any two builds |
| `VerdictProofs!BreakRefutes` | with a break, no set of flows whatever shows the calls to be understood |
| `VerdictProofs!NoBreakIsInvented` | `NoBreakInvented`, for any two builds |
| `PairRunsProofs!PairTypesKept` | types, and what a run in the middle of a cycle has read, for any processes, builds and edits |
| `PairRunsProofs!FreshRecordedKept` | `FreshRecorded` |
| `PairRunsProofs!SavesKeep` | `SaveKeeps` |
| `PairRunsProofs!EveryVersionChecked` | `HistoryChecked`, with its exception for records damaged by hand |
| `PairRunsProofs!WaitsCurrent` | `JudgedCurrent` |
| `ReadingProofs!SnapshotIsTrue` | `SnapshotTrue`, for any ledgers, lag, retries and faults |
| `ReadingProofs!ReplayIsSame` | `ReplaySameOrRefused` |
| `ReadingProofs!FilesWhole` | `ReplacedWhole`, with its exception for rivals on a shared temporary name, for any number of processes, runs, crashes, full disks and clears |
| `ReadingProofs!RunsHeal` | `Heals` |
| `DependenciesProofs!AllCyclesTold` | `CyclesTold`, for any contracts and declarations |
| `DependenciesProofs!EveryoneToldOnce` | `ToldOnce`, for any contracts, declarations and findings, in any order of the `HashMap` |
| `BatchRunProofs!HonestVerdict` | `VerdictHonest`, for any manifests, directories, configs and rewrites |
| `BatchRunProofs!AcceptedExactly` | `AcceptsExactly`, for any include graph, any texts and any caps |
| `BatchRunProofs!PrecedenceKept` | `SettingsResolved`, for any include graph, texts, pairs and command lines |
| `CommandProofs!QuietIsDeployable` | `QuietMeansDeployable`, for any two builds and any table of host functions |
| `CommandProofs!SafeKeepsStorage` | `SafeMeansStorageKept`, for any modules, schemas and limits of the scan |
| `CommandProofs!VerdictIsExplained` | `VerdictExplained`, for any findings, tables, bodies and sections of a report |

**Watch loop.** `CoversPlan` speaks of completed cycles, so it is not inductive:
it says nothing of a cycle that is half done. The invariant adds that at each
point of a cycle a name of the plan has its entry in the caches or is still in
`todoGaps` or `todoPairs`.

`Fresh` and `NoFalseSafe` speak of what is published once everything is handled,
and say nothing of the time in between. `FreshInv` covers it. A plan that is out
of date has an event pending that makes the loop plan anew (`PlanTold`). A result
that is out of date has an event pending in the channel or the window, or its pair
is on the work list, or, in directory mode, it is a restored gap or waits for its
old build (`PairTold`). An edit keeps this because the directories of the plan are
watched, so its event is there as soon as the content differs; a window keeps it
because an event leaves the window only when its pairs enter the work list; and a
pair leaves the work list after its two reads, of which the first is current or
has an edit behind it that is pending again. Four of these steps fail under faults,
in the code as in the model: an edit before the watches are registered, a
directory that cannot be watched, a window dropped with a manifest that does not
resolve, a report that cannot be written. So both theorems assume `Clean`: of the
environment's faults only unrelated events happen, and pairs differ by nothing that
their fingerprint leaves out ([6](#6-disagreements) has what the code does
otherwise).

**Streaming.** Four layers. `Phase` ties the main thread's position to whether
the sender is alive and what has been sent. `QueueShape` says that the job
channel is jobs, then sentinels, and that sentinels in it and retired workers
add up to the threads; `ThreadsServed` follows. `Retirement` says that a worker
is done only once all jobs before its sentinel were taken. For
`EveryLineAnswered`, `Located` says where each accepted line is: in the job
channel, with a worker, in the result channel, in its slot, written, or lost to
a panic; `SlotsDistinct` that no two share a slot; and `PhaseEnds` that the
phase in which it may be anywhere but written or lost is over at the end. The
collection in input order ends on a count, which needs the inequality
*received + results in the channel + busy workers + jobs queued ≤ sent*.

`StreamKeepsPromise` needs the converse too: no line is answered twice or out of
turn. `Singly` and `OnePlace` say that a line is in one entry of one of the five
places it can be in before and after the writer (`Queued`, `Handled`, `Finished`,
`Slotted`, or written or lost); each step moves one line from one place to the
next, and `LinesAppend`, `LinesTail` and `LinesReplace` say what that does to the
set of lines of a sequence. `Asked` says that only the first job with an identifier
gets past the main thread and that each answer is of its line's kind, for which
`SeenExact` ties `seen` to the lines read. For input order, `InOrder` relates what
is not a sequence yet: the *claims*, a line with the slot its answer is in or will
be put in, wherever the answer is. Slots are claimed in the order of the lines; the
flush takes the front slot, and `Located` and `PhaseEnds` say that every line still
owed is in a slot behind it, unless all workers panicked, and then `Losses` counts
a lost line for each of them. The theorem assumes `NoLookAlike`: with the empty
identifier in completion order the code does lose results ([6](#6-disagreements)).

**Comparison.** The first half shows of each pass that a type of its kind gets a
critical finding exactly when its layout is not kept (`StructMarks`,
`CaseMarks`, `UnionMarks`, `PassMarks`). For structs this is where the shifted
alignment matters: without an insertion it is the identity (`AlignedIdentity`),
and an insertion is a finding by itself. The inductive invariant is then:
before the cascade, the marked types are those of the kinds compared so far
whose layout is not kept, and each finding's target is headed by its type (so a
retracted finding is about a type whose kind changed, which gets a new one); in
the cascade, a mark `<<type, root>>` is queued or all its dependents are marked
with that root, and marked types are the first components of marks. When the
queue is empty the marked types are closed under embedding. The same invariant
gives the refinement: what a step adds is not kept, or embeds something marked.

**Call ABI.** The walk skips a pair of names that is being visited, as if it were
compatible. That this assumes nothing is the point: `WalkInv` says that every
flow entered is fine so far, or clashed and is a break, and that the parts of an
entered flow have been entered themselves or are still to go down in some frame
of the stack. When the stack is empty the set of flows entered is closed under
parts and without a clash, which is what `Understood` asks. `BreakRefutes`
is the other direction and needs less: every flow entered is a part of a part of
a call, and any set of flows that shows the calls to be understood contains all
of those, so a clash among them refutes each such set; `NoBreakInvented` is the
case of the set that contains all flows that can be reached.

**Verdict.** `PipelineInvariant` adds to the invariant of the comparison what the
axes need to know. `TellsInv`: a finding about a type is one that the passes give
this pair of builds, and so has a category, whose axes are known, and concerns a
member that changed. `FnInv`: the findings about no type are exactly those of the
functions. `OwnInv`: when the cascade starts, a type that is not kept has a
critical finding of its own, not only through another type. `RootsInv`: each
cascade leads back to a type that is not kept; without it a cascade could make
builds unsafe in which nothing is broken. `AuditInv` fixes what is covered as a
function of the findings, which no longer change, and `JudgeInv` relates the
status of each axis to the findings and `is_safe` to the statuses. For
`SafeMeansHandled`, every own critical finding of a type that is stored puts the
storage axis to `failed` unless it is handled (`OfAnEvent` names the one category
where it depends on who uses the type); for `NoFalseAlarm`, if every type is kept
there is no mark, by `RootsInv`, and what the functions and additions tell fails no
axis.

**Dependencies.** `detect_cycles` is a depth-first search that reports the path from
the contract a call leads back to. A contract on its stack is grey, one it has
left black. `PathInv` says that the stack is a path of calls through distinct
contracts, so what is reported is a cycle (`CyclesInv`). `LookedInv` says that each
call looked at closes a reported cycle, leads to a black contract or leads up the
stack; `BlackInv` that all calls of a black contract were looked at. The part that
cannot be read off the code is `NoCycleIn(Black)`: without the closing calls, every
nonempty set of black contracts has a member that calls none of the set. When a
contract turns black, a set with it has such a member already among the others, or
is that contract alone or calls black contracts only, none of which calls a grey
one. At the end every contract that calls is black.

`propagate` is a breadth-first search from many seeds that share one queue.
`ToldOnce` speaks of the list it returns; the invariant speaks of `Line`, what was
told followed by what is queued. `HearInv` says that the merged edges watch what
the declarations watch. Of each entry in the line `SoundInv` says that it is at its
distance, `OnceInv` that it stands there once; `HeardInv` says that whoever hears of
a finding that was seeded, or from an entry that was told, was queued; `DepthInv`
that the line grows by depth and is at most one call ahead of its head. When the
head is at depth d all that is nearer was told, so a contract that was not queued
yet hears through d + 1 calls and no fewer: the lemma `Covered`, by induction over
the number of calls. That no entry is deeper than there are contracts follows as
`Within` gains a contract with each call for as long as it grows, which `Sound`
carries along. `OrderInv` is for the sort, which does not look at the category: of two
findings of one contract with one target the earlier is ahead wherever both are
heard of, for it is seeded first and carried on first. `SortFacts` shows that a
stable sort by a strict order returns each entry once. `ReportAssumption` says that
there is a list of findings for each contract and that targets are numbers.

**Lineage.** A run reads the store at one step and saves at another, and its own
copy meets the rules only if the file did when it was read. `PairInv` therefore
says of the file, and of the copy of each run between its read and its save,
that the entries meet the integrity rules and that the history beside them is
alike entry by entry (`StoreInv`). A version with a known id is pushed with the
order zero, which breaks the rules, so it is never saved; a fresh one gets the
order above all orders in use. That gives `FreshRecorded`, and `SaveKeeps` for
every save against the store that run has read. `HistoryChecked` compares with
what was recorded, the run with what its store holds. `JudgedInv` relates the two
from one save to the next: an entry is live and has the build that was noted for
it, in the file and, with the retirement of its arguments, in the copy of each run
that is about to judge or to save (`Matches`). As the orders increase, the cutoff by
order is one by position (`CutoffByPosition`), so the versions selected are those
required (`RequiredIsLive`), whoever saved them, and each that the candidate does
not decode leaves a finding that fails the run, unless its record was damaged by
hand so that there is nothing left to compare with. Neither property catches a lost
update: both go by what the file held when the run read it. `WaitsCurrent` rests on
`Current`: a watch without a waiting event and without a missed change has read
the builds that are there. It holds through each step of each process because a
change of an input sets one of the two flags of every watch that has started.

**Files.** What a reader sees depends on who else has a descriptor on the file, and
descriptors move with a rename, so `WholeInv` follows them: a descriptor that is
not an orphan is open on a file that is there, under the temporary name of its
process or, after somebody's rename, under the name readers use (`Descriptor`).
Without rivals for the temporary name (`NoRival`) what is under it is what its one
writer has written so far, and a writer whose descriptor was orphaned finds the
name gone, so a rename publishes a full document or fails. With rivals, and no
write cut short, a cache entry has each part already or a process whose
descriptor is on the file and that has still to write it (`CacheCompletes`): the
unfinished file that a rename publishes is finished in place. Until then it is torn,
which is why `ReplacedWhole` asks that nobody is writing. For `RunsHeal`,
`Steady` says that a run that is still undisturbed is the only one under way, that
nothing is being cleared, and that it is on the track that ends with its document
in place (`OnTrack`): its temporary file cannot be missing at the rename, nor the
directory at the open. Cache entries of older runs, whole or torn, hold nothing
but the artifact's parts (`Genuine`), so a hit serves it.

**RPC.** The ledger at which the baseline is true is fixed by the first read and
confirmed by the second, while the chain goes on between them. `InstanceRead`
holds between the two: unless the endpoint left out a ledger or answered another
request, the wasm that the instance names is the contract's at `inst.seq`. An
honest second reply carries the code of that name, and a torn pair is retried or
refused, so what is accepted is the code of that one ledger (`ModuleTrue`). For a
contract source the exclusion is real: nothing but its id ties the reply about the
instance to the request, so `SnapshotTrue` says nothing of a run in which that reply
strayed or came without a ledger. Against those faults it protects pinned runs and
runs by code hash.
`PinFirst` carries the pin and the requested hash from the check to the report.
For the replay, `RecordKept` says that what was recorded is an instance that names
a wasm and one more exchange, and that the digest in the file is that of the
bytes fetched whatever one accident did to the file (`DigestKept`).

**Batch runs.** `VerdictHonest` speaks of a run that is over. Before that,
`CountInv` says at each stage how many results there are, `NameInv` that the k-th
is of the k-th contract, gaps first, `UniqueInv` that no two are of one name, and `SafeInv` that a run still called safe has
only results that may be. A config is read when it is first needed and can be
rewritten afterwards, so `UsedInv` speaks of the cache and not of the file: each
result that was judged under a config was judged under what the cache holds for its
path, and nothing in the cache is ever replaced (`CacheInv`). The state is well
formed by `Shape`: the stack of `visit` is a way down from the root through
distinct files, each of which was read, parsed, and includes the next.

**Manifests.** `AcceptsExactly` relates the end of a walk to the set of all ways
down the include graph, of which the walk remembers none: only a stack and
two flat lists. `WalkInv` puts the ways back. It says that there is a tour `W`, a
list of ways without repetition, whose k-th end contributed the k-th layer, and a
list `E` of the entries (a way and a place in its file) that the pairs are.
`TourClosed` says that whatever a toured way includes was toured before
it, `TourStack` the same of what each frame has finished including, and
`TourBehind` that every toured way leaves the stack at an include that is
done, which is why a way that is pushed is new. When the stack is empty the tour
ends at the root, so by induction on its length every way is in it
(`TourComplete`), each is short enough, passes no file twice and ends at a file
that could be read, and the entries are as many as the pairs. The recursion of `WaysOf` is
unfolded in `WaysUnfold`. `Outcomes` keeps what each refusal is for: a way for the
three of `visit` (`ErrInv`), the state of the fold for the others (`RefusalInv`).

`SettingsResolved` follows from the order of the tour. Every file that was read has
a layer, the root's is the last, and a file that a way passes contributes after
the one it ends at (`AboveLater`). So the last layer that sets a value is the root's
if the root sets it, and if no file contributes twice it is of a file that no other
setter is over. The escalations do not depend on the order.

**One-shot commands.** Each of these properties speaks of an answer, and the answer
is fixed when it is given: the invariant says of a command's state that the
request is one there is and that the answer is the one the model computes
(`HostsInv`, `StorageInv`, `ReportInv`, `BudgetInv`, `ComplexityInv`). No other
command can have left it (`OneCommand`). The work is in what follows from it.

`QuietIsDeployable`: every way in which the new build could ask for more tells a
finding above an informational one. Per section, an entry of the new build is
compared with the one at its position, so without a finding each is there already
(`QuietChange`, `QuietImported`), memories and tables fit, and the protocol
needed is no later. `DeclaredFacts` unfolds the numbering of the entries.

`SafeKeepsStorage`: the scan is a fold over bodies and over the operations of each.
`IsScan` and `Later` carry through both folds what was seen and that it is never
dropped, so an operation that was read is observed, or the scan stopped early
(`UsesNoted`). A report that was started safe and ends safe had nothing counted
against the gated storage axis on its way (`StorageFollows`), so the findings
counted are none: as a finite set with no element (`ReconcileFinite`, `MovesFinite`).
Without findings every observation has a declaration (`NothingMissing`), and none
has moved (`NothingMoved`); here the proof needs that names differ, for of
namesakes the code compares the first only.

`VerdictIsExplained`: for the report, `Stands` relates the verdict to the axes and to
the sections so far and is kept by each section in each of the three drivers, the
counters being added up on the way. For the budgets, what loads
and what counts is shown to depend on the set of the tables alone (`LoadsAsSet`,
`EntriesAsSet`), although the code looks for the first that contradicts; a list and its
reverse have the same set. For the complexity, the fold that adds up the bodies is
the cardinality of a set of places (`PlacesCounted`), so that within its limits the
profile is the number of instructions; `Rounding` is what the integer division of
`Hundredths` leaves open.

### Only model-checked

- *Liveness* (`EventsSettle`, `ShutdownAnswered`, `FetchEnds`, `WalkEnds`, the
  fairness parts of both promises), which is beyond the prover.
- *Induction over data*: `DecodesWhatItIsSent`, `SampledDataDecodes` and
  `BuildsUnderstood` speak of values, types and canonical forms of any depth. They
  rest on `RECURSIVE` operators or on an order of the trees that the library offers
  only for a predicate given as an operator, which no installed prover
  instantiates. Where the data are numbers, or ways counted by their length, the
  lemmas `SetInduction` replace it: they speak of a set of numbers.
- `EvidenceVouches`, `SettingsTell`, `InputsPinned`: long chains of folds written
  with operators of the community modules (`FoldLeft`, `SelectInSeq`, ...), which an
  instance hides from the prover.

## 6. Disagreements

One is a run, whose trace shows it; `PROJECT.json` quotes the lines.

- `watch_restored_gap`: a removed artifact becomes a critical gap; restored in a
  window in which another pair is impacted, it can stay a gap.

The others were met while modelling. Where a definition is named, a module
keeps it beside its properties, outside the runs: TLC refutes it when it is
added to a configuration whose inputs let the case happen.

*Watch and stream.* An edit of a pair's `[policy]` table alone is not part of its
fingerprint, so the pair keeps its old verdict (`SettingsReanalyzed`,
`src/watch.rs:188`). A window in which the manifest does not resolve is dropped
as a whole, the inputs edited in it included (`InputsReanalyzed`,
`src/watch.rs:600`). A job whose id is the empty string is taken for the
sentinel (`OneResultPerAcceptedId`, `src/jsonl.rs:475` against `:156`). In
completion order nothing is written before stdin ends (`EmittedAsCompleted`,
`src/jsonl.rs:436` against `:181`). A directory whose `watch()` failed is
recorded as watched (`src/watch.rs:458`); unrelated events can keep
`drain_events` waiting.

*Files.* A cache entry is said to be safe under concurrent writers, "last write
wins, no torn reads" (`src/metadata_cache.rs:313`, docs/metadata_cache.md:97). But all of
them write to the one `payload.json.tmp` (`src/metadata_cache.rs:328`): the second opens and
truncates it after the first has written it, and the first then renames it, so that
`payload.json` is an empty or a half-written document. `NoTornReads` states the
comment's promise and TLC refutes it, without a crash, a full disk or a clear. A
reader that finds such a file refuses it and analyses again, so it gets no wrong
answer, but it finds no valid entry either; should the other writer be killed at that
point, the file stays until the next run replaces it. The URL and OCI caches share a temporary name in the same way. `ReplacedWhole` excepts
this case and says what is left: complete again once the writers are done.

*Verdict.* A cascade takes its axes from the first finding about its root, which
may be the one about its comment, and a resized BytesN is not a layout break for
the classification: either can leave the storage axis passed while stored data
is not readable (`StoredDataSafe`, `src/report.rs:1692`, `src/diff.rs:517`).
Coverage through cascades is inherited in one pass over totals taken before it
(`InheritsWhenRootCovered`, `src/contract_migration.rs:600` against `:594`). The
axis of a call follows other rules than docs/compatibility_rules_reference.md:50
says (`src/report.rs:1796`). A changed map key or value of a
stored struct is put on the call axis only; a resized BytesN parameter on the
storage axis; `Finding.change` is never set, so a claim pinned to a change is
always stale. A failed sample makes the upgrade unsafe (`src/main.rs:6121`),
while the appended field behind it is only a warning for storage; a failing
sampler degrades to an empty sample. Error enums are unknown to the validator,
and values in an instance's storage are not searched (`src/empirical.rs:505` against docs/empirical_validation_architecture.md:42).

*Lineage.* Two runs that record at the same time lose one of the two versions: the
store is read and saved without a lock (`src/lineage.rs:179`). No text promises
otherwise, and no property here catches it; a version lost in this way is
checked no more. A version counts differently in the report and in the ledger
(`CountsTheSame`, `src/report.rs:941` and `src/lineage.rs:425` against
docs/lineage-walkthrough.md:122). Live versions are compared with an empty
runtime surface, so the candidate's own memory is told to be added, and can fail
a gated or strict axis. `run_watch_mode` names its parameter `_args` and uses
`args` (`src/main.rs:5460`, `:5488`), so with the `watch` feature it does not
compile as it stands; `PairRuns` reads both as one.

*Batch, configuration.* A config that is searched for is found after, not before,
the default (`SearchedLast`, `src/main.rs:6697` against `:179–182`). An expired
suppression is only refused by `--validate-config` (`ExpiredRefused`,
`src/suppression.rs:476–503` against docs/documentation.md:1478). Of a file that
two include, which includer's settings win is a matter of order (`IncluderWins`). A rule with a
category and another category's `rule_id` clears both and owes the reason of
one. `FileConfig` accepts `build_manifest`, which the schema refuses, so it can
never be set from a file; the schema accepts four keys that `FileConfig`
refuses; any text that contains `[defaults]` is taken for a manifest; a `.json`
config passes the schema and is loaded as TOML only. The library drops an
invalid set of complexity budgets silently, and the command line passes no
complexity budget at all, so `[[complexity_budget]]` never applies to its runs
(docs/wasm_complexity.md:79). There is no `--profile` although
`src/profile.rs:40` names it. Settings of the RPC client are parsed and not used
(`retry_attempts`, `backoff_bounds`, `endpoints`, `request_timeout`).

*Inputs.* `reject_symlinks` is said to refuse a path that resolves through a link
(`src/loader.rs:413`), but only the last component is looked at. The origin of a
cached download is unknown when its sidecar is missing, where the OCI cache
takes that for a miss (`OriginKnown`, `src/remote.rs:525` against `:364`). Real
`contractmetav0` sections are XDR, while `parse_metadata_section` reads
length-prefixed pairs (`src/loader.rs:116`), so real builds tell nothing.
`src/remote.rs:193` says that unknown keys of a build manifest are rejected, and
they are not. Of the three readers of a build manifest, one sorts the features
before comparing and two do not. `read_artifact_bytes` uses built-in settings,
whatever the flags. Live storage is not cross-checked with the build's own
ledger as docs/empirical_validation.md:131 says (`CrossChecked`,
`src/main.rs:6013`).

*Dependencies and graph.* A contract on a cycle through a node that was already left is in no reported cycle
(`EveryMemberTold`, `src/dependency.rs:188` against `:154`). `build_call_graph`
overwrites an earlier dependency between the same two contracts, where
`DependencyGraph` merges (`src/impact_graph.rs:652` against
`src/dependency.rs:100`). A function and a type of one name share an identity.

*Evidence.* All signatures of a policy bundle must verify, where
docs/policy-bundles.md asks for one; `require_reason` of a bundle is merged after
the local config was checked (`src/main.rs:4848`). `attest` reads its files
again and does not check that the report is about them. A bundle whose source is
its own destination is emptied and reported as created.

*Reading and reports.* An environment section without entries is read by the
decoder for contracts without such a section (`src/parser.rs:46` against
`src/decoder_registry.rs:86`). `skipped_bytes` is said to be how many bytes were
not decoded (`src/decoder_registry.rs:276`) and is an upper bound on it, computed
from the number of entries although `decode_partial_forward_compat` knows
(`:652` against `:728`); nothing calls `decode_forward_compat`, and it recovers by the
built-in schema whatever decoder failed. `spec_version_verified` is set for
contracts without a version too. `upgrade-report` says that a current document
is emitted unchanged (`src/main.rs:2834`), and drops the fields it does not know.
`--show-config` names the environment for a cache directory when the variable is
set and blank, where the default is used (`src/main.rs:6471` against
`src/remote.rs:316`); a value on the command line that equals the default is told
as the default, and the colour mode always as `cli or default`. The oracle of the minimizer takes
its limits from the policy and never answers `Panic` (`src/fuzz_minimize.rs:362`).

*Surface and storage.* A changed origin of a table or global at the same position
is not compared; unresolved signatures never are; "Environment" findings never
gate. Bodies are labelled by their length instead of the exported name, and real
Soroban imports have short wire names that `classify_host_call` does not know,
so Recipe 1 of docs/storage-schema-cookbook.md cannot happen. Of namesakes in a
schema only the first is compared (`src/storage_schema.rs:173` against `:25`).

## 7. Not modelled

- *Text and layout*: rendering, message wording, remediation, the report schema,
  JSON projections, SARIF and DOT output, logging, metrics, colours.
- *Binary and text formats*: XDR, WASM, TOML, JSON, DSSE encodings, archives. A
  document that parses is a record; one that does not is a value of its own. A
  module that parses is its payloads, and an entry its name and its form.
- *Sockets*: timeouts, headers, certificates. A reply is what the models of
  `RpcFetch` and `Inputs` say it may be.
- *Code that is in no build*: `src/witness.rs` and `src/symbol_provenance.rs`, which
  neither `src/lib.rs` nor `src/main.rs` declares.
- *Helpers of the command line*: argument parsing, output routing, `init`,
  `doctor`, preflight; the oracle adapter; how the minimizer's oracle classifies
  an error.

Limits of the models:

- Fingerprint-pinned rules, claims pinned to a change, and the diagnostics of the
  migration audit are left out.
- Two members of one type with one name, and, in the comparison, two types of one
  name and different kinds, which the compiler rejects. (Duplicates *are* modelled
  where the code handles them: `Interfaces`.)
- A type expression nests no deeper than `MaxXdrDepth`, four in `commands`, where the
  decoder's own limit on depth stops.
- SHA-256 is injective, and a signature verifies under the key that made it only.
- In the watch loop, the operating system's event coalescing beyond the debounce
  window, and renames seen as two events. In `SharedFiles`, write-back caches: a
  process may crash, the machine does not.
- `Commands` composes its parts by choosing a request for each; that one part
  hands its answer to the next is in `Sections`, `Verdict`, `PairRuns` and
  `BatchRun`, not there.

## 8. What is left

In the order of what it would add:

1. `SharedFiles` with a machine that crashes, where the missing `fsync` of some
   protocols would matter.
2. The pinned change of a migration claim and the fingerprint of a suppression,
   once the code sets them.
