----------------------------- MODULE BatchWatch -----------------------------
(***************************************************************************)
(* The incremental batch watch loop (src/src/watch.rs, with build_batch    *)
(* and scan_directories of src/src/main.rs): a plan derived from a         *)
(* manifest or from two directories, a cache of per-contract results, a    *)
(* cache of pair fingerprints, the channel the file-watcher thread fills,  *)
(* and the status file a supervisor polls.                                 *)
(*                                                                         *)
(* File contents are version numbers (0: the file is missing).  The files  *)
(* are the old and the new build of every contract name and one run-level  *)
(* input wired to every pair (--empirical-file).                           *)
(***************************************************************************)
EXTENDS Integers, Sequences, FiniteSets

CONSTANTS
  Names,             \* contract names; numbers, as the code orders them
  MaxVersion,        \* bound: file contents are 1..MaxVersion, 0 is missing
  Modes,             \* modes explored: TRUE --manifest, FALSE --old-dir / --new-dir
  Settings,          \* what pair_fingerprint hashes: paths, config, strict, ...
  Policies,          \* the [policy] overrides of a pair, not hashed
  Faults,            \* environment faults enabled (see FaultKinds)
  MaxEdits,          \* bound on the number of edits of files
  Compare(_, _, _, _)\* verdict of the engine on (old, new, empirical, pair)

FaultKinds ==
  { "render",        \* writing a report to an output fails
    "watch",         \* watcher.watch(dir) fails
    "early",         \* files are edited before the watcher is registered
    "broken",        \* the manifest is saved in a state that does not resolve
    "noise" }        \* unrelated files in a watched directory are written

ASSUME ConstAssumption ==
  /\ Names \subseteq Nat
  /\ MaxVersion \in Nat \ {0}
  /\ MaxEdits \in Nat
  /\ Modes \subseteq BOOLEAN
  /\ Faults \subseteq FaultKinds
  /\ Settings # {} /\ "none" \notin Settings
  /\ Policies # {}
  /\ \A v, w, e \in 0..MaxVersion, d \in [kind : {"pair"}, setting : Settings, policy : Policies] :
        Compare(v, w, e, d) \in BOOLEAN

VARIABLES
  fs,           \* version of every file
  manifest,     \* is there one (args.manifest), does it parse, its pairs
  edits,        \* number of edits so far
  chan,         \* events the watcher thread has sent and the loop not received
  watched,      \* directories the operating system really watches
  registered,   \* current_dirs: the directories the loop believes are watched
  sigterm,      \* WATCH_SIGTERM_RECEIVED
  pc,           \* where the loop is
  booting,      \* the initial cycle, before the watcher exists
  batch,        \* paths of the current debounce window
  plan,         \* BatchPlan: what each name is
  results,      \* ResultsCache
  fingerprints, \* settings each pair was last computed under
  todoGaps,     \* gaps run_cycle has still to process
  todoPairs,    \* pairs run_cycle has still to process
  reading,      \* the old build read for the pair in hand
  cycle,        \* cycle counter
  status        \* the status file

world == <<fs, manifest, edits>>
watcher == <<chan, watched, registered>>
caches == <<results, fingerprints>>
work == <<todoGaps, todoPairs, reading>>
vars == <<fs, manifest, edits, chan, watched, registered, sigterm, pc, booting,
          batch, plan, results, fingerprints, todoGaps, todoPairs, reading,
          cycle, status>>

-----------------------------------------------------------------------------
(* Paths, plans and results.                                               *)

Version == 0..MaxVersion

OldPath(n) == <<"old", n>>
NewPath(n) == <<"new", n>>
EmpiricalPath == <<"empirical", 0>>
ManifestPath == <<"manifest", 0>>
NoisePath == <<"noise", 0>>

Inputs == {OldPath(n) : n \in Names} \cup {NewPath(n) : n \in Names} \cup {EmpiricalPath}
Path == Inputs \cup {ManifestPath, NoisePath}

Pair == [kind : {"pair"}, setting : Settings, policy : Policies]
Gap == [kind |-> "gap"]
Absent == [kind |-> "absent"]
Slot == Pair \cup {Gap, Absent}
Plan == [Names -> Slot]

NoResult == [kind |-> "none"]
GapResult == [kind |-> "gap"]
PairResult == [kind : {"pair"}, old : Version, new : Version, emp : Version, def : Pair]
Result == PairResult \cup {GapResult, NoResult}

PairsOf(p) == {n \in Names : p[n].kind = "pair"}
GapsOf(p) == {n \in Names : p[n].kind = "gap"}
LiveNames(p) == PairsOf(p) \cup GapsOf(p)

\* BatchResult::report().is_safe(): an unreadable build is an error report, a
\* gap a critical finding; neither is safe.
IsSafe(r) ==
  /\ r.kind = "pair"
  /\ r.old # 0 /\ r.new # 0
  /\ Compare(r.old, r.new, r.emp, r.def)

Manifest ==
  [given : BOOLEAN, ok : BOOLEAN, pairs : [Names -> Pair \cup {Absent}]]

ManifestMode == manifest.given

-----------------------------------------------------------------------------
(* build_batch: the plan the files describe now.                           *)

\* Directory mode runs every pair under the command line's settings.
CliPair == CHOOSE p \in Pair : TRUE

ScanDirectories ==
  [n \in Names |->
     IF fs[OldPath(n)] = 0 THEN Absent
     ELSE IF fs[NewPath(n)] = 0 THEN Gap ELSE CliPair]

BuildBatch == IF ManifestMode THEN manifest.pairs ELSE ScanDirectories

\* A manifest that does not parse or declares no pair; two directories
\* without an old build.
BuildFails ==
  \/ ManifestMode /\ ~manifest.ok
  \/ LiveNames(BuildBatch) = {}

Resolves(m) == m.ok /\ PairsOf(m.pairs) # {}

-----------------------------------------------------------------------------
(* The dependency map and the event mapping.                               *)

\* Mutant: the run-level input is not wired to the pairs.
DependencyMapNoEmpirical(p, path) ==
  {n \in PairsOf(p) : path \in {OldPath(n), NewPath(n)}}

DependencyMap(p, path) ==
  {n \in PairsOf(p) : path \in {OldPath(n), NewPath(n), EmpiricalPath}}

IsWasm(path) == path[1] \in {"old", "new"}

\* Every contract named by a manifest has a directory of its own; directory
\* mode has its two roots (tag 0 stands for both).  The manifest and the empirical
\* file have the tag 0 too; the empirical file is not inside a scanned root.
DirOf(path) == IF ManifestMode /\ IsWasm(path) THEN path[2] + 1 ELSE 0
WatchDirs(p) == {0} \cup (IF ManifestMode THEN {n + 1 : n \in PairsOf(p)} ELSE {})

AffectedNames(paths) == UNION {DependencyMap(plan, path) : path \in paths}
ManifestChanged(paths) == ManifestMode /\ ManifestPath \in paths
Rescan(paths) == ~ManifestMode /\ \E path \in paths : IsWasm(path)
Structural(paths) == ManifestChanged(paths) \/ Rescan(paths)
AffectedIsEmpty(paths) == AffectedNames(paths) = {} /\ ~Structural(paths)

PairFingerprint(def) == def.setting

ImpactedPairs(p, paths) ==
  {n \in PairsOf(p) : \/ fingerprints[n] # PairFingerprint(p[n])
                      \/ n \in AffectedNames(paths)}

-----------------------------------------------------------------------------
Status == [state : {"none", "running", "completed", "error", "shutting_down"},
           cycle : Nat, safe : {"null", "safe", "unsafe"}]

Starting(c) == [state |-> "running", cycle |-> c, safe |-> "null"]
Completed(c, safe) ==
  [state |-> "completed", cycle |-> c, safe |-> IF safe THEN "safe" ELSE "unsafe"]
Failed(c) == [state |-> "error", cycle |-> c, safe |-> "null"]
\* Mutant: a state the status schema does not have.
ShutdownOffSchema(c) == [state |-> "stopped", cycle |-> c, safe |-> "null"]
Shutdown(c) == [state |-> "shutting_down", cycle |-> c, safe |-> "null"]

\* is_safe of the aggregate: every cached report is safe.
OverallSafe == \A n \in Names : results[n].kind # "none" => IsSafe(results[n])

NoRead == [name |-> -1, old |-> 0]

Init ==
  /\ fs \in [Inputs -> Version]
  /\ fs[EmpiricalPath] # 0
  /\ manifest \in Manifest
  /\ manifest.ok
  /\ manifest.given \in Modes
  /\ ~ManifestMode => manifest.pairs = [n \in Names |-> Absent]
  /\ edits = 0
  /\ chan = <<>>
  /\ watched = {}
  /\ registered = {}
  /\ sigterm = FALSE
  /\ pc = "boot"
  /\ booting = TRUE
  /\ batch = {}
  /\ plan = [n \in Names |-> Absent]
  /\ results = [n \in Names |-> NoResult]
  /\ fingerprints = [n \in Names |-> "none"]
  /\ todoGaps = {}
  /\ todoPairs = {}
  /\ reading = NoRead
  /\ cycle = 1
  /\ status = [state |-> "none", cycle |-> 0, safe |-> "null"]

-----------------------------------------------------------------------------
(* The environment: edits, the watcher thread, signals.                    *)

Loop == <<sigterm, pc, booting, batch, plan, caches, work, cycle, status>>

\* The watcher thread sends an event for a change in a watched directory.
Notify(path) ==
  chan' = IF DirOf(path) \in watched THEN Append(chan, path) ELSE chan

MayEdit ==
  /\ edits < MaxEdits
  /\ pc \notin {"stopped", "failed"}
  /\ ~booting \/ "early" \in Faults

EditFile(path, v) ==
  /\ MayEdit
  /\ fs[path] # v
  /\ path = EmpiricalPath => v # 0
  /\ fs' = [fs EXCEPT ![path] = v]
  /\ edits' = edits + 1
  /\ Notify(path)
  /\ UNCHANGED <<manifest, watched, registered, Loop>>

EditManifest(m) ==
  /\ MayEdit
  /\ ManifestMode /\ m.given
  /\ m # manifest
  /\ ~Resolves(m) => "broken" \in Faults
  /\ ~m.ok => m.pairs = manifest.pairs
  /\ manifest' = m
  /\ edits' = edits + 1
  /\ Notify(ManifestPath)
  /\ UNCHANGED <<fs, watched, registered, Loop>>

\* A file nobody reads, next to the inputs: the queue holds at most one such
\* event, so that the channel stays bounded.
Noise ==
  /\ "noise" \in Faults
  /\ pc \notin {"stopped", "failed"}
  /\ \A i \in DOMAIN chan : chan[i] # NoisePath
  /\ 0 \in watched
  /\ Notify(NoisePath)
  /\ UNCHANGED <<world, watched, registered, Loop>>

HandleWatchSigterm ==
  /\ ~sigterm
  /\ pc \notin {"stopped", "failed"}
  /\ sigterm' = TRUE
  /\ UNCHANGED <<world, watcher, pc, booting, batch, plan, caches, work, cycle, status>>

-----------------------------------------------------------------------------
(* The loop.                                                               *)

\* The first build_batch; an error ends the process.
Boot ==
  /\ pc = "boot"
  /\ IF BuildFails
     THEN /\ pc' = "failed"
          /\ UNCHANGED <<plan, todoGaps, todoPairs>>
     ELSE /\ plan' = BuildBatch
          /\ todoGaps' = GapsOf(BuildBatch)
          /\ todoPairs' = PairsOf(BuildBatch)
          /\ pc' = "cycle"
  /\ UNCHANGED <<world, watcher, sigterm, booting, batch, caches, reading, cycle, status>>

\* An error inside run_cycle or render_summary: `?` ends the process during
\* the first cycle, later the cycle is reported as failed and the loop goes on.
CycleFails ==
  /\ todoGaps' = {}
  /\ todoPairs' = {}
  /\ reading' = NoRead
  /\ IF booting
     THEN pc' = "failed" /\ UNCHANGED status
     ELSE pc' = "idle" /\ status' = Failed(cycle)

RunCycleGap(g) ==
  /\ pc = "cycle"
  /\ g \in todoGaps
  /\ \/ /\ results' = [results EXCEPT ![g] = GapResult]
        /\ todoGaps' = todoGaps \ {g}
        /\ UNCHANGED <<todoPairs, reading, pc, status>>
     \/ /\ "render" \in Faults
        /\ CycleFails
        /\ UNCHANGED results
  /\ UNCHANGED <<world, watcher, sigterm, booting, batch, plan, fingerprints, cycle>>

\* The pair in hand is the first of the remaining ones in name order; its old
\* build is read first.
ReadOldBuild ==
  /\ pc = "cycle"
  /\ todoGaps = {}
  /\ reading = NoRead
  /\ \E n \in todoPairs :
       /\ \A m \in todoPairs : n <= m
       /\ reading' = [name |-> n, old |-> fs[OldPath(n)]]
  /\ UNCHANGED <<world, watcher, sigterm, pc, booting, batch, plan, caches,
                 todoGaps, todoPairs, cycle, status>>

\* Mutant: the fingerprint is stored before the report is written.
ComparePairEarlyFingerprint ==
  /\ pc = "cycle"
  /\ reading # NoRead
  /\ LET n == reading.name
     IN  /\ fingerprints' = [fingerprints EXCEPT ![n] = PairFingerprint(plan[n])]
         /\ \/ /\ results' = [results EXCEPT ![n] =
                      [kind |-> "pair", old |-> reading.old, new |-> fs[NewPath(n)],
                       emp |-> fs[EmpiricalPath], def |-> plan[n]]]
               /\ todoPairs' = todoPairs \ {n}
               /\ reading' = NoRead
               /\ UNCHANGED <<todoGaps, pc, status>>
            \/ "render" \in Faults /\ CycleFails /\ UNCHANGED results
  /\ UNCHANGED <<world, watcher, sigterm, booting, batch, plan, cycle>>

\* The rest of compare_batch_pair, then render_pair_outputs: a report that
\* cannot be written abandons the cycle before the result is cached.
ComparePair ==
  /\ pc = "cycle"
  /\ reading # NoRead
  /\ \/ LET n == reading.name
        IN  /\ results' = [results EXCEPT ![n] =
                 [kind |-> "pair", old |-> reading.old, new |-> fs[NewPath(n)],
                  emp |-> fs[EmpiricalPath], def |-> plan[n]]]
            /\ fingerprints' = [fingerprints EXCEPT ![n] = PairFingerprint(plan[n])]
            /\ todoPairs' = todoPairs \ {n}
            /\ reading' = NoRead
            /\ UNCHANGED <<todoGaps, pc, status>>
     \/ /\ "render" \in Faults
        /\ CycleFails
        /\ UNCHANGED caches
  /\ UNCHANGED <<world, watcher, sigterm, booting, batch, plan, cycle>>

\* render_summary and the status write.
RenderSummary ==
  /\ pc = "cycle"
  /\ todoGaps = {} /\ todoPairs = {} /\ reading = NoRead
  /\ \/ /\ status' = Completed(cycle, OverallSafe)
        /\ pc' = IF booting THEN "register" ELSE "idle"
        /\ UNCHANGED work
     \/ "render" \in Faults /\ CycleFails
  /\ UNCHANGED <<world, watcher, sigterm, booting, batch, plan, caches, cycle>>

\* reconcile_watcher: watch() may fail with a warning, and the directory is
\* pushed onto current_dirs all the same.
ReconcileWatcher(p) ==
  LET wanted == WatchDirs(p)
      added == wanted \ registered
  IN  /\ registered' = wanted
      /\ \E failing \in IF "watch" \in Faults THEN SUBSET (added \ {0}) ELSE {{}} :
            watched' = (watched \cap wanted) \cup (added \ failing)

RegisterWatcher ==
  /\ pc = "register"
  /\ ReconcileWatcher(plan)
  /\ booting' = FALSE
  /\ pc' = "idle"
  /\ UNCHANGED <<world, chan, sigterm, batch, plan, caches, work, cycle, status>>

\* The shutdown test at the head of the loop and after the drain.
Stop ==
  /\ pc' = "stopped"
  /\ status' = Shutdown(cycle)
  /\ batch' = {}
  /\ UNCHANGED <<world, watcher, sigterm, booting, plan, caches, work, cycle>>

StopIdle == pc = "idle" /\ sigterm /\ Stop

\* recv_timeout returned the first event of a window.
Receive ==
  /\ pc = "idle"
  /\ ~sigterm
  /\ chan # <<>>
  /\ batch' = {Head(chan)}
  /\ chan' = Tail(chan)
  /\ pc' = "drain"
  /\ UNCHANGED <<world, watched, registered, sigterm, booting, plan, caches, work,
                 cycle, status>>

\* Mutant: the events after the first one are thrown away.
DrainEventLost ==
  /\ pc = "drain"
  /\ chan # <<>>
  /\ chan' = Tail(chan)
  /\ pc' = IF sigterm THEN "drained" ELSE "drain"
  /\ UNCHANGED <<world, watched, registered, sigterm, booting, batch, plan, caches,
                 work, cycle, status>>

\* Mutant: the drain does not look at the shutdown flag.
DrainEventDeaf ==
  /\ pc = "drain"
  /\ chan # <<>>
  /\ batch' = batch \cup {Head(chan)}
  /\ chan' = Tail(chan)
  /\ UNCHANGED <<world, watched, registered, sigterm, pc, booting, plan, caches, work,
                 cycle, status>>

\* drain_events: every event restarts the debounce timer ...
DrainEvent ==
  /\ pc = "drain"
  /\ chan # <<>>
  /\ batch' = batch \cup {Head(chan)}
  /\ chan' = Tail(chan)
  /\ pc' = IF sigterm THEN "drained" ELSE "drain"
  /\ UNCHANGED <<world, watched, registered, sigterm, booting, plan, caches, work,
                 cycle, status>>

\* Mutant: recv in place of recv_timeout, the window only ends on shutdown.
DrainTimeoutNever ==
  /\ pc = "drain"
  /\ chan = <<>>
  /\ sigterm
  /\ pc' = "drained"
  /\ UNCHANGED <<world, watcher, sigterm, booting, batch, plan, caches, work, cycle, status>>

\* ... and silence for debounce_ms ends the window.
DrainTimeout ==
  /\ pc = "drain"
  /\ chan = <<>>
  /\ pc' = "drained"
  /\ UNCHANGED <<world, watcher, sigterm, booting, batch, plan, caches, work, cycle, status>>

StopDrained == pc = "drained" /\ sigterm /\ Stop

\* Nothing mapped, or a plan that does not resolve: the window is dropped.
DropWindow ==
  /\ pc = "drained"
  /\ ~sigterm
  /\ AffectedIsEmpty(batch) \/ (Structural(batch) /\ BuildFails)
  /\ pc' = "idle"
  /\ batch' = {}
  /\ UNCHANGED <<world, watcher, sigterm, booting, plan, caches, work, cycle, status>>

\* What BeginCycle does once it is decided which results and fingerprints are
\* kept and which gaps are redone.
BeginCycleWith(p, keptResults, keptPrints, gaps) ==
  LET impacted == ImpactedPairs(p, batch)
  IN  /\ cycle' = cycle + 1
      /\ status' = Starting(cycle')
      /\ plan' = p
      /\ results' = [n \in Names |-> IF n \in keptResults THEN results[n] ELSE NoResult]
      /\ fingerprints' =
           [n \in Names |-> IF n \in keptPrints THEN fingerprints[n] ELSE "none"]
      /\ todoPairs' = IF impacted = {} THEN PairsOf(p) ELSE impacted
      /\ todoGaps' = gaps
      /\ pc' = "cycle"
      /\ batch' = {}

Kept(p) == {n \in Names : n \in LiveNames(p) \/ results[n].kind = "none"}
GapsToRedo(p) == {g \in GapsOf(p) : Structural(batch) \/ results[g].kind = "none"}

\* Mutant: a gap without a result waits for the next re-plan.
BeginCycleSkipGaps(p) ==
  BeginCycleWith(p, Kept(p), Kept(p), {g \in GapsOf(p) : Structural(batch)})

\* Re-plan when the window is structural, drop the results of names that are
\* gone, choose the pairs to recompute (none chosen means all of them) and the
\* gaps (all of them after a re-plan, otherwise those without a result).
BeginCycle(p) == BeginCycleWith(p, Kept(p), Kept(p), GapsToRedo(p))

StartCycle ==
  /\ pc = "drained"
  /\ ~sigterm
  /\ ~AffectedIsEmpty(batch)
  /\ IF Structural(batch)
     THEN ~BuildFails /\ BeginCycle(BuildBatch) /\ ReconcileWatcher(BuildBatch)
     ELSE BeginCycle(plan) /\ UNCHANGED <<watched, registered>>
  /\ UNCHANGED <<world, chan, sigterm, booting, reading>>

LoopStep ==
  \/ Boot
  \/ \E g \in Names : RunCycleGap(g)
  \/ ReadOldBuild
  \/ ComparePair
  \/ RenderSummary
  \/ RegisterWatcher
  \/ StopIdle
  \/ Receive
  \/ DrainEvent
  \/ DrainTimeout
  \/ StopDrained
  \/ DropWindow
  \/ StartCycle

Environment ==
  \/ \E path \in Inputs, v \in Version : EditFile(path, v)
  \/ \E m \in Manifest : EditManifest(m)
  \/ Noise
  \/ HandleWatchSigterm

Next == LoopStep \/ Environment

Spec == Init /\ [][Next]_vars

\* The loop thread is scheduled; nothing forces an edit, noise or a signal.
FairSpec == Spec /\ WF_vars(LoopStep)
-----------------------------------------------------------------------------
(* Properties.                                                             *)

TypeOK ==
  /\ fs \in [Inputs -> Version]
  /\ manifest \in Manifest
  /\ edits \in 0..MaxEdits
  /\ chan \in Seq(Path)
  /\ watched \subseteq Nat
  /\ registered \subseteq Nat
  /\ sigterm \in BOOLEAN
  /\ pc \in {"boot", "cycle", "register", "idle", "drain", "drained", "stopped", "failed"}
  /\ booting \in BOOLEAN
  /\ batch \subseteq Path
  /\ plan \in Plan
  /\ results \in [Names -> Result]
  /\ fingerprints \in [Names -> Settings \cup {"none"}]
  /\ todoGaps \subseteq Names
  /\ todoPairs \subseteq Names
  /\ reading \in [name : Names \cup {-1}, old : Version]
  /\ cycle \in Nat
  /\ status \in Status

\* What a from-scratch run over the files as they are now would report.
Truth ==
  [n \in Names |->
     CASE BuildBatch[n].kind = "pair" ->
            [kind |-> "pair", old |-> fs[OldPath(n)], new |-> fs[NewPath(n)],
             emp |-> fs[EmpiricalPath], def |-> BuildBatch[n]]
       [] BuildBatch[n].kind = "gap" -> GapResult
       [] OTHER -> NoResult]

\* Every event has been handled and a verdict is published; a composition that
\* does not resolve right now is exempt (the last known results are retained).
Settled ==
  /\ pc = "idle"
  /\ chan = <<>>
  /\ status.state = "completed"
  /\ ~BuildFails

\* Once every event is handled, the cache holds exactly what a from-scratch
\* run would report: no edit, in whatever window it arrived, is left behind (the
\* incremental loop of run_batch_watch against a full run_batch).  The only
\* exception, in directory mode, is a gap that RestoredGapHeals is about.
Fresh ==
  Settled => \A n \in Names :
    \/ results[n] = Truth[n]
    \/ ~ManifestMode /\ results[n] = GapResult /\ Truth[n].kind = "pair"

\* A settled "safe" in the status file is never published over a contract that
\* is unsafe now (the verdict a supervisor acts on, run_batch_watch's
\* status.completed).
NoFalseSafe ==
  Settled /\ status.safe = "safe" =>
    \A n \in Names : Truth[n].kind # "none" => IsSafe(Truth[n])

\* A completed cycle reports every pair and gap of its plan and nothing else,
\* whatever cycle failed before it (impacted_pairs drops the names that are
\* gone, run_cycle adds the missing ones).
CoversPlan ==
  pc = "idle" /\ status.state = "completed" =>
    \A n \in Names : results[n].kind # "none" <=> n \in LiveNames(plan)

\* The two caches never drift apart: a compared result was computed under the
\* settings whose fingerprint is stored, and a fingerprint has a result
\* (run_cycle writes one after the other, impacted_pairs drops both).
CachesCoherent ==
  \A n \in Names :
    /\ results[n].kind = "pair" => fingerprints[n] = PairFingerprint(results[n].def)
    /\ results[n].kind = "none" => fingerprints[n] = "none"

\* README.md: "a removed artifact becomes a Critical gap, a restored one heals".
RestoredGapHeals ==
  Settled => \A n \in PairsOf(BuildBatch) : results[n].kind # "gap"

\* README.md: "A manifest edit ... re-analyzes only the pairs whose identity or
\* settings changed": settled results carry the settings the manifest gives.
SettingsReanalyzed ==
  Settled => \A n \in PairsOf(BuildBatch) :
               results[n].kind = "pair" => results[n].def = BuildBatch[n]

\* README.md: "A WASM/schema/config change re-analyzes exactly the pairs that
\* read it": a settled result was computed from the files as they are.
InputsReanalyzed ==
  Settled => \A n \in PairsOf(BuildBatch) :
               results[n].kind = "pair" =>
                 /\ results[n].old = fs[OldPath(n)]
                 /\ results[n].new = fs[NewPath(n)]
                 /\ results[n].emp = fs[EmpiricalPath]

\* A SIGTERM ends the process at the next safe point, even while events keep
\* arriving (watch_shutdown_requested in the loop and in drain_events).
ShutdownAnswered == sigterm ~> pc \in {"stopped", "failed"}

\* Events of files nobody reads are waiting in the channel.
NoiseQueued == \E i \in DOMAIN chan : chan[i] = NoisePath

\* Unless unrelated events keep coming for ever (each restarts the debounce
\* timer of drain_events), an event in the channel is eventually handled and the
\* loop comes to rest: drains end, cycles end, nothing re-triggers itself.
EventsSettle ==
  <>[]~NoiseQueued =>
    ((chan # <<>>) ~> (\/ chan = <<>> /\ pc = "idle"
                       \/ pc \in {"stopped", "failed"}))
=============================================================================
