-------------------------- MODULE BatchWatchProofs --------------------------
(***************************************************************************)
(* Theorems of BatchWatch, for every set of contracts, every engine and    *)
(* every combination of environment faults.                                *)
(***************************************************************************)
EXTENDS BatchWatch, SequenceTheorems, TLAPS

\* The work lists of run_cycle name pairs and gaps of the current plan, and are
\* empty outside a cycle.
WorkInv ==
  /\ todoPairs \subseteq PairsOf(plan)
  /\ todoGaps \subseteq GapsOf(plan)
  /\ reading # NoRead => reading.name \in todoPairs
  /\ pc # "cycle" => todoPairs = {} /\ todoGaps = {} /\ reading = NoRead

\* While a cycle runs, a live name without a result is still on a work list;
\* the published verdict can then only be an earlier one, already replaced.
CoverInv ==
  /\ \A n \in Names : results[n].kind # "none" => n \in LiveNames(plan)
  /\ pc = "cycle" =>
       /\ status.state \in {"none", "running"}
       /\ \A n \in Names : n \in LiveNames(plan) /\ results[n].kind = "none" =>
            n \in todoPairs \cup todoGaps
  /\ status.state = "completed" =>
       \A n \in LiveNames(plan) : results[n].kind # "none"
  /\ pc = "boot" => /\ status.state = "none"
                    /\ \A n \in Names : results[n].kind = "none"

-----------------------------------------------------------------------------
\* The plan build_batch returns has a slot for every name.
LEMMA BuildBatchType ==
  ASSUME TypeOK PROVE BuildBatch \in Plan
<1>1. PICK s \in Settings, q \in Policies : TRUE
  BY ConstAssumption
<1>2. [kind |-> "pair", setting |-> s, policy |-> q] \in Pair
  BY DEF Pair
<1>3. CliPair \in Pair
  BY <1>2 DEF CliPair
<1>4. ScanDirectories \in Plan
  BY <1>3 DEF ScanDirectories, Plan, Slot
<1>5. manifest.pairs \in [Names -> Pair \cup {Absent}]
  BY DEF TypeOK, Manifest
<1>6. manifest.pairs \in Plan
  BY <1>5 DEF Plan, Slot
<1> QED
  BY <1>4, <1>6 DEF BuildBatch

\* A name the plan calls a pair carries the pair's settings.
LEMMA PairSlot ==
  ASSUME NEW p \in Plan, NEW n \in PairsOf(p) PROVE p[n] \in Pair
BY DEF Plan, Slot, PairsOf, Gap, Absent

\* The paths of the files are paths, and different kinds of file are different.
LEMMA InputPaths ==
  ASSUME NEW n \in Names
  PROVE  OldPath(n) \in Inputs /\ NewPath(n) \in Inputs /\ EmpiricalPath \in Inputs
BY DEF Inputs

\* The watcher thread appends at most the path it is told.
LEMMA NotifyType ==
  ASSUME NEW path \in Path, chan \in Seq(Path), Notify(path)
  PROVE  chan' \in Seq(Path)
BY AppendProperties DEF Notify

\* The directories of a plan are natural numbers.
LEMMA WatchDirsType ==
  ASSUME NEW p \in Plan PROVE WatchDirs(p) \subseteq Nat
BY ConstAssumption DEF WatchDirs, PairsOf

LEMMA ReconcileType ==
  ASSUME NEW p \in Plan, watched \subseteq Nat, ReconcileWatcher(p)
  PROVE  watched' \subseteq Nat /\ registered' \subseteq Nat
BY WatchDirsType DEF ReconcileWatcher

\* What the loop writes besides results is always well typed.
LEMMA LoopTypes ==
  ASSUME cycle \in Nat
  PROVE  /\ NoRead \in [name : Names \cup {-1}, old : Version]
         /\ Failed(cycle) \in Status /\ Starting(cycle) \in Status
         /\ Shutdown(cycle) \in Status
         /\ \A safe : Completed(cycle, safe) \in Status
BY ConstAssumption DEF NoRead, Version, Failed, Starting, Shutdown, Completed, Status

-----------------------------------------------------------------------------
\* Every reachable state has its type: in particular run_cycle only ever works
\* on pairs and gaps of the plan it was started with.
THEOREM TypeCorrect == Spec => [](TypeOK /\ WorkInv)
<1>1. Init => TypeOK /\ WorkInv
  <2> SUFFICES ASSUME Init PROVE TypeOK /\ WorkInv
    OBVIOUS
  <2>1. TypeOK
    <3>1. chan \in Seq(Path)
      BY DEF Init
    <3>2. plan \in Plan /\ results \in [Names -> Result]
      BY DEF Init, Plan, Slot, Result
    <3>3. reading \in [name : Names \cup {-1}, old : Version]
      BY ConstAssumption DEF Init, NoRead, Version
    <3>4. status \in Status
      BY DEF Init, Status
    <3>5. edits \in 0..MaxEdits /\ cycle \in Nat
      BY ConstAssumption DEF Init
    <3>6. /\ batch \subseteq Path /\ todoGaps \subseteq Names /\ todoPairs \subseteq Names
          /\ watched \subseteq Nat /\ registered \subseteq Nat
          /\ fingerprints \in [Names -> Settings \cup {"none"}]
          /\ pc = "boot" /\ sigterm \in BOOLEAN /\ booting \in BOOLEAN
          /\ fs \in [Inputs -> Version] /\ manifest \in Manifest
      BY DEF Init
    <3> QED
      BY <3>1, <3>2, <3>3, <3>4, <3>5, <3>6 DEF TypeOK
  <2>2. WorkInv
    BY DEF Init, WorkInv
  <2> QED
    BY <2>1, <2>2
<1>2. TypeOK /\ WorkInv /\ [Next]_vars => (TypeOK /\ WorkInv)'
  <2> SUFFICES ASSUME TypeOK, WorkInv, [Next]_vars
               PROVE  (TypeOK /\ WorkInv)'
    OBVIOUS
  <2> USE DEF world, watcher, caches, work, Loop
  <2>1. CASE Boot
    <3>1. BuildBatch \in Plan
      BY BuildBatchType
    <3>2. TypeOK'
      BY <2>1, <3>1 DEF Boot, TypeOK, PairsOf, GapsOf
    <3>3. WorkInv'
      BY <2>1 DEF Boot, WorkInv
    <3> QED
      BY <3>2, <3>3
  <2>2. ASSUME NEW g \in Names, RunCycleGap(g) PROVE (TypeOK /\ WorkInv)'
    <3>1. /\ pc' \in {"cycle", "failed", "idle"}
          /\ todoGaps' \subseteq Names /\ todoPairs' \subseteq Names
          /\ reading' \in {reading, NoRead}
          /\ status' \in {status, Failed(cycle)}
      BY <2>2 DEF RunCycleGap, CycleFails, TypeOK
    <3>2. results' \in [Names -> Result]
      BY <2>2 DEF RunCycleGap, TypeOK, Result
    <3>3. TypeOK'
      BY <2>2, <3>1, <3>2, LoopTypes DEF RunCycleGap, TypeOK
    <3>4. WorkInv'
      BY <2>2 DEF RunCycleGap, CycleFails, WorkInv, PairsOf, GapsOf
    <3> QED
      BY <3>3, <3>4
  <2>3. CASE ReadOldBuild
    <3>1. PICK n \in todoPairs : reading' = [name |-> n, old |-> fs[OldPath(n)]]
      BY <2>3 DEF ReadOldBuild
    <3>2. n \in Names
      BY DEF WorkInv, PairsOf
    <3>3. fs[OldPath(n)] \in Version
      BY <3>2, InputPaths DEF TypeOK
    <3>4. TypeOK'
      BY <2>3, <3>1, <3>2, <3>3 DEF ReadOldBuild, TypeOK
    <3>5. WorkInv'
      BY <2>3, <3>1 DEF ReadOldBuild, WorkInv, PairsOf, GapsOf
    <3> QED
      BY <3>4, <3>5
  <2>4. CASE ComparePair
    <3>1. /\ reading.name \in todoPairs /\ reading.name \in PairsOf(plan)
          /\ reading.name \in Names
      BY <2>4 DEF ComparePair, WorkInv, PairsOf
    <3>2. plan[reading.name] \in Pair
      BY <3>1, PairSlot DEF TypeOK
    <3>3. [kind |-> "pair", old |-> reading.old, new |-> fs[NewPath(reading.name)],
           emp |-> fs[EmpiricalPath], def |-> plan[reading.name]] \in Result
      BY <3>1, <3>2, InputPaths DEF TypeOK, Result, PairResult
    <3>4. PairFingerprint(plan[reading.name]) \in Settings
      BY <3>2 DEF PairFingerprint, Pair
    <3>5. /\ pc' \in {"cycle", "failed", "idle"}
          /\ todoGaps' \subseteq Names /\ todoPairs' \subseteq Names
          /\ reading' = NoRead
          /\ status' \in {status, Failed(cycle)}
      BY <2>4 DEF ComparePair, CycleFails, TypeOK
    <3>6. /\ results' \in [Names -> Result]
          /\ fingerprints' \in [Names -> Settings \cup {"none"}]
      BY <2>4, <3>1, <3>3, <3>4 DEF ComparePair, TypeOK
    <3>7. TypeOK'
      BY <2>4, <3>5, <3>6, LoopTypes DEF ComparePair, TypeOK
    <3>8. WorkInv'
      BY <2>4 DEF ComparePair, CycleFails, WorkInv, PairsOf, GapsOf
    <3> QED
      BY <3>7, <3>8
  <2>5. CASE RenderSummary
    <3>1. TypeOK'
      BY <2>5, LoopTypes DEF RenderSummary, CycleFails, TypeOK
    <3>2. WorkInv'
      BY <2>5 DEF RenderSummary, CycleFails, WorkInv
    <3> QED
      BY <3>1, <3>2
  <2>6. CASE RegisterWatcher
    <3>1. watched' \subseteq Nat /\ registered' \subseteq Nat
      BY <2>6, ReconcileType DEF RegisterWatcher, TypeOK
    <3> QED
      BY <2>6, <3>1 DEF RegisterWatcher, TypeOK, WorkInv, PairsOf, GapsOf
  <2>7. CASE StopIdle \/ StopDrained
    <3>1. pc # "cycle" /\ Stop
      BY <2>7 DEF StopIdle, StopDrained
    <3>2. Shutdown(cycle) \in Status
      BY DEF TypeOK, Shutdown, Status
    <3>3. TypeOK'
      BY <3>1, <3>2 DEF Stop, TypeOK
    <3>4. WorkInv'
      BY <3>1 DEF Stop, WorkInv, PairsOf, GapsOf
    <3> QED
      BY <3>3, <3>4
  <2>8. CASE Receive \/ DrainEvent
    <3>1. Head(chan) \in Path /\ Tail(chan) \in Seq(Path)
      BY <2>8, HeadTailProperties DEF Receive, DrainEvent, TypeOK
    <3> QED
      BY <2>8, <3>1 DEF Receive, DrainEvent, TypeOK, WorkInv, PairsOf, GapsOf
  <2>9. CASE DrainTimeout \/ DropWindow
    BY <2>9 DEF DrainTimeout, DropWindow, TypeOK, WorkInv, PairsOf, GapsOf
  <2>10. CASE StartCycle
    <3>1. PICK p \in Plan : BeginCycle(p)
      BY <2>10, BuildBatchType DEF StartCycle, TypeOK
    <3>2. watched' \subseteq Nat /\ registered' \subseteq Nat
      BY <2>10, BuildBatchType, ReconcileType DEF StartCycle, TypeOK
    <3>3. /\ results' \in [Names -> Result]
          /\ fingerprints' \in [Names -> Settings \cup {"none"}]
      BY <3>1 DEF BeginCycle, BeginCycleWith, Kept, GapsToRedo, TypeOK, Result
    <3>4. todoPairs' \subseteq PairsOf(p) /\ todoGaps' \subseteq GapsOf(p)
      BY <3>1 DEF BeginCycle, BeginCycleWith, Kept, GapsToRedo, ImpactedPairs
    <3>5. TypeOK'
      BY <2>10, <3>1, <3>2, <3>3, <3>4
      DEF StartCycle, BeginCycle, BeginCycleWith, Kept, GapsToRedo, TypeOK, Starting, Status, PairsOf, GapsOf
    <3>6. WorkInv'
      BY <2>10, <3>1, <3>4 DEF StartCycle, BeginCycle, BeginCycleWith, Kept, GapsToRedo, WorkInv, PairsOf, GapsOf
    <3> QED
      BY <3>5, <3>6
  <2>11. ASSUME NEW path \in Inputs, NEW v \in Version, EditFile(path, v)
         PROVE  (TypeOK /\ WorkInv)'
    <3>1. chan' \in Seq(Path)
      BY <2>11, NotifyType DEF EditFile, TypeOK, Path
    <3> QED
      BY <2>11, <3>1, ConstAssumption
      DEF EditFile, MayEdit, TypeOK, WorkInv, PairsOf, GapsOf
  <2>12. ASSUME NEW m \in Manifest, EditManifest(m) PROVE (TypeOK /\ WorkInv)'
    <3>1. chan' \in Seq(Path)
      BY <2>12, NotifyType DEF EditManifest, TypeOK, Path
    <3> QED
      BY <2>12, <3>1, ConstAssumption
      DEF EditManifest, MayEdit, TypeOK, WorkInv, PairsOf, GapsOf
  <2>13. CASE Noise
    <3>1. chan' \in Seq(Path)
      BY <2>13, NotifyType DEF Noise, TypeOK, Path
    <3> QED
      BY <2>13, <3>1 DEF Noise, TypeOK, WorkInv, PairsOf, GapsOf
  <2>14. CASE HandleWatchSigterm
    BY <2>14 DEF HandleWatchSigterm, TypeOK, WorkInv, PairsOf, GapsOf
  <2>15. CASE UNCHANGED vars
    BY <2>15 DEF vars, TypeOK, WorkInv, PairsOf, GapsOf
  <2> QED
    BY <2>1, <2>2, <2>3, <2>4, <2>5, <2>6, <2>7, <2>8, <2>9, <2>10, <2>11, <2>12,
       <2>13, <2>14, <2>15 DEF Next, LoopStep, Environment
<1> QED
  BY <1>1, <1>2, PTL DEF Spec

-----------------------------------------------------------------------------
\* The result cache and the fingerprint cache agree in every reachable state:
\* whatever reports fail to be written and whatever cycles are abandoned, a
\* compared result is never stored under another pair's settings and a name
\* without a result has no fingerprint (so it will be recomputed).
THEOREM CachesAgree == Spec => []CachesCoherent
<1>1. Init => CachesCoherent
  BY DEF Init, CachesCoherent, NoResult
<1>2. TypeOK /\ WorkInv /\ CachesCoherent /\ [Next]_vars => CachesCoherent'
  <2> SUFFICES ASSUME TypeOK, WorkInv, CachesCoherent, [Next]_vars
               PROVE  CachesCoherent'
    OBVIOUS
  <2> USE DEF world, watcher, caches, work, Loop
  <2>1. CASE UNCHANGED caches
    BY <2>1 DEF CachesCoherent, PairFingerprint
  <2>2. ASSUME NEW g \in Names, RunCycleGap(g) PROVE CachesCoherent'
    BY <2>2 DEF RunCycleGap, CachesCoherent, PairFingerprint, GapResult, TypeOK
  <2>3. CASE ComparePair
    <3>1. reading.name \in Names
      BY <2>3 DEF ComparePair, WorkInv, PairsOf
    <3> QED
      BY <2>3, <3>1 DEF ComparePair, CachesCoherent, PairFingerprint, TypeOK
  <2>4. CASE StartCycle
    <3>1. PICK p \in Plan : BeginCycle(p)
      BY <2>4, BuildBatchType DEF StartCycle, TypeOK
    <3> QED
      BY <3>1 DEF BeginCycle, BeginCycleWith, Kept, GapsToRedo, CachesCoherent, PairFingerprint, NoResult
  <2>5. CASE Boot \/ ReadOldBuild \/ RenderSummary \/ RegisterWatcher \/ StopIdle
             \/ Receive \/ DrainEvent \/ DrainTimeout \/ StopDrained \/ DropWindow
    BY <2>1, <2>5 DEF Boot, ReadOldBuild, RenderSummary, RegisterWatcher, StopIdle,
       Receive, DrainEvent, DrainTimeout, StopDrained, DropWindow, Stop
  <2>6. CASE Environment
    BY <2>1, <2>6 DEF Environment, EditFile, EditManifest, Noise, HandleWatchSigterm
  <2>7. CASE UNCHANGED vars
    BY <2>1, <2>7 DEF vars
  <2> QED
    BY <2>2, <2>3, <2>4, <2>5, <2>6, <2>7 DEF Next, LoopStep
<1> QED
  BY <1>1, <1>2, TypeCorrect, PTL DEF Spec

\* A live name without a result is on a work list, in every reachable state.
LEMMA CoverKept == Spec => []CoverInv
<1>1. Init => CoverInv
  BY DEF Init, CoverInv, NoResult
<1>2. TypeOK /\ WorkInv /\ CachesCoherent /\ CoverInv /\ [Next]_vars => CoverInv'
  <2> SUFFICES ASSUME TypeOK, WorkInv, CachesCoherent, CoverInv, [Next]_vars
               PROVE  CoverInv'
    OBVIOUS
  <2> USE DEF world, watcher, caches, work, Loop
  <2>1. ASSUME UNCHANGED <<plan, results, todoGaps, todoPairs, status>>,
               pc' # "boot", pc' = "cycle" => pc = "cycle"
        PROVE  CoverInv'
    BY <2>1 DEF CoverInv, LiveNames, PairsOf, GapsOf
  <2>2. CASE Boot
    <3>1. CASE pc' = "failed" /\ UNCHANGED plan
      BY <2>2, <3>1 DEF Boot, CoverInv, LiveNames, PairsOf, GapsOf
    <3>2. CASE pc' = "cycle"
      <4>1. \A n \in Names : results[n].kind = "none"
        BY <2>2 DEF Boot, CoverInv
      <4> QED
        BY <2>2, <3>2, <4>1 DEF Boot, CoverInv, LiveNames, PairsOf, GapsOf
    <3> QED
      BY <2>2, <3>1, <3>2 DEF Boot
  <2>3. ASSUME NEW g \in Names, RunCycleGap(g) PROVE CoverInv'
    BY <2>3 DEF RunCycleGap, CycleFails, Failed, CoverInv, WorkInv, TypeOK,
                LiveNames, PairsOf, GapsOf, GapResult
  <2>4. CASE ComparePair
    <3>1. reading.name \in PairsOf(plan)
      BY <2>4 DEF ComparePair, WorkInv
    <3> QED
      BY <2>4, <3>1 DEF ComparePair, CycleFails, Failed, CoverInv, TypeOK,
                        LiveNames, PairsOf, GapsOf
  <2>5. CASE RenderSummary
    BY <2>5 DEF RenderSummary, CycleFails, Failed, Completed, CoverInv,
                LiveNames, PairsOf, GapsOf
  <2>6. CASE StartCycle
    <3>1. PICK p \in Plan : BeginCycle(p)
      BY <2>6, BuildBatchType DEF StartCycle, TypeOK
    <3>2. ASSUME NEW n \in Names, results'[n].kind # "none" PROVE n \in LiveNames(p)
      BY <3>1, <3>2 DEF BeginCycle, BeginCycleWith, Kept, GapsToRedo, NoResult
    <3>3. ASSUME NEW n \in PairsOf(p), results'[n].kind = "none"
          PROVE  n \in todoPairs'
      <4>1. n \in Names /\ results[n].kind = "none"
        BY <3>1, <3>3 DEF BeginCycle, BeginCycleWith, Kept, GapsToRedo, PairsOf, LiveNames
      <4>2. fingerprints[n] = "none"
        BY <4>1 DEF CachesCoherent
      <4>3. PairFingerprint(p[n]) \in Settings
        BY <3>3, PairSlot DEF PairFingerprint, Pair
      <4>4. n \in ImpactedPairs(p, batch)
        BY <3>3, <4>2, <4>3, ConstAssumption DEF ImpactedPairs
      <4> QED
        BY <3>1, <4>4 DEF BeginCycle, BeginCycleWith, Kept, GapsToRedo
    <3>4. ASSUME NEW n \in GapsOf(p), results'[n].kind = "none" PROVE n \in todoGaps'
      BY <3>1, <3>4 DEF BeginCycle, BeginCycleWith, Kept, GapsToRedo, GapsOf, LiveNames
    <3> QED
      BY <3>1, <3>2, <3>3, <3>4
      DEF BeginCycle, BeginCycleWith, Kept, GapsToRedo, CoverInv, Starting, LiveNames, PairsOf, GapsOf
  <2>7. CASE StopIdle \/ StopDrained
    BY <2>7 DEF StopIdle, StopDrained, Stop, Shutdown, CoverInv, LiveNames, PairsOf, GapsOf
  <2>8. CASE ReadOldBuild \/ RegisterWatcher \/ Receive \/ DrainEvent \/ DrainTimeout
             \/ DropWindow
    BY <2>1, <2>8 DEF ReadOldBuild, RegisterWatcher, Receive, DrainEvent, DrainTimeout,
                      DropWindow
  <2>9. CASE Environment
    BY <2>9 DEF Environment, EditFile, EditManifest, Noise, HandleWatchSigterm,
       CoverInv, LiveNames, PairsOf, GapsOf
  <2>10. CASE UNCHANGED vars
    BY <2>10 DEF vars, CoverInv, LiveNames, PairsOf, GapsOf
  <2> QED
    BY <2>2, <2>3, <2>4, <2>5, <2>6, <2>7, <2>8, <2>9, <2>10 DEF Next, LoopStep
<1> QED
  BY <1>1, <1>2, TypeCorrect, CachesAgree, PTL DEF Spec

\* The aggregate a completed cycle publishes covers the pairs and gaps of its
\* plan exactly: an abandoned cycle never makes a contract drop out of a later
\* verdict, and a contract that is gone never stays in it.
THEOREM PlanCovered == Spec => []CoversPlan
<1>1. CoverInv => CoversPlan
  BY DEF CoverInv, CoversPlan
<1> QED
  BY <1>1, CoverKept, PTL

-----------------------------------------------------------------------------
\* What Fresh rests on beyond the code: every edit can be seen by the watcher,
\* reports can be written, and pairs differ by what their fingerprint hashes.
Clean ==
  /\ Faults \subseteq {"noise"}
  /\ \A p, q \in Policies : p = q

\* An event about the path has been sent and its window is not over.
Pending(path) == path \in batch \/ \E i \in DOMAIN chan : chan[i] = path

PathsOf(n) == {OldPath(n), NewPath(n), EmpiricalPath}
Told(n) == \E path \in PathsOf(n) : Pending(path)

\* An event that makes the loop plan anew.
ReplanPending ==
  IF ManifestMode THEN Pending(ManifestPath)
                  ELSE \E path \in Inputs : IsWasm(path) /\ Pending(path)

Current(n) ==
  results[n] = [kind |-> "pair", old |-> fs[OldPath(n)], new |-> fs[NewPath(n)],
                emp |-> fs[EmpiricalPath], def |-> plan[n]]

Running == pc \notin {"boot", "stopped", "failed"}

\* The loop is out of its first cycle once it waits, and a window is open only
\* while it is drained.
LoopShape ==
  /\ pc \in {"boot", "register"} => booting
  /\ pc \in {"idle", "drain", "drained"} => ~booting
  /\ pc \notin {"drain", "drained"} => batch = {}

\* From then on the inputs of the plan are watched, and nothing else.
WatchesPlan ==
  /\ watched = registered
  /\ registered = IF booting THEN {} ELSE WatchDirs(plan)

\* A manifest in use resolves and knows no gaps.
ManifestUsed ==
  ManifestMode =>
    /\ Running => Resolves(manifest)
    /\ \A n \in Names : results[n].kind # "gap" /\ plan[n].kind # "gap"

\* A plan that is out of date is told so, unless there is nothing to plan.
PlanTold ==
  Running => \/ plan = BuildBatch
             \/ ReplanPending
             \/ ~ManifestMode /\ BuildFails

\* A pair's result is current, or the pair is on the work list, or a change is
\* still to be told. In directory mode a pair may wait for its old build, and a
\* gap that was restored may stay a gap.
PairTold(n) ==
  \/ Current(n)
  \/ n \in todoPairs
  \/ Told(n)
  \/ ~ManifestMode /\ (results[n] = GapResult \/ fs[OldPath(n)] = 0)

ResultsTold ==
  /\ Running => \A n \in PairsOf(plan) : PairTold(n)
  /\ \A n \in GapsOf(plan) : results[n] = GapResult \/ n \in todoGaps
  /\ \A n \in Names : reading.name = n =>
       reading.old = fs[OldPath(n)] \/ Pending(OldPath(n))

\* What the status file says of safety is what the cached results say.
StatusTold == status.state = "completed" /\ status.safe = "safe" => OverallSafe

FreshInv ==
  /\ LoopShape /\ WatchesPlan /\ ManifestUsed
  /\ PlanTold /\ ResultsTold /\ StatusTold

-----------------------------------------------------------------------------
\* Moving an event from the channel into the window keeps it pending.
LEMMA EventMoves ==
  ASSUME chan \in Seq(Path), chan # <<>>, batch' = batch \cup {Head(chan)}, chan' = Tail(chan)
  PROVE  \A path : Pending(path) => Pending(path)'
<1> SUFFICES ASSUME NEW path, Pending(path) PROVE Pending(path)'
  OBVIOUS
<1>1. CASE path \in batch
  BY <1>1 DEF Pending
<1>2. CASE path \notin batch
  <2>1. PICK i \in DOMAIN chan : chan[i] = path
    BY <1>2 DEF Pending
  <2>2. CASE i = 1
    BY <2>1, <2>2 DEF Pending
  <2>3. CASE i # 1
    <3>1. i - 1 \in DOMAIN Tail(chan) /\ Tail(chan)[i - 1] = path
      BY <2>1, <2>3, HeadTailProperties
    <3> QED BY <3>1 DEF Pending
  <2> QED BY <2>2, <2>3
<1> QED BY <1>1, <1>2

\* Sending an event keeps the others, and the event of a watched directory is
\* pending.
LEMMA EventSent ==
  ASSUME NEW p \in Path, chan \in Seq(Path), Notify(p), UNCHANGED batch
  PROVE  /\ \A path : Pending(path) => Pending(path)'
         /\ DirOf(p) \in watched => Pending(p)'
<1>1. CASE DirOf(p) \in watched
  <2>1. chan' = Append(chan, p)
    BY <1>1 DEF Notify
  <2>2. /\ \A i \in DOMAIN chan : i \in DOMAIN chan' /\ chan'[i] = chan[i]
        /\ Len(chan) + 1 \in DOMAIN chan' /\ chan'[Len(chan) + 1] = p
    BY <2>1, AppendProperties
  <2> QED BY <2>2 DEF Pending
<1>2. CASE DirOf(p) \notin watched
  BY <1>2 DEF Notify, Pending
<1> QED BY <1>1, <1>2

\* What is planned from the files alone.
LEMMA SamePlan ==
  ASSUME UNCHANGED <<fs, manifest>>
  PROVE  /\ BuildBatch' = BuildBatch /\ BuildFails' = BuildFails
         /\ ManifestMode' = ManifestMode /\ Resolves(manifest)' = Resolves(manifest)
BY DEF BuildBatch, ScanDirectories, BuildFails, ManifestMode, Resolves, LiveNames, PairsOf, GapsOf

\* A manifest declares pairs only.
LEMMA ManifestPairs ==
  ASSUME TypeOK, NEW n \in Names
  PROVE  manifest.pairs[n].kind \in {"pair", "absent"}
<1>1. manifest.pairs \in [Names -> Pair \cup {Absent}]
  BY DEF TypeOK, Manifest
<1>2. manifest.pairs[n] \in Pair \cup {Absent}
  BY <1>1
<1> QED BY <1>2 DEF Pair, Absent

\* When every directory can be watched, those of the plan are.
LEMMA ReconcileClean ==
  ASSUME Clean, NEW p, ReconcileWatcher(p), watched = registered
  PROVE  watched' = WatchDirs(p) /\ registered' = WatchDirs(p)
<1>1. "watch" \notin Faults
  BY DEF Clean
<1>2. registered' = WatchDirs(p)
  BY DEF ReconcileWatcher
<1>3. PICK failing \in {{}} :
        watched' = (watched \cap WatchDirs(p)) \cup ((WatchDirs(p) \ registered) \ failing)
  BY <1>1 DEF ReconcileWatcher
<1> QED BY <1>2, <1>3

\* Directory mode has settings for its pairs.
LEMMA CliPairType == CliPair \in Pair
<1>1. PICK s \in Settings, q \in Policies : TRUE
  BY ConstAssumption
<1>2. [kind |-> "pair", setting |-> s, policy |-> q] \in Pair
  BY DEF Pair
<1> QED BY <1>2 DEF CliPair

\* A step that leaves files, plan, results and work, and forgets no event.
LEMMA QuietFresh ==
  ASSUME FreshInv,
         UNCHANGED <<fs, manifest, plan, results, todoGaps, todoPairs, reading>>,
         Running' => Running,
         Running' \/ reading # NoRead => \A path : Pending(path) => Pending(path)',
         LoopShape', WatchesPlan', StatusTold'
  PROVE  FreshInv'
<1>1. ManifestUsed'
  BY SamePlan DEF FreshInv, ManifestUsed
<1>2. PlanTold'
  <2>1. CASE Running' /\ ReplanPending
    BY <2>1, SamePlan DEF PlanTold, ReplanPending
  <2>2. CASE ~ReplanPending
    BY <2>2, SamePlan DEF FreshInv, PlanTold
  <2> QED BY <2>1, <2>2 DEF PlanTold
<1>3. ASSUME Running', NEW n \in PairsOf(plan) PROVE PairTold(n)'
  <2>1. PairTold(n)
    BY <1>3 DEF FreshInv, ResultsTold
  <2>2. CASE Told(n)
    BY <1>3, <2>2 DEF PairTold, Told
  <2>3. CASE ~Told(n)
    BY <2>1, <2>3, SamePlan DEF PairTold, Current
  <2> QED BY <2>2, <2>3
<1>4. ResultsTold'
  <2>1. PairsOf(plan)' = PairsOf(plan) /\ GapsOf(plan)' = GapsOf(plan)
    BY DEF PairsOf, GapsOf
  <2>2. \A n \in GapsOf(plan) : results'[n] = GapResult \/ n \in todoGaps'
    BY DEF FreshInv, ResultsTold
  <2>3. ASSUME NEW n \in Names, reading'.name = n
        PROVE  reading'.old = fs'[OldPath(n)] \/ Pending(OldPath(n))'
    <3>1. reading # NoRead
      BY <2>3, ConstAssumption DEF NoRead
    <3> QED BY <2>3, <3>1 DEF FreshInv, ResultsTold
  <2> QED BY <1>3, <2>1, <2>2, <2>3 DEF ResultsTold
<1> QED BY <1>1, <1>2, <1>4 DEF FreshInv

LEMMA FreshInit == Clean /\ Init => FreshInv
<1> SUFFICES ASSUME Clean, Init PROVE FreshInv
  OBVIOUS
<1>1. LoopShape /\ WatchesPlan
  BY DEF Init, LoopShape, WatchesPlan
<1>2. ManifestUsed /\ PlanTold
  BY DEF Init, ManifestUsed, PlanTold, Running, NoResult, Absent
<1>3. ResultsTold /\ StatusTold
  <2>1. \A n \in Names : reading.name # n
    BY ConstAssumption DEF Init, NoRead
  <2>2. \A n \in Names : n \notin GapsOf(plan)
    BY DEF Init, GapsOf, Absent
  <2>3. GapsOf(plan) \subseteq Names
    BY DEF GapsOf
  <2> QED BY <2>1, <2>2, <2>3 DEF Init, ResultsTold, StatusTold, Running
<1> QED BY <1>1, <1>2, <1>3 DEF FreshInv

LEMMA BootFresh ==
  ASSUME Clean, TypeOK, WorkInv, FreshInv, Boot PROVE FreshInv'
<1> USE DEF world, watcher, caches, work
<1>1. UNCHANGED <<fs, manifest, booting, batch, chan, watched, registered, results, reading, status>>
  BY DEF Boot
<1>2. LoopShape' /\ WatchesPlan' /\ StatusTold'
  BY <1>1 DEF Boot, FreshInv, LoopShape, WatchesPlan, StatusTold, OverallSafe
<1>3. \A n \in Names : reading'.name # n
  BY <1>1, ConstAssumption DEF WorkInv, Boot, NoRead
<1>4. CASE BuildFails
  <2>1. plan' = plan /\ pc' = "failed" /\ todoGaps' = todoGaps
    BY <1>4 DEF Boot
  <2>2. ManifestUsed' /\ PlanTold'
    BY <1>1, <2>1, SamePlan DEF FreshInv, ManifestUsed, PlanTold, Running
  <2>3. GapsOf(plan)' = GapsOf(plan)
    BY <2>1 DEF GapsOf
  <2>4. ResultsTold'
    BY <1>1, <1>3, <2>1, <2>3 DEF FreshInv, ResultsTold, Running
  <2> QED BY <1>2, <2>2, <2>4 DEF FreshInv
<1>5. CASE ~BuildFails
  <2>1. /\ plan' = BuildBatch /\ pc' = "cycle"
        /\ todoGaps' = GapsOf(BuildBatch) /\ todoPairs' = PairsOf(BuildBatch)
    BY <1>5 DEF Boot
  <2>2. GapsOf(plan)' = todoGaps' /\ PairsOf(plan)' = todoPairs'
    BY <2>1 DEF GapsOf, PairsOf
  <2>3. ManifestMode => Resolves(manifest) /\ \A n \in Names : BuildBatch[n].kind # "gap"
    BY <1>5, ManifestPairs DEF BuildFails, BuildBatch, Resolves, LiveNames, GapsOf
  <2>4. ManifestUsed' /\ PlanTold'
    BY <1>1, <2>1, <2>3, SamePlan DEF FreshInv, ManifestUsed, PlanTold
  <2>5. ResultsTold'
    BY <1>3, <2>2 DEF ResultsTold, PairTold
  <2> QED BY <1>2, <2>4, <2>5 DEF FreshInv
<1> QED BY <1>4, <1>5

LEMMA GapFresh ==
  ASSUME Clean, TypeOK, WorkInv, CoverInv, FreshInv, NEW g \in Names, RunCycleGap(g)
  PROVE  FreshInv'
<1> USE DEF world, watcher, work
<1>1. /\ pc = "cycle" /\ g \in todoGaps /\ results' = [results EXCEPT ![g] = GapResult]
      /\ todoGaps' = todoGaps \ {g}
      /\ UNCHANGED <<fs, manifest, booting, batch, chan, watched, registered, plan, pc,
                     todoPairs, reading, status>>
  BY DEF RunCycleGap, Clean
<1>2. /\ g \in GapsOf(plan) /\ plan[g].kind = "gap" /\ g \notin PairsOf(plan)
  BY <1>1 DEF WorkInv, GapsOf, PairsOf
<1>3. \A path : Pending(path)' = Pending(path)
  BY <1>1 DEF Pending
<1>4. LoopShape' /\ WatchesPlan' /\ StatusTold'
  BY <1>1 DEF FreshInv, LoopShape, WatchesPlan, StatusTold, CoverInv, WatchDirs, ManifestMode, PairsOf
<1>5. ManifestUsed'
  BY <1>1, <1>2, SamePlan DEF FreshInv, ManifestUsed, Running
<1>6. PlanTold'
  BY <1>1, <1>3, SamePlan DEF FreshInv, PlanTold, ReplanPending, Running
<1>7. PairsOf(plan)' = PairsOf(plan) /\ GapsOf(plan)' = GapsOf(plan)
  BY <1>1 DEF PairsOf, GapsOf
<1>8. ASSUME NEW n \in PairsOf(plan) PROVE PairTold(n)'
  <2>1. n # g /\ n \in Names /\ results'[n] = results[n]
    BY <1>1, <1>2, <1>8 DEF PairsOf, TypeOK
  <2>2. PairTold(n) /\ Told(n)' = Told(n)
    BY <1>1, <1>3, <1>8 DEF FreshInv, ResultsTold, Running, Told
  <2> QED BY <1>1, <2>1, <2>2, SamePlan DEF PairTold, Current
<1>9. ASSUME NEW n \in GapsOf(plan) PROVE results'[n] = GapResult \/ n \in todoGaps'
  BY <1>1, <1>9 DEF FreshInv, ResultsTold, TypeOK, GapsOf
<1>10. ResultsTold'
  BY <1>1, <1>3, <1>7, <1>8, <1>9 DEF FreshInv, ResultsTold
<1> QED BY <1>4, <1>5, <1>6, <1>10 DEF FreshInv

LEMMA ReadFresh ==
  ASSUME TypeOK, WorkInv, FreshInv, ReadOldBuild PROVE FreshInv'
<1> USE DEF world, watcher, caches
<1>1. /\ pc = "cycle"
      /\ UNCHANGED <<fs, manifest, booting, batch, chan, watched, registered, plan, pc,
                     results, todoPairs, todoGaps, status>>
  BY DEF ReadOldBuild
<1>2. PICK m \in todoPairs : reading' = [name |-> m, old |-> fs[OldPath(m)]]
  BY DEF ReadOldBuild
<1>3. \A path : Pending(path)' = Pending(path)
  BY <1>1 DEF Pending
<1>4. LoopShape' /\ WatchesPlan' /\ StatusTold'
  BY <1>1 DEF FreshInv, LoopShape, WatchesPlan, StatusTold, OverallSafe, WatchDirs, ManifestMode, PairsOf
<1>5. ManifestUsed' /\ PlanTold'
  BY <1>1, <1>3, SamePlan DEF FreshInv, ManifestUsed, PlanTold, ReplanPending, Running
<1>6. PairsOf(plan)' = PairsOf(plan) /\ GapsOf(plan)' = GapsOf(plan)
  BY <1>1 DEF PairsOf, GapsOf
<1>7. ASSUME NEW n \in PairsOf(plan) PROVE PairTold(n)'
  <2>1. PairTold(n) /\ Told(n)' = Told(n)
    BY <1>1, <1>3, <1>7 DEF FreshInv, ResultsTold, Running, Told
  <2> QED BY <1>1, <2>1, SamePlan DEF PairTold, Current
<1>8. ResultsTold'
  BY <1>1, <1>2, <1>6, <1>7 DEF FreshInv, ResultsTold
<1> QED BY <1>4, <1>5, <1>8 DEF FreshInv

LEMMA CompareFresh ==
  ASSUME Clean, TypeOK, WorkInv, CoverInv, FreshInv, ComparePair PROVE FreshInv'
<1> USE DEF world, watcher, caches
<1> DEFINE m == reading.name
           r == [kind |-> "pair", old |-> reading.old, new |-> fs[NewPath(m)],
                 emp |-> fs[EmpiricalPath], def |-> plan[m]]
<1>1. /\ pc = "cycle" /\ reading # NoRead /\ results' = [results EXCEPT ![m] = r]
      /\ todoPairs' = todoPairs \ {m} /\ reading' = NoRead
      /\ UNCHANGED <<fs, manifest, booting, batch, chan, watched, registered, plan, pc,
                     todoGaps, status>>
  BY DEF ComparePair, Clean
<1>2. m \in PairsOf(plan) /\ m \in Names /\ m \notin GapsOf(plan)
  BY <1>1 DEF WorkInv, PairsOf, GapsOf
<1>3. r.kind = "pair" /\ r.old = reading.old
  OBVIOUS
<1>4. reading.old = fs[OldPath(m)] \/ Pending(OldPath(m))
  BY <1>2 DEF FreshInv, ResultsTold
<1>5. reading.old = fs[OldPath(m)] =>
        r = [kind |-> "pair", old |-> fs[OldPath(m)], new |-> fs[NewPath(m)],
             emp |-> fs[EmpiricalPath], def |-> plan[m]]
  OBVIOUS
<1>6. \A path : Pending(path)' = Pending(path)
  BY <1>1 DEF Pending
<1> HIDE DEF r
<1>7. LoopShape' /\ WatchesPlan' /\ StatusTold'
  BY <1>1 DEF FreshInv, LoopShape, WatchesPlan, StatusTold, CoverInv, WatchDirs, ManifestMode, PairsOf
<1>8. \A n \in Names : results'[n] = IF n = m THEN r ELSE results[n]
  BY <1>1 DEF TypeOK
<1>9. ManifestUsed'
  BY <1>1, <1>3, <1>8, SamePlan DEF FreshInv, ManifestUsed, Running
<1>10. PlanTold'
  BY <1>1, <1>6, SamePlan DEF FreshInv, PlanTold, ReplanPending, Running
<1>11. PairsOf(plan)' = PairsOf(plan) /\ GapsOf(plan)' = GapsOf(plan)
  BY <1>1 DEF PairsOf, GapsOf
<1>12. ASSUME NEW n \in PairsOf(plan) PROVE PairTold(n)'
  <2>1. n \in Names
    BY DEF PairsOf
  <2>2. CASE n = m /\ Pending(OldPath(m))
    BY <1>6, <2>2 DEF PairTold, Told, PathsOf
  <2>3. CASE n = m /\ reading.old = fs[OldPath(m)]
    <3> HIDE DEF m
    <3>1. results'[n] = r /\ r = [kind |-> "pair", old |-> fs[OldPath(n)], new |-> fs[NewPath(n)],
             emp |-> fs[EmpiricalPath], def |-> plan[n]]
      BY <1>5, <1>8, <2>1, <2>3
    <3>2. Current(n)'
      BY <1>1, <3>1 DEF Current
    <3> QED BY <3>2 DEF PairTold
  <2>4. CASE n # m
    <3>1. PairTold(n) /\ Told(n)' = Told(n)
      BY <1>1, <1>6, <1>12 DEF FreshInv, ResultsTold, Running, Told
    <3>2. results'[n] = results[n] /\ (n \in todoPairs => n \in todoPairs')
      BY <1>1, <1>8, <2>1, <2>4
    <3> QED BY <1>1, <3>1, <3>2, SamePlan DEF PairTold, Current
  <2> QED BY <1>4, <2>2, <2>3, <2>4
<1>13. ASSUME NEW n \in GapsOf(plan) PROVE results'[n] = GapResult \/ n \in todoGaps'
  <2>1. n \in Names /\ n # m
    BY <1>2, <1>13 DEF GapsOf
  <2> QED BY <1>1, <1>8, <1>13, <2>1 DEF FreshInv, ResultsTold
<1>14. \A n \in Names : reading'.name # n
  BY <1>1, ConstAssumption DEF NoRead
<1>15. ResultsTold'
  BY <1>11, <1>12, <1>13, <1>14 DEF ResultsTold
<1> QED BY <1>7, <1>9, <1>10, <1>15 DEF FreshInv

\* Steps of the loop that touch neither plan, results nor work.
LEMMA LoopFresh ==
  ASSUME Clean, TypeOK, WorkInv, CoverInv, FreshInv,
         RenderSummary \/ RegisterWatcher \/ StopIdle \/ StopDrained
           \/ Receive \/ DrainEvent \/ DrainTimeout
  PROVE  FreshInv'
<1> USE DEF world, watcher, caches, work
<1>1. CASE RenderSummary
  <2>1. /\ pc = "cycle" /\ status' = Completed(cycle, OverallSafe)
        /\ pc' = IF booting THEN "register" ELSE "idle"
        /\ UNCHANGED <<fs, manifest, booting, batch, chan, watched, registered, plan,
                       results, todoGaps, todoPairs, reading>>
    BY <1>1 DEF RenderSummary, Clean
  <2>2. \A path : Pending(path) => Pending(path)'
    BY <2>1 DEF Pending
  <2>3. LoopShape' /\ WatchesPlan'
    BY <2>1 DEF FreshInv, LoopShape, WatchesPlan, WatchDirs, ManifestMode, PairsOf
  <2>4. OverallSafe' = OverallSafe
    BY <2>1 DEF OverallSafe
  <2>5. StatusTold'
    BY <2>1, <2>4 DEF StatusTold, Completed
  <2> QED BY <2>1, <2>2, <2>3, <2>5, QuietFresh DEF Running
<1>2. CASE RegisterWatcher
  <2>1. /\ pc = "register" /\ pc' = "idle" /\ booting' = FALSE /\ ReconcileWatcher(plan)
        /\ UNCHANGED <<fs, manifest, batch, chan, plan,
                       results, todoGaps, todoPairs, reading, status>>
    BY <1>2 DEF RegisterWatcher
  <2>2. \A path : Pending(path) => Pending(path)'
    BY <2>1 DEF Pending
  <2>3. WatchDirs(plan)' = WatchDirs(plan)
    BY <2>1 DEF WatchDirs, ManifestMode, PairsOf
  <2>4. watched' = registered' /\ registered' = WatchDirs(plan)
    BY <2>1, ReconcileClean DEF FreshInv, WatchesPlan
  <2>5. LoopShape' /\ WatchesPlan'
    BY <2>1, <2>3, <2>4 DEF FreshInv, LoopShape, WatchesPlan
  <2>6. StatusTold'
    BY <2>1 DEF FreshInv, StatusTold, OverallSafe
  <2> QED BY <2>1, <2>2, <2>5, <2>6, QuietFresh DEF Running
<1>3. CASE StopIdle \/ StopDrained
  <2>1. /\ pc \in {"idle", "drained"} /\ pc' = "stopped" /\ status' = Shutdown(cycle)
        /\ batch' = {}
        /\ UNCHANGED <<fs, manifest, booting, chan, watched, registered, plan,
                       results, todoGaps, todoPairs, reading>>
    BY <1>3 DEF StopIdle, StopDrained, Stop
  <2>2. LoopShape' /\ WatchesPlan'
    BY <2>1 DEF FreshInv, LoopShape, WatchesPlan, WatchDirs, ManifestMode, PairsOf
  <2>3. StatusTold'
    BY <2>1 DEF StatusTold, Shutdown
  <2>4. reading = NoRead /\ ~Running'
    BY <2>1 DEF WorkInv, Running
  <2> QED BY <2>1, <2>2, <2>3, <2>4, QuietFresh
<1>4. CASE Receive \/ DrainEvent
  <2>1. /\ pc \in {"idle", "drain"} /\ pc' \in {"drain", "drained"}
        /\ chan # <<>> /\ chan' = Tail(chan)
        /\ UNCHANGED <<fs, manifest, booting, watched, registered, plan,
                       results, todoGaps, todoPairs, reading, status>>
    BY <1>4 DEF Receive, DrainEvent
  <2>2. batch' = batch \cup {Head(chan)}
    BY <1>4 DEF Receive, DrainEvent, FreshInv, LoopShape
  <2>3. \A path : Pending(path) => Pending(path)'
    BY <2>1, <2>2, EventMoves DEF TypeOK
  <2>4. LoopShape' /\ WatchesPlan'
    BY <2>1 DEF FreshInv, LoopShape, WatchesPlan, WatchDirs, ManifestMode, PairsOf
  <2>5. StatusTold'
    BY <2>1 DEF FreshInv, StatusTold, OverallSafe
  <2> QED BY <2>1, <2>3, <2>4, <2>5, QuietFresh DEF Running
<1>5. CASE DrainTimeout
  <2>1. /\ pc = "drain" /\ pc' = "drained"
        /\ UNCHANGED <<fs, manifest, booting, batch, chan, watched, registered, plan,
                       results, todoGaps, todoPairs, reading, status>>
    BY <1>5 DEF DrainTimeout
  <2>2. \A path : Pending(path) => Pending(path)'
    BY <2>1 DEF Pending
  <2>3. LoopShape' /\ WatchesPlan' /\ StatusTold'
    BY <2>1 DEF FreshInv, LoopShape, WatchesPlan, WatchDirs, ManifestMode, PairsOf,
                StatusTold, OverallSafe
  <2> QED BY <2>1, <2>2, <2>3, QuietFresh DEF Running
<1> QED BY <1>1, <1>2, <1>3, <1>4, <1>5

\* A window that maps to nothing, or that leaves nothing to plan, can be dropped.
LEMMA DropFresh ==
  ASSUME TypeOK, WorkInv, CoverInv, FreshInv, DropWindow PROVE FreshInv'
<1> USE DEF world, watcher, caches, work
<1>1. /\ pc = "drained" /\ pc' = "idle" /\ batch' = {} /\ Running
      /\ AffectedIsEmpty(batch) \/ (Structural(batch) /\ BuildFails)
      /\ UNCHANGED <<fs, manifest, booting, chan, watched, registered, plan,
                     results, todoGaps, todoPairs, reading, status>>
  BY DEF DropWindow, Running
<1>2. LoopShape' /\ WatchesPlan' /\ StatusTold'
  BY <1>1 DEF FreshInv, LoopShape, WatchesPlan, WatchDirs, ManifestMode, PairsOf,
              StatusTold, OverallSafe
<1>3. \A path : Pending(path) /\ path \notin batch => Pending(path)'
  BY <1>1 DEF Pending
<1>4. ManifestUsed'
  BY <1>1, SamePlan DEF FreshInv, ManifestUsed, Running
<1>5. ManifestMode => ~BuildFails
  <2>1. ManifestMode => Resolves(manifest)
    BY <1>1 DEF FreshInv, ManifestUsed
  <2> QED BY <2>1 DEF BuildFails, BuildBatch, Resolves, LiveNames
<1>6. ~ManifestMode /\ BuildFails => \A n \in Names : fs[OldPath(n)] = 0
  <2> SUFFICES ASSUME ~ManifestMode, BuildFails, NEW n \in Names, fs[OldPath(n)] # 0
               PROVE  FALSE
    OBVIOUS
  <2>1. n \notin LiveNames(ScanDirectories)
    BY DEF BuildFails, BuildBatch
  <2>2. ScanDirectories[n] \in {Gap, CliPair}
    BY DEF ScanDirectories
  <2>3. Gap.kind = "gap" /\ CliPair.kind = "pair"
    BY CliPairType DEF Gap, Pair
  <2> QED BY <2>1, <2>2, <2>3 DEF LiveNames, PairsOf, GapsOf
<1>7. PlanTold'
  <2>1. CASE BuildFails
    BY <1>1, <1>5, <2>1, SamePlan DEF PlanTold
  <2>2. CASE ~BuildFails
    <3>1. ~Structural(batch)
      BY <1>1, <2>2 DEF AffectedIsEmpty
    <3>2. ReplanPending => ReplanPending'
      BY <1>1, <1>3, <3>1, SamePlan DEF ReplanPending, Structural, ManifestChanged, Rescan
    <3> QED BY <1>1, <2>2, <3>2, SamePlan DEF FreshInv, PlanTold
  <2> QED BY <2>1, <2>2
<1>8. ASSUME NEW n \in PairsOf(plan) PROVE PairTold(n)'
  <2>1. PairTold(n) /\ n \in Names
    BY <1>1, <1>8 DEF FreshInv, ResultsTold, PairsOf
  <2>2. CASE BuildFails
    BY <1>1, <1>5, <1>6, <2>1, <2>2, SamePlan DEF PairTold
  <2>3. CASE ~BuildFails
    <3>1. AffectedNames(batch) = {}
      BY <1>1, <2>3 DEF AffectedIsEmpty
    <3>2. \A path \in PathsOf(n) : path \notin batch
      BY <1>8, <3>1 DEF AffectedNames, DependencyMap, PathsOf
    <3>3. Told(n) => Told(n)'
      BY <1>3, <3>2 DEF Told
    <3> QED BY <1>1, <2>1, <3>3, SamePlan DEF PairTold, Current
  <2> QED BY <2>2, <2>3
<1>9. PairsOf(plan)' = PairsOf(plan) /\ GapsOf(plan)' = GapsOf(plan)
  BY <1>1 DEF PairsOf, GapsOf
<1>10. \A n \in Names : reading'.name # n
  BY <1>1, ConstAssumption DEF WorkInv, NoRead
<1>11. ResultsTold'
  BY <1>1, <1>8, <1>9, <1>10 DEF FreshInv, ResultsTold
<1> QED BY <1>2, <1>4, <1>7, <1>11 DEF FreshInv

\* The heart of the matter: which results may be kept when a cycle begins. A pair
\* is left out only if its fingerprint is that of its settings and no path of it is
\* in the window; its result was then computed under these settings, and what is
\* still to be told about it is in the channel.
LEMMA KeptTold ==
  ASSUME Clean, TypeOK, WorkInv, CachesCoherent, CoverInv, FreshInv, pc = "drained",
         NEW p \in Plan, BeginCycle(p), UNCHANGED <<fs, manifest, chan, reading>>,
         ~Structural(batch) => p = plan,
         \A n \in Names : ManifestMode => p[n].kind # "gap"
  PROVE  ResultsTold'
<1>1. /\ plan' = p /\ todoGaps' = GapsToRedo(p)
      /\ results' = [n \in Names |-> IF n \in Kept(p) THEN results[n] ELSE NoResult]
      /\ todoPairs' = IF ImpactedPairs(p, batch) = {} THEN PairsOf(p)
                                                      ELSE ImpactedPairs(p, batch)
  BY DEF BeginCycle, BeginCycleWith
<1>2. PairsOf(plan)' = PairsOf(p) /\ GapsOf(plan)' = GapsOf(p)
  BY <1>1 DEF PairsOf, GapsOf
<1>3. \A path : Pending(path) /\ path \notin batch => Pending(path)'
  BY DEF Pending
<1>4. ASSUME NEW n \in GapsOf(p) PROVE results'[n] = GapResult \/ n \in todoGaps'
  <2>1. n \in Names /\ n \in Kept(p)
    BY <1>4 DEF GapsOf, Kept, LiveNames
  <2>2. results'[n] = results[n]
    BY <1>1, <2>1
  <2>4. CASE Structural(batch) \/ results[n].kind = "none"
    BY <1>1, <1>4, <2>4 DEF GapsToRedo
  <2>5. CASE ~Structural(batch) /\ results[n].kind # "none"
    BY <1>4, <2>2, <2>5 DEF FreshInv, ResultsTold, WorkInv
  <2> QED BY <2>4, <2>5
<1>5. ASSUME NEW n \in PairsOf(p) PROVE PairTold(n)'
  <2> SUFFICES ASSUME n \notin todoPairs' PROVE PairTold(n)'
    BY DEF PairTold
  <2>1. n \in Names /\ n \in Kept(p) /\ p[n] \in Pair /\ p[n].kind = "pair"
    BY <1>5, PairSlot DEF PairsOf, Kept, LiveNames
  <2>2. results'[n] = results[n] /\ plan'[n] = p[n]
    BY <1>1, <2>1
  <2>3. n \notin ImpactedPairs(p, batch)
    BY <1>1, <1>5
  <2>4. fingerprints[n] = p[n].setting /\ n \notin AffectedNames(batch)
    BY <1>5, <2>3 DEF ImpactedPairs, PairFingerprint
  <2>5. p[n].setting \in Settings /\ p[n].policy \in Policies
    BY <2>1 DEF Pair
  <2>6. results[n].kind # "none"
    BY <2>1, <2>4, <2>5, ConstAssumption DEF CachesCoherent
  <2>7. results[n] \in Result
    BY <2>1 DEF TypeOK
  <2>8. CASE results[n] = GapResult
    <3>1. ~ManifestMode
      BY <2>1, <2>8 DEF FreshInv, ManifestUsed, GapResult
    <3> QED BY <2>2, <2>8, <3>1, SamePlan DEF PairTold
  <2>9. CASE results[n] # GapResult
    <3>1. results[n] \in PairResult
      BY <2>6, <2>7, <2>9 DEF Result, NoResult
    <3>2. results[n].kind = "pair" /\ results[n].def \in Pair
      BY <3>1 DEF PairResult
    <3>3. results[n].def.setting = p[n].setting
      BY <2>1, <2>4, <3>2 DEF CachesCoherent, PairFingerprint
    <3>4. results[n].def.policy = p[n].policy
      BY <2>5, <3>2 DEF Pair, Clean
    <3>5. results[n].def = p[n]
      BY <2>1, <3>2, <3>3, <3>4 DEF Pair
    <3>6. n \in PairsOf(plan)
      <4>1. n \in LiveNames(plan)
        BY <2>1, <2>6 DEF CoverInv
      <4>2. n \notin GapsOf(plan)
        BY <2>9 DEF FreshInv, ResultsTold, WorkInv
      <4> QED BY <4>1, <4>2 DEF LiveNames
    <3>7. PairTold(n) /\ n \notin todoPairs
      BY <3>6 DEF FreshInv, ResultsTold, Running, WorkInv
    <3>8. CASE Current(n)
      <4>1. results[n] = [kind |-> "pair", old |-> fs[OldPath(n)], new |-> fs[NewPath(n)],
                          emp |-> fs[EmpiricalPath], def |-> plan[n]]
        BY <3>8 DEF Current
      <4>2. plan[n] = p[n]
        BY <3>5, <4>1
      <4> QED BY <2>2, <4>1, <4>2 DEF PairTold, Current
    <3>9. CASE Told(n)
      <4>1. \A path \in PathsOf(n) : path \notin batch
        BY <2>4, <3>6 DEF AffectedNames, DependencyMap, PathsOf
      <4> QED BY <1>3, <3>9, <4>1 DEF PairTold, Told
    <3>10. CASE ~ManifestMode /\ fs[OldPath(n)] = 0
      BY <3>10, SamePlan DEF PairTold
    <3> QED BY <2>9, <3>7, <3>8, <3>9, <3>10 DEF PairTold
  <2> QED BY <2>8, <2>9
<1>6. \A n \in Names : reading'.name # n
  BY ConstAssumption DEF WorkInv, NoRead
<1> QED BY <1>2, <1>4, <1>5, <1>6 DEF ResultsTold

LEMMA StartFresh ==
  ASSUME Clean, TypeOK, WorkInv, CachesCoherent, CoverInv, FreshInv, StartCycle
  PROVE  FreshInv'
<1> USE DEF world
<1>1. /\ pc = "drained" /\ Running /\ UNCHANGED <<fs, manifest, chan, booting, reading>>
  BY DEF StartCycle, Running
<1>2. PICK p \in {plan, BuildBatch} :
        /\ BeginCycle(p)
        /\ Structural(batch) => p = BuildBatch /\ ReconcileWatcher(p)
        /\ ~Structural(batch) => p = plan /\ UNCHANGED <<watched, registered>>
  BY DEF StartCycle
<1>3. p \in Plan
  BY <1>2, BuildBatchType DEF TypeOK
<1>4. /\ plan' = p /\ pc' = "cycle" /\ batch' = {} /\ status' = Starting(cycle')
      /\ results' = [n \in Names |-> IF n \in Kept(p) THEN results[n] ELSE NoResult]
  BY <1>2 DEF BeginCycle, BeginCycleWith
<1>5. ManifestMode => \A n \in Names : p[n].kind # "gap"
  BY <1>2, ManifestPairs DEF FreshInv, ManifestUsed, BuildBatch
<1>6. ResultsTold'
  BY <1>1, <1>2, <1>3, <1>5, KeptTold
<1>7. LoopShape'
  BY <1>1, <1>4 DEF FreshInv, LoopShape
<1>8. WatchDirs(plan)' = WatchDirs(p)
  BY <1>1, <1>4 DEF WatchDirs, ManifestMode, PairsOf
<1>9. WatchesPlan'
  <2>1. watched = registered /\ ~booting /\ registered = WatchDirs(plan)
    BY <1>1 DEF FreshInv, LoopShape, WatchesPlan
  <2>2. CASE Structural(batch)
    BY <1>1, <1>2, <1>8, <2>1, <2>2, ReconcileClean DEF WatchesPlan
  <2>3. CASE ~Structural(batch)
    BY <1>1, <1>2, <1>8, <2>1, <2>3 DEF WatchesPlan
  <2> QED BY <2>2, <2>3
<1>10. StatusTold'
  BY <1>4 DEF StatusTold, Starting
<1>11. ManifestUsed'
  BY <1>1, <1>4, <1>5, SamePlan DEF FreshInv, ManifestUsed, Running, NoResult
<1>12. PlanTold'
  <2>1. CASE Structural(batch)
    BY <1>1, <1>2, <1>4, <2>1, SamePlan DEF PlanTold
  <2>2. CASE ~Structural(batch)
    <3>1. \A path : Pending(path) /\ path \notin batch => Pending(path)'
      BY <1>1 DEF Pending
    <3>2. ReplanPending => ReplanPending'
      BY <1>1, <2>2, <3>1, SamePlan DEF ReplanPending, Structural, ManifestChanged, Rescan
    <3> QED BY <1>1, <1>2, <1>4, <2>2, <3>2, SamePlan DEF FreshInv, PlanTold
  <2> QED BY <2>1, <2>2
<1> QED BY <1>6, <1>7, <1>9, <1>10, <1>11, <1>12 DEF FreshInv

\* An edit of an input of the plan is told, and an edit of another file leaves
\* results as they are.
LEMMA EditFresh ==
  ASSUME Clean, TypeOK, WorkInv, FreshInv, NEW path \in Inputs, NEW v \in Version,
         EditFile(path, v)
  PROVE  FreshInv'
<1> USE DEF Loop, caches, work
<1>1. /\ fs' = [fs EXCEPT ![path] = v] /\ Notify(path) /\ ~booting
      /\ UNCHANGED <<manifest, watched, registered, pc, booting, batch, plan, results,
                     todoGaps, todoPairs, reading, status>>
  BY DEF EditFile, MayEdit, Clean
<1>2. /\ \A q : Pending(q) => Pending(q)'
      /\ DirOf(path) \in watched => Pending(path)'
  BY <1>1, EventSent DEF TypeOK, Path
<1>3. watched = WatchDirs(plan)
  BY <1>1 DEF FreshInv, WatchesPlan
<1>4. LoopShape' /\ WatchesPlan' /\ StatusTold'
  BY <1>1 DEF FreshInv, LoopShape, WatchesPlan, WatchDirs, ManifestMode, PairsOf,
              StatusTold, OverallSafe
<1>5. ManifestMode' = ManifestMode /\ PairsOf(plan)' = PairsOf(plan) /\ GapsOf(plan)' = GapsOf(plan)
  BY <1>1 DEF ManifestMode, PairsOf, GapsOf
<1>6. ManifestUsed'
  BY <1>1, <1>5 DEF FreshInv, ManifestUsed, Running, Resolves, PairsOf
<1>7. \A q \in Inputs : q # path => fs'[q] = fs[q]
  BY <1>1 DEF TypeOK
<1>8. PlanTold'
  <2>1. ReplanPending => ReplanPending'
    BY <1>2, <1>5 DEF ReplanPending
  <2>2. CASE ManifestMode
    <3>1. BuildBatch' = BuildBatch
      BY <1>1, <1>5, <2>2 DEF BuildBatch
    <3> QED BY <1>1, <1>5, <2>1, <2>2, <3>1 DEF FreshInv, PlanTold, Running
  <2>3. CASE ~ManifestMode /\ IsWasm(path)
    <3>1. Pending(path)'
      BY <1>2, <1>3, <2>3 DEF DirOf, WatchDirs
    <3> QED BY <1>5, <2>3, <3>1 DEF PlanTold, ReplanPending
  <2>4. CASE ~ManifestMode /\ ~IsWasm(path)
    <3>1. \A n \in Names : fs'[OldPath(n)] = fs[OldPath(n)] /\ fs'[NewPath(n)] = fs[NewPath(n)]
      <4> SUFFICES ASSUME NEW n \in Names
                   PROVE  fs'[OldPath(n)] = fs[OldPath(n)] /\ fs'[NewPath(n)] = fs[NewPath(n)]
        OBVIOUS
      <4>1. OldPath(n)[1] = "old" /\ NewPath(n)[1] = "new"
        BY DEF OldPath, NewPath
      <4>2. path # OldPath(n) /\ path # NewPath(n)
        BY <2>4, <4>1 DEF IsWasm
      <4> QED BY <1>7, <4>2, InputPaths
    <3>2. BuildBatch' = BuildBatch
      BY <1>5, <2>4, <3>1 DEF BuildBatch, ScanDirectories
    <3>3. BuildFails' = BuildFails
      BY <1>5, <2>4, <3>2 DEF BuildFails, LiveNames, PairsOf, GapsOf
    <3> QED BY <1>1, <1>5, <2>1, <2>4, <3>2, <3>3 DEF FreshInv, PlanTold, Running
  <2> QED BY <2>2, <2>3, <2>4
<1>9. ASSUME NEW n \in PairsOf(plan), path \in PathsOf(n) PROVE Pending(path)'
  <2>1. DirOf(path) \in WatchDirs(plan)
    BY <1>9 DEF DirOf, WatchDirs, IsWasm, PathsOf, OldPath, NewPath, EmpiricalPath
  <2> QED BY <1>2, <1>3, <2>1
<1>10. ASSUME Running', NEW n \in PairsOf(plan) PROVE PairTold(n)'
  <2>1. CASE path \in PathsOf(n)
    BY <1>9, <2>1 DEF PairTold, Told
  <2>2. CASE path \notin PathsOf(n)
    <3>1. n \in Names
      BY DEF PairsOf
    <3>2. /\ fs'[OldPath(n)] = fs[OldPath(n)] /\ fs'[NewPath(n)] = fs[NewPath(n)]
          /\ fs'[EmpiricalPath] = fs[EmpiricalPath]
      BY <1>7, <2>2, <3>1, InputPaths DEF PathsOf
    <3>3. PairTold(n) /\ (Told(n) => Told(n)')
      BY <1>1, <1>2, <1>10 DEF FreshInv, ResultsTold, Running, Told
    <3> QED BY <1>1, <1>5, <3>2, <3>3 DEF PairTold, Current
  <2> QED BY <2>1, <2>2
<1>11. ASSUME NEW n \in Names, reading.name = n
       PROVE  reading.old = fs'[OldPath(n)] \/ Pending(OldPath(n))'
  <2>1. reading # NoRead
    BY <1>11, ConstAssumption DEF NoRead
  <2>2. n \in PairsOf(plan)
    BY <1>11, <2>1 DEF WorkInv
  <2>3. CASE path = OldPath(n)
    BY <1>9, <2>2, <2>3 DEF PathsOf
  <2>4. CASE path # OldPath(n)
    BY <1>2, <1>7, <1>11, <2>4, InputPaths DEF FreshInv, ResultsTold
  <2> QED BY <2>3, <2>4
<1>12. ResultsTold'
  BY <1>1, <1>5, <1>10, <1>11 DEF FreshInv, ResultsTold
<1> QED BY <1>4, <1>6, <1>8, <1>12 DEF FreshInv

\* An edit of the manifest is told.
LEMMA ManifestFresh ==
  ASSUME Clean, TypeOK, WorkInv, FreshInv, NEW m \in Manifest, EditManifest(m)
  PROVE  FreshInv'
<1> USE DEF Loop, caches, work
<1>1. /\ manifest' = m /\ Notify(ManifestPath) /\ ~booting /\ ManifestMode /\ m.given /\ Resolves(m)
      /\ UNCHANGED <<fs, watched, registered, pc, booting, batch, plan, results,
                     todoGaps, todoPairs, reading, status>>
  BY DEF EditManifest, MayEdit, Clean
<1>2. /\ \A q : Pending(q) => Pending(q)'
      /\ DirOf(ManifestPath) \in watched => Pending(ManifestPath)'
  BY <1>1, EventSent DEF TypeOK, Path
<1>3. watched = WatchDirs(plan)
  BY <1>1 DEF FreshInv, WatchesPlan
<1>4. ManifestMode' = ManifestMode /\ PairsOf(plan)' = PairsOf(plan) /\ GapsOf(plan)' = GapsOf(plan)
  BY <1>1 DEF ManifestMode, PairsOf, GapsOf
<1>5. LoopShape' /\ WatchesPlan' /\ StatusTold'
  BY <1>1, <1>4 DEF FreshInv, LoopShape, WatchesPlan, WatchDirs, StatusTold, OverallSafe
<1>6. ManifestUsed'
  BY <1>1, <1>4 DEF FreshInv, ManifestUsed
<1>7. Pending(ManifestPath)'
  BY <1>2, <1>3 DEF DirOf, IsWasm, ManifestPath, WatchDirs
<1>8. PlanTold'
  BY <1>1, <1>4, <1>7 DEF PlanTold, ReplanPending
<1>9. ASSUME Running', NEW n \in PairsOf(plan) PROVE PairTold(n)'
  <2>1. PairTold(n) /\ (Told(n) => Told(n)')
    BY <1>1, <1>2, <1>9 DEF FreshInv, ResultsTold, Running, Told
  <2> QED BY <1>1, <1>4, <2>1 DEF PairTold, Current
<1>10. ResultsTold'
  BY <1>1, <1>2, <1>4, <1>9 DEF FreshInv, ResultsTold
<1> QED BY <1>5, <1>6, <1>8, <1>10 DEF FreshInv

LEMMA FreshNext ==
  ASSUME Clean, TypeOK, WorkInv, CachesCoherent, CoverInv, FreshInv, [Next]_vars
  PROVE  FreshInv'
<1> USE DEF world, watcher, caches, work, Loop
<1>1. CASE Noise \/ HandleWatchSigterm \/ UNCHANGED vars
  <2>1. UNCHANGED <<fs, manifest, watched, registered, pc, booting, batch, plan, results,
                    todoGaps, todoPairs, reading, status>>
    BY <1>1 DEF Noise, HandleWatchSigterm, vars
  <2>2. \A path : Pending(path) => Pending(path)'
    <3>1. CASE Noise
      BY <2>1, <3>1, EventSent DEF Noise, TypeOK, Path
    <3>2. CASE UNCHANGED chan
      BY <2>1, <3>2 DEF Pending
    <3> QED BY <1>1, <3>1, <3>2 DEF HandleWatchSigterm, vars
  <2>3. LoopShape' /\ WatchesPlan' /\ StatusTold'
    BY <2>1 DEF FreshInv, LoopShape, WatchesPlan, WatchDirs, ManifestMode, PairsOf,
                StatusTold, OverallSafe
  <2> QED BY <2>1, <2>2, <2>3, QuietFresh DEF Running
<1>2. CASE LoopStep
  BY <1>2, BootFresh, GapFresh, ReadFresh, CompareFresh, LoopFresh, DropFresh, StartFresh
     DEF LoopStep
<1>3. CASE Environment
  BY <1>1, <1>3, EditFresh, ManifestFresh DEF Environment
<1> QED BY <1>1, <1>2, <1>3 DEF Next

\* At rest, with a plan that is up to date, a result is what a run from scratch
\* would report, but for the gap that was restored.
LEMMA RestIsFresh ==
  ASSUME TypeOK, WorkInv, CoverInv, FreshInv, Settled, NEW n \in Names
  PROVE  \/ results[n] = Truth[n]
         \/ ~ManifestMode /\ results[n] = GapResult /\ Truth[n].kind = "pair"
<1>1. pc = "idle" /\ chan = <<>> /\ ~BuildFails /\ Running
  BY DEF Settled, Running
<1>2. \A path : ~Pending(path)
  BY <1>1 DEF FreshInv, LoopShape, Pending
<1>3. plan = BuildBatch
  BY <1>1, <1>2 DEF FreshInv, PlanTold, ReplanPending
<1>4. todoGaps = {} /\ todoPairs = {}
  BY <1>1 DEF WorkInv
<1>5. plan[n] \in Slot
  BY DEF TypeOK, Plan
<1>6. CASE plan[n].kind = "pair"
  <2>1. n \in PairsOf(plan)
    BY <1>6 DEF PairsOf
  <2>2. Current(n) \/ (~ManifestMode /\ (results[n] = GapResult \/ fs[OldPath(n)] = 0))
    <3>1. PairTold(n)
      BY <1>1, <2>1 DEF FreshInv, ResultsTold
    <3>2. ~Told(n)
      BY <1>2 DEF Told
    <3> QED BY <1>4, <3>1, <3>2 DEF PairTold
  <2>3. Truth[n] = [kind |-> "pair", old |-> fs[OldPath(n)], new |-> fs[NewPath(n)],
                    emp |-> fs[EmpiricalPath], def |-> plan[n]]
    BY <1>3, <1>6 DEF Truth
  <2>4. ~ManifestMode => fs[OldPath(n)] # 0
    BY <1>3, <1>6 DEF BuildBatch, ScanDirectories, Absent
  <2> QED BY <2>2, <2>3, <2>4 DEF Current
<1>7. CASE plan[n].kind = "gap"
  <2>1. results[n] = GapResult
    BY <1>4, <1>7 DEF FreshInv, ResultsTold, GapsOf
  <2>2. Truth[n] = GapResult
    BY <1>3, <1>7 DEF Truth
  <2> QED BY <2>1, <2>2
<1>8. CASE plan[n].kind \notin {"pair", "gap"}
  <2>1. results[n].kind = "none" /\ results[n] \in Result
    BY <1>8 DEF CoverInv, LiveNames, PairsOf, GapsOf, TypeOK
  <2>2. results[n] = NoResult
    BY <2>1 DEF Result, PairResult, GapResult
  <2>3. Truth[n] = NoResult
    BY <1>3, <1>8 DEF Truth
  <2> QED BY <2>2, <2>3
<1> QED BY <1>6, <1>7, <1>8

LEMMA FreshKept == Clean => (Spec => []FreshInv)
<1> SUFFICES ASSUME Clean PROVE Spec => []FreshInv
  OBVIOUS
<1>1. Init => FreshInv
  BY FreshInit
<1>2. TypeOK /\ WorkInv /\ CachesCoherent /\ CoverInv /\ FreshInv /\ [Next]_vars => FreshInv'
  BY FreshNext
<1> QED BY <1>1, <1>2, TypeCorrect, CachesAgree, CoverKept, PTL DEF Spec

\* Once every event is handled, the incremental caches of run_batch_watch hold what
\* a run from scratch would report, if the watcher and the outputs work and the
\* fingerprint tells pairs apart.
THEOREM SettlesFresh == Clean => (Spec => []Fresh)
<1> SUFFICES ASSUME Clean PROVE Spec => []Fresh
  OBVIOUS
<1>1. TypeOK /\ WorkInv /\ CoverInv /\ FreshInv => Fresh
  BY RestIsFresh DEF Fresh
<1>2. Spec => []FreshInv
  BY FreshKept
<1> QED BY <1>1, <1>2, TypeCorrect, CoverKept, PTL

\* Under the same conditions a settled "safe" in the status file is true of every
\* contract: a restored gap, the exception of Fresh, is never safe.
THEOREM SafeIsTrue == Clean => (Spec => []NoFalseSafe)
<1> SUFFICES ASSUME Clean PROVE Spec => []NoFalseSafe
  OBVIOUS
<1>1. TypeOK /\ WorkInv /\ CoverInv /\ FreshInv => NoFalseSafe
  <2> SUFFICES ASSUME TypeOK, WorkInv, CoverInv, FreshInv, Settled, status.safe = "safe",
                      NEW n \in Names, Truth[n].kind # "none"
               PROVE  IsSafe(Truth[n])
    BY DEF NoFalseSafe
  <2>1. \A k \in Names : results[k].kind # "none" => IsSafe(results[k])
    BY DEF FreshInv, StatusTold, Settled, OverallSafe
  <2>2. results[n] # GapResult
    BY <2>1 DEF GapResult, IsSafe
  <2>3. results[n] = Truth[n]
    BY <2>2, RestIsFresh
  <2> QED BY <2>1, <2>3
<1>2. Spec => []FreshInv
  BY FreshKept
<1> QED BY <1>1, <1>2, TypeCorrect, CoverKept, PTL
=============================================================================
