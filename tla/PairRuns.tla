------------------------------ MODULE PairRuns ------------------------------
(***************************************************************************)
(* Runs of the tool on one pair of builds: run_single of main.rs with its  *)
(* lineage store, once or in watch mode (run_watch_mode). Several runs may *)
(* share the store; builds and the store are also edited from outside.     *)
(*                                                                         *)
(* The lineage ledger (lineage.rs) is the first part, as functions of its  *)
(* content: the store of recorded versions, its integrity, which versions  *)
(* are live, and the validation of a candidate against them (with          *)
(* apply_lineage_report of report.rs, which turns its findings into the    *)
(* verdict).                                                               *)
(*                                                                         *)
(* A build is [layout, fns]: the fields of one stored struct, in order,    *)
(* and the exported functions. A finding is [sev, axis, target]; diff.rs   *)
(* has many more, of the same severities and axes (module SpecDiff).       *)
(***************************************************************************)
EXTENDS Naturals, Sequences, FiniteSets

CONSTANTS
  NoId, NoCap,  \* no version id; no max_live_versions
  Procs,
  Builds,     \* [layout, fns]
  Missing,    \* no file at an input path
  NoSpec,     \* a record without a spec_json
  BadSpec,    \* a spec_json that parses, of which no interface can be made
  Garbled,    \* a spec_json that does not parse
  Args,       \* [watch, record, retire, cap, lockfile, gated, strict, rules]
  MaxRuns,    \* bound on the runs started
  MaxEdits,   \* bound on the edits of the inputs
  MaxTroubles \* bound on edits of the store by hand, failed writes and kills

\* What an entry written or edited by hand can hold instead of a build.
Damaged == {NoSpec, BadSpec, Garbled}

ASSUME PairAssumption ==
  /\ Missing \notin Builds
  /\ Builds \cap Damaged = {} /\ BadSpec # NoSpec
  /\ {MaxRuns, MaxEdits, MaxTroubles} \subseteq Nat
  /\ \A a \in Args : a.watch \in BOOLEAN /\ a.lockfile \in BOOLEAN

-----------------------------------------------------------------------------
(* The findings of a comparison, and its verdict.                          *)

Finding(sev, axis, target) == [sev |-> sev, axis |-> axis, target |-> target]

\* A struct is decoded by position: its old fields must be a prefix. A build
\* without the struct has no field.
LayoutKept(o, n) ==
  /\ Len(o.layout) <= Len(n.layout)
  /\ \A i \in DOMAIN o.layout : o.layout[i] = n.layout[i]

Findings(o, n) ==
  {Finding("critical", "call_abi", f) : f \in o.fns \ n.fns}
  \cup {Finding("info", "call_abi", f) : f \in n.fns \ o.fns}
  \cup (IF LayoutKept(o, n) THEN {} ELSE {Finding("critical", "storage_layout", "layout")})
  \cup (IF LayoutKept(o, n) /\ o.layout # n.layout
        THEN {Finding(IF o.layout = <<>> THEN "info" ELSE "warning", "storage_layout", "layout")}
        ELSE {})

\* A configuration is [gated, strict, rules].
Open(fs, c) == {f \in fs : f.target \notin c.rules}

\* with_suppressions_with_specs: an Info finding never fails, a Warning only
\* under --strict, a Critical one where its axis is gated.
DirectSafe(o, n, c) ==
  \A f \in Open(Findings(o, n), c) :
    /\ f.sev = "critical" => ~(c.strict \/ f.axis \in c.gated)
    /\ f.sev = "warning" => ~c.strict

-----------------------------------------------------------------------------
(* The store: [records, cap, before, allowRetired], a record being         *)
(* [id, order, status, build].                                             *)

NewStore == [records |-> <<>>, cap |-> NoCap, before |-> NoId, allowRetired |-> FALSE]

Ids(store) == {store.records[i].id : i \in DOMAIN store.records}

\* validate_integrity: distinct ids, orders from 1 that increase strictly.
Integrity(store) ==
  LET rs == store.records
  IN  /\ \A i \in DOMAIN rs : rs[i].id # NoId /\ rs[i].order >= 1
      /\ \A i, j \in DOMAIN rs : i < j => rs[i].id # rs[j].id /\ rs[i].order < rs[j].order

\* live_records: the status, then the cutoff, then the last `cap`.
Cutoff(store) ==
  LET named == {i \in DOMAIN store.records : store.records[i].id = store.before}
  IN  IF named = {} THEN 0 ELSE store.records[CHOOSE i \in named : TRUE].order

\* The live versions are known by their positions, in the order of the ledger.
Eligible(store) ==
  {i \in DOMAIN store.records :
     /\ store.records[i].status = "live" \/ store.allowRetired
     /\ store.records[i].order >= Cutoff(store)}

\* Mutant (LiveRecordsOldest): the cap keeps the first ones.
LiveRecordsOldest(store) ==
  {i \in Eligible(store) :
     store.cap # NoCap => Cardinality({j \in Eligible(store) : j < i}) < store.cap}
LiveRecords(store) ==
  {i \in Eligible(store) :
     store.cap # NoCap => Cardinality({j \in Eligible(store) : j > i}) < store.cap}

\* Mutant (NextOrderLen): the new record is numbered by the length of the ledger.
NextOrderLen(store) == Len(store.records) + 1
NextOrder(store) ==
  LET orders == {store.records[i].order : i \in DOMAIN store.records}
  IN  IF orders = {} THEN 1 ELSE 1 + CHOOSE m \in orders : \A k \in orders : k <= m

\* record_version: the command line always passes order 0. A new id gets the
\* next order; a known one is replaced as it is.
RecordVersion(store, id, build) ==
  LET record(order) == [id |-> id, order |-> order, status |-> "live", build |-> build]
  IN  IF id \in Ids(store)
      THEN [store EXCEPT !.records = [i \in DOMAIN store.records |->
              IF store.records[i].id = id THEN record(0) ELSE store.records[i]]]
      ELSE [store EXCEPT !.records = Append(@, record(NextOrder(store)))]

\* retire_version
RetireVersion(store, id) ==
  [store EXCEPT !.records = [i \in DOMAIN store.records |->
     IF store.records[i].id = id THEN [store.records[i] EXCEPT !.status = "retired"]
     ELSE store.records[i]]]

-----------------------------------------------------------------------------
\* validate_candidate_against_lineage compares the candidate's runtime surface
\* with an empty one; every contract build defines a memory.
SurfaceFindings == {Finding("info", "runtime_surface", "memory")}

\* A record without a spec is skipped, and one of which no interface can be made
\* is taken for an empty one, with a warning. A spec that does not parse is an error.
EmptySpec == [layout |-> <<>>, fns |-> {}]
StoredSpec(record) == IF record.build = BadSpec THEN EmptySpec ELSE record.build
Compared(store) == {i \in LiveRecords(store) : store.records[i].build # NoSpec}
ValidationFails(store) == \E i \in LiveRecords(store) : store.records[i].build = Garbled

HistoricalFindings(store, n) ==
  UNION {Findings(StoredSpec(store.records[i]), n) \cup SurfaceFindings : i \in Compared(store)}

\* The report of the validation, then apply_lineage_report: there any open
\* finding on a gated axis fails the run.
ValidationSafe(fs, c) ==
  \A f \in Open(fs, c) :
    /\ f.sev = "critical" =>
         ~("storage_layout" \in c.gated \/ f.axis = "storage_layout" \/ c.strict)
    /\ f.sev = "warning" => ~c.strict

\* Mutant (LineageSafeLax): only the counts are merged into the report.
LineageSafeLax(store, n, c) == ValidationSafe({}, c)
LineageSafe(store, n, c) ==
  LET fs == HistoricalFindings(store, n)
  IN  /\ ValidationSafe(fs, c)
      /\ \A f \in Open(fs, c) : ~(c.strict \/ f.axis \in c.gated)

-----------------------------------------------------------------------------
(* The runs.                                                               *)

Sides == {"old", "new"}

VARIABLES
  input,     \* the file at each input path
  file,      \* the store's file: [kind, store]
  run,       \* the state of each process
  watched,   \* what the kernel watches for each process
  pending,   \* an event waits in the process's channel
  missed,    \* an input changed while its process did not watch it
  history,   \* what the store's file has recorded, oldest first
  runs, edits, troubles

vars == <<input, file, run, watched, pending, missed, history, runs, edits, troubles>>

NoArgs == [watch |-> FALSE, record |-> NoId, retire |-> NoId, cap |-> NoCap, lockfile |-> FALSE,
           gated |-> {}, strict |-> FALSE, rules |-> {}]
Idle == [pc |-> "idle", args |-> NoArgs, cycle |-> 0, read |-> [s \in Sides |-> Missing],
         store |-> NewStore, history |-> <<>>, verdict |-> "none"]

Init ==
  /\ input \in [Sides -> Builds \cup {Missing}]
  /\ file = [kind |-> "absent", store |-> NewStore]
  /\ run = [p \in Procs |-> Idle]
  /\ watched = [p \in Procs |-> {}]
  /\ pending = [p \in Procs |-> FALSE]
  /\ missed = [p \in Procs |-> FALSE]
  /\ history = <<>>
  /\ runs = 0 /\ edits = 0 /\ troubles = 0

Outside == <<input, edits>>
Ledger == <<file, history>>
Watching == <<watched, pending, missed>>

-----------------------------------------------------------------------------
(* One cycle: the candidate, the store, the baseline and the comparison,   *)
(* the record, the report.                                                 *)

Start(p) ==
  /\ run[p].pc \in {"idle", "done"} /\ runs < MaxRuns
  /\ \E a \in Args :
       run' = [run EXCEPT ![p] = [Idle EXCEPT !.pc = "candidate", !.args = a, !.cycle = 1]]
  /\ runs' = runs + 1
  /\ missed' = [missed EXCEPT ![p] = FALSE]
  /\ UNCHANGED <<Outside, Ledger, watched, pending, troubles>>

\* A cycle that ends, with a verdict or an error: the first one of a watch goes
\* on to register its watches unless it failed, the others wait again.
After(p, verdict) ==
  IF ~run[p].args.watch \/ (run[p].cycle = 1 /\ verdict = "error") THEN "done"
  ELSE IF run[p].cycle = 1 THEN "register" ELSE "waiting"

\* A run that is over keeps only its exit code.
End(p, verdict) ==
  run' = [run EXCEPT ![p] =
            IF After(p, verdict) = "done" THEN [Idle EXCEPT !.pc = "done", !.verdict = verdict]
            ELSE [@ EXCEPT !.pc = After(p, verdict), !.verdict = verdict]]

LoadCandidate(p) ==
  /\ run[p].pc = "candidate"
  /\ IF input["new"] = Missing THEN End(p, "error")
     ELSE run' = [run EXCEPT ![p] = [@ EXCEPT !.pc = "ledger", !.read["new"] = input["new"]]]
  /\ UNCHANGED <<Outside, Ledger, Watching, runs, troubles>>

\* The store is read, or new, and checked; then --max-live-versions and
\* --retire-version apply to the copy in memory.
\* Mutant (LoadedLax): a store that does not parse counts as a new one.
LoadedLax == IF file.kind = "store" THEN file.store ELSE NewStore
Loaded == file.store
Refused == file.kind = "corrupt" \/ ~Integrity(file.store)

Capped(store, a) == IF a.cap = NoCap THEN store ELSE [store EXCEPT !.cap = a.cap]
Retired(store, a) == IF a.retire = NoId THEN store ELSE RetireVersion(store, a.retire)

\* Mutant (OpenStoreLax): LoadedLax.
OpenStoreLax(p) ==
  /\ run[p].pc = "ledger"
  /\ LET a == run[p].args
     IN  IF a.retire # NoId /\ a.retire \notin Ids(LoadedLax)
         THEN End(p, "error")
         ELSE run' = [run EXCEPT ![p] =
                        [@ EXCEPT !.pc = "compare", !.history = history,
                                  !.store = Retired(Capped(LoadedLax, a), a)]]
  /\ UNCHANGED <<Outside, Ledger, Watching, runs, troubles>>
OpenStore(p) ==
  /\ run[p].pc = "ledger"
  /\ LET a == run[p].args
     IN  IF Refused \/ (a.retire # NoId /\ a.retire \notin Ids(Loaded))
         THEN End(p, "error")
         ELSE run' = [run EXCEPT ![p] =
                        [@ EXCEPT !.pc = "compare", !.history = history,
                                  !.store = Retired(Capped(Loaded, a), a)]]
  /\ UNCHANGED <<Outside, Ledger, Watching, runs, troubles>>

\* The baseline is read last. In lockfile mode the baseline is the interface
\* in the lockfile, and the lineage store is not consulted.
Judged(p, old) ==
  LET r == run[p]
  IN  IF /\ DirectSafe(old, r.read["new"], r.args)
         /\ r.args.lockfile \/ LineageSafe(r.store, r.read["new"], r.args)
      THEN "safe" ELSE "unsafe"

CannotJudge(p) == input["old"] = Missing \/ (~run[p].args.lockfile /\ ValidationFails(run[p].store))

Compare(p) ==
  /\ run[p].pc = "compare"
  /\ IF CannotJudge(p) THEN End(p, "error")
     ELSE run' = [run EXCEPT ![p] =
                    [@ EXCEPT !.pc = IF run[p].args.record = NoId THEN "render" ELSE "record",
                              !.read["old"] = input["old"], !.verdict = Judged(p, input["old"])]]
  /\ UNCHANGED <<Outside, Ledger, Watching, runs, troubles>>

-----------------------------------------------------------------------------
\* The candidate is recorded whatever the verdict; the file is replaced at once
\* (module SharedFiles has the steps). History notes what a save did.
Noted(p) ==
  LET r == run[p]
      seen == [i \in DOMAIN r.history |->
                 IF r.history[i].id = r.args.retire THEN [r.history[i] EXCEPT !.live = FALSE]
                 ELSE r.history[i]]
  IN  Append(seen, [id |-> r.args.record, build |-> r.read["new"], live |-> TRUE])

Record(p) ==
  /\ run[p].pc = "record"
  /\ LET store == RecordVersion(run[p].store, run[p].args.record, run[p].read["new"])
     IN  \/ ~Integrity(store) /\ End(p, "error") /\ UNCHANGED <<Ledger, troubles>>
         \/ /\ Integrity(store) /\ troubles < MaxTroubles
            /\ troubles' = troubles + 1
            /\ End(p, "error") /\ UNCHANGED Ledger
         \/ /\ Integrity(store)
            /\ file' = [kind |-> "store", store |-> store]
            /\ history' = Noted(p)
            /\ run' = [run EXCEPT ![p] = [@ EXCEPT !.pc = "render", !.store = store]]
            /\ UNCHANGED troubles
  /\ UNCHANGED <<Outside, Watching, runs>>

\* The outputs are written last: the run can still fail after it has recorded.
Render(p) ==
  /\ run[p].pc = "render"
  /\ \/ End(p, run[p].verdict) /\ UNCHANGED troubles
     \/ /\ troubles < MaxTroubles /\ troubles' = troubles + 1
        /\ End(p, "error")
  /\ UNCHANGED <<Outside, Ledger, Watching, runs>>

-----------------------------------------------------------------------------
(* run_watch_mode.                                                         *)

\* A path that does not exist cannot be watched: a warning.
Register(p) ==
  /\ run[p].pc = "register"
  /\ watched' = [watched EXCEPT ![p] = {s \in Sides : input[s] # Missing}]
  /\ run' = [run EXCEPT ![p].pc = "waiting"]
  /\ UNCHANGED <<Outside, Ledger, pending, missed, runs, troubles>>

\* The burst is drained before the cycle; then both files must exist, or 30
\* seconds pass.
Wake(p) ==
  /\ run[p].pc = "waiting" /\ pending[p]
  /\ pending' = [pending EXCEPT ![p] = FALSE]
  /\ run' = [run EXCEPT ![p].pc = "reappear"]
  /\ UNCHANGED <<Outside, Ledger, watched, missed, runs, troubles>>

\* Mutant (CycleReading): the cycle keeps the candidate it had read.
CycleReading(p) ==
  /\ run[p].pc = "reappear"
  /\ run' = [run EXCEPT ![p] = [@ EXCEPT !.pc = "ledger", !.cycle = 2, !.verdict = "none"]]
  /\ UNCHANGED <<Outside, Ledger, Watching, runs, troubles>>
Cycle(p) ==
  /\ run[p].pc = "reappear"
  /\ run' = [run EXCEPT ![p] = [@ EXCEPT !.pc = "candidate", !.cycle = 2, !.verdict = "none"]]
  /\ UNCHANGED <<Outside, Ledger, Watching, runs, troubles>>

\* SIGTERM is looked at between cycles; before the loop it kills.
Stop(p) ==
  /\ run[p].pc \in {"waiting", "reappear"}
  /\ run' = [run EXCEPT ![p] = Idle]
  /\ watched' = [watched EXCEPT ![p] = {}] /\ pending' = [pending EXCEPT ![p] = FALSE]
  /\ UNCHANGED <<Outside, Ledger, missed, runs, troubles>>

Kill(p) ==
  /\ run[p].pc \notin {"idle", "done"} /\ troubles < MaxTroubles
  /\ troubles' = troubles + 1
  /\ run' = [run EXCEPT ![p] = Idle]
  /\ watched' = [watched EXCEPT ![p] = {}] /\ pending' = [pending EXCEPT ![p] = FALSE]
  /\ UNCHANGED <<Outside, Ledger, missed, runs>>

-----------------------------------------------------------------------------
(* The outside.                                                            *)

Started(p) == run[p].args.watch /\ run[p].pc \notin {"idle", "done"}

Changed(s, b) ==
  /\ edits < MaxEdits /\ edits' = edits + 1
  /\ input[s] # b /\ input' = [input EXCEPT ![s] = b]
  /\ pending' = [p \in Procs |-> pending[p] \/ s \in watched[p]]
  /\ missed' = [p \in Procs |-> missed[p] \/ (Started(p) /\ s \notin watched[p])]
  /\ UNCHANGED <<Ledger, run, runs, troubles>>

\* A file is written in place, so that its watch goes on.
Rewrite(s) == \E b \in Builds : input[s] # Missing /\ Changed(s, b) /\ UNCHANGED watched

\* A file is removed, or another renamed over it: the watch was on the file.
Unlink(s) ==
  /\ input[s] # Missing
  /\ \E b \in Builds \cup {Missing} : Changed(s, b)
  /\ watched' = [p \in Procs |-> watched[p] \ {s}]

Recreate(s) == \E b \in Builds : input[s] = Missing /\ Changed(s, b) /\ UNCHANGED watched

\* The store is edited by hand: an entry removed, its spec taken out or damaged,
\* the policy set, the file damaged.
Without(s, i) == [j \in 1..(Len(s) - 1) |-> IF j < i THEN s[j] ELSE s[j + 1]]

EditStore ==
  /\ file.kind = "store" /\ troubles < MaxTroubles /\ troubles' = troubles + 1
  /\ \/ \E i \in DOMAIN file.store.records :
          /\ file' = [file EXCEPT !.store.records = Without(@, i)]
          /\ history' = Without(history, i)
     \/ \E i \in DOMAIN file.store.records, b \in Damaged :
          /\ file' = [file EXCEPT !.store.records[i].build = b]
          /\ history' = [history EXCEPT ![i].build = b]
     \/ /\ \/ \E id \in Ids(file.store) : file' = [file EXCEPT !.store.before = id]
           \/ file' = [file EXCEPT !.store.allowRetired = TRUE, !.store.cap = NoCap]
           \/ file' = [file EXCEPT !.kind = "corrupt"]
        /\ UNCHANGED history
  /\ UNCHANGED <<input, run, Watching, runs, edits>>

Step(p) ==
  \/ Start(p) \/ LoadCandidate(p) \/ OpenStore(p) \/ Compare(p) \/ Record(p) \/ Render(p)
  \/ Register(p) \/ Wake(p) \/ Cycle(p) \/ Stop(p) \/ Kill(p)

Next ==
  \/ \E p \in Procs : Step(p)
  \/ \E s \in Sides : Rewrite(s) \/ Unlink(s) \/ Recreate(s)
  \/ EditStore

Spec == Init /\ [][Next]_vars

-----------------------------------------------------------------------------
\* A store the tool wrote can be read by the tool, whatever was recorded twice
\* or edited between (validate_integrity, save_to_path).
TypeOK ==
  /\ input \in [Sides -> Builds \cup {Missing}]
  /\ file.kind \in {"absent", "store", "corrupt"}
  /\ \A p \in Procs :
       /\ run[p].pc \in {"idle", "candidate", "ledger", "compare", "record", "render", "register",
                         "waiting", "reappear", "done"}
       /\ run[p].verdict \in {"none", "safe", "unsafe", "error"}
       /\ watched[p] \subseteq Sides /\ pending[p] \in BOOLEAN

\* The versions a run has to check: those its store's file had recorded when it
\* was read, less the retired ones, from the cutoff on, the last `cap` of them.
Required(r) ==
  LET h == r.history
      Counts(i) ==
        /\ (h[i].live /\ h[i].id # r.args.retire) \/ r.store.allowRetired
        /\ \A j \in DOMAIN h : h[j].id = r.store.before => j <= i
  IN  {i \in DOMAIN h :
         /\ Counts(i)
         /\ r.store.cap # NoCap => Cardinality({j \in DOMAIN h : j > i /\ Counts(j)}) < r.store.cap}

\* Where storage layout is gated, a candidate judged safe decodes the data of
\* every recorded version that is still live, not only of its predecessor,
\* whatever was retired, capped, removed by hand or recorded in between, unless
\* the version's interface was taken out of the store or made unreadable by hand
\* (validate_candidate_against_lineage, apply_lineage_report).
HistoryChecked ==
  \A p \in Procs :
    LET r == run[p]
    IN  r.verdict = "safe" /\ ~r.args.lockfile /\ "storage_layout" \in r.args.gated
          => \A i \in Required(r) :
               \/ r.history[i].build \in Damaged
               \/ LayoutKept(r.history[i].build, r.read["new"])
               \/ "layout" \in r.args.rules

\* Whatever was recorded, retired or removed by hand before, the file keeps the
\* rules that a store is loaded by, and a release whose id is not in the store
\* can be recorded: only an id that the store holds is refused (record_version).
FreshRecorded ==
  /\ TypeOK /\ Integrity(file.store)
  /\ \A p \in Procs :
       run[p].pc = "record" /\ run[p].args.record \notin Ids(run[p].store)
         => Integrity(RecordVersion(run[p].store, run[p].args.record, run[p].read["new"]))

\* A save keeps every version that was in the file when its run read it; what
\* a concurrent run recorded since then is overwritten (save_to_path).
SaveKeeps ==
  [][\A p \in Procs :
       run[p].pc = "record" /\ run'[p].pc = "render" =>
         {run[p].history[i].id : i \in DOMAIN run[p].history} \subseteq Ids(file'.store)]_vars

\* A watcher that waits has judged the builds that are there, unless one was
\* changed while nothing watched its file (run_watch_mode).
JudgedCurrent ==
  \A p \in Procs :
    run[p].pc = "waiting" /\ ~pending[p] /\ ~missed[p] /\ run[p].verdict # "error"
      => run[p].read = input

\* docs/lineage-walkthrough.md: "Historical findings count toward the verdict
\* in the same way as direct findings." A candidate that is safe against its
\* predecessor and against every live version is safe.
CountsTheSame ==
  \A p \in Procs :
    LET r == run[p]
    IN  r.pc = "render" /\ r.verdict = "unsafe" /\ ~r.args.lockfile =>
          \/ ~DirectSafe(r.read["old"], r.read["new"], r.args)
          \/ \E i \in Required(r) :
               /\ r.history[i].build \in Builds
               /\ ~DirectSafe(r.history[i].build, r.read["new"], r.args)
=============================================================================
