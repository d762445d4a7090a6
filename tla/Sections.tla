------------------------------ MODULE Sections ------------------------------
(***************************************************************************)
(* The report once the findings of the two interfaces are judged (module    *)
(* Verdict): the budgets that end the judgement, and the sections that      *)
(* amend the report afterwards (src/report.rs), in the order of the         *)
(* library, of the bindings and of the command line.                        *)
(*                                                                          *)
(* A report is [safe, axes, critical, warning, info, total, suppressed,     *)
(* over, complexity, manifest, samples]: the verdict, the status of each    *)
(* axis, the counters, the budgets exceeded, the complexity budgets         *)
(* exceeded, what of the build manifest gates, and whether a sampled value  *)
(* did not decode. An axis is "passed", "warning" or "failed".              *)
(***************************************************************************)
EXTENDS Integers, Sequences, FiniteSets

CONSTANT Axis

\* The settings of one comparison: the gated axes and --strict.
Gates(settings, axis) == settings.strict \/ axis \in settings.gated

Counted(report, severity, suppressed) ==
    [report EXCEPT ![severity] = @ + 1,
                   !.total = @ + 1,
                   !.suppressed = IF suppressed THEN @ + 1 ELSE @]

Fails(report, axis) ==
    [report EXCEPT !.safe = FALSE, !.axes[axis] = "failed"]

\* The end of with_suppressions_with_specs: `axes` is what its findings made of
\* the axes, `over` the budgets they exceed.
Judged(axes, counts, over) ==
    [safe |-> (\A a \in Axis : axes[a] # "failed") /\ over = {},
     axes |-> axes, over |-> over, complexity |-> {}, manifest |-> {}, samples |-> FALSE,
     critical |-> counts.critical, warning |-> counts.warning, info |-> counts.info,
     total |-> counts.total, suppressed |-> counts.suppressed]

\* SafetyReport::noop, for two builds with the same bytes.
Noop(counts) == Judged([a \in Axis |-> "passed"], [c \in DOMAIN counts |-> 0], {})

\* What one comparison hands over to the report.
IsList(s) == s \in Seq({s[i] : i \in DOMAIN s})
IsInput(in) ==
    /\ DOMAIN in.axes = Axis
    /\ IsList(in.mismatches) /\ IsList(in.history)
    /\ \A i \in DOMAIN in.history :
          in.history[i].severity \in {"critical", "warning", "info"} /\ in.history[i].axes \subseteq Axis
    /\ IsFiniteSet(DOMAIN in.fields)

------------------------------------------------------------------------------
(* apply_storage_schema_comparison *)

\* A mismatch is [suppressed]; each is critical and of the storage axis.
\* Mutant (ApplyMismatchSilently): the verdict is changed and the axis is not.
ApplyMismatchSilently(report, mismatch, settings) ==
    LET counted == Counted(report, "critical", mismatch.suppressed)
    IN  IF ~mismatch.suppressed /\ Gates(settings, "storage_layout")
        THEN [counted EXCEPT !.safe = FALSE]
        ELSE counted

ApplyMismatch(report, mismatch, settings) ==
    LET counted == Counted(report, "critical", mismatch.suppressed)
    IN  IF ~mismatch.suppressed /\ Gates(settings, "storage_layout")
        THEN Fails(counted, "storage_layout")
        ELSE counted

ApplyStorage(report, mismatches, settings) ==
    LET after[i \in 0 .. Len(mismatches)] ==
            IF i = 0 THEN report ELSE ApplyMismatch(after[i - 1], mismatches[i], settings)
    IN  after[Len(mismatches)]

------------------------------------------------------------------------------
(* apply_lineage_report *)

\* A historical finding is [severity, axes, suppressed]; the lineage validation
\* has a verdict of its own, which does not look at the axes that are gated.
Clean(history, settings) ==
    \A i \in DOMAIN history : ~history[i].suppressed =>
        /\ history[i].severity = "critical" =>
              ~Gates(settings, "storage_layout") /\ "storage_layout" \notin history[i].axes
        /\ history[i].severity = "warning" => ~settings.strict

ApplyHistorical(report, h, settings) ==
    LET counted == Counted(report, h.severity, h.suppressed)
        hit == {a \in h.axes : Gates(settings, a)}
    IN  IF h.suppressed \/ hit = {} THEN counted
        ELSE [counted EXCEPT !.safe = FALSE,
                             !.axes = [a \in Axis |-> IF a \in hit THEN "failed" ELSE @[a]]]

ApplyLineage(report, history, settings) ==
    LET after[i \in 0 .. Len(history)] ==
            IF i = 0 THEN [report EXCEPT !.safe = @ /\ Clean(history, settings)]
            ELSE ApplyHistorical(after[i - 1], history[i], settings)
    IN  after[Len(history)]

------------------------------------------------------------------------------
(* apply_complexity, the samples and apply_manifest_verification *)

\* A module that cannot be profiled leaves the section out.
ApplyComplexity(report, profiled, exceeded) ==
    IF profiled THEN [report EXCEPT !.safe = @ /\ exceeded = {}, !.complexity = exceeded]
    ELSE report

ApplySamples(report, undecodable) ==
    [report EXCEPT !.safe = @ /\ ~undecodable, !.samples = undecodable]

\* A field of a manifest is [declared, observed], with Unknown for one that is
\* left out or not seen. Feature lists are compared as sets.
Unknown == "unknown"
FieldStatus(f) ==
    IF f.declared = Unknown THEN "missing"
    ELSE IF f.observed = Unknown THEN "unverified"
    ELSE IF f.declared = f.observed THEN "verified" ELSE "mismatched"

WithStatus(fields, status) == {i \in DOMAIN fields : FieldStatus(fields[i]) = status}

FullyVerified(fields, stale) ==
    WithStatus(fields, "mismatched") = {} /\ WithStatus(fields, "missing") = {} /\ ~stale

\* 0 stands for the finding that the manifest is stale.
ApplyManifest(report, fields, stale, gate) ==
    LET wrong == WithStatus(fields, "mismatched")
        told == Cardinality(wrong) + (IF stale THEN 1 ELSE 0)
    IN  [report EXCEPT !.safe = @ /\ ~(gate /\ told > 0),
                       !.warning = @ + told,
                       !.total = @ + told,
                       !.manifest = IF gate THEN wrong \cup (IF stale THEN {0} ELSE {}) ELSE {}]

------------------------------------------------------------------------------
(* The three drivers *)

\* compare_wasm_bytes_with_options
LibraryReport(judged, in) ==
    ApplyComplexity(
        ApplyLineage(ApplyStorage(judged, in.mismatches, in.settings), in.history, in.settings),
        in.profiled, in.exceeded)

\* binding_api::compare_bytes
BindingReport(judged, in) == ApplyStorage(judged, in.mismatches, in.settings)

\* main.rs compare_contracts: there is no storage schema, and no call site
\* passes a complexity budget.
CommandReport(judged, in) ==
    ApplyLineage(ApplySamples(judged, in.undecodable), in.history, in.settings)

\* recommended_bump. `documentation` says that every informational finding is
\* about documentation only.
Bump(report, callsBreak, documentation) ==
    IF report.critical > 0 \/ callsBreak THEN "major"
    ELSE IF report.warning > 0 \/ (report.info > 0 /\ ~documentation) THEN "minor"
    ELSE "patch"

------------------------------------------------------------------------------
(* A report that was saved is read back, by `render` and `attest`              *)
(* (src/render.rs), or upgraded (src/migration.rs).                            *)
(*                                                                             *)
(* A saved document is [json, version, fields, history]: what its text is, the *)
(* version it declares, its other fields, and what earlier upgrades did.       *)

LatestVersion == 1
NoHistory == [from |-> -1, steps |-> <<>>, to |-> -1]
Undeclared == -1   \* there is no version field
NoNumber == -2     \* it is not an unsigned 32-bit number
Misfit == "of another type"

Required == {"is_safe", "counts", "findings_by_category"}
Defaulted == {"axis_verdicts", "interface_hash"}

\* A field that is not known is dropped, one that may be absent gets its default.
Deserialized(doc, version, history) ==
    IF \/ ~(Required \subseteq DOMAIN doc.fields)
       \/ \E f \in DOMAIN doc.fields \cap (Required \cup Defaulted) : doc.fields[f] = Misfit
    THEN [refused |-> TRUE]
    ELSE [refused |-> FALSE, version |-> version, history |-> history,
          fields |-> [f \in Required \cup Defaulted |->
                        IF f \in DOMAIN doc.fields THEN doc.fields[f] ELSE "default"]]

\* The readers take a document without a version for a current one.
FromJson(doc) ==
    IF doc.json # "object" \/ doc.version = NoNumber \/ doc.version > LatestVersion
    THEN [refused |-> TRUE]
    ELSE Deserialized(doc, IF doc.version = Undeclared THEN LatestVersion ELSE doc.version, doc.history)

\* Each step of the registry leads from one version to another.
Migrations == <<[from |-> 0, to |-> 1]>>
DeclaredVersion(doc) == IF doc.version = Undeclared THEN 0 ELSE doc.version

Migrate(walk) ==
    LET at == {i \in DOMAIN Migrations : Migrations[i].from = walk.version}
        step == Migrations[CHOOSE i \in at : \A j \in at : i =< j]
    IN  IF walk.version >= LatestVersion \/ walk.lost THEN walk
        ELSE IF at = {} THEN [walk EXCEPT !.lost = TRUE]
        ELSE [walk EXCEPT !.version = step.to, !.steps = Append(@, step)]

UpgradeToLatest(doc) ==
    LET declared == DeclaredVersion(doc)
        after[i \in 0 .. Len(Migrations)] ==
            IF i = 0 THEN [version |-> declared, steps |-> <<>>, lost |-> FALSE] ELSE Migrate(after[i - 1])
        walk == after[Len(Migrations)]
        record == [from |-> declared, steps |-> walk.steps, to |-> LatestVersion]
    IN  IF doc.json # "object" \/ doc.version = NoNumber \/ declared > LatestVersion \/ walk.lost
        THEN [refused |-> TRUE]
        ELSE Deserialized(doc, walk.version, IF walk.steps = <<>> THEN doc.history ELSE record)

\* What is written of a report.
Saved(report) ==
    [json |-> "object", version |-> report.version, fields |-> report.fields, history |-> report.history]

==============================================================================
