------------------------------ MODULE Verdict ------------------------------
(***************************************************************************)
(* From findings to the verdict: the audit of declared migrations          *)
(* (contract_migration::audit) and with_suppressions_with_specs of         *)
(* report.rs, which puts each finding on the compatibility axes, applies   *)
(* the suppression rules and decides is_safe.                              *)
(*                                                                         *)
(* No budget is configured, no claim is pinned to a change and no rule to  *)
(* a fingerprint.  The directional call-ABI comparison is its outcome, as  *)
(* CallFlow defines it and the walk of module CallAbi computes it.         *)
(***************************************************************************)
EXTENDS SpecDiff, CallFlow

Relations == INSTANCE Relation

CONSTANT Configs  \* the configurations: [gated, strict, rules, migrations, empirical]

Axis == {"storage_layout", "call_abi", "event_indexer", "source_level", "runtime_surface"}

ASSUME ConfigsAssumption ==
    \A c \in Configs : c.gated \subseteq Axis /\ c.strict \in BOOLEAN

VARIABLES
    phase,    \* "comparing", "audited" or "judged"
    config,   \* the configuration in force
    covered,  \* the findings a verified migration covers
    verdict   \* the status of each axis, and is_safe

verdictVars == <<phase, config, covered, verdict>>

allVars == <<vars, verdictVars>>

-----------------------------------------------------------------------------
(***************************************************************************)
(* classify_finding_axes.                                                  *)
(***************************************************************************)
\* references_type: whether type b occurs in type a, at any depth.
Occurs(spec) ==
    Relations!ReflexiveTransitiveClosure(
        [a, b \in Type |-> a \in DOMAIN spec.types /\ b \in Refs(spec.types[a])], Type)

UsedInFunctions(t, spec) ==
    \E f \in DOMAIN spec.fns :
        LET fn == spec.fns[f]
        IN  \E r \in MemberRefs(fn.inputs) \cup (UNION {DirectRefs[fn.outputs[i]] : i \in DOMAIN fn.outputs}) :
                r \in Type /\ Occurs(spec)[r, t]

UsedInEvents(t, spec) ==
    \/ IsEvent(t)
    \/ \E e \in (OfKind(spec, "struct") \cup OfKind(spec, "union")) \cap EventType : Occurs(spec)[e, t]

CallCategories ==
    {"Function Removed", "Function Added", "Function Signature Changed", "Parameter Reordered",
     "Parameter Type Changed", "Return Type Changed", "Map Key Type Changed", "Map Value Type Changed",
     "Error Enum Removed", "Error Enum Added", "Error Enum Case Removed",
     "Error Enum Case Value Changed", "Error Enum Case Added"}

EventCategories ==
    {"Event Definition Removed", "Event Field Removed", "Event Field Reordered",
     "Event Field Type Changed", "Event Enum Removed", "Event Enum Case Removed",
     "Event Enum Case Value Changed", "Event Enum Case Added"}

LayoutCategories ==
    {"Struct Removed", "Struct Field Removed", "Struct Field Inserted", "Struct Field Reordered",
     "Struct Field Type Changed", "Enum Removed", "Enum Case Removed", "Enum Case Value Changed",
     "Union Removed", "Union Case Removed", "Union Case Reordered", "Union Case Type Changed",
     "Cascading Layout Break", "Type Kind Changed"}

DocCategories == {"Struct Documentation Changed", "Enum Documentation Changed"}

\* The axes of a finding about a type that no category decides alone.
TypeAxes(f) ==
    {a \in Axis :
        \/ a = "call_abi" /\ \E s \in {old, new} : UsedInFunctions(f.type, s)
        \/ a = "event_indexer" /\ \E s \in {old, new} : UsedInEvents(f.type, s)
        \/ a = "storage_layout" /\ f.cat \in LayoutCategories
        \/ a = "source_level" /\ f.cat \in DocCategories}

Axes(f) ==
    IF f.cat \in CallCategories THEN {"call_abi"}
    ELSE IF f.cat = "Parameter Renamed" THEN {"source_level"}
    ELSE IF f.cat \in EventCategories THEN {"event_indexer"}
    ELSE IF f.type = NoType \/ TypeAxes(f) = {} THEN {"storage_layout"}
    ELSE TypeAxes(f)

\* A cascade takes the axes of the first finding whose target is its root: one
\* of the earlier passes if any is about the whole type, else another cascade.
ReportedAxes(f) ==
    LET about == {g \in findings : f.root # NoType /\ g.target = <<f.root>>}
        first == IF \E g \in about : g.root = NoType THEN {g \in about : g.root = NoType} ELSE about
    IN  IF about = {} THEN Axes(f) ELSE Axes(CHOOSE g \in first : TRUE)

-----------------------------------------------------------------------------
(***************************************************************************)
(* The audit of migrations.  A claim is [cat, target].                     *)
(***************************************************************************)
NeedsMigration(f) == f.sev \in {"critical", "warning"}

Verified(c) == {m \in c.migrations : m.applies /\ m.runs_before_read /\ m.migrates # {}}

\* Every claim on a finding, by the migration and the place of the claim in it.
Claimants(c, f) ==
    UNION {{<<m, i>> : i \in {k \in DOMAIN m.covers :
                                 /\ m.covers[k] = [cat |-> f.cat, target |-> f.target]
                                 /\ f.type \in m.migrates}} : m \in Verified(c)}

\* A finding claimed twice is covered by neither claim.
DirectlyCovered(c) == {f \in findings : Cardinality(Claimants(c, f)) = 1}

BreakingOn(t) == {f \in findings : f.type = t /\ NeedsMigration(f)}

\* Mutant: one claimed finding on the root is enough.
InheritedFromAny(direct) ==
    {f \in findings : f.root # NoType /\ BreakingOn(f.root) \cap direct # {}}

\* inherit_through_cascades: one pass, over the direct claims.
Inherited(direct) ==
    {f \in findings : f.root # NoType /\ BreakingOn(f.root) # {} /\ BreakingOn(f.root) \subseteq direct}

\* Mutant: keeps what was claimed, whether or not a finding matches.
CoverageClaimed(c) == UNION {{m.covers[i] : i \in DOMAIN m.covers} : m \in Verified(c)}

Coverage(c) == DirectlyCovered(c) \cup Inherited(DirectlyCovered(c))

\* The configuration is first consulted here, so it is chosen here.
Audit ==
    /\ stage = "compared"
    /\ phase = "comparing"
    /\ \E c \in Configs :
          /\ config' = c
          /\ covered' = Coverage(c)
    /\ phase' = "audited"
    /\ UNCHANGED <<vars, verdict>>

-----------------------------------------------------------------------------
(***************************************************************************)
(* Suppressions, axis verdicts and is_safe.                                *)
(***************************************************************************)
HasRule(f) == [cat |-> f.cat, target |-> f.target] \in config.rules

SuppressedRoots == {f.type : f \in {g \in findings : g.root = NoType /\ HasRule(g)}} \ {NoType}

\* Mutant: a rule for one finding of a type hides the type's others.
SuppressedWithType(f) ==
    (HasRule(f) \/ f.type \in SuppressedRoots \/ f.root \in SuppressedRoots) /\ f \notin covered

Suppressed(f) == (HasRule(f) \/ f.root \in SuppressedRoots) /\ f \notin covered

Open == {f \in findings : f.sev # "info" /\ f \notin covered /\ ~Suppressed(f)}

Gated(a) == config.strict \/ a \in config.gated

Fails(f, a) == IF f.sev = "critical" THEN Gated(a) ELSE config.strict

Status(a, abi) ==
    LET on == {f \in Open : a \in ReportedAxes(f)}
        directional == /\ a = "call_abi"
                       /\ ~abi
                       /\ findings = {} \/ on # {}
    IN  IF directional THEN (IF Gated(a) THEN "failed" ELSE "warning")
        ELSE IF \E f \in on : Fails(f, a) THEN "failed"
        ELSE IF on # {} THEN "warning"
        ELSE "passed"

Judge ==
    /\ phase = "audited"
    /\ LET abi == CallsAgree(old, new) /\ CallsAgree(new, old)
           status == [a \in Axis |-> Status(a, abi)]
       IN  verdict' = [status |-> status,
                       is_safe |-> \A a \in Axis : status[a] # "failed",
                       abi |-> abi]
    /\ phase' = "judged"
    /\ UNCHANGED <<vars, config, covered>>

-----------------------------------------------------------------------------
VerdictInit ==
    /\ Init
    /\ phase = "comparing"
    /\ config = CHOOSE c \in Configs : TRUE
    /\ covered = {}
    /\ verdict = [status |-> [a \in Axis |-> "passed"], is_safe |-> FALSE, abi |-> TRUE]

Compare == Next /\ UNCHANGED verdictVars

VerdictNext == Compare \/ Audit \/ Judge

\* The whole pipeline is one synchronous computation.
VerdictSpec == VerdictInit /\ [][VerdictNext]_allVars /\ WF_allVars(VerdictNext)

-----------------------------------------------------------------------------
VerdictTypeOK ==
    /\ phase \in {"comparing", "audited", "judged"}
    /\ config \in Configs
    /\ covered \subseteq findings
    /\ verdict.status \in [Axis -> {"passed", "warning", "failed"}]
    /\ verdict.is_safe \in BOOLEAN

Handled(f) == HasRule(f) \/ f \in covered

OwnBreaks(t) == {f \in findings : f.type = t /\ f.root = NoType /\ f.sev = "critical"}

\* What a caller relies on: the function, its parameter and its result types.
SignatureKept(f) ==
    /\ f \in DOMAIN new.fns
    /\ LET o == old.fns[f]  n == new.fns[f]
       IN  /\ Len(o.inputs) = Len(n.inputs)
           /\ \A i \in DOMAIN o.inputs : o.inputs[i].ty = n.inputs[i].ty
           /\ o.outputs = n.outputs

CallBreaks(fn) == {f \in findings : f.type = NoType /\ f.target[1] = fn /\ f.sev = "critical"}

\* A resized BytesN of a type that an event carries counts as the event's change.
OfAnEvent(f) == f.cat = "BytesN Size Changed" /\ \E spec \in {old, new} : UsedInEvents(f.type, spec)

\* Where storage and calls are gated, a safe verdict means that every stored
\* type of the old build keeps its layout or has breaks of its own, each of them
\* suppressed by a rule or covered by a migration, and likewise every function.
\* The resizes that only events gate are left to StoredDataSafe.
\* (report.rs: with_suppressions_with_specs over diff.rs: compare.)
SafeMeansHandled ==
    phase = "judged" /\ verdict.is_safe /\ Gated("storage_layout") /\ Gated("call_abi") =>
        /\ \A t \in DOMAIN old.types : LayoutKept(old, new, t) \/ OwnBreaks(t) # {}
        /\ \A t \in (DOMAIN old.types) \ EventType : \A f \in OwnBreaks(t) : Handled(f) \/ OfAnEvent(f)
        /\ \A fn \in DOMAIN old.fns : SignatureKept(fn) \/ CallBreaks(fn) # {}
        /\ \A fn \in DOMAIN old.fns : \A f \in CallBreaks(fn) : Handled(f)

\* Two builds with the same functions, whose old types all keep their layout
\* and whose calls are compatible, are safe unless --strict is given: an
\* addition is no break.  (report.rs: with_suppressions_with_specs.)
NoFalseAlarm ==
    /\ phase = "judged"
    /\ ~config.strict
    /\ verdict.abi
    /\ \A fn \in DOMAIN old.fns : fn \in DOMAIN new.fns /\ old.fns[fn].inputs = new.fns[fn].inputs
                                    /\ old.fns[fn].outputs = new.fns[fn].outputs
    /\ \A t \in DOMAIN old.types : LayoutKept(old, new, t)
    => verdict.is_safe

\* The verdict errs in neither direction: what is broken is handled, and what is
\* not broken is not held back.  (report.rs: with_suppressions_with_specs.)
VerdictExact == SafeMeansHandled /\ NoFalseAlarm

\* A half-migrated type stays broken: a migration covers a type's cascades only
\* when it covers every breaking finding on that type; anything else it covers
\* it names, on a type it declares, having attested its ordering.
\* (contract_migration.rs: audit, record_claim, inherit_through_cascades.)
MigrationsHonest ==
    phase \in {"audited", "judged"} =>
        \A f \in covered :
            \/ f.root # NoType /\ BreakingOn(f.root) \subseteq covered
            \/ \E m \in Verified(config) :
                  /\ f.type \in m.migrates
                  /\ \E i \in DOMAIN m.covers : m.covers[i] = [cat |-> f.cat, target |-> f.target]

-----------------------------------------------------------------------------
\* Stated by docs/multi_axis_compatibility.md: with storage gated and nothing
\* acknowledged, a safe verdict means that no type but an event is broken.
StoredDataSafe ==
    phase = "judged" /\ verdict.is_safe /\ Gated("storage_layout") /\ config.rules = {} /\ covered = {} =>
        Broken \subseteq EventType

\* Stated by contract_migration.rs: a cascade is covered if every breaking
\* finding on its root is.
InheritsWhenRootCovered ==
    phase \in {"audited", "judged"} =>
        \A f \in findings :
            f.root # NoType /\ BreakingOn(f.root) # {} /\ BreakingOn(f.root) \subseteq covered => f \in covered
=============================================================================
