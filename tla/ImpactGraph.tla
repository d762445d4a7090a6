----------------------------- MODULE ImpactGraph -----------------------------
(***************************************************************************)
(* The graph of what an upgrade touches: src/impact_graph.rs.               *)
(*                                                                         *)
(* The identity of a node is <<kind, name>>. A finding is                   *)
(* [target, prefix, typeName, axes, cascade, root, policy]: the name it     *)
(* targets, the part of it before a dot, the type and the root of a cascade *)
(* it names, and the first rule that matches it. Findings come in the order *)
(* of their category, target and message, which numbers them.               *)
(***************************************************************************)
EXTENDS Interfaces
LOCAL INSTANCE SequencesExt

CONSTANTS EventName,   \* the names that contain "event"
          KindOrder    \* the kinds of node, in the order of strings

NoName == ""

KindOfUdt(name) == IF name \in EventName THEN "event" ELSE "type"

Functions(spec) == {k[2] : k \in DOMAIN spec \ Udts(spec)}
Storages(schema) == {schema[i] : i \in DOMAIN schema}

\* name_kind: the first that takes a name keeps it.
KindOf(r, name) ==
    IF name \in Functions(r.old) THEN "function"
    ELSE IF name \in Known(r.old) THEN KindOfUdt(name)
    ELSE IF name \in Functions(r.new) THEN "function"
    ELSE IF name \in Known(r.new) THEN KindOfUdt(name)
    ELSE IF name \in Storages(r.oldSchema) \cup Storages(r.newSchema) THEN "storage"
    ELSE NoName

Declared(spec, schema) ==
    {<<"function", f>> : f \in Functions(spec)}
      \cup {<<KindOfUdt(t), t>> : t \in Known(spec)}
      \cup {<<"storage", s>> : s \in Storages(schema)}

FindingId(i) == <<"finding", ToString(i)>>

\* Where an undeclared type is taken for a type.
NodeOf(r, name) == <<IF KindOf(r, name) = NoName THEN "type" ELSE KindOf(r, name), name>>

\* resolve_target_node
Resolved(r, finding) ==
    LET known == {n \in {finding.typeName, finding.target, finding.prefix} : KindOf(r, n) # NoName}
    IN  IF finding.typeName \in known THEN {NodeOf(r, finding.typeName)}
        ELSE IF finding.target \in known THEN {NodeOf(r, finding.target)}
        ELSE IF finding.prefix \in known THEN {NodeOf(r, finding.prefix)}
        ELSE {}

Edge(kind, source, target) == [kind |-> kind, source |-> source, target |-> target]

\* build_reverse_dependencies: of both builds, one hop each.
DependsOn(r) ==
    LET Embeds(spec) == UNION {{<<k[2], t>> : t \in RefsOf(MemberTypes(spec[k].members))} :
                                 k \in {u \in DOMAIN spec : u[1] \in Embedding}}
    IN  {Edge("depends_on", NodeOf(r, p[1]), NodeOf(r, p[2])) : p \in Embeds(r.old) \cup Embeds(r.new)}

EdgesOfFinding(r, i) ==
    LET f == r.findings[i]
    IN  {Edge("references", FindingId(i), t) : t \in Resolved(r, f)}
          \cup (IF f.cascade /\ {KindOf(r, f.root), KindOf(r, f.typeName)} \cap {NoName} = {}
                THEN {Edge("cascades", NodeOf(r, f.root), NodeOf(r, f.typeName))} ELSE {})
          \cup (IF f.policy # NoName
                THEN {Edge("references", <<"policy", f.policy>>, FindingId(i))} ELSE {})

Told(r) == UNION {Resolved(r, r.findings[i]) : i \in DOMAIN r.findings}

Status(r, id) ==
    LET old == id \in Declared(r.old, r.oldSchema)
        new == id \in Declared(r.new, r.newSchema)
    IN  IF ~old /\ ~new THEN "not applicable"
        ELSE IF ~new THEN "removed" ELSE IF ~old THEN "added"
        ELSE IF id \in Told(r) THEN "changed" ELSE "retained"

AxesOf(r, id) ==
    UNION {r.findings[i].axes :
             i \in {j \in DOMAIN r.findings : id = FindingId(j) \/ id \in Resolved(r, r.findings[j])}}

AllIds(r) ==
    Declared(r.old, r.oldSchema) \cup Declared(r.new, r.newSchema)
      \cup {FindingId(i) : i \in DOMAIN r.findings}
      \cup {<<"policy", r.findings[i].policy>> : i \in {j \in DOMAIN r.findings :
                                                         r.findings[j].policy # NoName}}
AllEdges(r) == DependsOn(r) \cup UNION {EdgesOfFinding(r, i) : i \in DOMAIN r.findings}

\* Only which nodes are cut depends on the order of their identities.
IdBefore(a, b) ==
    LET kind(id) == SelectInSeq(KindOrder, LAMBDA k : k = id[1])
    IN  kind(a) < kind(b) \/ (kind(a) = kind(b) /\ a # b /\ Before(a[2], b[2]))
Kept(ids, max) ==
    {id \in ids : Cardinality({other \in ids : IdBefore(other, id)}) < max}

\* The edges that are kept of too many: in the order of their identities, which
\* start with the kind.
EdgeBefore(a, b) ==
    LET kind(e) == SelectInSeq(<<"cascades", "depends_on", "references">>, LAMBDA k : k = e.kind)
    IN  \/ kind(a) < kind(b)
        \/ kind(a) = kind(b) /\ IdBefore(a.source, b.source)
        \/ kind(a) = kind(b) /\ a.source = b.source /\ IdBefore(a.target, b.target)
KeptEdges(edges, max) ==
    {e \in edges : Cardinality({other \in edges : EdgeBefore(other, e)}) < max}

\* The ends of the edges are checked whenever anything was cut (KeptEndsOfNodes:
\* only where an edge starts).
KeptEndsOfNodes(truncated, edges, ids) ==
    {e \in edges : truncated => e.source \in ids}
KeptEnds(truncated, edges, ids) ==
    {e \in edges : truncated => {e.source, e.target} \subseteq ids}

BuildImpactGraph(r) ==
    LET ids == Kept(AllIds(r), r.maxNodes)
        edges == KeptEdges(AllEdges(r), r.maxEdges)
        truncated == ids # AllIds(r) \/ edges # AllEdges(r)
    IN  [nodes |-> {[id |-> id, status |-> Status(r, id), axes |-> AxesOf(r, id)] : id \in ids},
         edges |-> KeptEnds(truncated, edges, ids), truncated |-> truncated,
         totalNodes |-> Cardinality(AllIds(r)), totalEdges |-> Cardinality(AllEdges(r))]

\* build_call_graph: the last of the dependencies between two contracts stands.
BuildCallGraph(dependencies) ==
    [pair \in {<<dependencies[i].caller, dependencies[i].callee>> : i \in DOMAIN dependencies} |->
        dependencies[SelectLastInSeq(dependencies, LAMBDA d : <<d.caller, d.callee>> = pair)].functions]

=============================================================================
