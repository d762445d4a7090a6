------------------------------ MODULE SpecDiff ------------------------------
(***************************************************************************)
(* diff::compare: one pass per kind of definition, then the pass that      *)
(* replaces removal-and-addition pairs by kind changes, then the cascade   *)
(* of layout breaks through the types that embed a broken one.             *)
(*                                                                         *)
(* Findings are a set of [sev, cat, type, target, root]; a target is a     *)
(* sequence of names, "T" being <<T>> and "T.m" being <<T, m>>.  Their     *)
(* order in the report depends on hash maps within a pass, and nothing     *)
(* here depends on it; message texts are left out, and so is `change`,     *)
(* which no comparison sets.                                               *)
(***************************************************************************)
EXTENDS ContractSpecs, FiniteSets

CONSTANT Pairs  \* the pairs of specifications to compare

ASSUME PairsAssumption ==
    \A p \in Pairs : DOMAIN p = {"old", "new"} /\ IsSpec(p.old) /\ IsSpec(p.new)

VARIABLES
    old, new,   \* the two builds
    findings,   \* report.findings
    stage,      \* the pass that runs next
    queue       \* cascade: broken types, with their root, left to expand

vars == <<old, new, findings, stage, queue>>

Finding(sev, cat, t, target) ==
    [sev |-> sev, cat |-> cat, type |-> t, target |-> target, root |-> NoType]

IsEvent(t) == t \in EventType

-----------------------------------------------------------------------------
(***************************************************************************)
(* Categories of a changed type expression.                                *)
(***************************************************************************)
MapCategories(a, b) ==
    IF a.con # "map" \/ b.con # "map"
    THEN {}
    ELSE {c \in {"Map Key Type Changed", "Map Value Type Changed"} :
             a.args[IF c = "Map Key Type Changed" THEN 1 ELSE 2]
               # b.args[IF c = "Map Key Type Changed" THEN 1 ELSE 2]}

ResizedBytes(a, b) == a.con = "bytes" /\ b.con = "bytes" /\ a # b

\* A map-specific finding replaces the generic one, here called `otherwise`.
ShapeCategories(a, b, otherwise) ==
    IF a = b THEN {}
    ELSE IF MapCategories(a, b) # {} THEN MapCategories(a, b)
    ELSE IF ResizedBytes(a, b) THEN {"BytesN Size Changed"}
    ELSE {otherwise}

-----------------------------------------------------------------------------
(***************************************************************************)
(* Functions.                                                              *)
(***************************************************************************)
FnFinding(sev, cat, target) == Finding(sev, cat, NoType, target)

ParameterFindings(f, o, n) ==
    LET reordered == Names(o) = Names(n) /\ \E i \in DOMAIN o : o[i].name # n[i].name
        Paired(i, j) == IF reordered THEN o[i].name = n[j].name ELSE i = j
    IN  (IF reordered THEN {FnFinding("critical", "Parameter Reordered", <<f>>)} ELSE {})
        \cup {FnFinding("warning", "Parameter Renamed", <<f, o[i].name>>) :
                 i \in {k \in DOMAIN o : ~reordered /\ o[k].name # n[k].name}}
        \cup (UNION {{FnFinding("critical", c, <<f, o[ij[1]].name>>) :
                         c \in ShapeCategories(o[ij[1]].ty, n[ij[2]].ty, "Parameter Type Changed")} :
                     ij \in {x \in (DOMAIN o) \X (DOMAIN n) : Paired(x[1], x[2])}})

OutputFindings(f, o, n) ==
    IF Len(o) # Len(n)
    THEN {FnFinding("critical", "Return Type Changed", <<f>>)}
    ELSE UNION {{FnFinding("critical", c, <<f>>) :
                    c \in ShapeCategories(o[i], n[i], "Return Type Changed")} : i \in DOMAIN o}

\* check_function_signature: a changed parameter count ends the comparison.
SignatureFindings(f, o, n) ==
    IF Len(o.inputs) # Len(n.inputs)
    THEN {FnFinding("critical", "Function Signature Changed", <<f>>)}
    ELSE ParameterFindings(f, o.inputs, n.inputs) \cup OutputFindings(f, o.outputs, n.outputs)

FunctionFindings ==
    LET o == old.fns  n == new.fns
    IN  {FnFinding("critical", "Function Removed", <<f>>) : f \in (DOMAIN o) \ (DOMAIN n)}
        \cup (UNION {SignatureFindings(f, o[f], n[f]) : f \in (DOMAIN o) \cap (DOMAIN n)})
        \cup {FnFinding("info", "Function Documentation Changed", <<f>>) :
                 f \in {g \in (DOMAIN o) \cap (DOMAIN n) : o[g].doc # n[g].doc}}
        \cup {FnFinding("info", "Function Added", <<f>>) : f \in (DOMAIN n) \ (DOMAIN o)}

-----------------------------------------------------------------------------
(***************************************************************************)
(* Structs.  A new field ahead of a known one is inserted; the others are  *)
(* aligned with the old fields by position, the inserted ones skipped.     *)
(***************************************************************************)
Known(o, n) == {p \in DOMAIN n : n[p].name \in Names(o)}

\* Mutant: any new field counts as inserted, even behind the known ones.
InsertedAnywhere(o, n) == DOMAIN n \ Known(o, n)

Inserted(o, n) == {p \in DOMAIN n \ Known(o, n) : \E q \in Known(o, n) : p < q}

Appended(o, n) == {p \in DOMAIN n \ Known(o, n) : \A q \in Known(o, n) : q < p}

Aligned(o, n) ==
    LET kept == DOMAIN n \ Inserted(o, n)
    IN  {ip \in (DOMAIN o) \X kept : Cardinality({q \in kept : q <= ip[2]}) = ip[1]}

Removed(o, n) == {i \in DOMAIN o : o[i].name \notin Names(n)}

FieldCategories(t) ==
    IF IsEvent(t)
    THEN [removed |-> "Event Field Removed", reordered |-> "Event Field Reordered",
          retyped |-> "Event Field Type Changed"]
    ELSE [removed |-> "Struct Field Removed", reordered |-> "Struct Field Reordered",
          retyped |-> "Struct Field Type Changed"]

StructFindings(t, o, n) ==
    LET cat == FieldCategories(t)
        Break(c, m) == Finding("critical", c, t, <<t, m>>)
    IN  {Break("Struct Field Inserted", n[p].name) : p \in Inserted(o, n)}
        \cup {Break(cat.removed, o[i].name) : i \in Removed(o, n)}
        \cup {Break(cat.reordered, o[ip[1]].name) :
                 ip \in {x \in Aligned(o, n) : o[x[1]].name # n[x[2]].name}}
        \cup (UNION {{Break(c, o[ip[1]].name) : c \in ShapeCategories(o[ip[1]].ty, n[ip[2]].ty, cat.retyped)} :
                     ip \in Aligned(o, n)})
        \cup {Finding("warning", "Struct Field Added", t, <<t, n[p].name>>) : p \in Appended(o, n)}

(***************************************************************************)
(* Enums and error enums, by case name.  New cases of an enum are reported *)
(* only when it has grown.                                                 *)
(***************************************************************************)
CaseCategories(kind, t) ==
    IF kind = "error enum"
    THEN [removed |-> "Error Enum Case Removed", value |-> "Error Enum Case Value Changed",
          added |-> "Error Enum Case Added"]
    ELSE IF IsEvent(t)
    THEN [removed |-> "Event Enum Case Removed", value |-> "Event Enum Case Value Changed",
          added |-> "Event Enum Case Added"]
    ELSE [removed |-> "Enum Case Removed", value |-> "Enum Case Value Changed",
          added |-> "Enum Case Added"]

CaseFindings(kind, t, o, n) ==
    LET cat == CaseCategories(kind, t)
    IN  {Finding("critical", cat.removed, t, <<t, o[i].name>>) : i \in Removed(o, n)}
        \cup {Finding("critical", cat.value, t, <<t, o[ij[1]].name>>) :
                 ij \in {x \in (DOMAIN o) \X (DOMAIN n) : /\ o[x[1]].name = n[x[2]].name
                                                      /\ o[x[1]].ty # n[x[2]].ty}}
        \cup {Finding("info", cat.added, t, <<t, n[j].name>>) :
                 j \in {k \in Removed(n, o) : kind = "error enum" \/ Len(n) > Len(o)}}

(***************************************************************************)
(* Unions, by position.                                                    *)
(***************************************************************************)
PayloadCategory(a, b) ==
    IF /\ a.con = "tuple" /\ b.con = "tuple" /\ Len(a.args) = Len(b.args)
       /\ \E i \in DOMAIN a.args : ResizedBytes(a.args[i], b.args[i])
    THEN "BytesN Size Changed"
    ELSE "Union Case Type Changed"

UnionFindings(t, o, n) ==
    LET Break(c, i) == Finding("critical", c, t, <<t, o[i].name>>)
        both == (DOMAIN o) \cap (DOMAIN n)
    IN  {Break("Union Case Removed", i) : i \in Removed(o, n)}
        \cup {Break("Union Case Reordered", i) : i \in {k \in both : o[k].name # n[k].name}}
        \cup {Break(PayloadCategory(o[i].ty, n[i].ty), i) : i \in {k \in both : o[k].ty # n[k].ty}}
        \cup {Finding("info", "Union Case Added", t, <<t, n[p].name>>) : p \in (DOMAIN n) \ (DOMAIN o)}

-----------------------------------------------------------------------------
(***************************************************************************)
(* One pass over the types of a kind.                                      *)
(***************************************************************************)
MemberFindings(kind, t, o, n) ==
    CASE kind = "struct" -> StructFindings(t, o, n)
      [] kind = "union" -> UnionFindings(t, o, n)
      [] OTHER -> CaseFindings(kind, t, o, n)

RemovalCategory(kind, t) ==
    CASE kind = "struct" -> IF IsEvent(t) THEN "Event Definition Removed" ELSE "Struct Removed"
      [] kind = "enum" -> IF IsEvent(t) THEN "Event Enum Removed" ELSE "Enum Removed"
      [] kind = "union" -> "Union Removed"
      [] kind = "error enum" -> "Error Enum Removed"

AdditionCategory(kind) ==
    CASE kind = "struct" -> "Struct Added"
      [] kind = "enum" -> "Enum Added"
      [] kind = "union" -> "Union Added"
      [] kind = "error enum" -> "Error Enum Added"

DocCategory(kind) ==
    IF kind = "struct" THEN "Struct Documentation Changed" ELSE "Enum Documentation Changed"

PassFindings(kind) ==
    LET o == OfKind(old, kind)
        n == OfKind(new, kind)
        Redocumented(t) == kind \in {"struct", "enum"} /\ old.types[t].doc # new.types[t].doc
    IN  {Finding("critical", RemovalCategory(kind, t), t, <<t>>) : t \in o \ n}
        \cup (UNION {MemberFindings(kind, t, old.types[t].members, new.types[t].members) : t \in o \cap n})
        \cup {Finding("info", DocCategory(kind), t, <<t>>) : t \in {u \in o \cap n : Redocumented(u)}}
        \cup {Finding("info", AdditionCategory(kind), t, <<t>>) : t \in n \ o}

Pass(kind, here, next) ==
    /\ stage = here
    /\ findings' = findings \cup PassFindings(kind)
    /\ stage' = next
    /\ UNCHANGED <<old, new, queue>>

CompareFunctions ==
    /\ stage = "functions"
    /\ findings' = findings \cup FunctionFindings
    /\ stage' = "structs"
    /\ UNCHANGED <<old, new, queue>>

CompareStructs == Pass("struct", "structs", "enums")

CompareEnums == Pass("enum", "enums", "unions")

CompareUnions == Pass("union", "unions", "error enums")

CompareErrorEnums == Pass("error enum", "error enums", "kinds")

-----------------------------------------------------------------------------
(***************************************************************************)
(* detect_type_kind_changes: the removal and the addition that two passes  *)
(* reported for one name become one finding.                               *)
(***************************************************************************)
KindChanged == {t \in (DOMAIN old.types) \cap (DOMAIN new.types) : old.types[t].kind # new.types[t].kind}

\* Mutant: forgets that the removal of an event has a category of its own.
RemovalCategoriesPlain(kind) == {RemovalCategory(kind, t) : t \in Type \ EventType}

RemovalCategories(kind) == {RemovalCategory(kind, t) : t \in Type}

Retracted(f) ==
    \E t \in KindChanged :
        /\ f.target = <<t>>
        /\ f.cat \in RemovalCategories(old.types[t].kind) \cup {AdditionCategory(new.types[t].kind)}

DetectTypeKindChanges ==
    /\ stage = "kinds"
    /\ findings' = {f \in findings : ~Retracted(f)}
                     \cup {Finding("critical", "Type Kind Changed", t, <<t>>) : t \in KindChanged}
    /\ stage' = "roots"
    /\ UNCHANGED <<old, new, queue>>

-----------------------------------------------------------------------------
(***************************************************************************)
(* detect_cascading_layout_breaks.  The queue's order follows a hash set,  *)
(* so its elements are taken in any order.                                 *)
(***************************************************************************)
Broken == {f.type : f \in {g \in findings : g.sev = "critical" /\ g.type # NoType}}

Cascade(d, root) ==
    [sev |-> "critical", cat |-> "Cascading Layout Break", type |-> d, target |-> <<d>>, root |-> root]

Cascaded == {<<f.type, f.root>> : f \in {g \in findings : g.root # NoType}}

CollectRoots ==
    /\ stage = "roots"
    /\ queue' = {<<t, t>> : t \in Broken}
    /\ stage' = "cascade"
    /\ UNCHANGED <<old, new, findings>>

\* Mutant: reports the direct dependents and never expands them.
ExpandOneHop ==
    /\ stage = "cascade"
    /\ \E e \in queue :
          LET fresh == {d \in Dependents(old, e[1]) : <<d, e[2]>> \notin Cascaded}
          IN  /\ findings' = findings \cup {Cascade(d, e[2]) : d \in fresh}
              /\ queue' = queue \ {e}
    /\ UNCHANGED <<old, new, stage>>

ExpandBroken ==
    /\ stage = "cascade"
    /\ \E e \in queue :
          LET fresh == {d \in Dependents(old, e[1]) : <<d, e[2]>> \notin Cascaded}
          IN  /\ findings' = findings \cup {Cascade(d, e[2]) : d \in fresh}
              /\ queue' = (queue \ {e}) \cup {<<d, e[2]>> : d \in fresh}
    /\ UNCHANGED <<old, new, stage>>

EndCascade ==
    /\ stage = "cascade"
    /\ queue = {}
    /\ stage' = "compared"
    /\ UNCHANGED <<old, new, findings, queue>>

-----------------------------------------------------------------------------
Init ==
    /\ \E p \in Pairs : old = p.old /\ new = p.new
    /\ findings = {}
    /\ stage = "functions"
    /\ queue = {}

Next ==
    \/ CompareFunctions
    \/ CompareStructs
    \/ CompareEnums
    \/ CompareUnions
    \/ CompareErrorEnums
    \/ DetectTypeKindChanges
    \/ CollectRoots
    \/ ExpandBroken
    \/ EndCascade

\* compare is one synchronous call: it runs on until it returns.
Spec == Init /\ [][Next]_vars /\ WF_vars(Next)

-----------------------------------------------------------------------------
Stages == {"functions", "structs", "enums", "unions", "error enums", "kinds",
           "roots", "cascade", "compared"}

TypeOK ==
    /\ IsSpec(old)
    /\ IsSpec(new)
    /\ \A f \in findings :
          /\ DOMAIN f = {"sev", "cat", "type", "target", "root"}
          /\ f.sev \in {"critical", "warning", "info"}
          /\ f.type \in Type \cup {NoType}
          /\ f.root \in DOMAIN old.types \cup {NoType}
    /\ stage \in Stages
    /\ queue \subseteq (DOMAIN old.types) \X (DOMAIN old.types)

\* The comparison implements its promise: the marked types are those with a
\* critical finding.  (diff.rs: compare and its passes.)
Promise == INSTANCE BreakPromise WITH marked <- Broken

ImplementsPromise == Promise!Spec

\* When the comparison is over, every type of the old build without a critical
\* finding keeps its own layout and embeds only such types: no break is missed,
\* neither by the passes nor by the cascade.  (diff.rs: check_struct_fields,
\* check_enum_cases, check_union_cases, detect_cascading_layout_breaks.)
NothingMissed ==
    stage = "compared" =>
        \A t \in DOMAIN old.types \ Broken :
            LayoutKept(old, new, t) /\ Refs(old.types[t]) \cap Broken = {}

\* A name whose kind changed is told exactly once, as that, and no name is
\* reported both removed and added.  (diff.rs: detect_type_kind_changes.)
KindChangeToldOnce ==
    stage \in {"roots", "cascade", "compared"} =>
        \A t \in Type :
            LET told == {f \in findings : f.target = <<t>> /\ f.root = NoType}
            IN  /\ t \in KindChanged => told = {Finding("critical", "Type Kind Changed", t, <<t>>)}
                /\ Cardinality({f \in told : f.sev # "info" \/ f.cat \in {AdditionCategory(k) : k \in Kind}}) <= 1
=============================================================================
