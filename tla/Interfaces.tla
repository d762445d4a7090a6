----------------------------- MODULE Interfaces -----------------------------
(***************************************************************************)
(* The exported interface of one build: its declarations as decoded         *)
(* (src/spec.rs), the canonical form behind the interface hash              *)
(* (src/interface_hash.rs), the lockfile that keeps an interface under      *)
(* version control (src/spec_json.rs), and the checks of lint.              *)
(*                                                                         *)
(* An entry is [sort, name, lib, doc, members, outputs]; a member is        *)
(* [name, doc, void, types, value]: a parameter or a field has one type, a  *)
(* union case its payload and whether it is void, an enum case its value.   *)
(* A type is [con, of, args]. A specification is a function from            *)
(* <<sort, name>> to entries.                                               *)
(***************************************************************************)
EXTENDS Integers, Sequences, FiniteSets, TLC
LOCAL INSTANCE SequencesExt

CONSTANTS
    Alphabet,     \* every name, in the order of strings
    TooLong,      \* texts that exceed the limits of an XDR string
    MaxXdrDepth   \* no type that was decoded nests deeper

LockfileVersion == 1
Sorts == <<"function", "struct", "union", "enum", "error_enum">>
Valued == {"enum", "error_enum"}

Key(e) == <<e.sort, e.name>>

\* The first declaration of a name wins within its sort.
FromEntries(entries) ==
    [k \in {Key(entries[i]) : i \in DOMAIN entries} |->
        entries[SelectInSeq(entries, LAMBDA e : Key(e) = k)]]

Duplicates(entries) ==
    {k \in {Key(entries[i]) : i \in DOMAIN entries} :
        Cardinality({i \in DOMAIN entries : Key(entries[i]) = k}) > 1}

NamesOf(spec, sort) == {n \in ToSet(Alphabet) : <<sort, n>> \in DOMAIN spec}

Flat(seqs) == FoldLeft(LAMBDA all, s : all \o s, <<>>, seqs)
Each(s, Op(_)) == Flat([i \in DOMAIN s |-> Op(s[i])])

\* A type expression and those inside it.
Parts(t) ==
    LET level[n \in 0 .. MaxXdrDepth] ==
            IF n = 0 THEN {t} ELSE UNION {ToSet(u.args) : u \in level[n - 1]}
    IN  UNION {level[n] : n \in 0 .. MaxXdrDepth}

------------------------------------------------------------------------------
(* canonical_form. A token stands for a length-prefixed text or for a number,  *)
(* and the hash is the sequence of tokens: SHA-256 is taken for injective.     *)

Before(a, b) == SelectInSeq(Alphabet, LAMBDA x : x = a) =< SelectInSeq(Alphabet, LAMBDA x : x = b)
ByName(names) == SetToSortSeq(names, LAMBDA a, b : a # b /\ Before(a, b))
ByCase(cases) ==
    SortSeq(cases, LAMBDA a, b : IF a.name = b.name THEN a.value < b.value ELSE Before(a.name, b.name))

Number(n) == <<"#" \o ToString(n)>>

TypeTokens(t) ==
    LET tokens[u \in Parts(t)] ==
            <<u.con>>
              \o (IF u.con \in {"udt", "bytesn"} THEN <<u.of>>
                  ELSE IF u.con = "tuple" THEN Number(Len(u.args)) ELSE <<>>)
              \o Each(u.args, LAMBDA a : tokens[a])
    IN  tokens[t]

FieldTokens(m) == <<m.name>> \o Each(m.types, TypeTokens)
CaseTokens(m) ==
    IF m.void THEN <<"void", m.name>>
    ELSE <<"tuple", m.name>> \o Number(Len(m.types)) \o Each(m.types, TypeTokens)
ValueTokens(m) == <<m.name>> \o Number(m.value)

\* The payload of a case without a count.
CaseTokensUncounted(m) ==
    <<IF m.void THEN "void" ELSE "tuple", m.name>> \o Each(m.types, TypeTokens)
EntryTokensUncounted(e) ==
    <<e.sort, e.name>>
      \o (IF e.sort = "union" THEN Each(e.members, CaseTokensUncounted)
          ELSE IF e.sort \in Valued THEN Each(ByCase(e.members), ValueTokens)
          ELSE Each(e.members, FieldTokens))
      \o Each(e.outputs, TypeTokens)

EntryTokens(e) ==
    <<e.sort, e.name>> \o Number(Len(e.members))
      \o (IF e.sort = "union" THEN Each(e.members, CaseTokens)
          ELSE IF e.sort \in Valued THEN Each(ByCase(e.members), ValueTokens)
          ELSE Each(e.members, FieldTokens))
      \o (IF e.sort = "function" THEN Number(Len(e.outputs)) \o Each(e.outputs, TypeTokens)
          ELSE <<>>)

CanonicalForm(spec) ==
    Each(Sorts, LAMBDA sort :
        <<sort>> \o Number(Cardinality(NamesOf(spec, sort)))
          \o Each(ByName(NamesOf(spec, sort)), LAMBDA n : EntryTokens(spec[<<sort, n>>])))

------------------------------------------------------------------------------
(* ExtractedSpec and InterfaceLockfile: one list for each sort *)

Extracted(entries) ==
    LET spec == FromEntries(entries)
    IN  [hash |-> CanonicalForm(spec), duplicates |-> Duplicates(entries),
         lists |-> Each(Sorts, LAMBDA sort :
                       LET names == ByName(NamesOf(spec, sort))
                       IN  [i \in DOMAIN names |-> spec[<<sort, names[i]>>]])]

\* An extracted specification is read back without a check: a name that occurs
\* again replaces the one before.
SpecOfExtracted(extracted) ==
    [k \in {Key(extracted.lists[i]) : i \in DOMAIN extracted.lists} |->
        extracted.lists[SelectLastInSeq(extracted.lists, LAMBDA e : Key(e) = k)]]

Lockfile(extracted) ==
    [version |-> LockfileVersion, hash |-> extracted.hash, lists |-> extracted.lists]

TypeTexts(t) == {u.of : u \in Parts(t)}
Texts(e) ==
    {e.name, e.doc, e.lib}
      \cup (UNION {{e.members[i].name, e.members[i].doc}
                     \cup UNION {TypeTexts(e.members[i].types[j]) : j \in DOMAIN e.members[i].types} :
                     i \in DOMAIN e.members})
      \cup UNION {TypeTexts(e.outputs[i]) : i \in DOMAIN e.outputs}

SpecOfLockfile(lockfile) ==
    LET spec == FromEntries(lockfile.lists)
    IN  IF lockfile.version # LockfileVersion THEN [refused |-> TRUE, why |-> "version"]
        ELSE IF Duplicates(lockfile.lists) # {} THEN [refused |-> TRUE, why |-> "duplicate"]
        ELSE IF \E i \in DOMAIN lockfile.lists : Texts(lockfile.lists[i]) \cap TooLong # {}
        THEN [refused |-> TRUE, why |-> "too long"]
        ELSE IF CanonicalForm(spec) # lockfile.hash THEN [refused |-> TRUE, why |-> "hash"]
        ELSE [refused |-> FALSE, spec |-> spec]

\* run_lockfile: the path may be absent, a file or a directory.
RunLockfile(entries, path, force) ==
    IF path = "directory" \/ (path = "file" /\ ~force) THEN [written |-> FALSE]
    ELSE [written |-> TRUE, lockfile |-> Lockfile(Extracted(entries))]

------------------------------------------------------------------------------
(* The checks of one build in isolation (src/lint.rs), with the type walks of *)
(* src/mapper.rs, and the run around them in src/main.rs. A finding is         *)
(* [rule, severity, about], about the sort, the name and the member that it is *)
(* told of.                                                                    *)

NoMember == ""
Containers == {"option", "result", "vec", "map", "tuple"}
Embedding == {"struct", "union"}

Severity ==
    [rule \in {"duplicate-declaration", "cross-kind-name-collision", "duplicate-case-name",
               "conflicting-discriminant", "dangling-type-reference", "unreachable-declaration",
               "unanalyzable-recursive-shape", "inconsistent-origin", "storage-schema-invalid",
               "storage-schema-mismatch"} |->
        CASE rule \in {"duplicate-case-name", "unanalyzable-recursive-shape",
                       "storage-schema-mismatch"} -> "warning"
          [] rule \in {"unreachable-declaration", "inconsistent-origin"} -> "info"
          [] OTHER -> "error"]

Finding(rule, sort, name, member) ==
    [rule |-> rule, severity |-> Severity[rule], about |-> <<sort, name, member>>]

Udts(spec) == {k \in DOMAIN spec : k[1] # "function"}
Known(spec) == {k[2] : k \in Udts(spec)}

------------------------------------------------------------------------------
(* The declarations themselves *)

DuplicateFindings(entries) ==
    {Finding("duplicate-declaration", k[1], k[2], NoMember) : k \in Duplicates(entries)}

\* Only the sorts that carry a library can disagree about it.
SortsOf(spec, name) == SelectSeq(<<"struct", "enum", "union", "error_enum">>,
                                 LAMBDA sort : <<sort, name>> \in DOMAIN spec)
Libs(spec, name) ==
    {spec[<<sort, name>>].lib : sort \in ToSet(SortsOf(spec, name)) \ {"error_enum"}} \ {""}
CollisionFindings(spec) ==
    UNION {LET sorts == SortsOf(spec, name)
           IN  {Finding("cross-kind-name-collision", sorts[1], name, NoMember)}
                 \cup (IF Cardinality(Libs(spec, name)) > 1
                       THEN {Finding("inconsistent-origin", sorts[1], name, NoMember)} ELSE {}) :
             name \in {n \in Known(spec) : Len(SortsOf(spec, n)) > 1}}

\* A name is told of once for each that repeats; so is a value.
CaseFindings(spec) ==
    UNION {LET ms == spec[k].members
               Again(i) == \E j \in 1 .. i - 1 : ms[j].name = ms[i].name
           IN  {Finding("duplicate-case-name", k[1], k[2], ms[i].name) :
                   i \in {j \in DOMAIN ms : Again(j)}}
                 \cup (IF k[1] \in Valued
                          /\ Cardinality({ms[i].value : i \in DOMAIN ms}) < Len(ms)
                       THEN {Finding("conflicting-discriminant", k[1], k[2], NoMember)} ELSE {}) :
             k \in {u \in Udts(spec) : u[1] \in {"enum", "error_enum", "union"}}}

------------------------------------------------------------------------------
(* What refers to what *)

\* direct_udt_refs: containers unwrapped, definitions not.
DirectRefs(t) == {u.of : u \in {v \in Parts(t) : v.con = "udt"}}

\* A struct hides a union of its name.
Body(spec, name) ==
    IF <<"struct", name>> \in DOMAIN spec THEN spec[<<"struct", name>>].members
    ELSE IF <<"union", name>> \in DOMAIN spec THEN spec[<<"union", name>>].members
    ELSE <<>>
MemberTypes(ms) == UNION {ToSet(ms[i].types) : i \in DOMAIN ms}
RefsOf(types) == UNION {DirectRefs(t) : t \in types}

\* extract_udts: everything that is reached from a set of names, once each.
Expand(spec, names) ==
    LET visited[k \in 0 .. Cardinality(DOMAIN spec)] ==
            IF k = 0 THEN names
            ELSE LET before == visited[k - 1]
                 IN  before \cup RefsOf(UNION {MemberTypes(Body(spec, n)) : n \in before})
    IN  visited[Cardinality(DOMAIN spec)]

\* get_udt_dependencies, with the type's own name put back.
Dependencies(spec, t) == Expand(spec, DirectRefs(t))

\* The types that are walked, with what they are told of.
Walked(spec) ==
    UNION {LET e == spec[k]
           IN  {[about |-> <<k[1], k[2], e.members[p[1]].name>>, type |-> e.members[p[1]].types[p[2]]] :
                   p \in {q \in (DOMAIN e.members) \X (1 .. 3) : q[2] \in DOMAIN e.members[q[1]].types}}
                 \cup {[about |-> <<k[1], k[2], NoMember>>, type |-> e.outputs[i]] :
                         i \in DOMAIN e.outputs} :
             k \in {u \in DOMAIN spec : u[1] \in Embedding \cup {"function"}}}

DanglingFindings(spec) ==
    {Finding("dangling-type-reference", w.about[1], w.about[2], w.about[3]) :
        w \in {v \in Walked(spec) : ~(Dependencies(spec, v.type) \subseteq Known(spec))}}

\* Whatever any declaration refers to counts as reached, not only what a function
\* does.
Reachable(spec) == UNION {Dependencies(spec, w.type) : w \in Walked(spec)}
UnreachableFindings(spec) ==
    {Finding("unreachable-declaration", k[1], k[2], NoMember) :
        k \in {u \in Udts(spec) : u[1] # "error_enum" /\ u[2] \notin Reachable(spec)}}

\* depth_exceeds: the walk is at a type, inside of the definitions on its path, and
\* goes into a container or into a definition that it is not inside of.
Onward(spec, walk) ==
    IF walk.type.con \in Containers
    THEN {[walk EXCEPT !.type = a] : a \in ToSet(walk.type.args)}
    ELSE IF walk.type.con = "udt" /\ walk.type.of \notin walk.path
    THEN {[type |-> u, path |-> walk.path \cup {walk.type.of}] :
            u \in MemberTypes(Body(spec, walk.type.of))}
    ELSE {}
TooDeep(spec, t, max) ==
    LET walks[depth \in 0 .. max + 1] ==
            IF depth = 0 THEN {[type |-> t, path |-> {}]}
            ELSE UNION {Onward(spec, walk) : walk \in walks[depth - 1]}
    IN  walks[max + 1] # {}

RecursiveFindings(spec, max) ==
    {Finding("unanalyzable-recursive-shape", w.about[1], w.about[2], w.about[3]) :
        w \in {v \in Walked(spec) : TooDeep(spec, v.type, max)}}

------------------------------------------------------------------------------
(* The storage schema is "none", "invalid", or what its reconciliation with the *)
(* inferred operations finds (module StorageUse).                                *)
SchemaFindings(schema) ==
    IF schema = "invalid"
    THEN {Finding("storage-schema-invalid", "storage_schema", "storage_schema", NoMember)}
    ELSE IF schema = "mismatched"
    THEN {Finding("storage-schema-mismatch", "storage_schema", "declaration", NoMember)}
    ELSE {}

LintFindings(entries, schema, maxWalkDepth) ==
    LET spec == FromEntries(entries)
    IN  UNION {DuplicateFindings(entries), CollisionFindings(spec), CaseFindings(spec),
               DanglingFindings(spec), UnreachableFindings(spec),
               RecursiveFindings(spec, maxWalkDepth), SchemaFindings(schema)}

\* run_lint: the exit code.
ExitCode(findings, strict) ==
    IF \E f \in findings : f.severity = "error" THEN 2
    ELSE IF strict /\ \E f \in findings : f.severity = "warning" THEN 3 ELSE 0

=============================================================================
