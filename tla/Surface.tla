------------------------------ MODULE Surface ------------------------------
(***************************************************************************)
(* What a WASM module asks of the host beside its contract specification:   *)
(* memories, tables, globals, start function, segments, proposals, host     *)
(* functions and the protocol it declares (src/runtime_surface.rs), and the *)
(* findings that a change of it gives (src/diff.rs).                        *)
(*                                                                          *)
(* A build is                                                               *)
(*   [entries  |-> the section entries in the order of the binary, imports  *)
(*                 first,                                                   *)
(*    imports  |-> a function from host function names to signatures,       *)
(*    env      |-> the metadata section: NoMeta, or                         *)
(*                 [protocol, prerelease]].                                 *)
(* An entry is [sort, from, type, min, max, mutable, items]; a field that   *)
(* its sort does not have is constant. `from` is Local or the name it is imported    *)
(* as. A memory's type is "wide", "shared" or "plain"; the type of a        *)
(* segment is "active", "passive" or "declared", its size is `min`; `items` *)
(* is the type of what an element segment holds.                            *)
(***************************************************************************)
EXTENDS Integers, Sequences, FiniteSets
LOCAL INSTANCE SequencesExt

Local     == "defined locally"
NoMeta    == [protocol |-> 0, prerelease |-> 0]
Unbounded == 1000000   \* a maximum that is absent; greater than any that is given

\* The capability registry, an outcome of the build: the protocol that first
\* has a host function, for the functions that it lists.
CONSTANTS Capability, MaxEntries

Told(severity, category, target) ==
    [severity |-> severity, category |-> category, target |-> target]

When(condition, finding) == {f \in {finding} : condition}

\* Only a memory, a table and a global can be imported, and only a global can be
\* mutable.
Spaces == {"memory", "table", "global"}

IsEntry(e) ==
    /\ e.sort \in Spaces \cup {"start", "element", "data"}
    /\ e.sort \notin Spaces => e.from = Local
    /\ e.sort # "global" => e.mutable = FALSE
    /\ {e.min, e.max} \subseteq Nat

IsBuild(build) ==
    /\ build.entries \in Seq({build.entries[i] : i \in DOMAIN build.entries})
    /\ \A i \in DOMAIN build.entries : IsEntry(build.entries[i])
    /\ build.env.protocol \in Nat

------------------------------------------------------------------------------
(* Extraction *)

\* The entries of one sort, in their order.
Declared(build, sort) ==
    LET upTo[i \in 0 .. Len(build.entries)] ==
            IF i = 0 THEN <<>>
            ELSE IF build.entries[i].sort = sort THEN Append(upTo[i - 1], build.entries[i])
            ELSE upTo[i - 1]
    IN  upTo[Len(build.entries)]

\* The proposals one entry needs. A mutable global needs one only when it is
\* imported.
ProposalsOf(e) ==
    CASE e.sort = "memory" -> CASE e.type = "wide"   -> {"memory64"}
                                [] e.type = "shared" -> {"threads"}
                                [] OTHER             -> {}
      [] e.sort = "table"  -> IF e.type # "funcref" THEN {"reference-types"} ELSE {}
      [] e.sort = "global" ->
            (IF e.from # Local /\ e.mutable THEN {"mutable-globals"} ELSE {})
              \cup (IF e.type = "v128" THEN {"simd128"}
                    ELSE IF e.type \in {"externref", "funcref"} THEN {"reference-types"}
                    ELSE {})
      [] e.sort = "element" ->
            (CASE e.type = "passive"  -> {"bulk-memory"}
               [] e.type = "declared" -> {"reference-types"}
               [] OTHER               -> {})
              \cup (IF e.items # "funcref" THEN {"reference-types"} ELSE {})
      [] e.sort = "data"    -> IF e.type = "passive" THEN {"bulk-memory"} ELSE {}
      [] OTHER -> {}

Proposals(build) ==
    (UNION {ProposalsOf(build.entries[i]) : i \in DOMAIN build.entries})
      \cup (IF Len(Declared(build, "memory")) > 1 THEN {"multi-memory"} ELSE {})
      \cup (IF Len(Declared(build, "table")) > 1 THEN {"reference-types"} ELSE {})

\* The limit counts every import and every declared entry, not the start section.
TooManyEntries(build) ==
    Len(SelectSeq(build.entries, LAMBDA e : e.sort # "start"))
      + Cardinality(DOMAIN build.imports) > MaxEntries

------------------------------------------------------------------------------
(* Comparison: positions are index spaces *)

Positions(old, new, sort) ==
    1 .. (LET o == Len(Declared(old, sort))
              n == Len(Declared(new, sort)) IN IF o > n THEN o ELSE n)

\* Mutant (MemoryChangeShrunk): a memory is judged like a table, whose initial size
\* must not shrink.
MemoryChangeShrunk(i, o, n) ==
    When(o.from # n.from,
         Told("critical", "Memory Limits Changed", <<"memory", i>>))
      \cup When(o.type # n.type,
                Told("critical", "Memory Limits Changed", <<"memory", i, "type">>))
      \cup When(o.min # n.min,
                Told(IF n.min < o.min THEN "warning" ELSE "info",
                     "Memory Limits Changed", <<"memory", i, "min">>))
      \cup When(o.max # n.max,
                Told(IF n.max < o.max THEN "warning" ELSE "info",
                     "Memory Limits Changed", <<"memory", i, "max">>))

MemoryChange(i, o, n) ==
    When(o.from # n.from,
         Told("critical", "Memory Limits Changed", <<"memory", i>>))
      \cup When(o.type # n.type,
                Told("critical", "Memory Limits Changed", <<"memory", i, "type">>))
      \cup When(o.min # n.min,
                Told(IF n.min > o.min THEN "warning" ELSE "info",
                     "Memory Limits Changed", <<"memory", i, "min">>))
      \cup When(o.max # n.max,
                Told(IF n.max < o.max THEN "warning" ELSE "info",
                     "Memory Limits Changed", <<"memory", i, "max">>))

TableChange(i, o, n) ==
    When(o.type # n.type,
         Told("critical", "Table Element Type Changed", <<"table", i, "element_type">>))
      \cup When(o.min # n.min,
                Told(IF n.min < o.min THEN "warning" ELSE "info",
                     "Table Limits Changed", <<"table", i, "min">>))
      \cup When(o.max # n.max,
                Told("info", "Table Limits Changed", <<"table", i, "max">>))

GlobalChange(i, o, n) ==
    When(o.type # n.type,
         Told("critical", "Global Type Changed", <<"global", i, "type">>))
      \cup When(o.mutable # n.mutable,
                Told("critical", "Global Mutability Changed", <<"global", i, "mutability">>))

Added(sort, i, n) ==
    Told(IF n.from # Local THEN "critical" ELSE "info",
         CASE sort = "memory" -> "Memory Added" [] sort = "table" -> "Table Added"
           [] OTHER -> "Global Added", <<sort, i>>)

Removed(sort, i, o) ==
    Told(IF sort = "global" /\ o.from = Local THEN "warning" ELSE "critical",
         CASE sort = "memory" -> "Memory Removed" [] sort = "table" -> "Table Removed"
           [] OTHER -> "Global Removed", <<sort, i>>)

Changed(sort, i, o, n) ==
    CASE sort = "memory" -> MemoryChange(i, o, n)
      [] sort = "table"  -> TableChange(i, o, n)
      [] OTHER           -> GlobalChange(i, o, n)

SpaceFindings(old, new, sort) ==
    LET o == Declared(old, sort)
        n == Declared(new, sort)
    IN  UNION {IF i > Len(o) THEN {Added(sort, i, n[i])}
               ELSE IF i > Len(n) THEN {Removed(sort, i, o[i])}
               ELSE Changed(sort, i, o[i], n[i]) : i \in Positions(old, new, sort)}

StartFindings(old, new) ==
    LET o == Declared(old, "start")
        n == Declared(new, "start")
    IN  When(o = <<>> /\ n # <<>>,
             Told("critical", "Start Function Added", <<"start_function">>))
          \cup When(o # <<>> /\ n = <<>>,
                    Told("warning", "Start Function Removed", <<"start_function">>))
          \cup When(o # <<>> /\ n # <<>> /\ o # n,
                    Told("warning", "Start Function Changed", <<"start_function">>))

Size(segments) == FoldSeq(LAMBDA e, n : e.min + n, 0, segments)
Modes(segments) == [mode \in {"active", "passive"} |->
                       Len(SelectSeq(segments, LAMBDA e : e.type = mode))]

SegmentFindings(old, new) ==
    LET oe == Declared(old, "element")
        ne == Declared(new, "element")
        od == Declared(old, "data")
        nd == Declared(new, "data")
    IN  When(Len(oe) # Len(ne) \/ Size(oe) # Size(ne),
             Told(IF Size(ne) < Size(oe) THEN "warning" ELSE "info",
                  "Element Segment Changed", <<"element_segments">>))
          \cup When(Modes(od) # Modes(nd) \/ Size(od) # Size(nd),
                    Told("info", "Data Segment Changed", <<"data_segments">>))

ProposalFindings(old, new) ==
    {Told("warning", "WASM Proposal Added", <<"proposal", p>>) :
        p \in Proposals(new) \ Proposals(old)}
      \cup {Told("info", "WASM Proposal Removed", <<"proposal", p>>) :
              p \in Proposals(old) \ Proposals(new)}

SurfaceFindings(old, new) ==
    (UNION {SpaceFindings(old, new, sort) : sort \in Spaces})
      \cup StartFindings(old, new)
      \cup SegmentFindings(old, new)
      \cup ProposalFindings(old, new)

------------------------------------------------------------------------------
(* The environment metadata and the host functions *)

EnvFindings(old, new) ==
    LET o == old.env
        n == new.env
    IN  When(o # n,
          CASE o = NoMeta -> Told("info", "Environment", <<"env_metadata">>)
            [] n = NoMeta -> Told("warning", "Environment", <<"env_metadata">>)
            [] o.protocol # n.protocol ->
                 Told(IF o.protocol > n.protocol THEN "critical" ELSE "warning",
                      "Environment", <<"protocol_version">>)
            [] OTHER ->
                 Told(IF o.prerelease > n.prerelease THEN "warning" ELSE "info",
                      "Environment", <<"pre_release_version">>))

Recognised(build) == DOMAIN build.imports \cap DOMAIN Capability

\* 0 when there is no basis for a number.
MinimumProtocol(build) ==
    LET needed == {Capability[f] : f \in Recognised(build)}
    IN  IF needed = {} THEN 0
        ELSE CHOOSE p \in needed : \A q \in needed : q =< p

Mismatch(build, label) ==
    When(MinimumProtocol(build) # 0 /\ build.env # NoMeta
           /\ MinimumProtocol(build) > build.env.protocol,
         Told("critical", "Protocol Environment Mismatch", <<label>>))

\* A signature is Unresolved when its type index points nowhere; nothing is
\* concluded from one.
Unresolved == "unresolved"

ImportFindings(old, new) ==
    LET o == DOMAIN old.imports
        n == DOMAIN new.imports
        known(f) == f \in DOMAIN Capability
    IN  {Told("warning", IF known(f) THEN "Host Import Added"
                         ELSE "Unknown Host Import", <<f>>) : f \in n \ o}
          \cup {Told(IF known(f) THEN "info" ELSE "warning",
                     IF known(f) THEN "Host Import Removed"
                     ELSE "Unknown Host Import", <<f>>) : f \in o \ n}
          \cup {Told(IF known(f) THEN "critical" ELSE "warning",
                     "Host Import Signature Changed", <<f>>) :
                  f \in {g \in o \cap n : /\ old.imports[g] # Unresolved
                                          /\ new.imports[g] # Unresolved
                                          /\ old.imports[g] # new.imports[g]}}
          \cup When(MinimumProtocol(old) # 0 /\ MinimumProtocol(new) > MinimumProtocol(old),
                    Told("warning", "Protocol Requirement Raised", <<>>))
          \cup Mismatch(old, "old")
          \cup Mismatch(new, "new")

\* What the command line and compare_wasm_bytes_with_options tell of two
\* builds; the plain compare_wasm_bytes has the surfaces only.
HostFindings(old, new, plain) ==
    SurfaceFindings(old, new)
      \cup (IF plain THEN {} ELSE EnvFindings(old, new) \cup ImportFindings(old, new))

==============================================================================
