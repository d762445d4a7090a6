--------------------------- MODULE ContractSpecs ---------------------------
(***************************************************************************)
(* Decoded contract interfaces, as the comparison sees them (spec.rs), the *)
(* one-hop references between their types (mapper.rs), and what it means   *)
(* for a type of the old build to keep its stored layout in the new one.   *)
(*                                                                         *)
(* A specification is [types, fns].  The four maps of ContractSpec (struct,*)
(* enum, union and error enum) are one function from names to definitions  *)
(* [kind, doc, members], since a name has at most one kind.  A member is   *)
(* [name, ty]: a struct's field, a union's case with its payload, or an    *)
(* enum's case, whose ty stands for its integer value.  A shape is a type  *)
(* expression [con, of, args]: con tells maps, BytesN, user-defined types  *)
(* and the rest apart, `of` is the name or size, args the type arguments.  *)
(***************************************************************************)
EXTENDS Naturals, Sequences

CONSTANTS
    Type,       \* names of user-defined types
    NoType,     \* stands for the absent type name (None)
    EventType,  \* the types whose name contains "event", whatever its case
    Fn,         \* names of exported functions
    Name,       \* names of fields, cases and parameters
    Shape,      \* the type expressions that occur, closed under arguments
    Doc         \* documentation texts

Kind == {"struct", "enum", "union", "error enum"}

Members(S) == {ms \in Seq([name : Name, ty : S]) :
                   \A i, j \in DOMAIN ms : ms[i].name = ms[j].name => i = j}

Definition == [kind : Kind, doc : Doc, members : Members(Shape)]

Function == [doc : Doc, inputs : Members(Shape), outputs : Seq(Shape)]

(***************************************************************************)
(* The Rust compiler rejects two members of one name, so a decoded         *)
(* specification has none.                                                 *)
(***************************************************************************)
IsSpec(spec) ==
    /\ DOMAIN spec = {"types", "fns"}
    /\ DOMAIN spec.types \subseteq Type
    /\ DOMAIN spec.fns \subseteq Fn
    /\ \A t \in DOMAIN spec.types : spec.types[t] \in Definition
    /\ \A f \in DOMAIN spec.fns : spec.fns[f] \in Function

ASSUME NoTypeAssumption == NoType \notin Type

OfKind(spec, kind) == {t \in DOMAIN spec.types : spec.types[t].kind = kind}

Names(ms) == {ms[i].name : i \in DOMAIN ms}

-----------------------------------------------------------------------------
\* The user-defined types named in a type expression, containers unwrapped.
DirectRefs[s \in Shape] ==
    IF s.con = "udt"
    THEN {s.of}
    ELSE UNION {DirectRefs[s.args[i]] : i \in DOMAIN s.args}

MemberRefs(ms) == UNION {DirectRefs[ms[i].ty] : i \in DOMAIN ms}

\* The types a definition embeds: only structs and unions embed any.
Refs(def) ==
    IF def.kind \in {"struct", "union"} THEN MemberRefs(def.members) ELSE {}

\* build_reverse_dependencies: the types of a specification that embed t.
Dependents(spec, t) == {d \in DOMAIN spec.types : t \in Refs(spec.types[d])}

-----------------------------------------------------------------------------
(***************************************************************************)
(* What the stored data of a type promises.  A struct and a union are read *)
(* by position, so the old members must be a prefix of the new ones; an    *)
(* enum is read by value, so each old case must persist with its value.    *)
(***************************************************************************)
PrefixKept(o, n) ==
    /\ Len(o) <= Len(n)
    /\ \A i \in DOMAIN o : o[i] = n[i]

CasesKept(o, n) == \A i \in DOMAIN o : \E j \in DOMAIN n : o[i] = n[j]

MembersKept(kind, o, n) ==
    IF kind \in {"struct", "union"} THEN PrefixKept(o, n) ELSE CasesKept(o, n)

LayoutKept(old, new, t) ==
    /\ t \in DOMAIN new.types
    /\ new.types[t].kind = old.types[t].kind
    /\ MembersKept(old.types[t].kind, old.types[t].members, new.types[t].members)
=============================================================================
