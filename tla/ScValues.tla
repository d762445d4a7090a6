------------------------------ MODULE ScValues ------------------------------
(***************************************************************************)
(* Values (ScVal): those that the SDK encodes for a type of a build, and   *)
(* the validator of empirical.rs, which tells whether a value decodes as a *)
(* type.  A value is [tag, of, items].  A map's items are its entries,     *)
(* each a value whose items are the key and the value.                     *)
(***************************************************************************)
EXTENDS ContractSpecs

CONSTANT Depth  \* bound on the nesting of the values considered

ASSUME DepthAssumption == Depth \in Nat

Value(tag, of, items) == [tag |-> tag, of |-> of, items |-> items]

VoidValue == Value("void", "", <<>>)
Symbol(n) == Value("symbol", n, <<>>)
Vector(items) == Value("vec", "", items)
MapOf(entries) == Value("map", "", entries)
Entry(k, v) == Value("entry", "", <<k, v>>)

\* Sequences with one element of each set.
Choices(sets) == {q \in [DOMAIN sets -> UNION {sets[i] : i \in DOMAIN sets}] : \A i \in DOMAIN sets : q[i] \in sets[i]}

-----------------------------------------------------------------------------
(***************************************************************************)
(* The values the SDK encodes for a type, down to depth d.                 *)
(***************************************************************************)
RECURSIVE Encodings(_, _, _)
Encodings(spec, s, d) ==
    LET Of(t) == Encodings(spec, t, d - 1)
        All(ts) == Choices([i \in DOMAIN ts |-> Of(ts[i])])
        Struct(ms) == {MapOf([i \in DOMAIN ms |-> Entry(Symbol(ms[i].name), q[i])]) :
                          q \in All([i \in DOMAIN ms |-> ms[i].ty])}
        Union(ms) == UNION {{Vector(<<Symbol(ms[i].name)>> \o q) : q \in All(ms[i].ty.args)} : i \in DOMAIN ms}
        Udt(def) == CASE def.kind = "struct" -> Struct(def.members)
                      [] def.kind = "union" -> Union(def.members)
                      [] def.kind = "enum" -> {Value("u32", def.members[i].ty.of, <<>>) : i \in DOMAIN def.members}
                      [] OTHER -> {Value("error", def.members[i].ty.of, <<>>) : i \in DOMAIN def.members}
    IN  IF d = 0 THEN {}
        ELSE CASE s.con = "void" -> {VoidValue}
               [] s.con = "bytes" -> {Value("bytes", s.of, <<>>)}
               [] s.con = "option" -> {VoidValue} \cup Of(s.args[1])
               [] s.con = "vec" -> {Vector(<<>>)} \cup {Vector(<<v>>) : v \in Of(s.args[1])}
               [] s.con = "map" -> {MapOf(<<>>)} \cup {MapOf(<<Entry(q[1], q[2])>>) : q \in All(s.args)}
               [] s.con = "tuple" -> {Vector(q) : q \in All(s.args)}
               [] s.con = "result" -> Of(s.args[1]) \cup Of(s.args[2])
               [] s.con = "udt" -> IF s.of \in DOMAIN spec.types THEN Udt(spec.types[s.of]) ELSE {}
               [] OTHER -> {Value(s.of, "", <<>>)}

-----------------------------------------------------------------------------
(***************************************************************************)
(* validate_scval_type and validate_scval_udt.                             *)
(***************************************************************************)
RECURSIVE Valid(_, _, _)
Valid(v, s, spec) ==
    LET Each(items, ts) == Len(items) = Len(ts) /\ \A i \in DOMAIN ts : Valid(items[i], ts[i], spec)
        \* By name, a field that is an option may be left out; by position none may.
        InMap(f) ==
            LET found == {i \in DOMAIN v.items : v.items[i].items[1] = Symbol(f.name)}
            IN  IF found = {} THEN f.ty.con = "option"
                ELSE Valid(v.items[CHOOSE i \in found : \A j \in found : i <= j].items[2], f.ty, spec)
        Struct(ms) ==
            \/ v.tag = "map" /\ \A i \in DOMAIN ms : InMap(ms[i])
            \/ v.tag = "vec" /\ Each(v.items, [i \in DOMAIN ms |-> ms[i].ty])
        Called(head, ms) == {i \in DOMAIN ms : head = Symbol(ms[i].name)}
        Enum(ms) ==
            \/ Called(v, ms) # {}
            \/ v.tag = "vec" /\ v.items # <<>> /\ Called(v.items[1], ms) # {}
            \/ v.tag \in {"u32", "i32"} /\ \E i \in DOMAIN ms : ms[i].ty.of = v.of
        Union(ms) ==
            \/ \E i \in Called(v, ms) : ms[i].ty.args = <<>>
            \/ /\ v.tag = "vec" /\ v.items # <<>>
               /\ \E i \in Called(v.items[1], ms) : Each(Tail(v.items), ms[i].ty.args)
        Udt(def) == CASE def.kind = "struct" -> Struct(def.members)
                      [] def.kind = "enum" -> Enum(def.members)
                      [] def.kind = "union" -> Union(def.members)
                      [] OTHER -> FALSE
    IN  CASE s.con = "val" -> TRUE
          [] s.con = "void" -> v = VoidValue
          [] s.con = "bytes" -> v.tag = "bytes" /\ v.of = s.of
          [] s.con = "option" -> v = VoidValue \/ Valid(v, s.args[1], spec)
          [] s.con = "result" -> Valid(v, s.args[IF v.tag = "error" THEN 2 ELSE 1], spec)
          [] s.con = "vec" -> v.tag = "vec" /\ \A i \in DOMAIN v.items : Valid(v.items[i], s.args[1], spec)
          [] s.con = "map" -> v.tag = "map" /\ \A i \in DOMAIN v.items : Each(v.items[i].items, s.args)
          [] s.con = "tuple" -> v.tag = "vec" /\ Each(v.items, s.args)
          [] s.con = "udt" -> s.of \in DOMAIN spec.types /\ Udt(spec.types[s.of])
          [] OTHER -> v.tag = s.of

Named(t) == [con |-> "udt", of |-> t, args |-> <<>>]

Decodes(v, t, spec) == Valid(v, Named(t), spec)
=============================================================================
