----------------------------- MODULE MCVerdict -----------------------------
(***************************************************************************)
(* Small builds for the comparison and its verdict.  Leaf is embedded by   *)
(* Mid, and Kind, whose name makes it an event, stands on either side of   *)
(* both.  The pairs change one thing at a time (Leaf through every kind    *)
(* and every change of members, the others around it) and then several.    *)
(***************************************************************************)
EXTENDS Replay

MCType == {"Leaf", "Mid", "KindEvent"}
MCEventType == {"KindEvent"}
MCFn == {"get", "set"}
MCName == {"x", "y", "z"}
MCDoc == {"", "text"}

Prim(n) == [con |-> "prim", of |-> n, args |-> <<>>]
U32 == Prim("u32")
U64 == Prim("u64")
Bytes(n) == [con |-> "bytes", of |-> n, args |-> <<>>]
Udt(t) == [con |-> "udt", of |-> t, args |-> <<>>]
Option(s) == [con |-> "option", of |-> "", args |-> <<s>>]
Map(k, v) == [con |-> "map", of |-> "", args |-> <<k, v>>]
Void == [con |-> "void", of |-> "", args |-> <<>>]
Tuple(s) == [con |-> "tuple", of |-> "", args |-> <<s>>]

MCShape ==
    LET base == {U32, U64, Bytes("32"), Bytes("64"), Void} \cup {Prim(v) : v \in {"1", "2", "3"}} \cup {Udt(t) : t \in MCType}
    IN  base \cup {Map(k, v) : k \in {U32, U64}, v \in {U32, U64, Udt("Leaf")}}
             \cup {Option(Udt(t)) : t \in MCType}
             \cup {Tuple(s) : s \in base \ {Void}}

M(n, s) == [name |-> n, ty |-> s]
Def(k, ms) == [kind |-> k, doc |-> "", members |-> ms]
Struct(ms) == Def("struct", ms)
Documented(d) == [d EXCEPT !.doc = "text"]

\* Leaf: every kind, with members added, removed, inserted, swapped, retyped.
Leaves ==
    {Struct(ms) : ms \in
        {<<M("x", U32)>>, <<M("x", U32), M("y", Bytes("32"))>>, <<M("x", U32), M("y", Bytes("64"))>>,
         <<M("z", U32), M("x", U32)>>, <<M("y", Bytes("32")), M("x", U32)>>,
         <<M("x", Map(U32, U32))>>, <<M("x", Map(U64, U32))>>, <<M("x", Map(U32, U64)), M("z", U32)>>}}
    \cup {Def(k, ms) : k \in {"enum", "error enum"}, ms \in
        {<<M("x", Prim("1")), M("y", Prim("2"))>>, <<M("y", Prim("2")), M("x", Prim("1")), M("z", Prim("3"))>>,
         <<M("x", Prim("2"))>>}}
    \cup {Def("union", ms) : ms \in
        {<<M("x", Void)>>, <<M("x", Void), M("y", Tuple(Bytes("32")))>>,
         <<M("x", Void), M("y", Tuple(Bytes("64")))>>, <<M("y", Tuple(U32)), M("x", Void)>>}}
    \cup {Documented(Struct(<<M("x", U32)>>))}

Mids ==
    {Struct(<<M("x", Udt("Leaf"))>>), Struct(<<M("x", Udt("Leaf")), M("y", Option(Udt("Mid")))>>),
     Struct(<<M("x", U32)>>), Def("union", <<M("x", Tuple(Udt("Leaf"))), M("y", Tuple(Udt("KindEvent")))>>)}

Events ==
    {Struct(<<M("x", Udt("Mid"))>>), Struct(<<M("x", Option(Udt("Leaf"))), M("y", U32)>>),
     Struct(<<M("y", U32)>>), Def("enum", <<M("x", Prim("1"))>>), Def("enum", <<M("x", Prim("2"))>>)}

Sig(ins, outs) == [doc |-> "", inputs |-> ins, outputs |-> outs]

Fns ==
    {Sig(<<>>, <<>>), Sig(<<M("x", U32)>>, <<Udt("Leaf")>>), Sig(<<M("y", U32)>>, <<Udt("Leaf")>>),
     Sig(<<M("x", U32), M("y", Bytes("32"))>>, <<U32>>), Sig(<<M("y", Bytes("64")), M("x", U32)>>, <<U32>>),
     Sig(<<M("x", U32), M("z", Bytes("64"))>>, <<U64>>),
     [Sig(<<M("x", Map(U32, U32))>>, <<U32>>) EXCEPT !.doc = "text"],
     Sig(<<M("x", Map(U64, U64))>>, <<U32>>)}

-----------------------------------------------------------------------------
Build(types, fns) == [types |-> types, fns |-> fns]

World(l, m, e) == [t \in MCType |-> CASE t = "Leaf" -> l [] t = "Mid" -> m [] OTHER -> e]

Without(t, w) == [u \in MCType \ {t} |-> w[u]]

OneFn(s) == [f \in {"get"} |-> s]

Reader == Sig(<<M("x", U32)>>, <<Udt("Leaf")>>)
Silent == Sig(<<>>, <<>>)

Chain == Struct(<<M("x", Udt("Leaf"))>>)
Carrier == Struct(<<M("x", Udt("Mid"))>>)
Cyclic == Struct(<<M("x", Udt("Leaf")), M("y", Option(Udt("Mid")))>>)

LeafPairs ==
    {[old |-> Build(World(a, Chain, Carrier), OneFn(f)), new |-> Build(World(b, Chain, Carrier), OneFn(f))] :
        a, b \in Leaves, f \in {Reader, Silent}}

OuterPairs ==
    {[old |-> Build(World(a[1], m[1], e[1]), OneFn(Silent)), new |-> Build(World(a[2], m[2], e[2]), OneFn(Silent))] :
        a \in {Struct(<<M("x", U32)>>)} \X {Struct(<<M("x", U32)>>), Struct(<<M("x", Bytes("32"))>>)},
        m \in Mids \X Mids, e \in Events \X Events}

RemovalPairs ==
    UNION {LET w == World(Struct(<<M("x", U32)>>), m, e)
           IN  {[old |-> Build(w, OneFn(Silent)), new |-> Build(Without(t, w), OneFn(Silent))],
                [old |-> Build(Without(t, w), OneFn(Silent)), new |-> Build(w, OneFn(Silent))]} :
           m \in Mids, e \in Events, t \in MCType}

FnPairs ==
    LET w == World(Struct(<<M("x", U32)>>), Cyclic, Carrier)
    IN  {[old |-> Build(w, OneFn(f)), new |-> Build(w, OneFn(g))] : f, g \in Fns}
        \cup {[old |-> Build(w, [f \in F |-> Reader]), new |-> Build(w, [f \in G |-> Reader])] :
                 F, G \in SUBSET MCFn}

AllPairs == LeafPairs \cup OuterPairs \cup RemovalPairs \cup FnPairs

-----------------------------------------------------------------------------
Claim(c, t) == [cat |-> c, target |-> t]

RetypedX == Claim("Struct Field Type Changed", <<"Leaf", "x">>)
RemovedY == Claim("Struct Field Removed", <<"Leaf", "y">>)
MovedX == Claim("Struct Field Reordered", <<"Leaf", "x">>)
RekeyedX == Claim("Map Key Type Changed", <<"Leaf", "x">>)
MidRetyped == Claim("Struct Field Type Changed", <<"Mid", "x">>)
LeafKind == Claim("Type Kind Changed", <<"Leaf">>)

Migration(id, ts, cs) ==
    [id |-> id, migrates |-> ts, covers |-> cs, applies |-> TRUE, runs_before_read |-> TRUE]

Widen == Migration("widen", {"Leaf", "Mid"}, <<RetypedX, RekeyedX, RemovedY, MidRetyped>>)
Other == Migration("other", {"Leaf"}, <<RemovedY, LeafKind>>)
Outside == Migration("outside", {"Mid"}, <<RetypedX>>)
Unattested == [Widen EXCEPT !.runs_before_read = FALSE]

Config(gated, strict, rules, migrations) ==
    [gated |-> gated, strict |-> strict, rules |-> rules, migrations |-> migrations, empirical |-> FALSE]

DefaultGates == {"storage_layout", "call_abi", "runtime_surface"}

PlainConfig == Config(DefaultGates, FALSE, {}, {})

AllConfigs ==
    {Config(DefaultGates, FALSE, rules, ms) :
        rules \in {{}, {RetypedX, RemovedY, LeafKind}},
        ms \in {{}, {Widen}, {Widen, Other}, {Outside, Unattested}}}
    \cup {[PlainConfig EXCEPT !.empirical = TRUE]}
    \cup {Config({"storage_layout"}, FALSE, {MovedX}, {Widen}), Config({}, FALSE, {}, {}), Config({}, TRUE, {}, {})}
=============================================================================
