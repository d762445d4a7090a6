----------------------------- MODULE MCCallAbi ------------------------------
(* Calls between builds whose types embed themselves and each other.       *)
EXTENDS CallAbi, ScValues

MCType == {"A", "B", "E"}
MCFn == {"f", "g"}
MCName == {"x", "y", "z"}

S(con, of, args) == [con |-> con, of |-> of, args |-> args]
U32 == S("prim", "u32", <<>>)
U64 == S("prim", "u64", <<>>)
One == S("prim", "1", <<>>)
Two == S("prim", "2", <<>>)
Void == S("void", "", <<>>)
Val == S("val", "", <<>>)
A == S("udt", "A", <<>>)
B == S("udt", "B", <<>>)
E == S("udt", "E", <<>>)
Option(s) == S("option", "", <<s>>)
Vec(s) == S("vec", "", <<s>>)
Map(k, v) == S("map", "", <<k, v>>)
Result(o, e) == S("result", "", <<o, e>>)
Tuple(ss) == S("tuple", "", ss)

MCShape ==
    LET base == {U32, U64, One, Two, Void, Val, A, B, E}
    IN  base \cup {Option(s) : s \in base} \cup {Vec(s) : s \in base}
             \cup {Map(U32, s) : s \in base} \cup {Result(s, E) : s \in base}
             \cup {Tuple(ss) : ss \in {<<U32>>, <<B>>, <<A>>, <<A, B>>, <<U32, B>>, <<U64, A>>}}

M(n, s) == [name |-> n, ty |-> s]
Def(kind, ms) == [kind |-> kind, doc |-> "", members |-> ms]
Struct(ms) == Def("struct", ms)

As ==
    {Struct(<<M("x", U32)>>), Struct(<<M("x", U32), M("y", Option(A))>>), Struct(<<M("y", Option(A)), M("x", U32)>>),
     Struct(<<M("x", U32), M("y", Option(B))>>), Struct(<<M("x", B), M("y", Vec(B))>>),
     Struct(<<M("x", Map(U32, B)), M("y", Val)>>), Def("union", <<M("x", Void), M("y", Tuple(<<A, B>>))>>)}

Bs ==
    {Struct(<<M("x", U32), M("y", Option(A))>>), Struct(<<M("x", U64), M("y", Option(B))>>),
     Def("enum", <<M("x", One)>>), Def("enum", <<M("x", Two), M("y", One)>>),
     Def("union", <<M("x", Void), M("y", Tuple(<<U32>>))>>), Def("union", <<M("y", Tuple(<<A>>)), M("x", Void)>>)}

Es == {Def("error enum", <<M("x", One)>>), Def("error enum", <<M("x", One), M("y", Two)>>)}

Sig(ins, outs) == [doc |-> "", inputs |-> ins, outputs |-> outs]

Fns ==
    {Sig(<<>>, <<>>), Sig(<<M("x", A)>>, <<U32>>), Sig(<<M("y", Val)>>, <<U32>>), Sig(<<M("y", A), M("x", B)>>, <<U32>>),
     Sig(<<>>, <<Result(A, E)>>), Sig(<<M("x", Tuple(<<U32, B>>))>>, <<>>), Sig(<<M("x", Tuple(<<A>>))>>, <<>>)}

Build(a, b, e, fns) ==
    [types |-> [t \in MCType |-> CASE t = "A" -> a [] t = "B" -> b [] OTHER -> e], fns |-> fns]

Error1 == Def("error enum", <<M("x", One)>>)
AB == Sig(<<M("x", A)>>, <<B>>)

\* The same calls between types that differ; then other calls between types alike.
MCMeetings ==
    {[client |-> Build(a[1], b[1], Error1, [f \in {"f"} |-> AB]),
      contract |-> Build(a[2], b[2], Error1, [f \in {"f"} |-> AB])] : a \in As \X As, b \in Bs \X Bs}
    \cup {LET build(err, sigs) == Build(Struct(<<M("x", B), M("y", Vec(B))>>), Def("enum", <<M("x", One)>>), err, sigs)
          IN  [client |-> build(e[1], s[1]), contract |-> build(e[2], s[2])] :
          e \in Es \X Es, s \in [{"f"} -> Fns] \X ([{"f"} -> Fns] \cup [MCFn -> Fns])}

-----------------------------------------------------------------------------
(* What the walk of the call ABI promises, in terms of values *)

\* The validator does not know error enums, so contract errors are left out.
RECURSIVE HoldsError(_)
HoldsError(v) == v.tag = "error" \/ \E i \in DOMAIN v.items : HoldsError(v.items[i])

\* When the walk ends without a break, every value that one side encodes for
\* an argument or a result is one that the other side can decode: the two
\* readings of a type, by call_abi.rs and by empirical.rs, agree.
DecodesWhatItIsSent ==
    Compared /\ breaks = {} =>
        \A f \in DOMAIN client.fns : \A w \in CallFlows(client, contract, f) :
            \A v \in Encodings(Encoder(client, contract, w.side), w.sent, Depth) :
                HoldsError(v) \/ Valid(v, w.read, Decoder(client, contract, w.side))
=============================================================================
