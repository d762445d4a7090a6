------------------------------ MODULE CallFlow ------------------------------
(***************************************************************************)
(* The relation call_abi.rs checks.  A client encodes the arguments of a   *)
(* call and the contract decodes them; the contract encodes the result and *)
(* the client decodes it.  A flow [side, sent, read] is a type expression  *)
(* of the encoder met by one of the decoder.  A flow clashes, or is fine   *)
(* as far as its parts are.                                                *)
(***************************************************************************)
EXTENDS ContractSpecs

\* A name stands for one type expression.
ASSUME ShapeAssumption ==
    \A s \in Shape :
        /\ s.args \in Seq(Shape)
        /\ s.con = "udt" => \A t \in Shape : t.con = "udt" /\ t.of = s.of => t = s

Flow(side, sent, read) == [side |-> side, sent |-> sent, read |-> read]

Flows == [side : {"argument", "return"}, sent : Shape, read : Shape]

Encoder(client, contract, side) == IF side = "argument" THEN client ELSE contract
Decoder(client, contract, side) == IF side = "argument" THEN contract ELSE client

Both(v, con) == v.sent.con = con /\ v.read.con = con

Nesting == {"option", "vec", "map", "tuple", "result"}

SameShape(a, b) == a.con = b.con /\ Len(a.args) = Len(b.args)

Zip(side, a, b) == {Flow(side, a[i], b[i]) : i \in (DOMAIN a) \cap (DOMAIN b)}

\* Members of two definitions that answer to one name.
Namesakes(o, n) == {ij \in (DOMAIN o) \X (DOMAIN n) : o[ij[1]].name = n[ij[2]].name}

SameKind(sender, reader, v) ==
    /\ v.sent.of \in DOMAIN sender.types /\ v.read.of \in DOMAIN reader.types
    /\ sender.types[v.sent.of].kind = reader.types[v.read.of].kind

-----------------------------------------------------------------------------
(***************************************************************************)
(* check_udt_flow.  A struct is a map from its field names, so their order *)
(* does not matter; an enum is a number; a union its case and payload.     *)
(***************************************************************************)
\* Mutant (DecodesWhatItIsSent): the cases the decoder knows must be sent.
UdtClashesReversed(o, n) ==
    IF o.kind = "struct" THEN Names(o.members) # Names(n.members)
    ELSE IF o.kind = "union" THEN Names(n.members) \ Names(o.members) # {}
    ELSE \E j \in DOMAIN n.members : \A i \in DOMAIN o.members : o.members[i].ty # n.members[j].ty

UdtClashes(o, n) ==
    IF o.kind = "struct" THEN Names(o.members) # Names(n.members)
    ELSE IF o.kind = "union" THEN
        \E i \in DOMAIN o.members : ~\E j \in DOMAIN n.members :
            /\ o.members[i].name = n.members[j].name
            /\ SameShape(o.members[i].ty, n.members[j].ty)
    ELSE \E i \in DOMAIN o.members : \A j \in DOMAIN n.members : o.members[i].ty # n.members[j].ty

StructParts(side, o, n) ==
    IF UdtClashes(o, n) THEN {}
    ELSE {Flow(side, o.members[ij[1]].ty, n.members[ij[2]].ty) : ij \in Namesakes(o.members, n.members)}

PayloadParts(side, a, b) == IF SameShape(a, b) THEN Zip(side, a.args, b.args) ELSE {}

UnionParts(side, o, n) ==
    UNION {PayloadParts(side, o.members[ij[1]].ty, n.members[ij[2]].ty) : ij \in Namesakes(o.members, n.members)}

UdtParts(side, o, n) ==
    IF o.kind = "struct" THEN StructParts(side, o, n)
    ELSE IF o.kind = "union" THEN UnionParts(side, o, n) ELSE {}

\* check_value_flow.  A Val decodes anything.
Clashes(sender, reader, v) ==
    /\ v.read.con # "val"
    /\ IF v.sent.con = v.read.con /\ v.sent.con \in Nesting THEN Len(v.sent.args) # Len(v.read.args)
       ELSE IF Both(v, "udt") THEN \/ ~SameKind(sender, reader, v)
                                   \/ UdtClashes(sender.types[v.sent.of], reader.types[v.read.of])
       ELSE v.sent # v.read

Parts(sender, reader, v) ==
    IF v.sent.con \in Nesting THEN PayloadParts(v.side, v.sent, v.read)
    ELSE IF Both(v, "udt") /\ SameKind(sender, reader, v)
    THEN UdtParts(v.side, sender.types[v.sent.of], reader.types[v.read.of])
    ELSE {}

-----------------------------------------------------------------------------
(***************************************************************************)
(* compare_direction.  Parameter names do not take part; order and number  *)
(* do.                                                                     *)
(***************************************************************************)
CallClashes(client, contract, f) ==
    \/ f \notin DOMAIN contract.fns
    \/ Len(client.fns[f].inputs) # Len(contract.fns[f].inputs)
    \/ Len(client.fns[f].outputs) # Len(contract.fns[f].outputs)

ArgumentFlows(o, n) ==
    IF Len(o.inputs) # Len(n.inputs) THEN {}
    ELSE {Flow("argument", o.inputs[i].ty, n.inputs[i].ty) : i \in DOMAIN o.inputs}

ReturnFlows(o, n) == IF Len(o.outputs) # Len(n.outputs) THEN {} ELSE Zip("return", n.outputs, o.outputs)

CallFlows(client, contract, f) ==
    IF f \notin DOMAIN contract.fns THEN {}
    ELSE ArgumentFlows(client.fns[f], contract.fns[f]) \cup ReturnFlows(client.fns[f], contract.fns[f])

-----------------------------------------------------------------------------
(***************************************************************************)
(* A set of flows that contains those of every call and the parts of its   *)
(* members, and in which nothing clashes, is a proof that every value sent *)
(* is understood, however deep the types nest and whatever cycles they     *)
(* form.  The smallest candidate is everything that can be reached.        *)
(***************************************************************************)
ClashesIn(client, contract, v) == Clashes(Encoder(client, contract, v.side), Decoder(client, contract, v.side), v)

PartsIn(client, contract, v) == Parts(Encoder(client, contract, v.side), Decoder(client, contract, v.side), v)

Closed(client, contract, S) ==
    /\ \A f \in DOMAIN client.fns : CallFlows(client, contract, f) \subseteq S
    /\ \A v \in S : PartsIn(client, contract, v) \subseteq S

Understood(client, contract, S) ==
    /\ \A f \in DOMAIN client.fns : ~CallClashes(client, contract, f)
    /\ Closed(client, contract, S)
    /\ \A v \in S : ~ClashesIn(client, contract, v)

Reached(client, contract) ==
    LET Grow[S \in SUBSET Flows] ==
            LET all == S \cup UNION {PartsIn(client, contract, v) : v \in S}
            IN  IF all = S THEN S ELSE Grow[all]
    IN  Grow[UNION {CallFlows(client, contract, f) : f \in DOMAIN client.fns}]

CallsAgree(client, contract) == Understood(client, contract, Reached(client, contract))
=============================================================================
