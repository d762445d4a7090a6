------------------------------- MODULE CallAbi -------------------------------
(***************************************************************************)
(* The walk of call_abi.rs.  For every function of the client, for every   *)
(* argument and result, check_value_flow and check_udt_flow call each      *)
(* other down the two type expressions.  Types may embed themselves, so a  *)
(* pair of names that is being walked is not entered again.                *)
(*                                                                         *)
(* The call stack is a sequence of frames [fn, flow, rest]: the flow that  *)
(* a call is about, and its parts still to go down.  They are taken in any *)
(* order (the report sorts its breaks), and parts that are alike once, as  *)
(* their breaks differ in nothing but the path that is printed.            *)
(***************************************************************************)
EXTENDS CallFlow

CONSTANT Meetings  \* the pairs [client, contract] to compare

ASSUME MeetingsAssumption ==
    \A m \in Meetings : DOMAIN m = {"client", "contract"} /\ IsSpec(m.client) /\ IsSpec(m.contract)

VARIABLES
    client, contract,  \* the two sides of the direction compared
    calls,             \* the functions still to compare
    flows,             \* the flows of the current function still to walk
    stack,             \* the calls of the current walk
    visiting,          \* the pairs of type names it is in
    breaks,            \* [fn, at]: at holds the flow, or nothing for the call itself
    seen               \* history: the flows entered

callVars == <<client, contract, calls, flows, stack, visiting, breaks, seen>>

\* Mutant (NoBreakMissed): a type is visited, whatever it is compared with.
PairOfSent(v) == IF Both(v, "udt") THEN {<<v.sent.of, v.sent.of>>} ELSE {}

\* The pair of names that is visited while a flow is walked.
PairOf(v) == IF Both(v, "udt") THEN {<<v.sent.of, v.read.of>>} ELSE {}

CallInit ==
    /\ \E m \in Meetings : client = m.client /\ contract = m.contract
    /\ calls = DOMAIN client.fns
    /\ flows = {} /\ stack = <<>> /\ visiting = {} /\ breaks = {} /\ seen = {}

CompareCall ==
    /\ flows = {} /\ stack = <<>>
    /\ \E f \in calls :
          /\ calls' = calls \ {f}
          /\ flows' = {[fn |-> f, flow |-> v] : v \in CallFlows(client, contract, f)}
          /\ breaks' = breaks \cup (IF CallClashes(client, contract, f) THEN {[fn |-> f, at |-> {}]} ELSE {})
    /\ UNCHANGED <<client, contract, stack, visiting, seen>>

\* A call about flow v, on top of the stack `below`, while `within` is visited.
Enter(f, v, below, within) ==
    /\ stack' = Append(below, [fn |-> f, flow |-> v, rest |-> PartsIn(client, contract, v)])
    /\ visiting' = within \cup PairOf(v)
    /\ breaks' = breaks \cup (IF ClashesIn(client, contract, v) THEN {[fn |-> f, at |-> {v}]} ELSE {})
    /\ seen' = seen \cup {v}

\* Every argument and result starts with nothing visited.
Begin ==
    /\ stack = <<>>
    /\ \E t \in flows : flows' = flows \ {t} /\ Enter(t.fn, t.flow, <<>>, {})
    /\ UNCHANGED <<client, contract, calls>>

Top == stack[Len(stack)]
Below == SubSeq(stack, 1, Len(stack) - 1)

\* Mutant (NoBreakInvented): a type that embeds itself is a break.
DescendAcyclic ==
    /\ stack # <<>>
    /\ \E v \in Top.rest :
          LET below == [stack EXCEPT ![Len(stack)].rest = @ \ {v}]
          IN  IF PairOf(v) # {} /\ PairOf(v) \subseteq visiting
              THEN /\ stack' = below
                   /\ breaks' = breaks \cup {[fn |-> Top.fn, at |-> {v}]}
                   /\ UNCHANGED <<visiting, seen>>
              ELSE Enter(Top.fn, v, below, visiting)
    /\ UNCHANGED <<client, contract, calls, flows>>

\* Mutant (WalkEnds): the part that is gone down stays.
DescendAgain ==
    /\ stack # <<>>
    /\ \E v \in Top.rest :
          LET below == [stack EXCEPT ![Len(stack)].rest = @]
          IN  IF PairOf(v) # {} /\ PairOf(v) \subseteq visiting
              THEN stack' = below /\ UNCHANGED <<visiting, breaks, seen>>
              ELSE Enter(Top.fn, v, below, visiting)
    /\ UNCHANGED <<client, contract, calls, flows>>

Descend ==
    /\ stack # <<>>
    /\ \E v \in Top.rest :
          LET below == [stack EXCEPT ![Len(stack)].rest = @ \ {v}]
          IN  IF PairOf(v) # {} /\ PairOf(v) \subseteq visiting
              THEN stack' = below /\ UNCHANGED <<visiting, breaks, seen>>
              ELSE Enter(Top.fn, v, below, visiting)
    /\ UNCHANGED <<client, contract, calls, flows>>

Return ==
    /\ stack # <<>> /\ Top.rest = {}
    /\ stack' = Below
    /\ visiting' = visiting \ PairOf(Top.flow)
    /\ UNCHANGED <<client, contract, calls, flows, breaks, seen>>

CallNext == CompareCall \/ Begin \/ Descend \/ Return

\* compare_direction is one synchronous call.
CallSpec == CallInit /\ [][CallNext]_callVars /\ WF_callVars(CallNext)

Compared == calls = {} /\ flows = {} /\ stack = <<>>

-----------------------------------------------------------------------------
CallTypeOK ==
    /\ IsSpec(client) /\ IsSpec(contract)
    /\ calls \subseteq DOMAIN client.fns
    /\ flows \subseteq [fn : DOMAIN client.fns, flow : Flows]
    /\ stack \in Seq([fn : DOMAIN client.fns, flow : Flows, rest : SUBSET Flows])
    /\ visiting = UNION {PairOf(stack[i].flow) : i \in DOMAIN stack}
    /\ seen \subseteq Flows

\* No break is missed: when the walk ends without one, what it has entered
\* accounts for every value of every call.  A pair of names that is skipped
\* because it is being walked was not merely assumed to be compatible.
\* (call_abi.rs: check_udt_flow and its set `visiting`.)
NoBreakMissed == Compared /\ breaks = {} => Understood(client, contract, seen)

\* No break is made up: with one, the calls cannot be understood.
\* (call_abi.rs: check_value_flow.)
NoBreakInvented == breaks # {} => ~CallsAgree(client, contract)

\* Types that embed themselves or each other do not keep the walk going.
\* (call_abi.rs: check_udt_flow, which forgets a pair when it leaves it.)
WalkEnds == <>Compared
=============================================================================
