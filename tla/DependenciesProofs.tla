------------------------- MODULE DependenciesProofs -------------------------
(***************************************************************************)
(* Proofs about Dependencies, for any contracts, declarations and findings.*)
(*                                                                         *)
(* detect_cycles reports cycles only, and none is left when the calls that *)
(* close the reported ones are taken away. A contract on the call stack is *)
(* grey, one that was left is black. The invariant follows the calls that  *)
(* were looked at: each closes a reported cycle, leads to a black contract,*)
(* or leads up the stack.                                                  *)
(*                                                                         *)
(* propagate tells each contract of what it hears of, once and at its      *)
(* shortest distance, and returns the same list whatever the order of the  *)
(* HashMap. What was told and what is queued is one line: the invariant    *)
(* says that each entry of it is at its distance, that the line grows by   *)
(* depth, and that all who hear of what was seeded or told are in it.      *)
(***************************************************************************)
EXTENDS Dependencies, SequenceTheorems, FiniteSetTheorems, WellFoundedInduction, TLAPS

EdgeSet == [callee : Contract, fns : SUBSET UNION {d.fns : d \in Declaration}]

Frame == [node : Contract, next : Nat \ {0}]

WalkTypeOK ==
  /\ pc \in {"declare", "cycles", "propagate", "done"}
  /\ declared \subseteq Declaration
  /\ edges \in [Contract -> Seq(EdgeSet)]
  /\ visited \subseteq Contract
  /\ stack \in Seq(Frame)
  /\ cycles \in Seq(Seq(Contract))

\* The edges are the declared calls, merged.
LeadsOf(es, c) == \E i \in DOMAIN es : es[i].callee = c
Leads(a, c) == LeadsOf(edges[a], c)
EdgesInv == \A a \in Contract : \A c : Leads(a, c) <=> Calls(a, c)

Grey == {stack[i].node : i \in DOMAIN stack}
Black == visited \ Grey

\* The stack is a path of calls through distinct contracts.
PathInv ==
  /\ \A i, j \in DOMAIN stack : stack[i].node = stack[j].node => i = j
  /\ Grey \subseteq visited
  /\ \A i \in DOMAIN stack : stack[i].next <= Len(edges[stack[i].node]) + 1
  /\ \A i \in DOMAIN stack : i < Len(stack) =>
       stack[i].next > 1 /\ edges[stack[i].node][stack[i].next - 1].callee = stack[i + 1].node

Settled(a, c) == <<a, c>> \in Closing \/ c \in Black

LookedInv ==
  \A i \in DOMAIN stack : \A k \in 1..(stack[i].next - 1) :
    LET c == edges[stack[i].node][k].callee
    IN  Settled(stack[i].node, c) \/ (i < Len(stack) /\ c = stack[i + 1].node)

BlackInv == \A a \in Black : \A c : Leads(a, c) => Settled(a, c)

CyclesInv == \A i \in DOMAIN cycles : IsCycle(cycles[i])

PhaseInv ==
  /\ pc \in {"declare", "propagate"} => visited = {} /\ stack = <<>> /\ cycles = <<>>
  /\ pc = "done" /\ visited # {} => stack = <<>> /\ Roots = {}

WalkInv ==
  /\ WalkTypeOK /\ EdgesInv /\ PathInv /\ LookedInv /\ BlackInv
  /\ NoCycleIn(Black) /\ CyclesInv /\ PhaseInv

-----------------------------------------------------------------------------
(* Sequences.                                                              *)

LEMMA ElementOf ==
  ASSUME NEW S, NEW s \in Seq(S), NEW i \in DOMAIN s
  PROVE  s[i] \in S
OBVIOUS

LEMMA PushFacts ==
  ASSUME NEW S, NEW s \in Seq(S), NEW x \in S
  PROVE  /\ Append(s, x) \in Seq(S)
         /\ Len(Append(s, x)) = Len(s) + 1
         /\ DOMAIN Append(s, x) = 1..(Len(s) + 1) /\ DOMAIN s = 1..Len(s) /\ Len(s) \in Nat
         /\ \A i \in DOMAIN s : Append(s, x)[i] = s[i]
         /\ Append(s, x)[Len(s) + 1] = x
OBVIOUS

LEMMA PopFacts ==
  ASSUME NEW S, NEW s \in Seq(S), s # <<>>
  PROVE  /\ SubSeq(s, 1, Len(s) - 1) \in Seq(S)
         /\ Len(SubSeq(s, 1, Len(s) - 1)) = Len(s) - 1
         /\ DOMAIN SubSeq(s, 1, Len(s) - 1) = 1..(Len(s) - 1)
         /\ DOMAIN s = 1..Len(s) /\ Len(s) \in Nat \ {0} /\ Len(s) \in DOMAIN s
         /\ \A i \in 1..(Len(s) - 1) : SubSeq(s, 1, Len(s) - 1)[i] = s[i]
<1>1. DOMAIN s = 1..Len(s) /\ Len(s) \in Nat \ {0} /\ Len(s) \in DOMAIN s
  OBVIOUS
<1>2. \A i \in 1..(Len(s) - 1) : s[i] \in S
  BY <1>1, ElementOf
<1>3. 1 \in Int /\ Len(s) - 1 \in Int
  BY <1>1
<1> DEFINE p == SubSeq(s, 1, Len(s) - 1)
<1>4. /\ p \in Seq(S)
      /\ Len(p) = IF 1 <= Len(s) - 1 THEN Len(s) - 1 - 1 + 1 ELSE 0
      /\ \A i \in 1..(Len(s) - 1 - 1 + 1) : p[i] = s[1 + i - 1]
  BY <1>2, <1>3, SubSeqProperties
<1> HIDE DEF p
<1>5. Len(p) = Len(s) - 1 /\ \A i \in 1..(Len(s) - 1) : p[i] = s[i]
  <2>1. Len(s) - 1 - 1 + 1 = Len(s) - 1 /\ \A i \in 1..(Len(s) - 1) : 1 + i - 1 = i
    BY <1>1
  <2>2. Len(p) = Len(s) - 1
    <3>1. \A n \in Nat \ {0} : (IF 1 <= n - 1 THEN n - 1 - 1 + 1 ELSE 0) = n - 1
      OBVIOUS
    <3> QED
      BY <1>1, <1>4, <3>1
  <2> QED
    BY <1>4, <2>1, <2>2
<1>6. DOMAIN p = 1..Len(p)
  BY <1>4
<1> QED
  BY <1>1, <1>4, <1>5, <1>6 DEF p

LEMMA TableIsSeq ==
  ASSUME NEW S, NEW n \in Nat, NEW f, f = [i \in 1..n |-> f[i]], \A i \in 1..n : f[i] \in S
  PROVE  f \in Seq(S) /\ Len(f) = n
OBVIOUS

-----------------------------------------------------------------------------
(* Declarations.                                                           *)

\* Merging a declaration adds its call and loses none.
LEMMA MergeFacts ==
  ASSUME NEW es \in Seq(EdgeSet), NEW d \in Declaration
  PROVE  /\ Merge(es, d) \in Seq(EdgeSet)
         /\ \A c : LeadsOf(Merge(es, d), c) <=> LeadsOf(es, c) \/ c = d.callee
<1> DEFINE at == {i \in DOMAIN es : es[i].callee = d.callee}
           both(fns) == IF fns = {} \/ d.fns = {} THEN {} ELSE fns \cup d.fns
           merged == [i \in DOMAIN es |-> IF i \in at THEN [es[i] EXCEPT !.fns = both(@)] ELSE es[i]]
           edge == [callee |-> d.callee, fns |-> d.fns]
<1>1. Merge(es, d) = IF at = {} THEN Append(es, edge) ELSE merged
  BY DEF Merge
<1>2. edge \in EdgeSet
  BY DeclarationAssumption DEF EdgeSet
<1>3. CASE at = {}
  <2>1. Merge(es, d) = Append(es, edge)
    BY <1>1, <1>3
  <2> HIDE DEF edge
  <2>2. /\ Append(es, edge) \in Seq(EdgeSet)
        /\ DOMAIN Append(es, edge) = 1..(Len(es) + 1) /\ DOMAIN es = 1..Len(es) /\ Len(es) \in Nat
        /\ \A i \in DOMAIN es : Append(es, edge)[i] = es[i]
        /\ Append(es, edge)[Len(es) + 1] = edge
    BY <1>2, PushFacts
  <2>3. edge.callee = d.callee
    BY DEF edge
  <2> QED
    BY <2>1, <2>2, <2>3 DEF LeadsOf
<1>4. CASE at # {}
  <2>1. Merge(es, d) = merged
    BY <1>1, <1>4
  <2>2. \A i \in DOMAIN es : es[i] \in EdgeSet
    BY ElementOf
  <2>3. \A fns \in SUBSET UNION {x.fns : x \in Declaration} :
           both(fns) \in SUBSET UNION {x.fns : x \in Declaration}
    OBVIOUS
  <2>4. \A i \in DOMAIN es : merged[i] \in EdgeSet /\ merged[i].callee = es[i].callee
    <3> SUFFICES ASSUME NEW i \in DOMAIN es
                 PROVE  merged[i] \in EdgeSet /\ merged[i].callee = es[i].callee
      OBVIOUS
    <3>1. es[i].callee \in Contract /\ es[i].fns \in SUBSET UNION {x.fns : x \in Declaration}
      BY <2>2 DEF EdgeSet
    <3>2. both(es[i].fns) \in SUBSET UNION {x.fns : x \in Declaration}
      BY <2>3, <3>1
    <3> HIDE DEF both
    <3>3. [es[i] EXCEPT !.fns = both(@)] = [callee |-> es[i].callee, fns |-> both(es[i].fns)]
      BY <2>2 DEF EdgeSet
    <3>4. merged[i] = IF i \in at THEN [callee |-> es[i].callee, fns |-> both(es[i].fns)] ELSE es[i]
      BY <3>3
    <3> HIDE DEF merged
    <3> QED
      BY <2>2, <3>1, <3>2, <3>4 DEF EdgeSet
  <2>5. /\ DOMAIN merged = DOMAIN es /\ DOMAIN es = 1..Len(es) /\ Len(es) \in Nat
        /\ merged = [i \in DOMAIN es |-> merged[i]]
    OBVIOUS
  <2> HIDE DEF merged
  <2>6. merged \in Seq(EdgeSet)
    BY <2>4, <2>5, TableIsSeq
  <2>7. \E i \in DOMAIN es : es[i].callee = d.callee
    BY <1>4
  <2> QED
    BY <2>1, <2>4, <2>5, <2>6, <2>7 DEF LeadsOf
<1> QED
  BY <1>3, <1>4

LEMMA DeclareKeeps ==
  ASSUME WalkInv, NEW d \in Declaration, Declare(d)
  PROVE  WalkInv'
<1>1. /\ pc = "declare" /\ pc' = pc /\ declared' = declared \cup {d}
      /\ edges' = [edges EXCEPT ![d.caller] = Merge(@, d)]
      /\ visited' = {} /\ stack' = <<>> /\ cycles' = <<>>
  BY DEF Declare, cycleVars, WalkInv, PhaseInv
<1>2. d.caller \in Contract /\ edges \in [Contract -> Seq(EdgeSet)]
  BY DeclarationAssumption DEF WalkInv, WalkTypeOK
<1>3. edges' \in [Contract -> Seq(EdgeSet)]
  BY <1>1, <1>2, MergeFacts
<1>4. EdgesInv'
  <2> SUFFICES ASSUME NEW a \in Contract, NEW c
               PROVE  LeadsOf(edges'[a], c) <=> \E x \in declared' : x.caller = a /\ x.callee = c
    BY DEF EdgesInv, Leads, LeadsOf, Calls
  <2>1. LeadsOf(edges[a], c) <=> \E x \in declared : x.caller = a /\ x.callee = c
    BY DEF WalkInv, EdgesInv, Leads, Calls
  <2>2. CASE a = d.caller
    <3>1. edges'[a] = Merge(edges[a], d)
      BY <1>1, <1>2, <2>2
    <3>2. LeadsOf(edges'[a], c) <=> LeadsOf(edges[a], c) \/ c = d.callee
      BY <1>2, <3>1, MergeFacts
    <3> QED
      BY <1>1, <2>1, <2>2, <3>2
  <2>3. CASE a # d.caller
    BY <1>1, <1>2, <2>1, <2>3
  <2> QED
    BY <2>2, <2>3
<1>5. WalkTypeOK'
  BY <1>1, <1>3 DEF WalkInv, WalkTypeOK
<1>6. Grey' = {} /\ Black' = {}
  BY <1>1 DEF Grey, Black
<1>7. PathInv' /\ LookedInv' /\ BlackInv' /\ CyclesInv' /\ PhaseInv'
  BY <1>1, <1>6 DEF PathInv, LookedInv, BlackInv, CyclesInv, PhaseInv
<1>8. NoCycleIn(Black)'
  BY <1>6 DEF NoCycleIn
<1> QED
  BY <1>4, <1>5, <1>7, <1>8 DEF WalkInv

-----------------------------------------------------------------------------
(* What a step of the walk leaves as it is.                                *)

SameGraph == declared' = declared /\ edges' = edges

LEMMA GraphKept ==
  ASSUME SameGraph, EdgesInv
  PROVE  /\ EdgesInv'
         /\ \A a, c : Leads(a, c)' <=> Leads(a, c)
         /\ \A a, c : Calls(a, c)' <=> Calls(a, c)
BY DEF SameGraph, EdgesInv, Leads, LeadsOf, Calls

\* A set of contracts without a cycle has none when more calls are closed.
LEMMA StillAcyclic ==
  ASSUME SameGraph, EdgesInv, Closing \subseteq Closing', NoCycleIn(Black), Black' = Black
  PROVE  NoCycleIn(Black)'
<1>1. \A a, b : Kept(a, b)' => Kept(a, b)
  BY GraphKept DEF Kept
<1> QED
  BY <1>1 DEF NoCycleIn

LEMMA StillCycles ==
  ASSUME SameGraph, EdgesInv, CyclesInv, cycles' = cycles
  PROVE  CyclesInv'
<1>1. \A c : IsCycle(c) => IsCycle(c)'
  BY GraphKept DEF IsCycle
<1> QED
  BY <1>1 DEF CyclesInv

\* One more cycle closes one more call.
LEMMA ClosingGrows ==
  ASSUME cycles \in Seq(Seq(Contract)), NEW c \in Seq(Contract), Len(c) > 1,
         cycles' = Append(cycles, c)
  PROVE  /\ cycles' \in Seq(Seq(Contract))
         /\ Closing' = Closing \cup {<<c[Len(c) - 1], c[Len(c)]>>}
<1> DEFINE ClosedBy(x) == <<x[Len(x) - 1], x[Len(x)]>>
<1>1. /\ cycles' \in Seq(Seq(Contract))
      /\ DOMAIN cycles' = 1..(Len(cycles) + 1) /\ DOMAIN cycles = 1..Len(cycles) /\ Len(cycles) \in Nat
      /\ \A i \in DOMAIN cycles : cycles'[i] = cycles[i]
      /\ cycles'[Len(cycles) + 1] = c
  BY PushFacts
<1>2. Closing = {ClosedBy(cycles[i]) : i \in DOMAIN cycles}
  BY DEF Closing
<1>3. Closing' = {ClosedBy(cycles'[i]) : i \in DOMAIN cycles'}
  BY DEF Closing
<1> HIDE DEF ClosedBy
<1>4. Closing' = Closing \cup {ClosedBy(c)}
  BY <1>1, <1>2, <1>3
<1> QED
  BY <1>1, <1>4 DEF ClosedBy

-----------------------------------------------------------------------------
(* Entering a contract.                                                    *)

\* What is below the contract that is entered: the stack, with its top looking
\* at the call that leads to it.
LEMMA EnterKeeps ==
  ASSUME WalkInv, pc = "cycles", NEW node \in Contract, node \notin visited,
         NEW below \in Seq(Frame), Enter(node, below),
         Len(below) = Len(stack),
         \A i \in DOMAIN stack : below[i].node = stack[i].node,
         \A i \in DOMAIN stack : i < Len(stack) => below[i] = stack[i],
         \A i \in DOMAIN stack : i = Len(stack) =>
           /\ below[i].next > 1 /\ below[i].next <= Len(edges[below[i].node]) + 1
           /\ edges[below[i].node][below[i].next - 1].callee = node
           /\ \A k \in 1..(below[i].next - 2) : Settled(below[i].node, edges[below[i].node][k].callee)
  PROVE  WalkInv'
<1> DEFINE frame == [node |-> node, next |-> 1]
<1>1. /\ visited' = visited \cup {node} /\ stack' = Append(below, frame)
      /\ pc' = pc /\ cycles' = cycles /\ SameGraph
  BY DEF Enter, SameGraph
<1>2. frame \in Frame /\ frame.node = node /\ frame.next = 1
  BY DEF Frame
<1> HIDE DEF frame
<1>3. /\ stack' \in Seq(Frame)
      /\ Len(stack') = Len(stack) + 1
      /\ DOMAIN stack' = 1..(Len(stack) + 1) /\ DOMAIN stack = 1..Len(stack) /\ Len(stack) \in Nat
      /\ \A i \in DOMAIN stack : stack'[i] = below[i]
      /\ stack'[Len(stack) + 1] = frame
      /\ DOMAIN below = DOMAIN stack
  <2>1. DOMAIN below = DOMAIN stack /\ DOMAIN stack = 1..Len(stack) /\ Len(stack) \in Nat
    BY DEF WalkInv, WalkTypeOK
  <2> QED
    BY <1>1, <1>2, <2>1, PushFacts
<1>4. Grey' = Grey \cup {node} /\ node \notin Grey /\ Black' = Black
  <2>1. Grey' = Grey \cup {node}
    BY <1>2, <1>3 DEF Grey
  <2>2. node \notin Grey
    BY DEF WalkInv, PathInv
  <2> QED
    BY <1>1, <2>1, <2>2 DEF Black
<1>5. Closing' = Closing
  BY <1>1 DEF Closing
<1>6. \A a, c : Settled(a, c)' <=> Settled(a, c)
  BY <1>4, <1>5 DEF Settled
<1>7. WalkTypeOK'
  BY <1>1, <1>3 DEF WalkInv, WalkTypeOK, SameGraph
<1>8. PathInv'
  <2>1. \A i, j \in DOMAIN stack' : stack'[i].node = stack'[j].node => i = j
    <3>1. \A i \in DOMAIN stack : stack'[i].node = stack[i].node /\ stack[i].node # node
      BY <1>3, <1>4 DEF Grey
    <3>2. \A i, j \in DOMAIN stack : stack[i].node = stack[j].node => i = j
      BY DEF WalkInv, PathInv
    <3> QED
      BY <1>2, <1>3, <3>1, <3>2
  <2>2. Grey' \subseteq visited'
    BY <1>1, <1>4 DEF WalkInv, PathInv
  <2>3. ASSUME NEW i \in DOMAIN stack'
        PROVE  stack'[i].next <= Len(edges'[stack'[i].node]) + 1
    <3>1. edges' = edges
      BY <1>1 DEF SameGraph
    <3>2. CASE i = Len(stack) + 1
      <4>1. Len(edges[node]) \in Nat
        BY DEF WalkInv, WalkTypeOK
      <4> QED
        BY <1>2, <1>3, <3>1, <3>2, <4>1
    <3>3. CASE i = Len(stack) /\ i \in DOMAIN stack
      BY <1>3, <3>1, <3>3
    <3>4. CASE i < Len(stack) /\ i \in DOMAIN stack
      BY <1>3, <3>1, <3>4 DEF WalkInv, PathInv
    <3> QED
      BY <1>3, <3>2, <3>3, <3>4
  <2>4. ASSUME NEW i \in DOMAIN stack', i < Len(stack')
        PROVE  /\ stack'[i].next > 1
               /\ edges'[stack'[i].node][stack'[i].next - 1].callee = stack'[i + 1].node
    <3>1. edges' = edges /\ i \in DOMAIN stack
      BY <1>1, <1>3, <2>4 DEF SameGraph
    <3>2. CASE i = Len(stack)
      BY <1>2, <1>3, <3>1, <3>2
    <3>3. CASE i # Len(stack)
      <4>1. i < Len(stack) /\ i + 1 \in DOMAIN stack
        BY <1>3, <3>1, <3>3
      <4>2. stack'[i] = stack[i] /\ stack'[i + 1].node = stack[i + 1].node
        BY <1>3, <3>1, <4>1
      <4> QED
        BY <3>1, <4>1, <4>2 DEF WalkInv, PathInv
    <3> QED
      BY <3>2, <3>3
  <2> QED
    BY <2>1, <2>2, <2>3, <2>4 DEF PathInv
<1>9. LookedInv'
  <2> SUFFICES ASSUME NEW i \in DOMAIN stack', NEW k \in 1..(stack'[i].next - 1)
               PROVE  LET c == edges'[stack'[i].node][k].callee
                      IN  \/ <<stack'[i].node, c>> \in Closing' \/ c \in Black'
                          \/ i < Len(stack') /\ c = stack'[i + 1].node
    BY DEF LookedInv, Settled
  <2>1. edges' = edges /\ i # Len(stack) + 1 /\ i \in DOMAIN stack
    BY <1>1, <1>2, <1>3 DEF SameGraph
  <2>2. CASE i = Len(stack)
    <3>1. below[i].next \in Nat
      <4>1. below[i] \in Frame
        BY <1>3, <2>1, ElementOf
      <4> QED
        BY <4>1 DEF Frame
    <3>2. CASE k = below[i].next - 1
      <4>1. stack'[i] = below[i] /\ stack'[i + 1].node = node /\ i < Len(stack')
        <5>1. stack'[i] = below[i]
          BY <1>3, <2>1
        <5>2. stack'[i + 1] = frame
          BY <1>3, <2>2
        <5>3. i < Len(stack')
          BY <1>3, <2>2
        <5> QED
          BY <1>2, <5>1, <5>2, <5>3
      <4>2. edges[below[i].node][k].callee = node
        BY <2>1, <2>2, <3>2
      <4> QED
        BY <2>1, <4>1, <4>2
    <3>3. CASE k # below[i].next - 1
      <4>1. k \in 1..(below[i].next - 2)
        BY <1>3, <2>1, <3>1, <3>3
      <4> QED
        BY <1>3, <1>4, <1>5, <2>1, <2>2, <4>1 DEF Settled
    <3> QED
      BY <3>2, <3>3
  <2>3. CASE i # Len(stack)
    <3>1. i < Len(stack) /\ i + 1 \in DOMAIN stack /\ i < Len(stack')
      BY <1>3, <2>1, <2>3
    <3>2. stack'[i] = stack[i] /\ stack'[i + 1].node = stack[i + 1].node
      BY <1>3, <2>1, <3>1
    <3>3. k \in 1..(stack[i].next - 1)
      BY <3>2
    <3>4. \/ Settled(stack[i].node, edges[stack[i].node][k].callee)
          \/ edges[stack[i].node][k].callee = stack[i + 1].node
      BY <2>1, <3>1, <3>3 DEF WalkInv, LookedInv
    <3> QED
      BY <1>4, <1>5, <2>1, <3>1, <3>2, <3>4 DEF Settled
  <2> QED
    BY <2>2, <2>3
<1>10. EdgesInv' /\ CyclesInv' /\ NoCycleIn(Black)'
  BY <1>1, <1>4, <1>5, GraphKept, StillAcyclic, StillCycles DEF WalkInv
<1>11. BlackInv'
  BY <1>1, <1>4, <1>6, GraphKept DEF WalkInv, BlackInv
<1>12. PhaseInv'
  BY <1>1 DEF PhaseInv
<1> QED
  BY <1>7, <1>8, <1>9, <1>10, <1>11, <1>12 DEF WalkInv

LEMMA NextRootKeeps ==
  ASSUME WalkInv, NextRoot
  PROVE  WalkInv'
<1>1. PICK c \in Roots : Enter(c, stack)
  BY DEF NextRoot
<1>2. /\ pc = "cycles" /\ stack = <<>> /\ stack \in Seq(Frame)
      /\ DOMAIN stack = {} /\ c \in Contract /\ c \notin visited
  BY DEF NextRoot, Roots, WalkInv, WalkTypeOK
<1> QED
  BY <1>1, <1>2, EnterKeeps

-----------------------------------------------------------------------------
(* Looking at a call.                                                      *)

LEMMA LookedFacts ==
  ASSUME WalkInv, AtNeighbor
  PROVE  /\ Looked \in Seq(Frame) /\ Len(Looked) = Len(stack) /\ DOMAIN Looked = DOMAIN stack
         /\ DOMAIN stack = 1..Len(stack) /\ Len(stack) \in Nat \ {0} /\ Len(stack) \in DOMAIN stack
         /\ \A i \in DOMAIN stack : Looked[i].node = stack[i].node
         /\ \A i \in DOMAIN stack : i # Len(stack) => Looked[i] = stack[i]
         /\ Looked[Len(stack)].next = Top.next + 1 /\ Looked[Len(stack)].node = Top.node
         /\ Top = stack[Len(stack)] /\ Top.node \in Contract /\ Top.next \in Nat \ {0}
         /\ Top.next \in DOMAIN edges[Top.node] /\ Len(edges[Top.node]) \in Nat
         /\ Callee \in Contract
<1>1. stack \in Seq(Frame) /\ stack # <<>> /\ Top.next <= Len(edges[Top.node])
  BY DEF AtNeighbor, WalkInv, WalkTypeOK
<1>2. DOMAIN stack = 1..Len(stack) /\ Len(stack) \in Nat \ {0} /\ Len(stack) \in DOMAIN stack
  BY <1>1, PopFacts
<1>3. Top \in Frame /\ Top = stack[Len(stack)]
  BY <1>1, <1>2, ElementOf DEF Top
<1>4. Top.node \in Contract /\ Top.next \in Nat \ {0}
  BY <1>3 DEF Frame
<1> DEFINE frame == [node |-> Top.node, next |-> Top.next + 1]
<1>5. frame \in Frame /\ frame.node = Top.node /\ frame.next = Top.next + 1
  BY <1>4 DEF Frame
<1>6. Looked = [stack EXCEPT ![Len(stack)] = frame]
  <2>1. [stack[Len(stack)] EXCEPT !.next = stack[Len(stack)].next + 1] = frame
    BY <1>3 DEF Frame
  <2> HIDE DEF frame
  <2>2. Looked = [stack EXCEPT ![Len(stack)] = [stack[Len(stack)] EXCEPT !.next = stack[Len(stack)].next + 1]]
    BY <1>1 DEF Looked
  <2> QED
    BY <2>1, <2>2
<1> HIDE DEF frame
<1>7. /\ Looked \in Seq(Frame) /\ Len(Looked) = Len(stack) /\ DOMAIN Looked = DOMAIN stack
      /\ \A i \in DOMAIN stack : i # Len(stack) => Looked[i] = stack[i]
      /\ Looked[Len(stack)] = frame
  BY <1>1, <1>2, <1>5, <1>6
<1>8. \A i \in DOMAIN stack : Looked[i].node = stack[i].node
  BY <1>3, <1>5, <1>7
<1>9. edges[Top.node] \in Seq(EdgeSet)
  BY <1>4 DEF WalkInv, WalkTypeOK
<1>10. Top.next \in DOMAIN edges[Top.node] /\ Len(edges[Top.node]) \in Nat
  BY <1>1, <1>4, <1>9
<1>11. Callee \in Contract
  <2>1. edges[Top.node][Top.next] \in EdgeSet
    BY <1>9, <1>10, ElementOf
  <2> QED
    BY <2>1 DEF Callee, EdgeSet
<1> QED
  BY <1>2, <1>3, <1>4, <1>5, <1>7, <1>8, <1>10, <1>11

LEMMA DescendKeeps ==
  ASSUME WalkInv, Descend
  PROVE  WalkInv'
<1>1. AtNeighbor /\ Callee \notin visited /\ Enter(Callee, Looked) /\ pc = "cycles"
  BY DEF Descend, AtNeighbor
<1>2. \A i \in DOMAIN stack : i = Len(stack) =>
        /\ Looked[i].next > 1 /\ Looked[i].next <= Len(edges[Looked[i].node]) + 1
        /\ edges[Looked[i].node][Looked[i].next - 1].callee = Callee
        /\ \A k \in 1..(Looked[i].next - 2) : Settled(Looked[i].node, edges[Looked[i].node][k].callee)
  <2> DEFINE n == Top.next
             es == edges[Top.node]
  <2>1. /\ Looked[Len(stack)].next = n + 1 /\ Looked[Len(stack)].node = Top.node
        /\ n \in Nat \ {0} /\ Len(es) \in Nat /\ Callee = es[n].callee
        /\ Top = stack[Len(stack)] /\ Len(stack) \in DOMAIN stack
    BY <1>1, LookedFacts DEF Callee
  <2>2. n <= Len(es)
    BY <1>1 DEF AtNeighbor
  <2>3. \A k \in 1..(n - 1) : Settled(Top.node, es[k].callee)
    <3>1. ~(Len(stack) < Len(stack))
      BY <2>1 DEF WalkInv, WalkTypeOK
    <3> QED
      BY <2>1, <3>1 DEF WalkInv, LookedInv
  <2> HIDE DEF n, es
  <2>4. n + 1 - 1 = n /\ n + 1 - 2 = n - 1 /\ n + 1 > 1 /\ n + 1 <= Len(es) + 1
    BY <2>1, <2>2
  <2>5. \A k \in 1..(Looked[Len(stack)].next - 2) : Settled(Top.node, es[k].callee)
    BY <2>1, <2>3, <2>4
  <2>6. PICK l : l = Looked[Len(stack)]
    OBVIOUS
  <2>7. /\ l.next > 1 /\ l.next <= Len(es) + 1 /\ es[l.next - 1].callee = Callee
        /\ \A k \in 1..(l.next - 2) : Settled(Top.node, es[k].callee)
    BY <2>1, <2>4, <2>5, <2>6
  <2>8. l.node = Top.node
    BY <2>1, <2>6
  <2> QED
    BY <2>6, <2>7, <2>8, Zenon DEF es
<1>3. \A i \in DOMAIN stack : i < Len(stack) => Looked[i] = stack[i]
  BY <1>1, LookedFacts
<1> QED
  BY <1>1, <1>2, <1>3, LookedFacts, EnterKeeps

\* A call that is looked at without entering the contract it leads to is settled.
LEMMA LookKeeps ==
  ASSUME WalkInv, AtNeighbor, SameGraph, pc' = pc, visited' = visited, stack' = Looked,
         cycles' \in Seq(Seq(Contract)), Closing \subseteq Closing', CyclesInv',
         <<Top.node, Callee>> \in Closing' \/ Callee \in Black
  PROVE  WalkInv'
<1>1. pc = "cycles" /\ edges' = edges /\ declared' = declared
  BY DEF AtNeighbor, SameGraph
<1>2. /\ stack' \in Seq(Frame) /\ Len(stack') = Len(stack) /\ DOMAIN stack' = DOMAIN stack
      /\ DOMAIN stack = 1..Len(stack) /\ Len(stack) \in Nat \ {0} /\ Len(stack) \in DOMAIN stack
      /\ \A i \in DOMAIN stack : stack'[i].node = stack[i].node
      /\ \A i \in DOMAIN stack : i # Len(stack) => stack'[i] = stack[i]
      /\ stack'[Len(stack)].next = Top.next + 1 /\ stack'[Len(stack)].node = Top.node
      /\ Top = stack[Len(stack)] /\ Top.next \in Nat \ {0}
      /\ Len(edges[Top.node]) \in Nat /\ Top.next <= Len(edges[Top.node])
  BY LookedFacts DEF AtNeighbor
<1>3. Grey' = Grey /\ Black' = Black
  <2>1. Grey' = Grey
    BY <1>2 DEF Grey
  <2> QED
    BY <2>1 DEF Black
<1>4. \A a, c : Settled(a, c) => Settled(a, c)'
  BY <1>3 DEF Settled
<1>5. WalkTypeOK'
  BY <1>1, <1>2 DEF WalkInv, WalkTypeOK
<1>6. PathInv'
  <2>1. \A i, j \in DOMAIN stack' : stack'[i].node = stack'[j].node => i = j
    BY <1>2 DEF WalkInv, PathInv
  <2>2. Grey' \subseteq visited'
    BY <1>3 DEF WalkInv, PathInv
  <2>3. ASSUME NEW i \in DOMAIN stack'
        PROVE  stack'[i].next <= Len(edges'[stack'[i].node]) + 1
    <3>1. CASE i = Len(stack)
      BY <1>1, <1>2, <3>1
    <3>2. CASE i # Len(stack)
      BY <1>1, <1>2, <2>3, <3>2 DEF WalkInv, PathInv
    <3> QED
      BY <3>1, <3>2
  <2>4. ASSUME NEW i \in DOMAIN stack', i < Len(stack')
        PROVE  /\ stack'[i].next > 1
               /\ edges'[stack'[i].node][stack'[i].next - 1].callee = stack'[i + 1].node
    <3>1. i \in DOMAIN stack /\ i < Len(stack) /\ i # Len(stack) /\ i + 1 \in DOMAIN stack
      BY <1>2, <2>4
    <3>2. stack'[i] = stack[i] /\ stack'[i + 1].node = stack[i + 1].node
      BY <1>2, <3>1
    <3> QED
      BY <1>1, <3>1, <3>2 DEF WalkInv, PathInv
  <2> QED
    BY <2>1, <2>2, <2>3, <2>4 DEF PathInv
<1>7. LookedInv'
  <2> SUFFICES ASSUME NEW i \in DOMAIN stack', NEW k \in 1..(stack'[i].next - 1)
               PROVE  LET c == edges'[stack'[i].node][k].callee
                      IN  \/ <<stack'[i].node, c>> \in Closing' \/ c \in Black'
                          \/ i < Len(stack') /\ c = stack'[i + 1].node
    BY DEF LookedInv, Settled
  <2>1. CASE i = Len(stack)
    <3>1. stack'[i].node = Top.node /\ k \in 1..Top.next
      BY <1>2, <2>1
    <3>2. CASE k = Top.next
      BY <1>1, <1>3, <3>1, <3>2 DEF Callee
    <3>3. CASE k # Top.next
      <4>1. k \in 1..(Top.next - 1) /\ ~(Len(stack) < Len(stack))
        BY <1>2, <3>1, <3>3
      <4>2. Settled(Top.node, edges[Top.node][k].callee)
        BY <1>2, <4>1 DEF WalkInv, LookedInv
      <4> QED
        BY <1>1, <1>3, <3>1, <4>2 DEF Settled
    <3> QED
      BY <3>2, <3>3
  <2>2. CASE i # Len(stack)
    <3>1. i \in DOMAIN stack /\ i < Len(stack) /\ i + 1 \in DOMAIN stack
      BY <1>2, <2>2
    <3>2. stack'[i] = stack[i] /\ stack'[i + 1].node = stack[i + 1].node
      BY <1>2, <2>2, <3>1
    <3>3. k \in 1..(stack[i].next - 1)
      BY <3>2
    <3>4. \/ Settled(stack[i].node, edges[stack[i].node][k].callee)
          \/ edges[stack[i].node][k].callee = stack[i + 1].node
      BY <3>1, <3>3 DEF WalkInv, LookedInv
    <3> QED
      BY <1>1, <1>2, <1>3, <3>1, <3>2, <3>4 DEF Settled
  <2> QED
    BY <2>1, <2>2
<1>8. EdgesInv' /\ NoCycleIn(Black)'
  BY <1>3, GraphKept, StillAcyclic DEF WalkInv
<1>9. BlackInv'
  BY <1>3, <1>4, GraphKept DEF WalkInv, BlackInv
<1>10. PhaseInv'
  BY <1>1 DEF PhaseInv
<1> QED
  BY <1>5, <1>6, <1>7, <1>8, <1>9, <1>10 DEF WalkInv

LEMMA PassVisitedKeeps ==
  ASSUME WalkInv, PassVisited
  PROVE  WalkInv'
<1>1. /\ AtNeighbor /\ Callee \in visited /\ OnPath(Callee) = {} /\ stack' = Looked
      /\ pc' = pc /\ visited' = visited /\ cycles' = cycles /\ SameGraph
  BY DEF PassVisited, SameGraph
<1>2. Callee \in Black
  BY <1>1 DEF OnPath, Black, Grey
<1>3. cycles' \in Seq(Seq(Contract)) /\ Closing' = Closing
  BY <1>1 DEF Closing, WalkInv, WalkTypeOK
<1> QED
  BY <1>1, <1>2, <1>3, StillCycles, LookKeeps DEF WalkInv

LEMMA CloseCycleKeeps ==
  ASSUME WalkInv, CloseCycle
  PROVE  WalkInv'
<1>1. /\ AtNeighbor /\ stack' = Looked
      /\ pc' = pc /\ visited' = visited /\ SameGraph
  BY DEF CloseCycle, SameGraph
<1>2. PICK i \in OnPath(Callee) :
         cycles' = Append(cycles, [j \in 1..(Len(stack) - i + 2) |->
                                     IF j = Len(stack) - i + 2 THEN Callee ELSE stack[i + j - 1].node])
  BY DEF CloseCycle
<1> DEFINE n == Len(stack) - i + 2
           c == [j \in 1..n |-> IF j = n THEN Callee ELSE stack[i + j - 1].node]
<1>3. /\ i \in 1..Len(stack) /\ stack[i].node = Callee /\ DOMAIN stack = 1..Len(stack)
      /\ Len(stack) \in Nat \ {0} /\ Callee \in Contract /\ Top = stack[Len(stack)]
      /\ Top.next \in DOMAIN edges[Top.node] /\ Top.node \in Contract
  BY <1>1, LookedFacts DEF OnPath
<1>4. /\ n \in Nat /\ n > 1 /\ n - 1 \in 1..(n - 1) /\ n - 1 + 1 = n
      /\ i + (n - 1) - 1 = Len(stack)
  BY <1>3
<1>5. \A j \in 1..(n - 1) : i + j - 1 \in 1..Len(stack) /\ j # n
  BY <1>3
<1>6. /\ c[n] = Callee /\ c = [j \in 1..n |-> c[j]]
      /\ \A j \in 1..(n - 1) : c[j] = stack[i + j - 1].node
  BY <1>4, <1>5
<1> HIDE DEF n, c
<1>7. \A j \in 1..Len(stack) : stack[j].node \in Contract
  <2>1. \A j \in 1..Len(stack) : stack[j] \in Frame
    BY <1>3, ElementOf DEF WalkInv, WalkTypeOK
  <2> QED
    BY <2>1 DEF Frame
<1>8. c \in Seq(Contract) /\ Len(c) = n
  <2>1. \A j \in 1..n : c[j] \in Contract
    <3>1. \A j \in 1..n : j = n \/ j \in 1..(n - 1)
      BY <1>4
    <3> QED
      BY <1>3, <1>5, <1>6, <1>7, <3>1
  <2> QED
    BY <1>4, <1>6, <2>1, TableIsSeq
<1>9. cycles' = Append(cycles, c)
  BY <1>2 DEF c, n
<1>10. /\ cycles' \in Seq(Seq(Contract))
       /\ Closing' = Closing \cup {<<Top.node, Callee>>}
  <2>1. c[Len(c) - 1] = Top.node /\ c[Len(c)] = Callee
    BY <1>3, <1>4, <1>6, <1>8
  <2>2. cycles \in Seq(Seq(Contract)) /\ Len(c) > 1
    BY <1>4, <1>8 DEF WalkInv, WalkTypeOK
  <2> QED
    BY <1>8, <1>9, <2>1, <2>2, ClosingGrows
<1>11. IsCycle(c)
  <2>1. Len(c) > 1 /\ c[1] = c[Len(c)]
    <3>1. 1 \in 1..(n - 1) /\ i + 1 - 1 = i
      BY <1>3, <1>4
    <3> QED
      BY <1>3, <1>4, <1>6, <1>8, <3>1
  <2>2. ASSUME NEW j \in 1..(n - 1), NEW k \in 1..(n - 1), j # k
        PROVE  c[j] # c[k]
    <3>1. i + j - 1 \in DOMAIN stack /\ i + k - 1 \in DOMAIN stack /\ i + j - 1 # i + k - 1
      BY <1>3, <1>5, <2>2
    <3> QED
      BY <1>6, <3>1 DEF WalkInv, PathInv
  <2>3. ASSUME NEW j \in 1..(n - 1)
        PROVE  Calls(c[j], c[j + 1])
    <3>1. CASE j = n - 1
      <4>1. c[j] = Top.node /\ c[j + 1] = Callee
        BY <1>3, <1>4, <1>6, <3>1
      <4>2. Leads(Top.node, Callee)
        BY <1>3 DEF Leads, LeadsOf, Callee
      <4> QED
        BY <1>3, <4>1, <4>2 DEF WalkInv, EdgesInv
    <3>2. CASE j # n - 1
      <4> DEFINE p == i + j - 1
      <4>1. /\ j + 1 \in 1..(n - 1) /\ p \in 1..Len(stack) /\ p < Len(stack)
            /\ i + (j + 1) - 1 = p + 1
        BY <1>3, <1>4, <3>2 DEF n
      <4>2. c[j] = stack[p].node /\ c[j + 1] = stack[p + 1].node
        BY <1>6, <4>1
      <4> HIDE DEF p
      <4>3. stack[p] \in Frame /\ stack[p].node \in Contract /\ stack[p].next \in Nat
        <5>1. stack[p] \in Frame
          BY <1>3, <4>1, ElementOf DEF WalkInv, WalkTypeOK
        <5> QED
          BY <5>1 DEF Frame
      <4>4. edges[stack[p].node] \in Seq(EdgeSet)
        BY <4>3 DEF WalkInv, WalkTypeOK
      <4>5. /\ stack[p].next > 1 /\ stack[p].next <= Len(edges[stack[p].node]) + 1
            /\ edges[stack[p].node][stack[p].next - 1].callee = stack[p + 1].node
        BY <1>3, <4>1 DEF WalkInv, PathInv
      <4>6. stack[p].next - 1 \in DOMAIN edges[stack[p].node]
        BY <4>3, <4>4, <4>5
      <4>7. Leads(stack[p].node, stack[p + 1].node)
        BY <4>5, <4>6 DEF Leads, LeadsOf
      <4> QED
        BY <4>2, <4>3, <4>7 DEF WalkInv, EdgesInv
    <3> QED
      BY <3>1, <3>2
  <2>4. \A e \in Consecutive(c) : Calls(e[1], e[2])
    BY <1>8, <2>3 DEF Consecutive
  <2> QED
    BY <1>8, <2>1, <2>2, <2>4 DEF IsCycle
<1>12. CyclesInv'
  <2>1. \A x : IsCycle(x) => IsCycle(x)'
    BY <1>1, GraphKept DEF WalkInv, IsCycle
  <2>2. /\ DOMAIN cycles' = 1..(Len(cycles) + 1) /\ DOMAIN cycles = 1..Len(cycles) /\ Len(cycles) \in Nat
        /\ \A j \in DOMAIN cycles : cycles'[j] = cycles[j]
        /\ cycles'[Len(cycles) + 1] = c
    BY <1>8, <1>9, PushFacts DEF WalkInv, WalkTypeOK
  <2>3. \A j \in DOMAIN cycles : IsCycle(cycles[j])
    BY DEF WalkInv, CyclesInv
  <2>4. \A j \in DOMAIN cycles' : j \in DOMAIN cycles \/ j = Len(cycles) + 1
    BY <2>2
  <2> QED
    BY <1>11, <2>1, <2>2, <2>3, <2>4 DEF CyclesInv
<1> QED
  BY <1>1, <1>10, <1>12, LookKeeps

-----------------------------------------------------------------------------
(* Leaving a contract.                                                     *)

LEMMA ReturnKeeps ==
  ASSUME WalkInv, Return
  PROVE  WalkInv'
<1> DEFINE n == Top.node
<1>1. /\ stack # <<>> /\ stack' = SubSeq(stack, 1, Len(stack) - 1) /\ Top.next > Len(edges[n])
      /\ pc = "cycles" /\ pc' = pc /\ visited' = visited /\ cycles' = cycles /\ SameGraph
      /\ edges' = edges
  BY DEF Return, SameGraph
<1>2. /\ stack \in Seq(Frame)
      /\ stack' \in Seq(Frame) /\ Len(stack') = Len(stack) - 1 /\ DOMAIN stack' = 1..(Len(stack) - 1)
      /\ DOMAIN stack = 1..Len(stack) /\ Len(stack) \in Nat \ {0} /\ Len(stack) \in DOMAIN stack
      /\ \A i \in 1..(Len(stack) - 1) : stack'[i] = stack[i]
  BY <1>1, PopFacts DEF WalkInv, WalkTypeOK
<1>3. /\ Top = stack[Len(stack)] /\ n \in Contract /\ Top.next \in Nat
      /\ edges[n] \in Seq(EdgeSet)
  <2>1. Top = stack[Len(stack)] /\ Top \in Frame
    BY <1>2, ElementOf DEF Top
  <2>2. n \in Contract /\ Top.next \in Nat
    BY <2>1 DEF Frame
  <2> QED
    BY <2>1, <2>2 DEF WalkInv, WalkTypeOK
<1> HIDE DEF n
<1>4. stack[Len(stack)].node = n /\ stack[Len(stack)].next = Top.next
  BY <1>3 DEF n
<1>5. Grey = Grey' \cup {n} /\ n \notin Grey' /\ n \in visited
  <2>1. \A i \in DOMAIN stack : i = Len(stack) \/ i \in 1..(Len(stack) - 1)
    BY <1>2
  <2>2. \A i \in 1..(Len(stack) - 1) : i \in DOMAIN stack /\ i # Len(stack)
    BY <1>2
  <2>3. Grey' = {stack[i].node : i \in 1..(Len(stack) - 1)}
    BY <1>2 DEF Grey
  <2>4. Grey = Grey' \cup {n}
    BY <1>2, <1>4, <2>1, <2>2, <2>3 DEF Grey
  <2>5. n \notin Grey'
    BY <1>2, <1>4, <2>2, <2>3 DEF WalkInv, PathInv
  <2> QED
    BY <2>4, <2>5 DEF WalkInv, PathInv
<1>6. Black' = Black \cup {n} /\ n \notin Black
  BY <1>1, <1>5 DEF Black
<1>7. Closing' = Closing
  BY <1>1 DEF Closing
<1>8. \A a, c : Settled(a, c) => Settled(a, c)'
  BY <1>6, <1>7 DEF Settled
<1>9. \A c : Leads(n, c) => Settled(n, c)
  <2> SUFFICES ASSUME NEW k \in DOMAIN edges[n]
               PROVE  Settled(n, edges[n][k].callee)
    BY DEF Leads, LeadsOf
  <2>1. k \in 1..(Top.next - 1)
    BY <1>1, <1>3
  <2>2. ~(Len(stack) < Len(stack))
    BY <1>2
  <2> QED
    BY <1>2, <1>4, <2>1, <2>2 DEF WalkInv, LookedInv
<1>10. WalkTypeOK'
  BY <1>1, <1>2 DEF WalkInv, WalkTypeOK, SameGraph
<1>11. PathInv'
  <2>1. \A i \in DOMAIN stack' : i \in DOMAIN stack /\ i < Len(stack) /\ stack'[i] = stack[i]
    BY <1>2
  <2>2. Grey' \subseteq visited'
    BY <1>1, <1>5 DEF WalkInv, PathInv
  <2>3. \A i, j \in DOMAIN stack' : stack'[i].node = stack'[j].node => i = j
    BY <2>1 DEF WalkInv, PathInv
  <2>4. \A i \in DOMAIN stack' : stack'[i].next <= Len(edges'[stack'[i].node]) + 1
    BY <1>1, <2>1 DEF WalkInv, PathInv
  <2>5. ASSUME NEW i \in DOMAIN stack', i < Len(stack')
        PROVE  /\ stack'[i].next > 1
               /\ edges'[stack'[i].node][stack'[i].next - 1].callee = stack'[i + 1].node
    <3>1. i + 1 \in 1..(Len(stack) - 1)
      BY <1>2, <2>5
    <3> QED
      BY <1>1, <1>2, <2>1, <3>1 DEF WalkInv, PathInv
  <2> QED
    BY <2>2, <2>3, <2>4, <2>5 DEF PathInv
<1>12. LookedInv'
  <2> SUFFICES ASSUME NEW i \in DOMAIN stack', NEW k \in 1..(stack'[i].next - 1)
               PROVE  LET c == edges'[stack'[i].node][k].callee
                      IN  \/ <<stack'[i].node, c>> \in Closing' \/ c \in Black'
                          \/ i < Len(stack') /\ c = stack'[i + 1].node
    BY DEF LookedInv, Settled
  <2> DEFINE c == edges[stack[i].node][k].callee
  <2>1. i \in DOMAIN stack /\ i < Len(stack) /\ stack'[i] = stack[i]
    BY <1>2
  <2>2. Settled(stack[i].node, c) \/ c = stack[i + 1].node
    BY <2>1 DEF WalkInv, LookedInv
  <2> HIDE DEF c
  <2>3. CASE Settled(stack[i].node, c)
    BY <1>1, <1>6, <1>7, <2>1, <2>3 DEF Settled, c
  <2>4. CASE c = stack[i + 1].node /\ i + 1 = Len(stack)
    BY <1>1, <1>4, <1>6, <2>1, <2>4 DEF c
  <2>5. CASE c = stack[i + 1].node /\ i + 1 # Len(stack)
    <3>1. i + 1 \in 1..(Len(stack) - 1) /\ i < Len(stack')
      BY <1>2, <2>1, <2>5
    <3>2. stack'[i + 1] = stack[i + 1]
      BY <1>2, <3>1
    <3> QED
      BY <1>1, <2>1, <2>5, <3>1, <3>2 DEF c
  <2> QED
    BY <2>2, <2>3, <2>4, <2>5
<1>13. BlackInv'
  <2>1. \A a \in Black' : \A c : Leads(a, c) => Settled(a, c)
    BY <1>6, <1>9 DEF WalkInv, BlackInv
  <2> QED
    BY <1>1, <1>8, <2>1, GraphKept DEF WalkInv, BlackInv
<1>14. NoCycleIn(Black)'
  <2> SUFFICES ASSUME NEW T \in (SUBSET Black') \ {{}}
               PROVE  \E a \in T : \A b \in T : ~Kept(a, b)
    <3>1. \A a, b : Kept(a, b)' => Kept(a, b)
      BY <1>1, <1>7, GraphKept DEF WalkInv, Kept
    <3> QED
      BY <3>1 DEF NoCycleIn
  <2>1. \A a \in Black' : \A b : Kept(a, b) => b \in Black
    <3>1. \A a \in Black' : a \in Contract
      BY <1>3, <1>6 DEF WalkInv, WalkTypeOK, Black
    <3>2. \A a \in Black' : \A b : Leads(a, b) => Settled(a, b)
      BY <1>6, <1>9 DEF WalkInv, BlackInv
    <3> QED
      BY <3>1, <3>2 DEF WalkInv, EdgesInv, Kept, Settled
  <2>2. CASE T \cap Black = {}
    BY <2>1, <2>2
  <2>3. CASE T \cap Black # {}
    <3>1. T \cap Black \in (SUBSET Black) \ {{}}
      BY <2>3
    <3>2. PICK a \in T \cap Black : \A b \in T \cap Black : ~Kept(a, b)
      BY <3>1 DEF WalkInv, NoCycleIn
    <3> QED
      BY <2>1, <3>2
  <2> QED
    BY <2>2, <2>3
<1>15. EdgesInv' /\ CyclesInv'
  BY <1>1, GraphKept, StillCycles DEF WalkInv
<1>16. PhaseInv'
  BY <1>1 DEF PhaseInv
<1> QED
  BY <1>10, <1>11, <1>12, <1>13, <1>14, <1>15, <1>16 DEF WalkInv

-----------------------------------------------------------------------------
(* The other steps leave the walk alone.                                   *)

LEMMA AloneKeeps ==
  ASSUME WalkInv, SameGraph, visited' = visited, stack' = stack, cycles' = cycles,
         pc' \in {"declare", "cycles", "propagate", "done"}, PhaseInv'
  PROVE  WalkInv'
<1>1. edges' = edges /\ declared' = declared
  BY DEF SameGraph
<1>2. Grey' = Grey
  BY DEF Grey
<1>3. Black' = Black
  BY <1>2 DEF Black
<1>4. Closing' = Closing
  BY DEF Closing
<1>5. WalkTypeOK'
  BY <1>1 DEF WalkInv, WalkTypeOK
<1>6. PathInv'
  BY <1>1, <1>2 DEF WalkInv, PathInv
<1>7. LookedInv'
  BY <1>1, <1>3, <1>4 DEF WalkInv, LookedInv, Settled
<1>8. BlackInv'
  BY <1>3, <1>4, GraphKept DEF WalkInv, BlackInv, Settled
<1>9. EdgesInv' /\ CyclesInv' /\ NoCycleIn(Black)'
  BY <1>3, <1>4, GraphKept, StillAcyclic, StillCycles DEF WalkInv
<1> QED
  BY <1>5, <1>6, <1>7, <1>8, <1>9 DEF WalkInv

LEMMA WalkStep == WalkInv /\ [Next]_vars => WalkInv'
<1> SUFFICES ASSUME WalkInv, [Next]_vars PROVE WalkInv'
  OBVIOUS
<1>1. ASSUME NEW d \in Declaration, Declare(d) PROVE WalkInv'
  BY <1>1, DeclareKeeps
<1>2. CASE DetectCycles
  BY <1>2, AloneKeeps DEF DetectCycles, cycleVars, SameGraph, PhaseInv
<1>3. CASE NextRoot
  BY <1>3, NextRootKeeps
<1>4. CASE Descend
  BY <1>4, DescendKeeps
<1>5. CASE CloseCycle
  BY <1>5, CloseCycleKeeps
<1>6. CASE PassVisited
  BY <1>6, PassVisitedKeeps
<1>7. CASE Return
  BY <1>7, ReturnKeeps
<1>8. CASE CyclesFound
  <2>1. /\ SameGraph /\ visited' = visited /\ stack' = stack /\ cycles' = cycles
        /\ pc' = "done" /\ stack = <<>> /\ Roots = {}
    BY <1>8 DEF CyclesFound, cycleVars, SameGraph
  <2>2. Roots' = Roots
    BY <2>1 DEF Roots, SameGraph
  <2> QED
    BY <2>1, <2>2, AloneKeeps DEF PhaseInv
<1>9. ASSUME NEW fs \in Reports, Propagate(fs) PROVE WalkInv'
  <2>1. /\ SameGraph /\ visited' = visited /\ stack' = stack /\ cycles' = cycles
        /\ pc = "declare" /\ pc' = "propagate"
    BY <1>9 DEF Propagate, cycleVars, SameGraph
  <2> QED
    BY <2>1, AloneKeeps DEF WalkInv, PhaseInv
<1>10. CASE Seed \/ Tell
  <2>1. /\ SameGraph /\ visited' = visited /\ stack' = stack /\ cycles' = cycles
        /\ pc = "propagate" /\ pc' = pc
    BY <1>10 DEF Seed, Tell, cycleVars, SameGraph
  <2> QED
    BY <2>1, AloneKeeps DEF WalkInv, PhaseInv
<1>11. CASE Propagated
  <2>1. /\ SameGraph /\ visited' = visited /\ stack' = stack /\ cycles' = cycles
        /\ pc = "propagate" /\ pc' = "done"
    BY <1>11 DEF Propagated, cycleVars, SameGraph
  <2> QED
    BY <2>1, AloneKeeps DEF WalkInv, PhaseInv
<1>12. CASE UNCHANGED vars
  <2>1. /\ SameGraph /\ visited' = visited /\ stack' = stack /\ cycles' = cycles /\ pc' = pc
    BY <1>12 DEF vars, cycleVars, SameGraph
  <2>2. Roots' = Roots
    BY <2>1 DEF Roots, SameGraph
  <2> QED
    BY <2>1, <2>2, AloneKeeps DEF WalkInv, WalkTypeOK, PhaseInv
<1> QED
  BY <1>1, <1>2, <1>3, <1>4, <1>5, <1>6, <1>7, <1>8, <1>9, <1>10, <1>11, <1>12 DEF Next

LEMMA WalkInit == Init => WalkInv
<1> SUFFICES ASSUME Init PROVE WalkInv
  OBVIOUS
<1> USE DEF Init
<1>1. WalkTypeOK
  BY DEF WalkTypeOK
<1>2. EdgesInv
  BY DEF EdgesInv, Leads, LeadsOf, Calls
<1>3. Black = {} /\ Grey = {}
  BY DEF Black, Grey
<1>4. PathInv /\ LookedInv /\ BlackInv /\ CyclesInv /\ PhaseInv
  BY <1>3 DEF PathInv, LookedInv, BlackInv, CyclesInv, PhaseInv
<1>5. NoCycleIn(Black)
  BY <1>3 DEF NoCycleIn
<1> QED
  BY <1>1, <1>2, <1>4, <1>5 DEF WalkInv

\* When no root is left every contract that calls another is black.
LEMMA NothingLeft == WalkInv => CyclesTold
<1> SUFFICES ASSUME WalkInv PROVE CyclesTold
  OBVIOUS
<1>1. \A i \in DOMAIN cycles : IsCycle(cycles[i])
  BY DEF WalkInv, CyclesInv
<1>2. ASSUME pc = "done", visited # {}, NEW T \in (SUBSET Contract) \ {{}}
      PROVE  \E a \in T : \A b \in T : ~Kept(a, b)
  <2>1. stack = <<>> /\ Roots = {}
    BY <1>2 DEF WalkInv, PhaseInv
  <2>2. Black = visited
    BY <2>1 DEF Black, Grey
  <2>3. \A a \in Contract : \A b : Calls(a, b) => a \in Black
    <3> SUFFICES ASSUME NEW a \in Contract, NEW b, Calls(a, b) PROVE a \in Black
      OBVIOUS
    <3>1. edges[a] # <<>>
      BY DEF WalkInv, EdgesInv, Leads, LeadsOf
    <3> QED
      BY <2>1, <2>2, <3>1 DEF Roots
  <2>4. \A a \in Contract : \A b : Kept(a, b) => a \in Black /\ b \in Black
    BY <2>3 DEF WalkInv, EdgesInv, BlackInv, Kept, Settled
  <2>5. CASE T \cap Black = {}
    BY <2>4, <2>5
  <2>6. CASE T \cap Black # {}
    <3>1. T \cap Black \in (SUBSET Black) \ {{}}
      BY <2>6
    <3>2. PICK a \in T \cap Black : \A b \in T \cap Black : ~Kept(a, b)
      BY <3>1 DEF WalkInv, NoCycleIn
    <3> QED
      BY <2>4, <3>2
  <2> QED
    BY <2>5, <2>6
<1> QED
  BY <1>1, <1>2 DEF CyclesTold, NoCycleIn

\* For any contracts and declarations: what detect_cycles reports are cycles of
\* declared calls, and every cycle of the declared graph has a call that closes
\* a reported one.  (dependency.rs: detect_cycles, dfs_cycles.)
THEOREM AllCyclesTold == Spec => []CyclesTold
<1> QED
  BY WalkInit, WalkStep, NothingLeft, PTL DEF Spec
-----------------------------------------------------------------------------
(* Induction, over a set of numbers.                                       *)

LEMMA SetInduction ==
  ASSUME NEW S, 0 \in S, \A n \in Nat : n \in S => n + 1 \in S
  PROVE  \A n \in Nat : n \in S
<1> SUFFICES ASSUME Nat \ S # {} PROVE FALSE
  OBVIOUS
<1> DEFINE R == OpToRel(<, Nat)
<1>1. \A x, y \in Nat : x < y => <<x, y>> \in R
  BY DEF OpToRel
<1>2. IsWellFoundedOn(R, Nat)
  BY NatLessThanWellFounded, Zenon
<1> HIDE DEF R
<1>3. PICK n \in Nat \ S : \A m \in Nat \ S : <<m, n>> \notin R
  BY <1>2, WFMin
<1>4. n # 0 /\ n - 1 \in Nat /\ n - 1 < n /\ (n - 1) + 1 = n
  BY <1>3
<1>5. n - 1 \in S
  BY <1>1, <1>3, <1>4
<1> QED
  BY <1>3, <1>4, <1>5

LEMMA ContractsFinite ==
  ASSUME NEW S \in SUBSET Contract
  PROVE  /\ IsFiniteSet(S) /\ Cardinality(S) \in Nat /\ Cardinality(S) <= Cardinality(Contract)
         /\ Cardinality(Contract) \in Nat
BY ContractAssumption, FS_Subset, FS_CardinalityType

LEMMA WithinUnfolds ==
  ASSUME NEW c \in Contract, NEW f
  PROVE  LET N == Cardinality(Contract)
             W == Within(c, f)
         IN  W = [d \in 0..N |->
                    IF d = 0 THEN {} ELSE IF d = 1 THEN {a \in Contract : Hears(a, c, f)}
                    ELSE W[d - 1] \cup {a \in Contract : \E b \in W[d - 1] : Hears(a, b, f)}]
<1> DEFINE N == Cardinality(Contract)
           Grow(S) == S \cup {a \in Contract : \E b \in S : Hears(a, b, f)}
           First == {a \in Contract : Hears(a, c, f)}
           Step(w, d) == IF d = 0 THEN {} ELSE IF d = 1 THEN First ELSE Grow(w[d - 1])
           Good == {n \in Nat : \E w : w = [d \in 0..n |-> Step(w, d)]}
<1>1. 0 \in Good
  <2> DEFINE v == [d \in 0..0 |-> {}]
  <2>1. v = [d \in 0..0 |-> Step(v, d)]
    OBVIOUS
  <2> QED
    BY <2>1
<1>2. ASSUME NEW n \in Nat, n \in Good PROVE n + 1 \in Good
  <2>1. PICK w : w = [d \in 0..n |-> Step(w, d)]
    BY <1>2
  <2> HIDE DEF First, Grow
  <2> DEFINE v == [d \in 0..(n + 1) |-> IF d = n + 1 THEN Step(w, d) ELSE w[d]]
  <2>2. ASSUME NEW d \in 0..(n + 1) PROVE v[d] = Step(v, d)
    <3>1. CASE d = n + 1
      <4>1. d - 1 \in 0..(n + 1) /\ d - 1 # n + 1 /\ v[d - 1] = w[d - 1]
        BY <3>1
      <4> QED
        BY <3>1, <4>1
    <3>2. CASE d # n + 1
      <4>1. d \in 0..n /\ w[d] = Step(w, d)
        BY <2>1, <3>2
      <4>2. d # 0 => d - 1 \in 0..(n + 1) /\ d - 1 # n + 1 /\ v[d - 1] = w[d - 1]
        BY <3>2
      <4> QED
        BY <3>2, <4>1, <4>2
    <3> QED
      BY <3>1, <3>2
  <2>3. DOMAIN v = 0..(n + 1) /\ v = [d \in DOMAIN v |-> v[d]]
    OBVIOUS
  <2> HIDE DEF v
  <2>4. v = [d \in 0..(n + 1) |-> Step(v, d)]
    BY <2>2, <2>3
  <2> QED
    BY <2>4
<1>3. N \in Nat
  BY ContractAssumption, FS_CardinalityType
<1> HIDE DEF Good
<1>4. N \in Good
  BY <1>1, <1>2, <1>3, SetInduction
<1>5. \E w : w = [d \in 0..N |-> Step(w, d)]
  BY <1>4 DEF Good
<1>6. Within(c, f) = CHOOSE w : w = [d \in 0..N |-> Step(w, d)]
  BY DEF Within
<1> HIDE DEF Step, N
<1>7. Within(c, f) = [d \in 0..N |-> Step(Within(c, f), d)]
  BY <1>5, <1>6
<1> QED
  BY <1>7 DEF Step, N

\* Within grows, with those that hear of what its last members are told.
LEMMA WithinFacts ==
  ASSUME NEW c \in Contract, NEW f
  PROVE  LET N == Cardinality(Contract)
             W == Within(c, f)
         IN  /\ W[0] = {}
             /\ 1 <= N => W[1] = {a \in Contract : Hears(a, c, f)}
             /\ \A d \in 1..(N - 1) : \A a \in Contract :
                  a \in W[d + 1] <=> a \in W[d] \/ \E b \in W[d] : Hears(a, b, f)
             /\ \A d \in 0..N : W[d] \subseteq Contract
             /\ \A d, e \in 0..N : d <= e => W[d] \subseteq W[e]
<1> DEFINE N == Cardinality(Contract)
           W == Within(c, f)
           First == {a \in Contract : Hears(a, c, f)}
           Grow(S) == S \cup {a \in Contract : \E b \in S : Hears(a, b, f)}
<1>1. N \in Nat
  BY ContractAssumption, FS_CardinalityType
<1>2. W = [d \in 0..N |-> IF d = 0 THEN {} ELSE IF d = 1 THEN First ELSE Grow(W[d - 1])]
  BY WithinUnfolds
<1> HIDE DEF N, W, First, Grow
<1>3. W[0] = {}
  BY <1>1, <1>2
<1>4. 1 <= N => W[1] = {a \in Contract : Hears(a, c, f)}
  <2>1. 1 <= N => W[1] = First
    BY <1>1, <1>2
  <2> QED
    BY <2>1 DEF First
<1>5. ASSUME NEW d \in 1..(N - 1)
      PROVE  W[d + 1] = W[d] \cup {a \in Contract : \E b \in W[d] : Hears(a, b, f)}
  <2>1. d + 1 \in 0..N /\ d + 1 # 0 /\ d + 1 # 1 /\ (d + 1) - 1 = d
    BY <1>1
  <2>2. W[d + 1] = Grow(W[d])
    BY <1>2, <2>1
  <2> QED
    BY <2>2 DEF Grow
<1> DEFINE Good == {n \in Nat : n <= N => /\ W[n] \subseteq Contract
                                          /\ \A d \in 0..n : W[d] \subseteq W[n]}
<1>6. 0 \in Good
  BY <1>3
<1>7. ASSUME NEW n \in Nat, n \in Good PROVE n + 1 \in Good
  <2> SUFFICES ASSUME n + 1 <= N
               PROVE  W[n + 1] \subseteq Contract /\ \A d \in 0..(n + 1) : W[d] \subseteq W[n + 1]
    OBVIOUS
  <2>1. n <= N /\ W[n] \subseteq Contract /\ \A d \in 0..n : W[d] \subseteq W[n]
    BY <1>1, <1>7
  <2>2. W[n + 1] \subseteq Contract /\ W[n] \subseteq W[n + 1]
    <3>1. CASE n = 0
      BY <1>1, <1>3, <1>4, <3>1
    <3>2. CASE n # 0
      <4>1. n \in 1..(N - 1)
        BY <1>1, <3>2
      <4> QED
        BY <1>5, <2>1, <4>1
    <3> QED
      BY <3>1, <3>2
  <2>3. \A d \in 0..(n + 1) : d \in 0..n \/ d = n + 1
    OBVIOUS
  <2> QED
    BY <2>1, <2>2, <2>3
<1> HIDE DEF Good
<1>8. \A n \in Nat : n \in Good
  BY <1>6, <1>7, SetInduction
<1>9. \A d \in 0..N : W[d] \subseteq Contract
  BY <1>8 DEF Good
<1>10. \A d, e \in 0..N : d <= e => W[d] \subseteq W[e]
  BY <1>8 DEF Good
<1> QED
  BY <1>3, <1>4, <1>5, <1>9, <1>10 DEF N, W

\* A contract has one distance.
LEMMA OneDistance ==
  ASSUME NEW c \in Contract, NEW f, NEW a,
         NEW d \in 1..Cardinality(Contract), NEW e \in 1..Cardinality(Contract),
         a \in Within(c, f)[d], a \notin Within(c, f)[e - 1]
  PROVE  e <= d
<1>1. Cardinality(Contract) \in Nat
  BY ContractAssumption, FS_CardinalityType
<1>2. CASE d < e
  <2>1. d \in 0..Cardinality(Contract) /\ e - 1 \in 0..Cardinality(Contract) /\ d <= e - 1
    BY <1>1, <1>2
  <2> QED
    BY <2>1, WithinFacts
<1> QED
  BY <1>1, <1>2

LEMMA WithinStays ==
  ASSUME declared' = declared
  PROVE  /\ \A a, c, f : Hears(a, c, f)' <=> Hears(a, c, f)
         /\ \A c, f : Within(c, f)' = Within(c, f)
BY DEF Within, Hears

-----------------------------------------------------------------------------
(* Who hears of a finding, in the merged edges and in the declarations.    *)

HearsIn(es, c, f) == \E i \in DOMAIN es : es[i].callee = c /\ Watched(f, es[i].fns)

HearInv == \A a \in Contract : \A c, f : HearsIn(edges[a], c, f) <=> Hears(a, c, f)

LEMMA MergeHears ==
  ASSUME NEW es \in Seq(EdgeSet), NEW d \in Declaration, NEW c, NEW f
  PROVE  HearsIn(Merge(es, d), c, f) <=> HearsIn(es, c, f) \/ (d.callee = c /\ Watched(f, d.fns))
<1> DEFINE at == {i \in DOMAIN es : es[i].callee = d.callee}
           both(fns) == IF fns = {} \/ d.fns = {} THEN {} ELSE fns \cup d.fns
           merged == [i \in DOMAIN es |-> IF i \in at THEN [es[i] EXCEPT !.fns = both(@)] ELSE es[i]]
           edge == [callee |-> d.callee, fns |-> d.fns]
<1>1. Merge(es, d) = IF at = {} THEN Append(es, edge) ELSE merged
  BY DEF Merge
<1>2. CASE at = {}
  <2>1. Merge(es, d) = Append(es, edge)
    BY <1>1, <1>2
  <2>2. edge \in EdgeSet /\ edge.callee = d.callee /\ edge.fns = d.fns
    BY DeclarationAssumption DEF EdgeSet
  <2> HIDE DEF edge
  <2>3. /\ DOMAIN Append(es, edge) = 1..(Len(es) + 1) /\ DOMAIN es = 1..Len(es) /\ Len(es) \in Nat
        /\ \A i \in DOMAIN es : Append(es, edge)[i] = es[i]
        /\ Append(es, edge)[Len(es) + 1] = edge
    BY <2>2, PushFacts
  <2> DEFINE grown == Append(es, edge)
  <2> HIDE DEF grown
  <2>4. \A i \in DOMAIN grown : i \in DOMAIN es \/ i = Len(es) + 1
    BY <2>3 DEF grown
  <2>5. (\E i \in DOMAIN grown : grown[i].callee = c /\ Watched(f, grown[i].fns)) <=>
          (\E i \in DOMAIN es : es[i].callee = c /\ Watched(f, es[i].fns))
            \/ (d.callee = c /\ Watched(f, d.fns))
    BY <2>2, <2>3, <2>4 DEF grown
  <2> QED
    BY <2>1, <2>5 DEF grown, HearsIn
<1>3. CASE at # {}
  <2>1. Merge(es, d) = merged
    BY <1>1, <1>3
  <2>2. \A i \in DOMAIN es : es[i] \in EdgeSet
    BY ElementOf
  <2>3. \A fns : Watched(f, both(fns)) <=> Watched(f, fns) \/ Watched(f, d.fns)
    BY DEF Watched
  <2> HIDE DEF both
  <2>4. \A i \in DOMAIN es : /\ merged[i].callee = es[i].callee
                             /\ merged[i].fns = IF i \in at THEN both(es[i].fns) ELSE es[i].fns
    BY <2>2 DEF EdgeSet
  <2>5. DOMAIN merged = DOMAIN es
    OBVIOUS
  <2>6. \A i \in DOMAIN es : i \in at <=> es[i].callee = d.callee
    OBVIOUS
  <2>7. PICK k \in DOMAIN es : es[k].callee = d.callee
    BY <1>3
  <2> HIDE DEF merged, at
  <2>8. (\E i \in DOMAIN merged : merged[i].callee = c /\ Watched(f, merged[i].fns)) <=>
          (\E i \in DOMAIN es : es[i].callee = c /\ Watched(f, es[i].fns))
            \/ (d.callee = c /\ Watched(f, d.fns))
    BY <2>3, <2>4, <2>5, <2>6, <2>7
  <2> QED
    BY <2>1, <2>8 DEF HearsIn
<1> QED
  BY <1>2, <1>3

LEMMA HearStep ==
  ASSUME WalkInv, HearInv, [Next]_vars
  PROVE  HearInv'
<1>1. ASSUME NEW d \in Declaration, Declare(d) PROVE HearInv'
  <2>1. declared' = declared \cup {d} /\ edges' = [edges EXCEPT ![d.caller] = Merge(@, d)]
    BY <1>1 DEF Declare
  <2>2. edges \in [Contract -> Seq(EdgeSet)]
    BY DEF WalkInv, WalkTypeOK
  <2> SUFFICES ASSUME NEW a \in Contract, NEW c, NEW f
               PROVE  HearsIn(edges'[a], c, f) <=>
                        \E x \in declared' : x.caller = a /\ x.callee = c /\ Watched(f, x.fns)
    BY DEF HearInv, HearsIn, Hears, Watched
  <2>3. HearsIn(edges[a], c, f) <=>
          \E x \in declared : x.caller = a /\ x.callee = c /\ Watched(f, x.fns)
    BY DEF HearInv, Hears
  <2>4. CASE a = d.caller
    <3>1. edges'[a] = Merge(edges[a], d)
      BY <2>1, <2>2, <2>4
    <3>2. HearsIn(edges'[a], c, f) <=> HearsIn(edges[a], c, f) \/ (d.callee = c /\ Watched(f, d.fns))
      BY <2>2, <3>1, MergeHears
    <3> QED
      BY <2>1, <2>3, <2>4, <3>2
  <2>5. CASE a # d.caller
    BY <2>1, <2>2, <2>3, <2>5
  <2> QED
    BY <2>4, <2>5
<1>2. ASSUME SameGraph PROVE HearInv'
  <2>1. edges' = edges /\ \A a, c, f : Hears(a, c, f)' <=> Hears(a, c, f)
    BY <1>2, WithinStays DEF SameGraph
  <2> QED
    BY <2>1 DEF HearInv, HearsIn, Watched
<1>3. DetectCycles \/ NextRoot \/ Descend \/ CloseCycle \/ PassVisited \/ Return \/ CyclesFound
        => SameGraph
  BY DEF DetectCycles, NextRoot, Descend, CloseCycle, PassVisited, Return, CyclesFound, Enter, SameGraph
<1>4. (\E fs \in Reports : Propagate(fs)) \/ Seed \/ Tell \/ Propagated \/ UNCHANGED vars => SameGraph
  BY DEF Propagate, Seed, Tell, Propagated, vars, SameGraph
<1> QED
  BY <1>1, <1>2, <1>3, <1>4 DEF Next

-----------------------------------------------------------------------------
(* Propagation. What was told and what is queued is one line, which only    *)
(* grows at its end.                                                       *)

Entry == [changed : Contract, affected : Contract, at : Nat \ {0}, depth : Nat \ {0}]

Line == result \o queue

Seeded == Work(findings) \ ToSet(todo)

Reach(e) == Within(e.changed, Finding(e.changed, e.at))
Triple(e) == <<e.affected, e.changed, Key(Finding(e.changed, e.at))>>

TellTypeOK ==
  /\ DOMAIN findings = Contract
  /\ \A c \in Contract : findings[c] \in Seq(Range(findings[c]))
  /\ \A c \in Contract : \A i \in DOMAIN findings[c] : findings[c][i].target \in Nat
  /\ todo \in Seq(Work(findings))
  /\ queue \in Seq(Entry)
  /\ result \in Seq(Entry)

\* What is left to seed of a contract are its last findings, in order.
TodoInv ==
  /\ \A p, q \in DOMAIN todo : p < q /\ todo[p][1] = todo[q][1] => todo[p][2] < todo[q][2]
  /\ \A p \in DOMAIN todo : \A i \in DOMAIN findings[todo[p][1]] :
       todo[p][2] < i => <<todo[p][1], i>> \in ToSet(todo)

\* An entry tells of a finding that was seeded, at its distance.
Sound(e) ==
  /\ <<e.changed, e.at>> \in Seeded /\ FirstOf(e.changed, e.at)
  /\ e.depth \in 1..Cardinality(Contract)
  /\ e.affected \in Reach(e)[e.depth] \ Reach(e)[e.depth - 1]
  /\ Cardinality(Reach(e)[e.depth]) >= e.depth

SoundInv == \A p \in DOMAIN Line : Sound(Line[p])

OnceInv ==
  /\ emitted = {Triple(Line[p]) : p \in DOMAIN Line}
  /\ \A p, q \in DOMAIN Line : Triple(Line[p]) = Triple(Line[q]) => p = q

\* Those that hear of a seeded finding, or of one that was told, are in the line.
HeardInv ==
  /\ \A w \in Seeded : Visible(Finding(w[1], w[2])) =>
       \A a \in Contract : Hears(a, w[1], Finding(w[1], w[2])) =>
         <<a, w[1], Key(Finding(w[1], w[2]))>> \in emitted
  /\ \A p \in DOMAIN result : \A a \in Contract :
       Hears(a, result[p].affected, Finding(result[p].changed, result[p].at)) =>
         <<a, result[p].changed, Key(Finding(result[p].changed, result[p].at))>> \in emitted

\* Breadth first.
DepthInv ==
  /\ \A p, q \in DOMAIN Line : p <= q => Line[p].depth <= Line[q].depth
  /\ \A p \in DOMAIN queue : queue[p].depth <= queue[1].depth + 1
  /\ todo # <<>> => result = <<>> /\ \A p \in DOMAIN queue : queue[p].depth = 1

SameTarget(c, i, j) == Finding(c, i).target = Finding(c, j).target

\* Of two findings with one target, the first is ahead wherever both are heard of.
OrderInv ==
  /\ \A p, q \in DOMAIN Line :
       /\ Line[p].changed = Line[q].changed /\ Line[p].affected = Line[q].affected
       /\ SameTarget(Line[p].changed, Line[p].at, Line[q].at)
       /\ Line[p].at < Line[q].at
       => p < q
  /\ \A p \in DOMAIN Line : \A i \in 1..(Line[p].at - 1) :
       FirstOf(Line[p].changed, i) /\ SameTarget(Line[p].changed, i, Line[p].at) =>
         <<Line[p].affected, Line[p].changed, Key(Finding(Line[p].changed, i))>> \in emitted

TellInv == TellTypeOK /\ TodoInv /\ SoundInv /\ OnceInv /\ HeardInv /\ DepthInv /\ OrderInv

IdleInv ==
  pc \in {"declare", "cycles"} \/ visited # {} =>
    /\ findings = [c \in Contract |-> <<>>]
    /\ todo = <<>> /\ emitted = {} /\ queue = <<>> /\ result = <<>>

PropagateInv == WalkInv /\ HearInv /\ IdleInv /\ (pc = "propagate" => TellInv) /\ ToldOnce

-----------------------------------------------------------------------------
(* The line.                                                               *)

LEMMA JoinFacts ==
  ASSUME NEW S, NEW s \in Seq(S), NEW t \in Seq(S)
  PROVE  /\ s \o t \in Seq(S)
         /\ Len(s \o t) = Len(s) + Len(t) /\ Len(s) \in Nat /\ Len(t) \in Nat
         /\ DOMAIN (s \o t) = 1..(Len(s) + Len(t)) /\ DOMAIN s = 1..Len(s) /\ DOMAIN t = 1..Len(t)
         /\ \A p \in DOMAIN s : p \in DOMAIN (s \o t) /\ (s \o t)[p] = s[p]
         /\ \A k \in DOMAIN t : Len(s) + k \in DOMAIN (s \o t) /\ (s \o t)[Len(s) + k] = t[k]
         /\ \A p \in DOMAIN (s \o t) : p \in DOMAIN s \/ \E k \in DOMAIN t : p = Len(s) + k
<1>1. /\ s \o t \in Seq(S)
      /\ Len(s \o t) = Len(s) + Len(t)
      /\ \A i \in 1..(Len(s) + Len(t)) : (s \o t)[i] = IF i <= Len(s) THEN s[i] ELSE t[i - Len(s)]
  BY ConcatProperties
<1> DEFINE j == s \o t
<1> HIDE DEF j
<1>2. /\ Len(s) \in Nat /\ Len(t) \in Nat /\ DOMAIN s = 1..Len(s) /\ DOMAIN t = 1..Len(t)
      /\ DOMAIN j = 1..Len(j)
  BY <1>1 DEF j
<1>3. \A p \in DOMAIN s : p \in DOMAIN j /\ j[p] = s[p]
  BY <1>1, <1>2 DEF j
<1>4. \A k \in DOMAIN t : Len(s) + k \in DOMAIN j /\ j[Len(s) + k] = t[k]
  <2> SUFFICES ASSUME NEW k \in DOMAIN t PROVE Len(s) + k \in DOMAIN j /\ j[Len(s) + k] = t[k]
    OBVIOUS
  <2>1. /\ Len(s) + k \in 1..(Len(s) + Len(t)) /\ ~(Len(s) + k <= Len(s))
        /\ (Len(s) + k) - Len(s) = k
    BY <1>2
  <2> QED
    BY <1>1, <1>2, <2>1 DEF j
<1>5. \A p \in DOMAIN j : p \in DOMAIN s \/ \E k \in DOMAIN t : p = Len(s) + k
  <2> SUFFICES ASSUME NEW p \in DOMAIN j, p \notin DOMAIN s PROVE \E k \in DOMAIN t : p = Len(s) + k
    OBVIOUS
  <2>1. p - Len(s) \in DOMAIN t /\ p = Len(s) + (p - Len(s))
    BY <1>1, <1>2 DEF j
  <2> QED
    BY <2>1
<1> QED
  BY <1>1, <1>2, <1>3, <1>4, <1>5 DEF j

\* Three sequences in line are in line however they are grouped.
Regroups(a, b, c) == (a \o b) \o c = a \o (b \o c)

LEMMA RegroupFacts ==
  ASSUME NEW S, NEW a \in Seq(S), NEW b \in Seq(S), NEW c \in Seq(S)
  PROVE  Regroups(a, b, c)
BY ConcatAssociative DEF Regroups

\* The head of q goes to the end of r, and t to the end of q: r and q are in line as they were.
Taken(r, q, t) == Append(r, Head(q)) \o (Tail(q) \o t) = (r \o q) \o t

\* Taking the head of the queue into the result leaves the line as it is.
LEMMA TakeFacts ==
  ASSUME NEW S, NEW r \in Seq(S), NEW q \in Seq(S), q # <<>>, NEW t \in Seq(S)
  PROVE  /\ Head(q) = q[1] /\ Head(q) \in S /\ Tail(q) \in Seq(S)
         /\ Append(r, Head(q)) \in Seq(S)
         /\ Taken(r, q, t)
<1>1. Head(q) = q[1] /\ Head(q) \in S /\ Tail(q) \in Seq(S)
  BY HeadTailProperties
<1> DEFINE h == Head(q)
<1> HIDE DEF h
<1>2. Append(r, h) = r \o <<h>> /\ <<h>> \in Seq(S) /\ Append(r, h) \in Seq(S)
  BY <1>1, AppendIsConcat, AppendProperties DEF h
<1>3. q = <<h>> \o Tail(q)
  <2>1. /\ Len(q) \in Nat \ {0} /\ Len(Tail(q)) = Len(q) - 1
        /\ \A i \in 1..Len(Tail(q)) : Tail(q)[i] = q[i + 1]
    BY HeadTailProperties, EmptySeq
  <2>2. /\ <<h>> \o Tail(q) \in Seq(S)
        /\ Len(<<h>> \o Tail(q)) = 1 + Len(Tail(q))
        /\ \A i \in 1..(1 + Len(Tail(q))) :
             (<<h>> \o Tail(q))[i] = IF i <= 1 THEN <<h>>[i] ELSE Tail(q)[i - 1]
    BY <1>1, <1>2, ConcatProperties
  <2>3. \A i \in 1..Len(q) : q[i] = (<<h>> \o Tail(q))[i]
    <3> SUFFICES ASSUME NEW i \in 1..Len(q) PROVE q[i] = (<<h>> \o Tail(q))[i]
      OBVIOUS
    <3>1. CASE i = 1
      BY <1>1, <2>1, <2>2, <3>1 DEF h
    <3>2. CASE i # 1
      <4>1. i - 1 \in 1..Len(Tail(q)) /\ (i - 1) + 1 = i /\ ~(i <= 1) /\ i \in 1..(1 + Len(Tail(q)))
        BY <2>1, <3>2
      <4> QED
        BY <2>1, <2>2, <4>1
    <3> QED
      BY <3>1, <3>2
  <2> QED
    BY <2>1, <2>2, <2>3, SeqEqual
<1>0. \A a, b, c \in Seq(S) : Regroups(a, b, c)
  BY RegroupFacts, Zenon
<1>4. Append(r, h) \o (Tail(q) \o t) = (Append(r, h) \o Tail(q)) \o t
  <2>1. Regroups(Append(r, h), Tail(q), t)
    BY <1>0, <1>1, <1>2, Zenon
  <2> QED
    BY <2>1, Zenon DEF Regroups
<1>5. (r \o <<h>>) \o Tail(q) = r \o (<<h>> \o Tail(q))
  <2>1. Regroups(r, <<h>>, Tail(q))
    BY <1>0, <1>1, <1>2, Zenon
  <2> QED
    BY <2>1, Zenon DEF Regroups
<1>6. Append(r, h) \o (Tail(q) \o t) = (r \o q) \o t
  BY <1>2, <1>3, <1>4, <1>5, Zenon
<1> QED
  BY <1>1, <1>2, <1>6, Zenon DEF h, Taken

-----------------------------------------------------------------------------
(* What is offered.                                                        *)

Keys(c, i, from) == {<<a, c, Key(Finding(c, i))>> : a \in Untold(c, i, from)}

Batch(c, i, from, depth, new) ==
  /\ new \in Seq(Entry)
  /\ \A k \in DOMAIN new : /\ new[k].changed = c /\ new[k].at = i /\ new[k].depth = depth
                           /\ new[k].affected \in Untold(c, i, from)
  /\ \A k, l \in DOMAIN new : new[k].affected = new[l].affected => k = l
  /\ \A a \in Untold(c, i, from) : \E k \in DOMAIN new : new[k].affected = a

LEMMA UntoldHear ==
  ASSUME HearInv, NEW c, NEW i, NEW from
  PROVE  Untold(c, i, from) =
           {a \in Contract : Hears(a, from, Finding(c, i)) /\ <<a, c, Key(Finding(c, i))>> \notin emitted}
BY DEF Untold, HearInv, HearsIn

\* A rising enumeration of some contracts leaves none out.
LEMMA RisingOnto ==
  ASSUME NEW S \in SUBSET Contract, NEW order \in InOrder(S)
  PROVE  /\ order \in [1..Cardinality(S) -> S] /\ Cardinality(S) \in Nat
         /\ \A i, j \in DOMAIN order : order[i] = order[j] => i = j
         /\ \A a \in S : \E i \in DOMAIN order : order[i] = a
<1>1. /\ IsFiniteSet(S) /\ Cardinality(S) \in Nat /\ DOMAIN order = 1..Cardinality(S)
      /\ order \in [1..Cardinality(S) -> S]
      /\ \A i, j \in DOMAIN order : i < j => order[i] < order[j]
  BY ContractsFinite DEF InOrder
<1>2. \A i \in DOMAIN order : order[i] \in Nat
  BY <1>1, ContractAssumption
<1>3. \A i, j \in DOMAIN order : order[i] = order[j] => i = j
  <2> SUFFICES ASSUME NEW i \in DOMAIN order, NEW j \in DOMAIN order, order[i] = order[j], i # j
               PROVE  FALSE
    OBVIOUS
  <2>1. i < j \/ j < i
    BY <1>1
  <2> QED
    BY <1>1, <1>2, <2>1
<1>4. order \in Injection(1..Cardinality(S), S)
  BY <1>1, <1>3 DEF Injection, IsInjective
<1>5. Cardinality(1..Cardinality(S)) = Cardinality(S)
  BY <1>1, FS_Interval
<1>6. order \in Surjection(1..Cardinality(S), S)
  BY <1>1, <1>4, <1>5, FS_Injection
<1> QED
  BY <1>1, <1>3, <1>6 DEF Surjection

LEMMA EntriesFacts ==
  ASSUME NEW c \in Contract, NEW i \in Nat \ {0}, NEW from, NEW depth \in Nat \ {0},
         NEW order \in InOrder(Untold(c, i, from))
  PROVE  Batch(c, i, from, depth, Entries(c, i, order, depth))
<1> DEFINE S == Untold(c, i, from)
<1>1. S \in SUBSET Contract
  BY DEF Untold
<1> HIDE DEF S
<1>2. /\ order \in [1..Cardinality(S) -> S] /\ Cardinality(S) \in Nat
      /\ DOMAIN order = 1..Cardinality(S)
      /\ \A k, l \in DOMAIN order : order[k] = order[l] => k = l
      /\ \A a \in S : \E k \in DOMAIN order : order[k] = a
  BY <1>1, RisingOnto DEF S
<1> DEFINE Told(a) == [changed |-> c, affected |-> a, at |-> i, depth |-> depth]
           new == [k \in DOMAIN order |-> Told(order[k])]
<1>3. \A k \in DOMAIN order : order[k] \in S /\ order[k] \in Contract
  BY <1>1, <1>2
<1>4. \A a \in Contract : Told(a) \in Entry
  BY DEF Entry
<1>5. \A a : Told(a).changed = c /\ Told(a).at = i /\ Told(a).depth = depth /\ Told(a).affected = a
  OBVIOUS
<1>6. new = Entries(c, i, order, depth)
  BY DEF Entries
<1> HIDE DEF Told
<1>7. DOMAIN new = DOMAIN order /\ \A k \in DOMAIN order : new[k] = Told(order[k])
  OBVIOUS
<1>8. new = [k \in 1..Cardinality(S) |-> new[k]]
  BY <1>2, <1>7
<1> HIDE DEF new
<1>9. new \in Seq(Entry)
  <2>1. \A k \in 1..Cardinality(S) : new[k] \in Entry
    BY <1>2, <1>3, <1>4, <1>7
  <2> QED
    BY <1>2, <1>8, <2>1, TableIsSeq
<1>10. Batch(c, i, from, depth, new)
  BY <1>2, <1>3, <1>5, <1>7, <1>9 DEF Batch, S
<1> QED
  BY <1>6, <1>10

LEMMA SoundStays ==
  ASSUME declared' = declared, findings' = findings, ToSet(todo)' \subseteq ToSet(todo)
  PROVE  \A e : Sound(e) => Sound(e)'
<1>1. Seeded \subseteq Seeded'
  BY DEF Seeded, Work
<1>2. \A c, i : FirstOf(c, i)' <=> FirstOf(c, i)
  BY DEF FirstOf, Visible, Key
<1>3. \A e : Reach(e)' = Reach(e)
  <2>1. \A c, i : Finding(c, i)' = Finding(c, i)
    BY DEF Finding
  <2> QED
    BY <2>1, WithinStays DEF Reach
<1> QED
  BY <1>1, <1>2, <1>3 DEF Sound

\* A batch at the end of the line keeps what every entry promises.
LEMMA BatchKeeps ==
  ASSUME TellInv, declared' = declared, findings' = findings, ToSet(todo)' \subseteq ToSet(todo),
         NEW c \in Contract, NEW i \in Nat \ {0}, NEW from, NEW depth, NEW new,
         Batch(c, i, from, depth, new), Line' = Line \o new,
         emitted' = emitted \cup Keys(c, i, from),
         \A k \in DOMAIN new : Sound(new[k])',
         \A a \in Untold(c, i, from) : \A j \in 1..(i - 1) :
           FirstOf(c, j) /\ SameTarget(c, j, i) => <<a, c, Key(Finding(c, j))>> \in emitted
  PROVE  SoundInv' /\ OnceInv' /\ OrderInv'
<1>1. Line \in Seq(Entry) /\ new \in Seq(Entry)
  BY JoinFacts DEF Line, TellInv, TellTypeOK, Batch
<1>2. /\ Len(Line) \in Nat /\ DOMAIN Line = 1..Len(Line)
      /\ \A p \in DOMAIN Line : p \in DOMAIN Line' /\ Line'[p] = Line[p]
      /\ \A k \in DOMAIN new : Len(Line) + k \in DOMAIN Line' /\ Line'[Len(Line) + k] = new[k]
      /\ \A p \in DOMAIN Line' : p \in DOMAIN Line \/ \E k \in DOMAIN new : p = Len(Line) + k
      /\ \A k \in DOMAIN new : k \in Nat \ {0}
  BY <1>1, JoinFacts
<1> DEFINE L == Line'
           n == Len(Line)
           f == Finding(c, i)
<1>3. /\ \A k \in DOMAIN new : /\ new[k].changed = c /\ new[k].at = i
                               /\ new[k].affected \in Untold(c, i, from)
      /\ \A k, l \in DOMAIN new : new[k].affected = new[l].affected => k = l
      /\ \A a \in Untold(c, i, from) : \E k \in DOMAIN new : new[k].affected = a
      /\ emitted' = emitted \cup {<<a, c, Key(f)>> : a \in Untold(c, i, from)}
  BY DEF Batch, Keys
<1>4. \A k \in DOMAIN new : Triple(new[k]) = <<new[k].affected, c, Key(f)>> /\ Triple(new[k]) \notin emitted
  BY <1>3 DEF Triple, Untold
<1>5. /\ emitted = {Triple(Line[p]) : p \in DOMAIN Line}
      /\ \A p, q \in DOMAIN Line : Triple(Line[p]) = Triple(Line[q]) => p = q
  BY DEF TellInv, OnceInv
<1>6. \A e : Triple(e)' = Triple(e)
  BY DEF Triple, Key, Finding
<1>7. \A a, b : FirstOf(a, b)' <=> FirstOf(a, b)
  BY DEF FirstOf, Visible, Key
<1>8. \A a, b : Finding(a, b)' = Finding(a, b)
  BY DEF Finding
<1>9. SoundInv'
  BY <1>2, SoundStays DEF TellInv, SoundInv
<1> HIDE DEF f
<1>10. OnceInv'
  <2>1. emitted' = {Triple(L[p]) : p \in DOMAIN L}
    <3>1. ASSUME NEW t \in emitted' PROVE \E p \in DOMAIN L : t = Triple(L[p])
      <4>1. CASE t \in emitted
        BY <1>2, <1>5, <4>1
      <4>2. CASE t \notin emitted
        <5>1. PICK a \in Untold(c, i, from) : t = <<a, c, Key(f)>>
          BY <1>3, <3>1, <4>2
        <5>2. PICK k \in DOMAIN new : new[k].affected = a
          BY <1>3
        <5> QED
          BY <1>2, <1>4, <5>1, <5>2
      <4> QED
        BY <4>1, <4>2
    <3>2. ASSUME NEW p \in DOMAIN L PROVE Triple(L[p]) \in emitted'
      <4>1. CASE p \in DOMAIN Line
        BY <1>2, <1>3, <1>5, <4>1
      <4>2. CASE \E k \in DOMAIN new : p = n + k
        BY <1>2, <1>3, <1>4, <4>2
      <4> QED
        BY <1>2, <4>1, <4>2
    <3> QED
      BY <3>1, <3>2
  <2>2. ASSUME NEW p \in DOMAIN L, NEW q \in DOMAIN L, Triple(L[p]) = Triple(L[q]) PROVE p = q
    <3>1. CASE p \in DOMAIN Line /\ q \in DOMAIN Line
      BY <1>2, <1>5, <2>2, <3>1
    <3>2. CASE p \in DOMAIN Line /\ q \notin DOMAIN Line
      <4>1. Triple(L[p]) \in emitted /\ Triple(L[q]) \notin emitted
        BY <1>2, <1>4, <1>5, <3>2
      <4> QED
        BY <2>2, <4>1
    <3>3. CASE p \notin DOMAIN Line /\ q \in DOMAIN Line
      <4>1. Triple(L[q]) \in emitted /\ Triple(L[p]) \notin emitted
        BY <1>2, <1>4, <1>5, <3>3
      <4> QED
        BY <2>2, <4>1
    <3>4. CASE p \notin DOMAIN Line /\ q \notin DOMAIN Line
      <4>1. PICK k \in DOMAIN new, l \in DOMAIN new : p = n + k /\ q = n + l
        BY <1>2, <3>4
      <4>0. L[p] = new[k] /\ L[q] = new[l]
        BY <1>2, <4>1
      <4>2. new[k].affected = new[l].affected
        BY <1>4, <2>2, <4>0
      <4> QED
        BY <1>3, <4>1, <4>2
    <3> QED
      BY <3>1, <3>2, <3>3, <3>4
  <2> QED
    BY <1>6, <2>1, <2>2 DEF OnceInv
<1>11. OrderInv'
  <2>1. ASSUME NEW p \in DOMAIN L, NEW q \in DOMAIN L,
               L[p].changed = L[q].changed, L[p].affected = L[q].affected,
               SameTarget(L[p].changed, L[p].at, L[q].at), L[p].at < L[q].at
        PROVE  p < q
    <3>1. CASE p \in DOMAIN Line /\ q \in DOMAIN Line
      BY <1>2, <2>1, <3>1 DEF TellInv, OrderInv
    <3>2. CASE p \in DOMAIN Line /\ q \notin DOMAIN Line
      BY <1>2, <3>2
    <3>3. CASE p \notin DOMAIN Line /\ q \in DOMAIN Line
      <4>1. PICK k \in DOMAIN new : p = n + k /\ L[p] = new[k]
        BY <1>2, <3>3
      <4>2. Line[q].changed = c /\ Line[q].affected = new[k].affected /\ i < Line[q].at
        BY <1>2, <1>3, <2>1, <3>3, <4>1
      <4>3. Line[q].at \in Nat
        <5>1. Line[q] \in Entry
          BY <1>1, <3>3, ElementOf
        <5> QED
          BY <5>1 DEF Entry
      <4>4. SameTarget(c, i, Line[q].at) /\ i \in 1..(Line[q].at - 1)
        BY <1>2, <1>3, <2>1, <3>3, <4>1, <4>2, <4>3
      <4>5. FirstOf(c, i)
        <5>1. FirstOf(new[k].changed, new[k].at)'
          BY <4>1 DEF Sound
        <5> QED
          BY <1>3, <1>7, <5>1
      <4>6. <<new[k].affected, c, Key(f)>> \in emitted
        BY <3>3, <4>2, <4>4, <4>5 DEF TellInv, OrderInv, f
      <4> QED
        BY <1>4, <4>6
    <3>4. CASE p \notin DOMAIN Line /\ q \notin DOMAIN Line
      <4>1. L[p].at = i /\ L[q].at = i
        BY <1>2, <1>3, <3>4
      <4> QED
        BY <2>1, <4>1
    <3> QED
      BY <3>1, <3>2, <3>3, <3>4
  <2>2. ASSUME NEW p \in DOMAIN L, NEW j \in 1..(L[p].at - 1),
               FirstOf(L[p].changed, j), SameTarget(L[p].changed, j, L[p].at)
        PROVE  <<L[p].affected, L[p].changed, Key(Finding(L[p].changed, j))>> \in emitted'
    <3>1. CASE p \in DOMAIN Line
      <4>1. <<Line[p].affected, Line[p].changed, Key(Finding(Line[p].changed, j))>> \in emitted
        BY <1>2, <2>2, <3>1 DEF TellInv, OrderInv
      <4> QED
        BY <1>2, <1>3, <3>1, <4>1
    <3>2. CASE p \notin DOMAIN Line
      <4>1. PICK k \in DOMAIN new : p = n + k /\ L[p] = new[k]
        BY <1>2, <3>2
      <4>2. L[p].changed = c /\ L[p].at = i /\ L[p].affected \in Untold(c, i, from)
        BY <1>3, <4>1
      <4>3. j \in 1..(i - 1) /\ FirstOf(c, j) /\ SameTarget(c, j, i)
        BY <2>2, <4>2
      <4>4. <<L[p].affected, c, Key(Finding(c, j))>> \in emitted
        BY <4>2, <4>3
      <4> QED
        BY <1>3, <4>2, <4>4
    <3> QED
      BY <3>1, <3>2
  <2>3. \A a, b, d : SameTarget(a, b, d)' <=> SameTarget(a, b, d)
    BY DEF SameTarget, Finding
  <2>4. \A a, b : Key(Finding(a, b))' = Key(Finding(a, b))
    BY DEF Key, Finding
  <2> QED
    <3>1. (\A p, q \in DOMAIN Line :
             /\ Line[p].changed = Line[q].changed /\ Line[p].affected = Line[q].affected
             /\ SameTarget(Line[p].changed, Line[p].at, Line[q].at)
             /\ Line[p].at < Line[q].at
             => p < q)'
      BY <2>1, <2>3
    <3>2. (\A p \in DOMAIN Line : \A j \in 1..(Line[p].at - 1) :
             FirstOf(Line[p].changed, j) /\ SameTarget(Line[p].changed, j, Line[p].at) =>
               <<Line[p].affected, Line[p].changed, Key(Finding(Line[p].changed, j))>> \in emitted)'
      BY <1>7, <2>2, <2>3, <2>4
    <3> QED
      BY <3>1, <3>2 DEF OrderInv
<1> QED
  BY <1>9, <1>10, <1>11

-----------------------------------------------------------------------------
(* Seeding.                                                                *)

LEMMA WorkFacts ==
  ASSUME TellTypeOK
  PROVE  \A c, i : <<c, i>> \in Work(findings) <=>
                     c \in Contract /\ i \in DOMAIN findings[c]
<1>1. \A c \in Contract : DOMAIN findings[c] = 1..Len(findings[c]) /\ Len(findings[c]) \in Nat
  BY DEF TellTypeOK
<1> QED
  BY DEF Work

LEMMA IndexFacts ==
  ASSUME TellTypeOK, NEW c \in Contract, NEW i \in DOMAIN findings[c]
  PROVE  /\ i \in Nat \ {0}
         /\ \A j \in 1..(i - 1) : j \in DOMAIN findings[c]
         /\ Finding(c, i).target \in Nat
<1>1. DOMAIN findings[c] = 1..Len(findings[c]) /\ Len(findings[c]) \in Nat
  BY DEF TellTypeOK
<1> QED
  BY <1>1 DEF TellTypeOK, Finding

LEMMA TodoFacts ==
  ASSUME TellTypeOK, TodoInv, todo # <<>>, todo' = Tail(todo), findings' = findings
  PROVE  LET w == Head(todo)
         IN  /\ w = <<w[1], w[2]>> /\ w \in Work(findings)
             /\ ToSet(todo)' \subseteq ToSet(todo)
             /\ Seeded' = Seeded \cup {w}
             /\ \A j \in 1..(w[2] - 1) : <<w[1], j>> \in Seeded
             /\ TodoInv' /\ todo' \in Seq(Work(findings))
<1> DEFINE w == Head(todo)
<1>1. /\ todo \in Seq(Work(findings)) /\ DOMAIN todo = 1..Len(todo) /\ Len(todo) \in Nat \ {0}
      /\ w = todo[1] /\ w \in Work(findings)
  BY HeadTailProperties, EmptySeq DEF TellTypeOK
<1>2. /\ todo' \in Seq(Work(findings)) /\ Len(todo') = Len(todo) - 1
      /\ DOMAIN todo' = 1..(Len(todo) - 1)
      /\ \A p \in 1..(Len(todo) - 1) : todo'[p] = todo[p + 1]
  <2>1. /\ Tail(todo) \in Seq(Work(findings)) /\ Len(Tail(todo)) = Len(todo) - 1
        /\ \A i \in 1..Len(Tail(todo)) : Tail(todo)[i] = todo[i + 1]
    BY <1>1, HeadTailProperties
  <2>2. DOMAIN Tail(todo) = 1..Len(Tail(todo))
    BY <2>1
  <2> QED
    BY <2>1, <2>2
<1> HIDE DEF w
<1>3. w = <<w[1], w[2]>> /\ w[1] \in Contract /\ w[2] \in DOMAIN findings[w[1]]
  BY <1>1 DEF Work
<1>4. \A p \in DOMAIN todo : /\ todo[p] = <<todo[p][1], todo[p][2]>> /\ todo[p][1] \in Contract
                             /\ todo[p][2] \in DOMAIN findings[todo[p][1]]
  <2>1. \A p \in DOMAIN todo : todo[p] \in Work(findings)
    BY <1>1, ElementOf
  <2> QED
    BY <2>1 DEF Work
<1>5. \A p \in DOMAIN todo : todo[p][2] \in Nat
  BY <1>4, IndexFacts
<1>6. \A p, q \in DOMAIN todo : p < q /\ todo[p][1] = todo[q][1] => todo[p][2] < todo[q][2]
  BY DEF TodoInv
<1>7. \A p \in DOMAIN todo : p = 1 \/ (p - 1 \in DOMAIN todo' /\ todo[p] = todo'[p - 1])
  <2> SUFFICES ASSUME NEW p \in DOMAIN todo, p # 1
               PROVE  p - 1 \in DOMAIN todo' /\ todo[p] = todo'[p - 1]
    OBVIOUS
  <2>1. p - 1 \in 1..(Len(todo) - 1) /\ (p - 1) + 1 = p
    BY <1>1
  <2> QED
    BY <1>2, <2>1
<1>8. \A p \in DOMAIN todo' : p + 1 \in DOMAIN todo /\ 1 < p + 1 /\ todo'[p] = todo[p + 1] /\ p \in Nat
  BY <1>1, <1>2
<1>9. w \notin ToSet(todo')
  <2> SUFFICES ASSUME NEW p \in DOMAIN todo', todo'[p] = w PROVE FALSE
    BY DEF ToSet
  <2>1. 1 \in DOMAIN todo /\ p + 1 \in DOMAIN todo /\ 1 < p + 1 /\ todo[p + 1] = todo[1]
    BY <1>1, <1>8
  <2>2. todo[1][2] < todo[1][2]
    BY <1>6, <2>1
  <2> QED
    BY <1>5, <2>1, <2>2
<1>10. ToSet(todo) = ToSet(todo') \cup {w}
  <2>1. ASSUME NEW p \in DOMAIN todo PROVE todo[p] \in ToSet(todo') \cup {w}
    BY <1>1, <1>7 DEF ToSet
  <2>2. ASSUME NEW p \in DOMAIN todo' PROVE todo'[p] \in ToSet(todo)
    BY <1>8 DEF ToSet
  <2>3. w \in ToSet(todo)
    BY <1>1 DEF ToSet
  <2> QED
    BY <2>1, <2>2, <2>3 DEF ToSet
<1>11. ToSet(todo)' = ToSet(todo')
  BY DEF ToSet
<1>12. Seeded' = Seeded \cup {w}
  <2>1. Seeded' = Work(findings) \ ToSet(todo')
    BY <1>11 DEF Seeded, Work
  <2> QED
    BY <1>1, <1>9, <1>10, <2>1 DEF Seeded
<1>13. ASSUME NEW j \in 1..(w[2] - 1) PROVE <<w[1], j>> \in Seeded
  <2>1. <<w[1], j>> \in Work(findings) /\ w[2] \in Nat
    BY <1>3, IndexFacts, WorkFacts
  <2>2. ASSUME NEW p \in DOMAIN todo, todo[p] = <<w[1], j>> PROVE FALSE
    <3>1. todo[p][1] = w[1] /\ todo[p][2] = j /\ j < w[2]
      BY <2>1, <2>2
    <3>2. p # 1 /\ 1 \in DOMAIN todo
      BY <1>1, <2>1, <3>1
    <3>3. 1 < p
      BY <1>1, <3>2
    <3>4. w[2] < j
      BY <1>1, <1>6, <3>1, <3>2, <3>3
    <3> QED
      BY <2>1, <3>1, <3>4
  <2> QED
    BY <2>1, <2>2 DEF Seeded, ToSet
<1>14. TodoInv'
  <2>1. ASSUME NEW p \in DOMAIN todo', NEW q \in DOMAIN todo', p < q, todo'[p][1] = todo'[q][1]
        PROVE  todo'[p][2] < todo'[q][2]
    <3>1. p + 1 < q + 1
      BY <1>8, <2>1
    <3> QED
      BY <1>6, <1>8, <2>1, <3>1
  <2>2. ASSUME NEW p \in DOMAIN todo', NEW i \in DOMAIN findings[todo'[p][1]], todo'[p][2] < i
        PROVE  <<todo'[p][1], i>> \in ToSet(todo')
    <3>1. <<todo'[p][1], i>> \in ToSet(todo)
      BY <1>8, <2>2 DEF TodoInv
    <3>2. <<todo'[p][1], i>> # w
      <4> SUFFICES ASSUME <<todo'[p][1], i>> = w PROVE FALSE
        OBVIOUS
      <4>1. w[1] = todo[p + 1][1] /\ w[2] = i
        BY <1>8
      <4>2. todo[1][2] < todo[p + 1][2]
        BY <1>1, <1>6, <1>8, <4>1
      <4>3. todo[p + 1][2] < todo[1][2]
        BY <1>1, <1>8, <2>2, <4>1
      <4>4. 1 \in DOMAIN todo /\ p + 1 \in DOMAIN todo
        BY <1>1, <1>8
      <4> QED
        BY <1>5, <4>2, <4>3, <4>4
    <3> QED
      BY <1>10, <3>1, <3>2
  <2> QED
    BY <1>11, <2>1, <2>2 DEF TodoInv
<1> QED
  BY <1>1, <1>2, <1>3, <1>10, <1>11, <1>12, <1>13, <1>14 DEF w

\* A visible finding is offered to those that hear of its contract directly.
LEMMA SeedOffers ==
  ASSUME TellInv, HearInv, todo # <<>>, todo' = Tail(todo), declared' = declared,
         findings' = findings, result' = result,
         Visible(Finding(Head(todo)[1], Head(todo)[2])),
         Offer(Head(todo)[1], Head(todo)[2], Head(todo)[1], 1, queue)
  PROVE  TellInv'
<1> DEFINE w == Head(todo)
           c == w[1]
           i == w[2]
           f == Finding(c, i)
           N == Cardinality(Contract)
<1>1. /\ w = <<c, i>> /\ w \in Work(findings)
      /\ ToSet(todo)' \subseteq ToSet(todo)
      /\ Seeded' = Seeded \cup {w}
      /\ \A j \in 1..(i - 1) : <<c, j>> \in Seeded
      /\ TodoInv' /\ todo' \in Seq(Work(findings))
  BY TodoFacts DEF TellInv
<1>2. Visible(f) /\ Offer(c, i, c, 1, queue)
  OBVIOUS
<1> HIDE DEF w
<1>3. c \in Contract /\ i \in DOMAIN findings[c]
  BY <1>1 DEF Work
<1> HIDE DEF c, i
<1>4. i \in Nat \ {0} /\ \A j \in 1..(i - 1) : j \in DOMAIN findings[c]
  BY <1>3, IndexFacts DEF TellInv
<1>5. PICK order \in InOrder(Untold(c, i, c)) : queue' = queue \o Entries(c, i, order, 1)
  BY <1>2 DEF Offer
<1>6. PICK new :
        /\ Batch(c, i, c, 1, new)
        /\ queue' = queue \o new
        /\ new \in Seq(Entry)
        /\ \A k \in DOMAIN new : /\ new[k].changed = c /\ new[k].at = i /\ new[k].depth = 1
                                 /\ new[k].affected \in Untold(c, i, c)
        /\ emitted' = emitted \cup Keys(c, i, c)
        /\ \A a : a \in Untold(c, i, c) <=>
                 a \in Contract /\ Hears(a, c, f) /\ <<a, c, Key(f)>> \notin emitted
  <2>1. 1 \in Nat \ {0}
    OBVIOUS
  <2>2. Batch(c, i, c, 1, Entries(c, i, order, 1))
    BY <1>3, <1>4, <2>1, EntriesFacts
  <2>3. emitted' = emitted \cup Keys(c, i, c)
    BY <1>2 DEF Offer, Keys
  <2>4. Untold(c, i, c) = {a \in Contract : Hears(a, c, f) /\ <<a, c, Key(f)>> \notin emitted}
    BY UntoldHear
  <2>5. \A new : Batch(c, i, c, 1, new) =>
          /\ new \in Seq(Entry)
          /\ \A k \in DOMAIN new : /\ new[k].changed = c /\ new[k].at = i /\ new[k].depth = 1
                                   /\ new[k].affected \in Untold(c, i, c)
    BY DEF Batch
  <2> QED
    BY <1>5, <2>2, <2>3, <2>4, <2>5
<1>7. result = <<>> /\ \A p \in DOMAIN queue : queue[p].depth = 1
  BY DEF TellInv, DepthInv
<1>8. queue \in Seq(Entry) /\ result \in Seq(Entry)
  BY DEF TellInv, TellTypeOK
<1>9. Line' = Line \o new /\ Line = queue /\ Line' = queue'
  <2>1. Line = queue
    BY <1>7, <1>8, ConcatEmptySeq DEF Line
  <2>2. queue' \in Seq(Entry)
    BY <1>6, <1>8, ConcatProperties
  <2>3. Line' = queue'
    BY <1>7, <2>2, ConcatEmptySeq DEF Line
  <2> QED
    BY <1>6, <2>1, <2>3
\* an earlier finding with the same target was offered to the same contracts
<1>10. ASSUME NEW a \in Untold(c, i, c), NEW j \in 1..(i - 1), Visible(Finding(c, j)), SameTarget(c, j, i)
       PROVE  <<a, c, Key(Finding(c, j))>> \in emitted
  <2>1. Hears(a, c, f) /\ a \in Contract
    BY <1>6
  <2>2. Hears(a, c, Finding(c, j))
    BY <1>10, <2>1 DEF Hears, Watched, SameTarget
  <2>3. <<c, j>> \in Seeded
    BY <1>1
  <2> QED
    BY <1>10, <2>1, <2>2, <2>3 DEF TellInv, HeardInv
<1>11. ASSUME NEW a \in Untold(c, i, c) PROVE FirstOf(c, i)
  <2>1. ASSUME NEW j \in 1..(i - 1), Visible(Finding(c, j)), Key(Finding(c, j)) = Key(f) PROVE FALSE
    <3>1. SameTarget(c, j, i)
      BY <2>1 DEF Key, SameTarget
    <3>2. <<a, c, Key(f)>> \in emitted
      BY <1>10, <2>1, <3>1
    <3> QED
      BY <1>6, <3>2
  <2> QED
    BY <1>2, <2>1 DEF FirstOf, Finding
<1>12. \A b, j : FirstOf(b, j) => Visible(Finding(b, j))
  BY DEF FirstOf, Finding
<1>13. N \in Nat \ {0} /\ 1 \in 1..N
  <2>1. IsFiniteSet(Contract) /\ N \in Nat /\ (N = 0 <=> Contract = {})
    BY ContractAssumption, FS_CardinalityType, FS_EmptySet
  <2> QED
    BY <1>3, <2>1
<1>14. ASSUME NEW k \in DOMAIN new PROVE Sound(new[k])
           \/ (/\ <<new[k].changed, new[k].at>> \in Seeded' /\ FirstOf(new[k].changed, new[k].at)
               /\ new[k].depth \in 1..N
               /\ new[k].affected \in Reach(new[k])[new[k].depth] \ Reach(new[k])[new[k].depth - 1]
               /\ Cardinality(Reach(new[k])[new[k].depth]) >= new[k].depth)
  <2> DEFINE a == new[k].affected
             W == Within(c, f)
  <2>1. /\ new[k].changed = c /\ new[k].at = i /\ new[k].depth = 1 /\ a \in Untold(c, i, c)
        /\ Reach(new[k]) = W
    BY <1>6 DEF Reach
  <2>2. W[0] = {} /\ W[1] = {b \in Contract : Hears(b, c, f)} /\ W[1] \subseteq Contract
    <3>1. 1 <= N /\ 1 \in 0..N
      BY <1>13
    <3> QED
      BY <1>3, <3>1, WithinFacts
  <2> HIDE DEF W
  <2>3. a \in W[1] \ W[0]
    BY <1>6, <2>1, <2>2
  <2>4. Cardinality(W[1]) >= 1
    <3>1. IsFiniteSet(W[1]) /\ Cardinality(W[1]) \in Nat /\ (Cardinality(W[1]) = 0 <=> W[1] = {})
      BY <2>2, ContractsFinite, FS_EmptySet
    <3> QED
      BY <2>3, <3>1
  <2>5. <<c, i>> \in Seeded' /\ FirstOf(c, i)
    BY <1>1, <1>11, <2>1
  <2>6. 1 - 1 = 0
    OBVIOUS
  <2> QED
    BY <1>13, <2>1, <2>3, <2>4, <2>5, <2>6
<1>15. ASSUME NEW k \in DOMAIN new PROVE Sound(new[k])'
  <2>1. \A b, j : FirstOf(b, j)' <=> FirstOf(b, j)
    BY DEF FirstOf, Visible, Key
  <2>2. \A e : Reach(e)' = Reach(e)
    <3>1. \A b, j : Finding(b, j)' = Finding(b, j)
      BY DEF Finding
    <3> QED
      BY <3>1, WithinStays DEF Reach
  <2>3. CASE Sound(new[k])
    BY <1>1, <2>3, SoundStays
  <2> QED
    BY <1>14, <2>1, <2>2, <2>3 DEF Sound
<1>16. SoundInv' /\ OnceInv' /\ OrderInv'
  BY <1>1, <1>3, <1>4, <1>6, <1>9, <1>10, <1>12, <1>15, BatchKeeps
<1>17. TellTypeOK'
  <2>1. Work(findings)' = Work(findings)
    BY DEF Work
  <2>2. queue' \in Seq(Entry)
    BY <1>6, <1>8, ConcatProperties
  <2> QED
    BY <1>1, <1>8, <2>1, <2>2 DEF TellInv, TellTypeOK
<1>18. HeardInv'
  <2>1. \A b, j : Finding(b, j)' = Finding(b, j)
    BY DEF Finding
  <2>2. \A a, b, g : Hears(a, b, g)' <=> Hears(a, b, g)
    BY WithinStays
  <2>3. ASSUME NEW v \in Seeded', Visible(Finding(v[1], v[2])), NEW a \in Contract,
               Hears(a, v[1], Finding(v[1], v[2]))
        PROVE  <<a, v[1], Key(Finding(v[1], v[2]))>> \in emitted'
    <3>1. CASE v \in Seeded
      BY <1>6, <2>3, <3>1 DEF TellInv, HeardInv
    <3>2. CASE v = w
      <4>1. v[1] = c /\ v[2] = i
        BY <3>2 DEF c, i
      <4> QED
        BY <1>6, <2>3, <4>1 DEF Keys
    <3> QED
      BY <1>1, <3>1, <3>2
  <2>4. DOMAIN result' = {}
    BY <1>7
  <2> QED
    BY <2>1, <2>2, <2>3, <2>4 DEF HeardInv, Visible, Key
<1>19. DepthInv'
  <2>1. \A p \in DOMAIN queue' : queue'[p].depth = 1
    BY <1>6, <1>7, <1>8, JoinFacts
  <2>2. Line' = queue' /\ result' = <<>> /\ queue' \in Seq(Entry)
    <3>1. queue' \in Seq(Entry)
      BY <1>6, <1>8, ConcatProperties
    <3> QED
      BY <1>7, <1>9, <3>1, Zenon
  <2>3. \A p, q \in DOMAIN Line' : p <= q => Line'[p].depth <= Line'[q].depth
    <3> SUFFICES ASSUME NEW p \in DOMAIN Line', NEW q \in DOMAIN Line', p <= q
                 PROVE  Line'[p].depth <= Line'[q].depth
      OBVIOUS
    <3>1. Line'[p].depth = 1 /\ Line'[q].depth = 1
      BY <2>1, <2>2, Zenon
    <3> QED
      BY <3>1
  <2>4. \A p \in DOMAIN queue' : queue'[p].depth <= queue'[1].depth + 1
    <3> SUFFICES ASSUME NEW p \in DOMAIN queue' PROVE queue'[p].depth <= queue'[1].depth + 1
      OBVIOUS
    <3>1. 1 \in DOMAIN queue'
      BY <2>2
    <3>2. queue'[p].depth = 1 /\ queue'[1].depth = 1
      BY <2>1, <3>1, Zenon
    <3> QED
      BY <3>2
  <2> QED
    BY <2>1, <2>2, <2>3, <2>4, Zenon DEF DepthInv
<1> QED
  BY <1>1, <1>16, <1>17, <1>18, <1>19 DEF TellInv

LEMMA SeedKeeps ==
  ASSUME TellInv, HearInv, Seed
  PROVE  TellInv'
<1> DEFINE w == Head(todo)
           f == Finding(w[1], w[2])
<1>1. /\ todo # <<>> /\ todo' = Tail(todo) /\ declared' = declared /\ findings' = findings
      /\ result' = result
      /\ IF Visible(f) THEN Offer(w[1], w[2], w[1], 1, queue) ELSE UNCHANGED <<emitted, queue>>
  BY DEF Seed
<1>2. CASE Visible(f)
  BY <1>1, <1>2, SeedOffers
<1>3. CASE ~Visible(f)
  <2> HIDE DEF w
  <2>1. emitted' = emitted /\ queue' = queue
    BY <1>1, <1>3
  <2>2. /\ w \in Work(findings) /\ ToSet(todo)' \subseteq ToSet(todo)
        /\ Seeded' = Seeded \cup {w}
        /\ TodoInv' /\ todo' \in Seq(Work(findings))
    BY <1>1, TodoFacts DEF TellInv, w
  <2>3. Line' = Line
    BY <1>1, <2>1 DEF Line
  <2>4. TellTypeOK'
    <3>1. Work(findings)' = Work(findings)
      BY <1>1 DEF Work
    <3> QED
      BY <1>1, <2>1, <2>2, <3>1 DEF TellInv, TellTypeOK
  <2>5. SoundInv'
    BY <1>1, <2>2, <2>3, SoundStays DEF TellInv, SoundInv
  <2>6. OnceInv'
    <3>1. \A e : Triple(e)' = Triple(e)
      BY <1>1 DEF Triple, Key, Finding
    <3>2. OnceInv
      BY DEF TellInv
    <3> QED
      BY <2>1, <2>3, <3>1, <3>2 DEF OnceInv
  <2>7. OrderInv'
    <3>1. /\ \A a, b : FirstOf(a, b)' <=> FirstOf(a, b)
          /\ \A a, b, d : SameTarget(a, b, d)' <=> SameTarget(a, b, d)
          /\ \A a, b : Key(Finding(a, b))' = Key(Finding(a, b))
      BY <1>1 DEF FirstOf, Visible, Key, SameTarget, Finding
    <3>2. (\A p, q \in DOMAIN Line :
             /\ Line[p].changed = Line[q].changed /\ Line[p].affected = Line[q].affected
             /\ SameTarget(Line[p].changed, Line[p].at, Line[q].at)
             /\ Line[p].at < Line[q].at
             => p < q)'
      BY <2>3, <3>1 DEF TellInv, OrderInv
    <3>3. (\A p \in DOMAIN Line : \A j \in 1..(Line[p].at - 1) :
             FirstOf(Line[p].changed, j) /\ SameTarget(Line[p].changed, j, Line[p].at) =>
               <<Line[p].affected, Line[p].changed, Key(Finding(Line[p].changed, j))>> \in emitted)'
      BY <2>1, <2>3, <3>1 DEF TellInv, OrderInv
    <3> QED
      BY <3>2, <3>3 DEF OrderInv
  <2>8. DepthInv'
    BY <1>1, <2>1, <2>3 DEF TellInv, DepthInv
  <2>9. HeardInv'
    <3>1. \A a, b, g : Hears(a, b, g)' <=> Hears(a, b, g)
      BY <1>1, WithinStays
    <3>2. \A b, j : Finding(b, j)' = Finding(b, j)
      BY <1>1 DEF Finding
    <3>3. ASSUME NEW v \in Seeded', Visible(Finding(v[1], v[2])) PROVE v \in Seeded
      BY <1>3, <2>2, <3>3
    <3> QED
      BY <1>1, <2>1, <3>1, <3>2, <3>3 DEF TellInv, HeardInv, Visible, Key
  <2> QED
    BY <2>2, <2>4, <2>5, <2>6, <2>7, <2>8, <2>9 DEF TellInv
<1> QED
  BY <1>2, <1>3

-----------------------------------------------------------------------------
(* Telling.                                                                *)

\* A key that was queued for the first finding that has it: an entry of that finding.
LEMMA InLine ==
  ASSUME TellInv, NEW b, NEW c \in Contract, NEW i \in DOMAIN findings[c], FirstOf(c, i),
         <<b, c, Key(Finding(c, i))>> \in emitted
  PROVE  \E p \in DOMAIN Line : Line[p].affected = b /\ Line[p].changed = c /\ Line[p].at = i
<1>1. PICK p \in DOMAIN Line : <<b, c, Key(Finding(c, i))>> = Triple(Line[p])
  BY DEF TellInv, OnceInv
<1>2. /\ Line[p].affected = b /\ Line[p].changed = c
      /\ Key(Finding(c, Line[p].at)) = Key(Finding(c, i))
  BY <1>1 DEF Triple
<1> DEFINE j == Line[p].at
<1>3. <<c, j>> \in Work(findings) /\ FirstOf(c, j)
  BY <1>2 DEF TellInv, SoundInv, Sound, Seeded
<1>4. j \in DOMAIN findings[c]
  BY <1>3, WorkFacts DEF TellInv
<1> HIDE DEF j
<1>5. i \in Nat \ {0} /\ j \in Nat \ {0}
  BY <1>4, IndexFacts DEF TellInv
<1>6. /\ Visible(findings[c][i]) /\ Visible(findings[c][j])
      /\ Key(findings[c][j]) = Key(findings[c][i])
      /\ \A k \in 1..(i - 1) : Visible(findings[c][k]) => Key(findings[c][k]) # Key(findings[c][i])
      /\ \A k \in 1..(j - 1) : Visible(findings[c][k]) => Key(findings[c][k]) # Key(findings[c][j])
  BY <1>2, <1>3 DEF FirstOf, Finding, j
<1>7. ~(j < i) /\ ~(i < j)
  <2>1. (j < i => j \in 1..(i - 1)) /\ (i < j => i \in 1..(j - 1))
    BY <1>5
  <2> QED
    BY <1>6, <2>1
<1>8. j = i
  BY <1>5, <1>7
<1> QED
  BY <1>2, <1>8 DEF j

\* When all that is nearer than D was told, all that hear within D calls are queued.
LEMMA Covered ==
  ASSUME TellInv, todo = <<>>, NEW c \in Contract, NEW i \in DOMAIN findings[c], FirstOf(c, i),
         NEW D \in 0..Cardinality(Contract),
         \A p \in DOMAIN Line : Line[p].depth < D => p \in DOMAIN result
  PROVE  \A b \in Within(c, Finding(c, i))[D] : <<b, c, Key(Finding(c, i))>> \in emitted
<1> DEFINE f == Finding(c, i)
           N == Cardinality(Contract)
           W == Within(c, f)
           Good == {n \in Nat : n <= D => \A b \in W[n] : <<b, c, Key(f)>> \in emitted}
<1>1. N \in Nat
  BY ContractAssumption, FS_CardinalityType
<1>2. /\ W[0] = {}
      /\ 1 <= N => W[1] = {a \in Contract : Hears(a, c, f)}
      /\ \A d \in 1..(N - 1) : \A a \in Contract :
           a \in W[d + 1] <=> a \in W[d] \/ \E b \in W[d] : Hears(a, b, f)
      /\ \A d \in 0..N : W[d] \subseteq Contract
  BY WithinFacts
<1>3. <<c, i>> \in Seeded
  <2>1. ToSet(todo) = {}
    BY DEF ToSet
  <2> QED
    BY <2>1, WorkFacts DEF TellInv, Seeded
<1>4. Visible(f)
  BY DEF FirstOf, Finding
<1>5. \A a \in Contract : Hears(a, c, f) => <<a, c, Key(f)>> \in emitted
  BY <1>3, <1>4 DEF TellInv, HeardInv
<1>6. ASSUME NEW n \in 1..(D - 1), NEW b \in W[n], <<b, c, Key(f)>> \in emitted,
             NEW a \in Contract, Hears(a, b, f)
      PROVE  <<a, c, Key(f)>> \in emitted
  <2>1. PICK p \in DOMAIN Line : Line[p].affected = b /\ Line[p].changed = c /\ Line[p].at = i
    BY <1>6, InLine
  <2>2. /\ Line[p].depth \in 1..N /\ b \notin W[Line[p].depth - 1]
    BY <2>1 DEF TellInv, SoundInv, Sound, Reach
  <2>3. Line[p].depth <= n
    <3>1. n \in 1..N
      BY <1>1
    <3> QED
      BY <1>6, <2>2, <3>1, OneDistance
  <2>4. p \in DOMAIN result
    <3>1. Line[p].depth < D
      BY <1>1, <2>2, <2>3
    <3> QED
      BY <3>1
  <2>5. Line[p] = result[p]
    BY <2>4, JoinFacts DEF TellInv, TellTypeOK, Line
  <2> QED
    BY <1>6, <2>1, <2>4, <2>5 DEF TellInv, HeardInv
<1>7. 0 \in Good
  BY <1>2
<1>8. ASSUME NEW n \in Nat, n \in Good PROVE n + 1 \in Good
  <2> SUFFICES ASSUME n + 1 <= D, NEW a \in W[n + 1] PROVE <<a, c, Key(f)>> \in emitted
    OBVIOUS
  <2>1. a \in Contract
    <3>1. n + 1 \in 0..N
      BY <1>1
    <3> QED
      BY <1>2, <3>1
  <2> HIDE DEF f, W
  <2>2. CASE n = 0
    BY <1>1, <1>2, <1>5, <2>1, <2>2
  <2>3. CASE n # 0
    <3>1. n \in 1..(N - 1) /\ n \in 1..(D - 1) /\ n <= D
      BY <1>1, <2>3
    <3>2. \A b \in W[n] : <<b, c, Key(f)>> \in emitted
      BY <1>8, <3>1
    <3> QED
      BY <1>2, <1>6, <2>1, <3>1, <3>2
  <2> QED
    BY <2>2, <2>3
<1> HIDE DEF Good
<1>9. D \in Good
  BY <1>7, <1>8, SetInduction
<1> QED
  BY <1>9 DEF Good

LEMMA TellKeeps ==
  ASSUME TellInv, HearInv, Tell
  PROVE  TellInv'
<1> DEFINE e == Head(queue)
           c == e.changed
           i == e.at
           b == e.affected
           d == e.depth
           f == Finding(c, i)
           N == Cardinality(Contract)
           h == Len(result) + 1
<1>1. /\ todo = <<>> /\ todo' = todo /\ queue # <<>> /\ result' = Append(result, e)
      /\ Offer(c, i, b, d + 1, Tail(queue))
      /\ declared' = declared /\ findings' = findings
  BY DEF Tell
<1>2. queue \in Seq(Entry) /\ result \in Seq(Entry) /\ TellTypeOK
  BY DEF TellInv, TellTypeOK
<1>3. e = queue[1] /\ e \in Entry /\ Tail(queue) \in Seq(Entry) /\ result' \in Seq(Entry)
  BY <1>1, <1>2, TakeFacts
<1>4. /\ Len(result) \in Nat /\ DOMAIN result = 1..Len(result) /\ Len(queue) \in Nat \ {0}
      /\ DOMAIN queue = 1..Len(queue) /\ 1 \in DOMAIN queue
      /\ Line \in Seq(Entry) /\ DOMAIN Line = 1..(Len(result) + Len(queue))
      /\ \A p \in DOMAIN result : p \in DOMAIN Line /\ Line[p] = result[p]
      /\ \A k \in DOMAIN queue : Len(result) + k \in DOMAIN Line /\ Line[Len(result) + k] = queue[k]
      /\ \A p \in DOMAIN Line : p \in DOMAIN result \/ \E k \in DOMAIN queue : p = Len(result) + k
  <2>1. Len(queue) \in Nat \ {0} /\ DOMAIN queue = 1..Len(queue)
    BY <1>1, <1>2, EmptySeq
  <2> QED
    BY <1>2, <2>1, JoinFacts DEF Line
<1> HIDE DEF e
<1>5. h \in DOMAIN Line /\ Line[h] = e
  BY <1>3, <1>4
<1>6. Sound(e)
  BY <1>5 DEF TellInv, SoundInv
<1> HIDE DEF c, i, b, d
<1>7. /\ c \in Contract /\ b \in Contract /\ i \in Nat \ {0} /\ d \in 1..N /\ N \in Nat
      /\ <<c, i>> \in Seeded /\ i \in DOMAIN findings[c] /\ FirstOf(c, i)
      /\ b \in Within(c, f)[d] /\ Cardinality(Within(c, f)[d]) >= d
      /\ d + 1 \in Nat \ {0}
  <2>1. c \in Contract /\ b \in Contract /\ i \in Nat \ {0}
    BY <1>3 DEF Entry, c, b, i
  <2>2. /\ <<c, i>> \in Seeded /\ FirstOf(c, i) /\ d \in 1..N
        /\ b \in Within(c, f)[d] /\ Cardinality(Within(c, f)[d]) >= d
    BY <1>6 DEF Sound, Reach, c, i, b, d
  <2>3. N \in Nat
    BY ContractAssumption, FS_CardinalityType
  <2>4. i \in DOMAIN findings[c]
    BY <1>2, <2>2, WorkFacts DEF Seeded
  <2> QED
    BY <2>1, <2>2, <2>3, <2>4
<1>8. PICK order \in InOrder(Untold(c, i, b)) :
        queue' = Tail(queue) \o Entries(c, i, order, d + 1)
  BY <1>1 DEF Offer
<1>9. PICK new :
        /\ Batch(c, i, b, d + 1, new)
        /\ queue' = Tail(queue) \o new
        /\ new \in Seq(Entry)
        /\ \A k \in DOMAIN new : /\ new[k].changed = c /\ new[k].at = i /\ new[k].depth = d + 1
                                 /\ new[k].affected \in Untold(c, i, b)
        /\ emitted' = emitted \cup Keys(c, i, b)
        /\ \A a : a \in Untold(c, i, b) <=>
                 a \in Contract /\ Hears(a, b, f) /\ <<a, c, Key(f)>> \notin emitted
  <2>1. Batch(c, i, b, d + 1, Entries(c, i, order, d + 1))
    BY <1>7, EntriesFacts
  <2>2. emitted' = emitted \cup Keys(c, i, b)
    BY <1>1 DEF Offer, Keys
  <2>3. Untold(c, i, b) = {a \in Contract : Hears(a, b, f) /\ <<a, c, Key(f)>> \notin emitted}
    BY UntoldHear
  <2>4. \A new : Batch(c, i, b, d + 1, new) =>
          /\ new \in Seq(Entry)
          /\ \A k \in DOMAIN new : /\ new[k].changed = c /\ new[k].at = i /\ new[k].depth = d + 1
                                   /\ new[k].affected \in Untold(c, i, b)
    BY DEF Batch
  <2> QED
    BY <1>8, <2>1, <2>2, <2>3, <2>4
<1>10. Line' = Line \o new
  <2>1. Line' = Append(result, e) \o (Tail(queue) \o new)
    BY <1>1, <1>9 DEF Line
  <2>2. queue # <<>> /\ queue \in Seq(Entry) /\ result \in Seq(Entry) /\ new \in Seq(Entry)
    BY <1>1, <1>2, <1>9
  <2>3. Append(result, Head(queue)) \o (Tail(queue) \o new) = (result \o queue) \o new
    <3>1. Taken(result, queue, new)
      BY <2>2, TakeFacts
    <3> QED
      BY <3>1, Zenon DEF Taken
  <2> QED
    BY <2>1, <2>3 DEF Line, e
\* what is nearer was told before
<1>11. \A p \in DOMAIN Line : Line[p].depth < d => p \in DOMAIN result
  <2> SUFFICES ASSUME NEW p \in DOMAIN Line, p \notin DOMAIN result, Line[p].depth < d PROVE FALSE
    OBVIOUS
  <2>1. h <= p
    BY <1>4
  <2>2. d <= Line[p].depth
    BY <1>5, <2>1 DEF TellInv, DepthInv, d
  <2>3. Line[p].depth \in Nat
    <3>1. Line[p] \in Entry
      BY <1>4, ElementOf
    <3> QED
      BY <3>1 DEF Entry
  <2> QED
    BY <1>7, <2>2, <2>3
<1>12. \A a \in Within(c, f)[d] : <<a, c, Key(f)>> \in emitted
  <2>1. d \in 0..N
    BY <1>7
  <2> QED
    BY <1>1, <1>7, <1>11, <2>1, Covered
\* one call further
<1>13. ASSUME NEW a \in Untold(c, i, b)
       PROVE  /\ d + 1 \in 1..N
              /\ a \in Within(c, f)[d + 1] \ Within(c, f)[d]
              /\ Cardinality(Within(c, f)[d + 1]) >= d + 1
  <2> DEFINE W == Within(c, f)
  <2>1. a \in Contract /\ Hears(a, b, f) /\ a \notin W[d]
    BY <1>9, <1>12
  <2>2. W[d] \subseteq Contract
    <3>1. d \in 0..N
      BY <1>7
    <3> QED
      BY <1>7, <3>1, WithinFacts
  <2>3. /\ IsFiniteSet(W[d]) /\ Cardinality(W[d]) \in Nat
        /\ Cardinality(W[d] \cup {a}) = Cardinality(W[d]) + 1
        /\ Cardinality(W[d] \cup {a}) <= N
    <3>1. IsFiniteSet(W[d]) /\ Cardinality(W[d]) \in Nat
      BY <2>2, ContractsFinite
    <3>2. Cardinality(W[d] \cup {a}) = Cardinality(W[d]) + 1
      BY <2>1, <3>1, FS_AddElement
    <3>3. W[d] \cup {a} \in SUBSET Contract
      BY <2>1, <2>2
    <3> QED
      BY <3>1, <3>2, <3>3, ContractsFinite
  <2>4. d + 1 <= N /\ d \in 1..(N - 1) /\ d + 1 \in 1..N
    BY <1>7, <2>3
  <2>5. /\ \A x \in Contract : x \in W[d + 1] <=> x \in W[d] \/ \E y \in W[d] : Hears(x, y, f)
        /\ W[d + 1] \subseteq Contract
    <3>1. d + 1 \in 0..N
      BY <1>7, <2>4
    <3> QED
      BY <1>7, <2>4, <3>1, WithinFacts
  <2> HIDE DEF W
  <2>6. b \in W[d] /\ Cardinality(W[d]) >= d
    BY <1>7 DEF W
  <2>7. a \in W[d + 1] /\ W[d] \cup {a} \subseteq W[d + 1]
    BY <2>1, <2>2, <2>5, <2>6
  <2>8. Cardinality(W[d + 1]) \in Nat /\ Cardinality(W[d] \cup {a}) <= Cardinality(W[d + 1])
    BY <2>5, <2>7, ContractsFinite, FS_Subset
  <2>9. Cardinality(W[d + 1]) >= d + 1
    BY <1>7, <2>3, <2>6, <2>8
  <2> QED
    BY <2>1, <2>4, <2>7, <2>9 DEF W
<1>14. \A x, y : FirstOf(x, y)' <=> FirstOf(x, y)
  BY <1>1 DEF FirstOf, Visible, Key
<1>15. \A x, y : Finding(x, y)' = Finding(x, y)
  BY <1>1 DEF Finding
<1>16. ASSUME NEW k \in DOMAIN new PROVE Sound(new[k])'
  <2>1. \A x : Reach(x)' = Reach(x)
    BY <1>1, <1>15, WithinStays DEF Reach
  <2>2. Seeded' = Seeded
    BY <1>1 DEF Seeded, Work, ToSet
  <2>3. /\ new[k].changed = c /\ new[k].at = i /\ new[k].depth = d + 1
        /\ new[k].affected \in Untold(c, i, b)
        /\ Reach(new[k]) = Within(c, f) /\ (d + 1) - 1 = d
    BY <1>7, <1>9 DEF Reach
  <2>4. /\ <<new[k].changed, new[k].at>> \in Seeded /\ FirstOf(new[k].changed, new[k].at)
        /\ new[k].depth \in 1..N
        /\ new[k].affected \in Reach(new[k])[new[k].depth] \ Reach(new[k])[new[k].depth - 1]
        /\ Cardinality(Reach(new[k])[new[k].depth]) >= new[k].depth
    BY <1>7, <1>13, <2>3
  <2> QED
    BY <1>14, <2>1, <2>2, <2>4 DEF Sound
\* an earlier finding with the same target was told to b before
<1>17. ASSUME NEW a \in Untold(c, i, b), NEW j \in 1..(i - 1), FirstOf(c, j), SameTarget(c, j, i)
       PROVE  <<a, c, Key(Finding(c, j))>> \in emitted
  <2>1. j \in DOMAIN findings[c] /\ j < i
    BY <1>2, <1>7, IndexFacts
  <2>2. <<b, c, Key(Finding(c, j))>> \in emitted
    BY <1>5, <1>17 DEF TellInv, OrderInv, c, i, b
  <2>3. PICK p \in DOMAIN Line : Line[p].affected = b /\ Line[p].changed = c /\ Line[p].at = j
    BY <1>7, <1>17, <2>1, <2>2, InLine
  <2>4. p < h
    BY <1>5, <1>17, <2>1, <2>3 DEF TellInv, OrderInv, c, i, b
  <2>5. p \in DOMAIN result /\ Line[p] = result[p]
    BY <1>4, <2>4
  <2>6. a \in Contract /\ Hears(a, b, Finding(c, j))
    BY <1>9, <1>17 DEF Hears, Watched, SameTarget
  <2> QED
    BY <2>3, <2>5, <2>6 DEF TellInv, HeardInv
<1>18. SoundInv' /\ OnceInv' /\ OrderInv'
  <2>1. ToSet(todo)' \subseteq ToSet(todo)
    BY <1>1 DEF ToSet
  <2> QED
    BY <1>1, <1>7, <1>9, <1>10, <1>16, <1>17, <2>1, BatchKeeps
<1>19. TellTypeOK' /\ TodoInv'
  <2>1. Work(findings)' = Work(findings)
    BY <1>1 DEF Work
  <2>2. queue' \in Seq(Entry)
    BY <1>3, <1>9, ConcatProperties
  <2> QED
    BY <1>1, <1>3, <2>1, <2>2 DEF TellInv, TellTypeOK, TodoInv, ToSet
<1>20. HeardInv'
  <2>1. \A x, y, g : Hears(x, y, g)' <=> Hears(x, y, g)
    BY <1>1, WithinStays
  <2>2. Seeded' = Seeded /\ emitted \subseteq emitted'
    BY <1>1, <1>9 DEF Seeded, Work, ToSet
  <2>3. /\ DOMAIN result' = 1..(Len(result) + 1)
        /\ \A p \in DOMAIN result : result'[p] = result[p]
        /\ result'[Len(result) + 1] = e
    BY <1>1, <1>2, <1>3, PushFacts
  <2>4. ASSUME NEW p \in DOMAIN result', NEW a \in Contract,
               Hears(a, result'[p].affected, Finding(result'[p].changed, result'[p].at))
        PROVE  <<a, result'[p].changed, Key(Finding(result'[p].changed, result'[p].at))>> \in emitted'
    <3>1. CASE p \in DOMAIN result
      BY <2>2, <2>3, <2>4, <3>1 DEF TellInv, HeardInv
    <3>2. CASE p = Len(result) + 1
      <4>1. result'[p].affected = b /\ result'[p].changed = c /\ result'[p].at = i
        BY <2>3, <3>2 DEF b, c, i
      <4> QED
        BY <1>9, <2>4, <4>1 DEF Keys
    <3> QED
      BY <1>4, <2>3, <3>1, <3>2
  <2>5. \A v \in Seeded : Visible(Finding(v[1], v[2])) =>
          \A a \in Contract : Hears(a, v[1], Finding(v[1], v[2])) =>
            <<a, v[1], Key(Finding(v[1], v[2]))>> \in emitted'
    BY <2>2 DEF TellInv, HeardInv
  <2> QED
    BY <1>15, <2>1, <2>2, <2>4, <2>5 DEF HeardInv, Visible, Key
<1>21. DepthInv'
  <2>1. /\ \A p \in DOMAIN Line : Line[p].depth \in Nat
        /\ \A p, q \in DOMAIN Line : p <= q => Line[p].depth <= Line[q].depth
    <3>1. \A p \in DOMAIN Line : Line[p] \in Entry
      BY <1>4, ElementOf
    <3> QED
      BY <3>1 DEF TellInv, DepthInv, Entry
  <2>2. \A p \in DOMAIN Line : Line[p].depth <= d + 1
    <3> SUFFICES ASSUME NEW p \in DOMAIN Line PROVE Line[p].depth <= d + 1
      OBVIOUS
    <3>1. CASE p \in DOMAIN result
      <4>1. p <= h
        BY <1>4, <3>1
      <4>2. Line[p].depth <= d
        BY <1>5, <2>1, <4>1 DEF d
      <4> QED
        BY <1>7, <2>1, <4>2
    <3>2. CASE \E k \in DOMAIN queue : p = Len(result) + k
      <4>1. PICK k \in DOMAIN queue : p = Len(result) + k
        BY <3>2
      <4>2. queue[k].depth <= queue[1].depth + 1
        BY DEF TellInv, DepthInv
      <4> QED
        BY <1>3, <1>4, <4>1, <4>2 DEF d
    <3> QED
      BY <1>4, <3>1, <3>2
  <2>3. /\ Len(Line) \in Nat /\ DOMAIN Line = 1..Len(Line)
        /\ \A p \in DOMAIN Line : p \in DOMAIN Line' /\ Line'[p] = Line[p]
        /\ \A k \in DOMAIN new : Len(Line) + k \in DOMAIN Line' /\ Line'[Len(Line) + k] = new[k]
        /\ \A p \in DOMAIN Line' : p \in DOMAIN Line \/ \E k \in DOMAIN new : p = Len(Line) + k
        /\ \A k \in DOMAIN new : k \in Nat \ {0}
    <3>1. Line \in Seq(Entry) /\ new \in Seq(Entry)
      BY <1>4, <1>9
    <3> QED
      BY <1>10, <3>1, JoinFacts
  <2>4. ASSUME NEW p \in DOMAIN Line', NEW q \in DOMAIN Line', p <= q
        PROVE  Line'[p].depth <= Line'[q].depth
    <3>1. CASE p \in DOMAIN Line /\ q \in DOMAIN Line
      BY <2>1, <2>3, <2>4, <3>1
    <3>2. CASE p \in DOMAIN Line /\ \E k \in DOMAIN new : q = Len(Line) + k
      BY <1>9, <2>2, <2>3, <3>2
    <3>3. CASE (\E k \in DOMAIN new : p = Len(Line) + k) /\ q \in DOMAIN Line
      BY <2>3, <2>4, <3>3
    <3>4. CASE (\E k \in DOMAIN new : p = Len(Line) + k) /\ (\E k \in DOMAIN new : q = Len(Line) + k)
      <4>1. Line'[p].depth = d + 1 /\ Line'[q].depth = d + 1
        BY <1>9, <2>3, <3>4
      <4> QED
        BY <1>7, <4>1
    <3> QED
      BY <2>3, <3>1, <3>2, <3>3, <3>4
  <2>5. \A p \in DOMAIN queue' : d <= queue'[p].depth /\ queue'[p].depth <= d + 1 /\ queue'[p].depth \in Nat
    <3>1. /\ Len(Tail(queue)) = Len(queue) - 1 /\ DOMAIN Tail(queue) = 1..(Len(queue) - 1)
          /\ \A k \in DOMAIN Tail(queue) : Tail(queue)[k] = queue[k + 1]
      <4>1. /\ Len(Tail(queue)) = Len(queue) - 1 /\ DOMAIN Tail(queue) = 1..Len(Tail(queue))
            /\ \A k \in 1..Len(Tail(queue)) : Tail(queue)[k] = queue[k + 1]
        BY <1>1, <1>2, <1>3, HeadTailProperties
      <4> QED
        BY <4>1
    <3>2. \A k \in DOMAIN queue : d <= queue[k].depth /\ queue[k].depth <= d + 1 /\ queue[k].depth \in Nat
      <4> SUFFICES ASSUME NEW k \in DOMAIN queue
                   PROVE  d <= queue[k].depth /\ queue[k].depth <= d + 1 /\ queue[k].depth \in Nat
        OBVIOUS
      <4>1. /\ Len(result) + k \in DOMAIN Line /\ Line[Len(result) + k] = queue[k]
            /\ h <= Len(result) + k
        BY <1>4
      <4> QED
        BY <1>5, <2>1, <2>2, <4>1 DEF d
    <3>3. \A k \in DOMAIN Tail(queue) : k + 1 \in DOMAIN queue
      BY <1>4, <3>1
    <3>4. ASSUME NEW p \in DOMAIN queue'
          PROVE  \/ p \in DOMAIN Tail(queue) /\ queue'[p] = Tail(queue)[p]
                 \/ \E k \in DOMAIN new : queue'[p] = new[k]
      <4>1. Tail(queue) \in Seq(Entry) /\ new \in Seq(Entry) /\ queue' = Tail(queue) \o new
        BY <1>3, <1>9
      <4> QED
        BY <4>1, JoinFacts
    <3>5. ASSUME NEW p \in DOMAIN queue', p \in DOMAIN Tail(queue), queue'[p] = Tail(queue)[p]
          PROVE  d <= queue'[p].depth /\ queue'[p].depth <= d + 1 /\ queue'[p].depth \in Nat
      BY <3>1, <3>2, <3>3, <3>5
    <3>6. ASSUME NEW p \in DOMAIN queue', NEW k \in DOMAIN new, queue'[p] = new[k]
          PROVE  d <= queue'[p].depth /\ queue'[p].depth <= d + 1 /\ queue'[p].depth \in Nat
      <4>1. new[k].depth = d + 1
        BY <1>9
      <4>2. queue'[p].depth = d + 1
        BY <3>6, <4>1
      <4>3. PICK deep \in Nat : deep = d
        BY <1>7
      <4>4. deep <= deep + 1 /\ deep + 1 <= deep + 1 /\ deep + 1 \in Nat
        BY <4>3
      <4> QED
        BY <4>2, <4>3, <4>4
    <3> QED
      BY <3>4, <3>5, <3>6
  <2>6. ASSUME NEW p \in DOMAIN queue' PROVE queue'[p].depth <= queue'[1].depth + 1
    <3>1. queue' \in Seq(Entry)
      BY <1>3, <1>9, ConcatProperties
    <3>2. 1 \in DOMAIN queue'
      BY <2>6, <3>1
    <3> QED
      BY <1>7, <2>5, <3>2
  <2> QED
    BY <1>1, <2>4, <2>6 DEF DepthInv
<1> QED
  BY <1>18, <1>19, <1>20, <1>21 DEF TellInv

-----------------------------------------------------------------------------
(* The first state of a propagation.                                       *)

LEMMA WorkFinite ==
  ASSUME NEW fs \in Reports
  PROVE  Cardinality(Work(fs)) \in Nat
<1> DEFINE Of(c) == {c} \X DOMAIN fs[c]
           F == [c \in Contract |-> Of(c)]
           S == {Of(c) : c \in Contract}
<1>1. \A c \in Contract : IsFiniteSet(Of(c))
  <2> SUFFICES ASSUME NEW c \in Contract PROVE IsFiniteSet(Of(c))
    OBVIOUS
  <2>1. DOMAIN fs[c] = 1..Len(fs[c]) /\ Len(fs[c]) \in Nat
    BY ReportAssumption
  <2>2. IsFiniteSet(DOMAIN fs[c])
    BY <2>1, FS_Interval
  <2> QED
    BY <2>2, FS_Singleton, FS_Product
<1> HIDE DEF Of
<1>2. F \in Surjection(Contract, S)
  BY DEF Surjection
<1>3. IsFiniteSet(S)
  BY <1>2, ContractAssumption, FS_Surjection
<1>4. IsFiniteSet(UNION S)
  BY <1>1, <1>3, FS_UNION
<1>5. Work(fs) = UNION S
  BY DEF Work, Of
<1> QED
  BY <1>4, <1>5, FS_CardinalityType

LEMMA PropagateStarts ==
  ASSUME IdleInv, NEW fs \in Reports, Propagate(fs)
  PROVE  TellInv'
<1>1. /\ findings' = fs /\ todo' \in Orders(fs)
      /\ emitted' = {} /\ queue' = <<>> /\ result' = <<>> /\ declared' = declared
  BY DEF Propagate, IdleInv
<1>2. /\ todo' \in [1..Cardinality(Work(fs)) -> Work(fs)]
      /\ \A w \in Work(fs) : \E i \in DOMAIN todo' : todo'[i] = w
      /\ \A i, j \in DOMAIN todo' : i < j /\ todo'[i][1] = todo'[j][1] => todo'[i][2] < todo'[j][2]
  BY <1>1 DEF Orders
<1>3. todo' \in Seq(Work(fs))
  BY <1>2, WorkFinite, TableIsSeq
<1>4. Work(findings)' = Work(fs) /\ ToSet(todo)' = Work(fs)
  <2>1. Work(findings)' = Work(fs)
    BY <1>1 DEF Work
  <2>2. ToSet(todo)' = {todo'[i] : i \in DOMAIN todo'}
    BY DEF ToSet
  <2>3. \A i \in DOMAIN todo' : todo'[i] \in Work(fs)
    BY <1>2
  <2>4. {todo'[i] : i \in DOMAIN todo'} = Work(fs)
    BY <1>2, <2>3
  <2> QED
    BY <2>1, <2>2, <2>4
<1>5. TellTypeOK'
  <2>1. <<>> \in Seq(Entry)
    OBVIOUS
  <2> QED
    BY <1>1, <1>3, <1>4, <2>1, ReportAssumption DEF TellTypeOK
<1>6. TodoInv'
  <2>1. ASSUME NEW p \in DOMAIN todo', NEW i \in DOMAIN fs[todo'[p][1]]
        PROVE  <<todo'[p][1], i>> \in Work(fs)
    <3>1. todo'[p] \in Work(fs)
      BY <1>2
    <3>2. todo'[p][1] \in Contract
      BY <3>1 DEF Work
    <3> QED
      BY <3>2 DEF Work
  <2> QED
    BY <1>1, <1>2, <1>4, <2>1 DEF TodoInv
<1>7. Line' = <<>> /\ DOMAIN Line' = {}
  BY <1>1 DEF Line
<1>8. SoundInv' /\ OnceInv' /\ OrderInv'
  BY <1>1, <1>7 DEF SoundInv, OnceInv, OrderInv
<1>9. HeardInv'
  <2>1. Seeded' = {}
    BY <1>4 DEF Seeded
  <2>2. DOMAIN result' = {}
    BY <1>1
  <2> QED
    BY <2>1, <2>2 DEF HeardInv
<1>10. DepthInv'
  <2>1. DOMAIN queue' = {}
    BY <1>1
  <2> QED
    BY <1>1, <1>7, <2>1 DEF DepthInv
<1> QED
  BY <1>5, <1>6, <1>8, <1>9, <1>10 DEF TellInv

-----------------------------------------------------------------------------
(* The sort.                                                               *)

\* R is a strict order of 1..n, and total.
TotalOn(R, n) ==
  /\ \A i \in 1..n : <<i, i>> \notin R
  /\ \A i, j \in 1..n : i # j => <<i, j>> \in R \/ <<j, i>> \in R
  /\ \A i, j, k \in 1..n : <<i, j>> \in R /\ <<j, k>> \in R => <<i, k>> \in R

\* How many R puts before j.
RankIn(R, n, j) == Cardinality({i \in 1..n : <<i, j>> \in R})

\* Each of them has a rank of its own, and the ranks are in their order.
LEMMA RankFacts ==
  ASSUME NEW n \in Nat, NEW R, TotalOn(R, n)
  PROVE  /\ \A m \in 1..n : \E j \in 1..n : RankIn(R, n, j) = m - 1
         /\ \A i, j \in 1..n : <<i, j>> \in R => RankIn(R, n, i) < RankIn(R, n, j)
<1> SUFFICES ASSUME \A i \in 1..n : <<i, i>> \notin R,
                    \A i, j \in 1..n : i # j => <<i, j>> \in R \/ <<j, i>> \in R,
                    \A i, j, k \in 1..n : <<i, j>> \in R /\ <<j, k>> \in R => <<i, k>> \in R
             PROVE  /\ \A m \in 1..n : \E j \in 1..n : RankIn(R, n, j) = m - 1
                    /\ \A i, j \in 1..n : <<i, j>> \in R => RankIn(R, n, i) < RankIn(R, n, j)
  BY Zenon DEF TotalOn
<1> DEFINE D == 1..n
           Below(j) == {i \in D : <<i, j>> \in R}
           rank == [j \in D |-> Cardinality(Below(j)) + 1]
<1>0. \A j : RankIn(R, n, j) = Cardinality(Below(j))
  BY DEF RankIn
<1>1. IsFiniteSet(D) /\ Cardinality(D) = n
  BY FS_Interval
<1>2. \A j \in D : IsFiniteSet(Below(j)) /\ Cardinality(Below(j)) \in Nat
  <2> SUFFICES ASSUME NEW j \in D PROVE IsFiniteSet(Below(j)) /\ Cardinality(Below(j)) \in Nat
    OBVIOUS
  <2>1. Below(j) \in SUBSET D
    OBVIOUS
  <2> HIDE DEF Below, D
  <2>2. IsFiniteSet(Below(j))
    BY <1>1, <2>1, FS_Subset
  <2> QED
    BY <2>2, FS_CardinalityType
<1>3. \A i, j \in D : <<i, j>> \in R => Cardinality(Below(i)) < Cardinality(Below(j))
  <2> SUFFICES ASSUME NEW i \in D, NEW j \in D, <<i, j>> \in R
               PROVE  Cardinality(Below(i)) < Cardinality(Below(j))
    OBVIOUS
  <2>1. Below(i) \in SUBSET Below(j) /\ i \in Below(j) /\ i \notin Below(i)
    OBVIOUS
  <2> HIDE DEF Below
  <2>2. Cardinality(Below(i)) <= Cardinality(Below(j)) /\ Cardinality(Below(i)) # Cardinality(Below(j))
    BY <1>2, <2>1, FS_Subset
  <2> QED
    BY <1>2, <2>2
<1>4. \A j \in D : Cardinality(Below(j)) <= n - 1
  <2> SUFFICES ASSUME NEW j \in D PROVE Cardinality(Below(j)) <= n - 1
    OBVIOUS
  <2>1. Below(j) \in SUBSET (D \ {j})
    OBVIOUS
  <2>2. IsFiniteSet(D \ {j}) /\ Cardinality(D \ {j}) = n - 1
    BY <1>1, FS_RemoveElement
  <2> HIDE DEF Below, D
  <2> QED
    BY <2>1, <2>2, FS_Subset
<1> HIDE DEF Below
<1>5. rank \in [D -> D]
  BY <1>2, <1>4
<1>6. \A i, j \in D : rank[i] = rank[j] => i = j
  <2> SUFFICES ASSUME NEW i \in D, NEW j \in D, rank[i] = rank[j], i # j PROVE FALSE
    OBVIOUS
  <2>1. Cardinality(Below(i)) = Cardinality(Below(j))
    BY <1>2
  <2>2. CASE <<i, j>> \in R
    BY <1>2, <1>3, <2>1, <2>2
  <2>3. CASE <<j, i>> \in R
    BY <1>2, <1>3, <2>1, <2>3
  <2> QED
    BY <2>2, <2>3
<1>7. rank \in Injection(D, D)
  BY <1>5, <1>6 DEF Injection, IsInjective
<1>8. rank \in Surjection(D, D)
  BY <1>1, <1>7, FS_Injection
<1>9. \A m \in D : \E j \in D : Cardinality(Below(j)) = m - 1
  <2> SUFFICES ASSUME NEW m \in D PROVE \E j \in D : Cardinality(Below(j)) = m - 1
    OBVIOUS
  <2>1. PICK j \in D : rank[j] = m
    BY <1>8 DEF Surjection
  <2>2. Cardinality(Below(j)) + 1 = m
    BY <2>1
  <2> QED
    BY <1>2, <2>2
<1> QED
  BY <1>0, <1>3, <1>9

Quad == Nat \X Nat \X Nat \X Nat

LEMMA LessQuad ==
  ASSUME NEW k \in Quad, NEW l \in Quad
  PROVE  Less(k, l) <=> \/ k[1] < l[1]
                        \/ k[1] = l[1] /\ k[2] < l[2]
                        \/ k[1] = l[1] /\ k[2] = l[2] /\ k[3] < l[3]
                        \/ k[1] = l[1] /\ k[2] = l[2] /\ k[3] = l[3] /\ k[4] < l[4]
<1>1. DOMAIN k = 1..4
  BY DEF Quad
<1>2. Less(k, l) <=> \E i \in 1..4 : k[i] < l[i] /\ \A j \in 1..(i - 1) : k[j] = l[j]
  BY <1>1 DEF Less
<1>3. \A i \in 1..4 : i = 1 \/ i = 2 \/ i = 3 \/ i = 4
  OBVIOUS
<1>4. /\ \A j : j \notin 1..(1 - 1)
      /\ \A j : j \in 1..(2 - 1) <=> j = 1
      /\ \A j : j \in 1..(3 - 1) <=> j = 1 \/ j = 2
      /\ \A j : j \in 1..(4 - 1) <=> j = 1 \/ j = 2 \/ j = 3
  OBVIOUS
<1>5. 1 \in 1..4 /\ 2 \in 1..4 /\ 3 \in 1..4 /\ 4 \in 1..4
  OBVIOUS
<1> QED
  BY <1>2, <1>3, <1>4, <1>5

LEMMA LessOrders ==
  ASSUME NEW k \in Quad, NEW l \in Quad, NEW m \in Quad
  PROVE  /\ ~Less(k, k)
         /\ k = l \/ Less(k, l) \/ Less(l, k)
         /\ Less(k, l) /\ Less(l, m) => Less(k, m)
<1>1. /\ k[1] \in Nat /\ k[2] \in Nat /\ k[3] \in Nat /\ k[4] \in Nat
      /\ l[1] \in Nat /\ l[2] \in Nat /\ l[3] \in Nat /\ l[4] \in Nat
      /\ m[1] \in Nat /\ m[2] \in Nat /\ m[3] \in Nat /\ m[4] \in Nat
  BY DEF Quad
<1>2. (k[1] = l[1] /\ k[2] = l[2] /\ k[3] = l[3] /\ k[4] = l[4]) => k = l
  <2>1. k = <<k[1], k[2], k[3], k[4]>> /\ l = <<l[1], l[2], l[3], l[4]>>
    BY DEF Quad
  <2> QED
    BY <2>1
<1> DEFINE First(x, y) == \/ x[1] < y[1]
                          \/ x[1] = y[1] /\ x[2] < y[2]
                          \/ x[1] = y[1] /\ x[2] = y[2] /\ x[3] < y[3]
                          \/ x[1] = y[1] /\ x[2] = y[2] /\ x[3] = y[3] /\ x[4] < y[4]
<1>3. /\ Less(k, k) <=> First(k, k)
      /\ Less(k, l) <=> First(k, l)
      /\ Less(l, k) <=> First(l, k)
      /\ Less(l, m) <=> First(l, m)
      /\ Less(k, m) <=> First(k, m)
  BY LessQuad
<1>4. ~First(k, k) /\ (First(k, l) /\ First(l, m) => First(k, m))
  BY <1>1
<1>5. k = l \/ First(k, l) \/ First(l, k)
  BY <1>1, <1>2
<1> HIDE DEF First
<1> QED
  BY <1>3, <1>4, <1>5

LEMMA QuadSeq ==
  ASSUME NEW k \in Quad
  PROVE  k \in Seq(Nat) /\ Len(k) = 4
<1>1. \A a, b, c, d \in Nat : <<a, b, c, d>> \in Seq(Nat) /\ Len(<<a, b, c, d>>) = 4
  OBVIOUS
<1>2. /\ k[1] \in Nat /\ k[2] \in Nat /\ k[3] \in Nat /\ k[4] \in Nat
      /\ k = <<k[1], k[2], k[3], k[4]>>
  BY DEF Quad
<1>3. <<k[1], k[2], k[3], k[4]>> \in Seq(Nat) /\ Len(<<k[1], k[2], k[3], k[4]>>) = 4
  BY <1>1, <1>2
<1> QED
  BY <1>2, <1>3, Zenon

LEMMA AppendFacts ==
  ASSUME NEW S, NEW s \in Seq(S), NEW x \in S, NEW n, Len(s) = n
  PROVE  /\ DOMAIN s = 1..n /\ DOMAIN Append(s, x) = 1..(n + 1) /\ n \in Nat
         /\ \A i \in 1..n : Append(s, x)[i] = s[i]
         /\ Append(s, x)[n + 1] = x
OBVIOUS

\* The last component decides between equal keys only.
LEMMA LessMore ==
  ASSUME NEW k \in Seq(Nat), NEW l \in Seq(Nat), NEW n, Len(k) = n, Len(l) = n,
         NEW x \in Nat, NEW y \in Nat, Less(k, l) \/ (k = l /\ x < y)
  PROVE  Less(Append(k, x), Append(l, y))
<1>1. /\ DOMAIN k = 1..n /\ DOMAIN Append(k, x) = 1..(n + 1) /\ n \in Nat
      /\ \A i \in 1..n : Append(k, x)[i] = k[i]
      /\ Append(k, x)[n + 1] = x
  BY AppendFacts
<1>2. Append(l, y)[n + 1] = y /\ \A i \in 1..n : Append(l, y)[i] = l[i]
  BY AppendFacts
<1>3. CASE Less(k, l)
  <2>1. PICK i \in 1..n : k[i] < l[i] /\ \A j \in 1..(i - 1) : k[j] = l[j]
    BY <1>1, <1>3 DEF Less
  <2>2. i \in 1..(n + 1) /\ \A j \in 1..(i - 1) : j \in 1..n
    BY <1>1
  <2> QED
    BY <1>1, <1>2, <2>1, <2>2 DEF Less
<1>4. CASE k = l /\ x < y
  <2>1. n + 1 \in 1..(n + 1) /\ \A j \in 1..((n + 1) - 1) : j \in 1..n
    BY <1>1
  <2> QED
    BY <1>1, <1>2, <1>4, <2>1 DEF Less
<1> QED
  BY <1>3, <1>4

\* Sorted takes each entry once, in the order of the keys and then of the entries.
LEMMA SortFacts ==
  ASSUME NEW es, NEW n \in Nat, DOMAIN es = 1..n, \A i \in 1..n : SortKey(es[i]) \in Quad
  PROVE  \E at \in [1..n -> 1..n] :
           /\ Sorted(es) = [m \in 1..n |-> es[at[m]]]
           /\ \A i \in 1..n : \E m \in 1..n : at[m] = i
           /\ \A i, j \in 1..n : at[i] = at[j] => i = j
           /\ \A i, j \in 1..n : i < j =>
                \/ Less(SortKey(es[at[i]]), SortKey(es[at[j]]))
                \/ SortKey(es[at[i]]) = SortKey(es[at[j]]) /\ at[i] < at[j]
<1> DEFINE Before(i, j) == \/ Less(SortKey(es[i]), SortKey(es[j]))
                           \/ SortKey(es[i]) = SortKey(es[j]) /\ i < j
           R == {x \in (1..n) \X (1..n) : Before(x[1], x[2])}
           Pos(m) == CHOOSE j \in 1..n : Cardinality({i \in 1..n : Before(i, j)}) = m - 1
           at == [m \in 1..n |-> Pos(m)]
<1> DEFINE K == [i \in 1..n |-> SortKey(es[i])]
<1>1. \A i \in 1..n : K[i] = SortKey(es[i]) /\ K[i] \in Quad
  OBVIOUS
<1>2. \A i, j \in 1..n : <<i, j>> \in R <=> Less(K[i], K[j]) \/ (K[i] = K[j] /\ i < j)
  BY <1>1
<1>3. Sorted(es) = [m \in 1..n |-> es[Pos(m)]]
  BY DEF Sorted
<1>4. \A j \in 1..n : {i \in 1..n : Before(i, j)} = {i \in 1..n : <<i, j>> \in R}
  OBVIOUS
<1> HIDE DEF K, R, Before
<1>5. \A i \in 1..n : <<i, i>> \notin R
  <2> SUFFICES ASSUME NEW i \in 1..n, <<i, i>> \in R PROVE FALSE
    OBVIOUS
  <2>1. Less(K[i], K[i])
    BY <1>2
  <2> QED
    BY <1>1, <2>1, LessOrders
<1>6. \A k, l \in Quad : k = l \/ Less(k, l) \/ Less(l, k)
  BY LessOrders
<1>7. \A i, j \in 1..n : i # j => <<i, j>> \in R \/ <<j, i>> \in R
  <2> SUFFICES ASSUME NEW i \in 1..n, NEW j \in 1..n, i # j PROVE <<i, j>> \in R \/ <<j, i>> \in R
    OBVIOUS
  <2>1. K[i] = K[j] \/ Less(K[i], K[j]) \/ Less(K[j], K[i])
    BY <1>1, <1>6
  <2>2. i < j \/ j < i
    OBVIOUS
  <2> QED
    BY <1>2, <2>1, <2>2
<1>8. \A k, l, m \in Quad : Less(k, l) /\ Less(l, m) => Less(k, m)
  BY LessOrders
<1>9. \A i, j, k \in 1..n : <<i, j>> \in R /\ <<j, k>> \in R => <<i, k>> \in R
  <2> SUFFICES ASSUME NEW i \in 1..n, NEW j \in 1..n, NEW k \in 1..n, <<i, j>> \in R, <<j, k>> \in R
               PROVE  <<i, k>> \in R
    OBVIOUS
  <2>1. Less(K[i], K[j]) \/ (K[i] = K[j] /\ i < j)
    BY <1>2
  <2>2. Less(K[j], K[k]) \/ (K[j] = K[k] /\ j < k)
    BY <1>2
  <2>3. Less(K[i], K[k]) \/ (K[i] = K[k] /\ i < k)
    BY <1>1, <1>8, <2>1, <2>2
  <2> QED
    BY <1>2, <2>3
<1> DEFINE Rank(j) == RankIn(R, n, j)
<1>10. /\ \A m \in 1..n : \E j \in 1..n : Rank(j) = m - 1
       /\ \A i, j \in 1..n : <<i, j>> \in R => Rank(i) < Rank(j)
  <2>1. TotalOn(R, n)
    BY <1>5, <1>7, <1>9, Zenon DEF TotalOn
  <2> QED
    BY <2>1, RankFacts, Zenon
<1>11. \A m \in 1..n : Pos(m) \in 1..n /\ Rank(Pos(m)) = m - 1
  <2> SUFFICES ASSUME NEW m \in 1..n PROVE Pos(m) \in 1..n /\ Rank(Pos(m)) = m - 1
    OBVIOUS
  <2>0. \A j \in 1..n : Cardinality({i \in 1..n : Before(i, j)}) = Rank(j)
    BY <1>4 DEF RankIn
  <2>1. \E j \in 1..n : Cardinality({i \in 1..n : Before(i, j)}) = m - 1
    BY <1>10, <2>0
  <2>2. Pos(m) \in 1..n /\ Cardinality({i \in 1..n : Before(i, Pos(m))}) = m - 1
    BY <2>1
  <2> HIDE DEF Pos
  <2> QED
    BY <2>0, <2>2
<1> HIDE DEF Pos, Rank
<1>12. at \in [1..n -> 1..n] /\ \A m \in 1..n : at[m] = Pos(m) /\ Rank(at[m]) = m - 1
  BY <1>11
<1>13. Sorted(es) = [m \in 1..n |-> es[at[m]]]
  BY <1>3, <1>12
<1> HIDE DEF at
<1>14. \A i, j \in 1..n : at[i] = at[j] => i = j
  <2> SUFFICES ASSUME NEW i \in 1..n, NEW j \in 1..n, at[i] = at[j] PROVE i = j
    OBVIOUS
  <2>1. i - 1 = j - 1
    BY <1>12
  <2> QED
    BY <2>1
<1>15. \A i \in 1..n : \E m \in 1..n : at[m] = i
  <2>1. at \in Injection(1..n, 1..n)
    BY <1>12, <1>14 DEF Injection, IsInjective
  <2>2. IsFiniteSet(1..n)
    BY FS_Interval
  <2>3. at \in Surjection(1..n, 1..n)
    BY <2>1, <2>2, FS_Injection
  <2> QED
    BY <2>3 DEF Surjection
<1>16. \A i, j \in 1..n : i < j =>
         Less(K[at[i]], K[at[j]]) \/ (K[at[i]] = K[at[j]] /\ at[i] < at[j])
  <2> SUFFICES ASSUME NEW i \in 1..n, NEW j \in 1..n, i < j
               PROVE  Less(K[at[i]], K[at[j]]) \/ (K[at[i]] = K[at[j]] /\ at[i] < at[j])
    OBVIOUS
  <2>1. at[i] \in 1..n /\ at[j] \in 1..n /\ at[i] # at[j]
    BY <1>12, <1>14
  <2>2. <<at[j], at[i]>> \notin R
    <3>1. ~(Rank(at[j]) < Rank(at[i]))
      BY <1>12
    <3> QED
      BY <1>10, <2>1, <3>1
  <2>3. <<at[i], at[j]>> \in R
    BY <1>7, <2>1, <2>2
  <2> QED
    BY <1>2, <2>1, <2>3
<1>17. \A i, j \in 1..n : i < j =>
         \/ Less(SortKey(es[at[i]]), SortKey(es[at[j]]))
         \/ SortKey(es[at[i]]) = SortKey(es[at[j]]) /\ at[i] < at[j]
  <2> SUFFICES ASSUME NEW i \in 1..n, NEW j \in 1..n, i < j
               PROVE  \/ Less(SortKey(es[at[i]]), SortKey(es[at[j]]))
                      \/ SortKey(es[at[i]]) = SortKey(es[at[j]]) /\ at[i] < at[j]
    OBVIOUS
  <2>1. K[at[i]] = SortKey(es[at[i]]) /\ K[at[j]] = SortKey(es[at[j]])
    BY <1>1, <1>12
  <2> QED
    BY <1>16, <2>1
<1> QED
  BY <1>12, <1>13, <1>14, <1>15, <1>17

-----------------------------------------------------------------------------
(* What is told when nothing is left to tell.                              *)

LEMMA PromisedFacts ==
  ASSUME NEW e
  PROVE  e \in Promised <=>
           \E w \in Work(findings) : \E x \in Contract \X (1..Cardinality(Contract)) :
             /\ FirstOf(w[1], w[2])
             /\ x[1] \in Within(w[1], Finding(w[1], w[2]))[x[2]]
             /\ x[1] \notin Within(w[1], Finding(w[1], w[2]))[x[2] - 1]
             /\ e = [changed |-> w[1], affected |-> x[1], at |-> w[2], depth |-> x[2]]
<1> DEFINE Rec(w, x) == [changed |-> w[1], affected |-> x[1], at |-> w[2], depth |-> x[2]]
           Near(w) == Distance(w[1], findings[w[1]][w[2]])
           W == {v \in Work(findings) : FirstOf(v[1], v[2])}
<1>1. Promised = UNION {{Rec(w, x) : x \in Near(w)} : w \in W}
  BY DEF Promised
<1>2. \A w, x : x \in Near(w) <=>
        /\ x \in Contract \X (1..Cardinality(Contract))
        /\ x[1] \in Within(w[1], Finding(w[1], w[2]))[x[2]]
        /\ x[1] \notin Within(w[1], Finding(w[1], w[2]))[x[2] - 1]
  BY DEF Distance, Finding
<1> HIDE DEF Rec, Near
<1>3. e \in Promised <=> \E w \in W : \E x \in Near(w) : e = Rec(w, x)
  BY <1>1
<1>4. e \in Promised <=> \E w : w \in Work(findings) /\ FirstOf(w[1], w[2]) /\
                           \E x : x \in Near(w) /\ e = Rec(w, x)
  BY <1>3
<1> QED
  BY <1>2, <1>4, Zenon DEF Rec

LEMMA LineTold ==
  ASSUME TellInv, queue = <<>>
  PROVE  Line = result
<1>1. result \in Seq(Entry)
  BY DEF TellInv, TellTypeOK
<1> QED
  BY <1>1, ConcatEmptySeq DEF Line

\* What was told is what is promised.
LEMMA PromisedTold ==
  ASSUME TellInv, todo = <<>>, queue = <<>>
  PROVE  \A e : e \in Promised <=> \E p \in DOMAIN result : e = result[p]
<1> DEFINE N == Cardinality(Contract)
<1>1. Line = result
  BY LineTold
<1>2. N \in Nat
  BY ContractAssumption, FS_CardinalityType
<1>3. \A p \in DOMAIN result : result[p] \in Entry
  BY ElementOf DEF TellInv, TellTypeOK
<1>4. ASSUME NEW p \in DOMAIN result PROVE result[p] \in Promised
  <2> DEFINE e == result[p]
             w == <<e.changed, e.at>>
             x == <<e.affected, e.depth>>
  <2>1. /\ w \in Work(findings) /\ FirstOf(e.changed, e.at) /\ e.depth \in 1..N
        /\ e.affected \in Within(e.changed, Finding(e.changed, e.at))[e.depth]
        /\ e.affected \notin Within(e.changed, Finding(e.changed, e.at))[e.depth - 1]
    BY <1>1 DEF TellInv, SoundInv, Sound, Seeded, Reach
  <2>2. e \in Entry
    BY <1>3
  <2> HIDE DEF e
  <2>3. /\ e.affected \in Contract
        /\ e = [changed |-> e.changed, affected |-> e.affected, at |-> e.at, depth |-> e.depth]
    BY <2>2 DEF Entry
  <2>4. /\ w[1] = e.changed /\ w[2] = e.at /\ x[1] = e.affected /\ x[2] = e.depth
        /\ x \in Contract \X (1..N)
    BY <2>1, <2>3
  <2> HIDE DEF w, x
  <2>5. e \in Promised
    BY <2>1, <2>3, <2>4, PromisedFacts, Zenon
  <2> QED
    BY <2>5 DEF e
<1>5. ASSUME NEW e \in Promised PROVE \E p \in DOMAIN result : e = result[p]
  <2>1. PICK w \in Work(findings) : \E x \in Contract \X (1..N) :
          /\ FirstOf(w[1], w[2])
          /\ x[1] \in Within(w[1], Finding(w[1], w[2]))[x[2]]
          /\ x[1] \notin Within(w[1], Finding(w[1], w[2]))[x[2] - 1]
          /\ e = [changed |-> w[1], affected |-> x[1], at |-> w[2], depth |-> x[2]]
    BY PromisedFacts
  <2>2. PICK x \in Contract \X (1..N) :
          /\ FirstOf(w[1], w[2])
          /\ x[1] \in Within(w[1], Finding(w[1], w[2]))[x[2]]
          /\ x[1] \notin Within(w[1], Finding(w[1], w[2]))[x[2] - 1]
          /\ e = [changed |-> w[1], affected |-> x[1], at |-> w[2], depth |-> x[2]]
    BY <2>1
  <2> DEFINE c == w[1]
             i == w[2]
             a == x[1]
             d == x[2]
             W == Within(c, Finding(c, i))
  <2>3. a \in Contract /\ d \in 1..N
    OBVIOUS
  <2>4. c \in Contract /\ i \in DOMAIN findings[c]
    <3>1. w = <<w[1], w[2]>>
      BY DEF Work
    <3> QED
      BY <3>1, WorkFacts DEF TellInv
  <2>5. /\ FirstOf(c, i) /\ a \in W[d] /\ a \notin W[d - 1]
        /\ e = [changed |-> c, affected |-> a, at |-> i, depth |-> d]
    BY <2>2
  <2> HIDE DEF c, i, a, d
  <2>6. a \in W[N]
    <3>1. d \in 0..N /\ N \in 0..N /\ d <= N
      BY <1>2, <2>3
    <3>2. \A m, n \in 0..N : m <= n => W[m] \subseteq W[n]
      BY <2>4, WithinFacts
    <3> QED
      BY <2>5, <3>1, <3>2
  <2>7. <<a, c, Key(Finding(c, i))>> \in emitted
    <3>1. N \in 0..N /\ \A p \in DOMAIN Line : Line[p].depth < N => p \in DOMAIN result
      BY <1>1, <1>2
    <3> QED
      BY <2>4, <2>5, <2>6, <3>1, Covered
  <2>8. PICK p \in DOMAIN result :
          result[p].affected = a /\ result[p].changed = c /\ result[p].at = i
    BY <1>1, <2>4, <2>5, <2>7, InLine
  <2> DEFINE n == result[p].depth
  <2>9. n \in 1..N /\ a \in W[n] /\ a \notin W[n - 1]
    BY <1>1, <2>8 DEF TellInv, SoundInv, Sound, Reach
  <2> HIDE DEF n, W
  <2>10. n = d
    <3>1. n <= d /\ d <= n
      BY <2>3, <2>4, <2>5, <2>9, OneDistance DEF W
    <3> QED
      BY <1>2, <2>3, <2>9, <3>1
  <2>11. result[p] = [changed |-> result[p].changed, affected |-> result[p].affected,
                      at |-> result[p].at, depth |-> result[p].depth]
    BY <1>3 DEF Entry
  <2> QED
    BY <2>5, <2>8, <2>10, <2>11 DEF n
<1> QED
  BY <1>4, <1>5

\* No entry is told twice, and each has a place in the sort.
LEMMA ResultFacts ==
  ASSUME TellInv, queue = <<>>
  PROVE  /\ Len(result) \in Nat /\ DOMAIN result = 1..Len(result)
         /\ \A p \in DOMAIN result : SortKey(result[p]) \in Quad /\ result[p].at \in Nat
         /\ \A p, q \in DOMAIN result : result[p] = result[q] => p = q
         /\ \A p, q \in DOMAIN result :
              SortKey(result[p]) = SortKey(result[q]) /\ p < q => result[p].at < result[q].at
<1>1. Line = result
  BY LineTold
<1>2. \A p \in DOMAIN result : result[p] \in Entry
  BY ElementOf DEF TellInv, TellTypeOK
<1>3. Len(result) \in Nat /\ DOMAIN result = 1..Len(result)
  BY DEF TellInv, TellTypeOK
<1>4. \A p \in DOMAIN result : /\ result[p].changed \in Contract /\ result[p].affected \in Contract
                               /\ result[p].at \in Nat /\ result[p].depth \in Nat
  BY <1>2 DEF Entry
<1>5. \A p \in DOMAIN result : Finding(result[p].changed, result[p].at).target \in Nat
  <2> SUFFICES ASSUME NEW p \in DOMAIN result
               PROVE  Finding(result[p].changed, result[p].at).target \in Nat
    OBVIOUS
  <2>1. <<result[p].changed, result[p].at>> \in Work(findings)
    BY <1>1 DEF TellInv, SoundInv, Sound, Seeded
  <2> DEFINE c == result[p].changed
             i == result[p].at
  <2> HIDE DEF c, i
  <2>2. c \in Contract /\ i \in DOMAIN findings[c]
    BY <2>1, WorkFacts DEF c, i, TellInv
  <2>3. Finding(c, i).target \in Nat
    BY <2>2, IndexFacts DEF TellInv
  <2> QED
    BY <2>3 DEF c, i
<1>6. \A p \in DOMAIN result : SortKey(result[p]) \in Quad
  BY <1>4, <1>5, ContractAssumption DEF SortKey, Quad
<1>7. \A p, q \in DOMAIN result : Triple(result[p]) = Triple(result[q]) => p = q
  BY <1>1 DEF TellInv, OnceInv
<1>8. \A p, q \in DOMAIN result : result[p] = result[q] => p = q
  BY <1>7
<1>9. ASSUME NEW p \in DOMAIN result, NEW q \in DOMAIN result,
             SortKey(result[p]) = SortKey(result[q]), p < q
      PROVE  result[p].at < result[q].at
  <2>1. /\ result[p].changed = result[q].changed /\ result[p].affected = result[q].affected
        /\ Finding(result[p].changed, result[p].at).target = Finding(result[q].changed, result[q].at).target
    BY <1>9 DEF SortKey
  <2>2. p \in Nat /\ q \in Nat /\ p # q /\ ~(q < p)
    BY <1>3, <1>9
  <2>3. result[p].at # result[q].at
    <3> SUFFICES ASSUME result[p].at = result[q].at PROVE FALSE
      OBVIOUS
    <3>1. Triple(result[p]) = Triple(result[q])
      BY <2>1 DEF Triple
    <3> QED
      BY <1>7, <2>2, <3>1
  <2>4. ~(result[q].at < result[p].at)
    <3> SUFFICES ASSUME result[q].at < result[p].at PROVE FALSE
      OBVIOUS
    <3>1. SameTarget(result[q].changed, result[q].at, result[p].at)
      BY <2>1 DEF SameTarget
    <3> QED
      BY <1>1, <2>1, <2>2, <3>1 DEF TellInv, OrderInv
  <2> QED
    BY <1>4, <2>3, <2>4
<1> QED
  BY <1>3, <1>4, <1>6, <1>8, <1>9

\* What is returned, sorted.
LEMMA FinalTold ==
  ASSUME TellInv, todo = <<>>, queue = <<>>, NEW r, r = Sorted(result)
  PROVE  /\ ToSet(r) = Promised /\ Len(r) = Cardinality(Promised)
         /\ \A i, j \in DOMAIN r : i < j =>
              Less(Append(SortKey(r[i]), r[i].at), Append(SortKey(r[j]), r[j].at))
<1> DEFINE n == Len(result)
<1>1. /\ n \in Nat /\ DOMAIN result = 1..n
      /\ \A p \in 1..n : SortKey(result[p]) \in Quad /\ result[p].at \in Nat
      /\ \A p, q \in 1..n : result[p] = result[q] => p = q
      /\ \A p, q \in 1..n :
           SortKey(result[p]) = SortKey(result[q]) /\ p < q => result[p].at < result[q].at
  BY ResultFacts
<1>2. \A e : e \in Promised <=> \E p \in 1..n : e = result[p]
  BY <1>1, PromisedTold
<1> HIDE DEF n
<1>3. PICK at \in [1..n -> 1..n] :
        /\ Sorted(result) = [m \in 1..n |-> result[at[m]]]
        /\ \A i \in 1..n : \E m \in 1..n : at[m] = i
        /\ \A i, j \in 1..n : at[i] = at[j] => i = j
        /\ \A i, j \in 1..n : i < j =>
             \/ Less(SortKey(result[at[i]]), SortKey(result[at[j]]))
             \/ SortKey(result[at[i]]) = SortKey(result[at[j]]) /\ at[i] < at[j]
  BY <1>1, SortFacts
<1>4. DOMAIN r = 1..n /\ r = [m \in 1..n |-> r[m]] /\ \A m \in 1..n : r[m] = result[at[m]]
  BY <1>3
<1>5. \A m \in 1..n : r[m] \in Promised
  BY <1>2, <1>3, <1>4
<1>6. \A e \in Promised : \E m \in 1..n : r[m] = e
  <2> SUFFICES ASSUME NEW e \in Promised PROVE \E m \in 1..n : r[m] = e
    OBVIOUS
  <2>1. PICK p \in 1..n : e = result[p]
    BY <1>2
  <2>2. PICK m \in 1..n : at[m] = p
    BY <1>3
  <2> QED
    BY <1>4, <2>1, <2>2
<1>7. ToSet(r) = Promised
  <2>1. ToSet(r) = {r[m] : m \in 1..n}
    BY <1>4 DEF ToSet
  <2> QED
    BY <1>5, <1>6, <2>1
<1>8. Len(r) = n
  BY <1>1, <1>4, <1>5, TableIsSeq
<1>9. n = Cardinality(Promised)
  <2>1. r \in [1..n -> Promised]
    BY <1>4, <1>5
  <2>2. \A i, j \in 1..n : r[i] = r[j] => i = j
    BY <1>1, <1>3, <1>4
  <2>3. r \in Injection(1..n, Promised) /\ r \in Surjection(1..n, Promised)
    BY <1>6, <2>1, <2>2 DEF Injection, IsInjective, Surjection
  <2>4. IsFiniteSet(1..n) /\ Cardinality(1..n) = n
    BY <1>1, FS_Interval
  <2> QED
    BY <2>3, <2>4, FS_Surjection
<1>10. ASSUME NEW i \in 1..n, NEW j \in 1..n, i < j
       PROVE  Less(Append(SortKey(r[i]), r[i].at), Append(SortKey(r[j]), r[j].at))
  <2>1. at[i] \in 1..n /\ at[j] \in 1..n /\ r[i] = result[at[i]] /\ r[j] = result[at[j]]
    BY <1>3, <1>4
  <2>2. /\ SortKey(r[i]) \in Seq(Nat) /\ Len(SortKey(r[i])) = 4 /\ r[i].at \in Nat
        /\ SortKey(r[j]) \in Seq(Nat) /\ Len(SortKey(r[j])) = 4 /\ r[j].at \in Nat
    BY <1>1, <2>1, QuadSeq
  <2>3. \/ Less(SortKey(r[i]), SortKey(r[j]))
        \/ SortKey(r[i]) = SortKey(r[j]) /\ at[i] < at[j]
    BY <1>3, <1>10, <2>1
  <2>4. SortKey(r[i]) = SortKey(r[j]) /\ at[i] < at[j] => r[i].at < r[j].at
    BY <1>1, <2>1
  <2> QED
    BY <2>2, <2>3, <2>4, LessMore
<1> QED
  BY <1>4, <1>7, <1>8, <1>9, <1>10

-----------------------------------------------------------------------------
(* The invariant.                                                          *)

LEMMA PromisedStays ==
  ASSUME declared' = declared, findings' = findings
  PROVE  Promised' = Promised
BY DEF Promised, Distance, Within, Hears, FirstOf, Work

LEMMA TellStays ==
  ASSUME TellInv, declared' = declared, UNCHANGED tellVars
  PROVE  TellInv'
<1>1. /\ findings' = findings /\ todo' = todo /\ emitted' = emitted /\ queue' = queue
      /\ result' = result
  BY DEF tellVars
<1>2. \A c, f : Within(c, f)' = Within(c, f)
  BY WithinStays
<1>3. \A a, c, f : Hears(a, c, f)' <=> Hears(a, c, f)
  BY WithinStays
<1>4. TellTypeOK' /\ TodoInv'
  BY <1>1 DEF TellInv, TellTypeOK, TodoInv, Work, ToSet
<1>5. Line' = Line /\ Seeded' = Seeded
  BY <1>1 DEF Line, Seeded, Work, ToSet
<1>6. SoundInv'
  BY <1>1, <1>2, <1>5 DEF TellInv, SoundInv, Sound, Reach, Finding, FirstOf
<1>7. OnceInv' /\ DepthInv'
  BY <1>1, <1>5 DEF TellInv, OnceInv, DepthInv, Triple, Finding
<1>8. HeardInv'
  BY <1>1, <1>3, <1>5 DEF TellInv, HeardInv, Finding
<1>9. OrderInv'
  BY <1>1, <1>5 DEF TellInv, OrderInv, SameTarget, Finding, FirstOf
<1> QED
  BY <1>4, <1>6, <1>7, <1>8, <1>9 DEF TellInv

LEMMA NothingPromised ==
  ASSUME findings = [c \in Contract |-> <<>>]
  PROVE  Promised = {}
<1>1. Work(findings) = {}
  BY DEF Work
<1>2. \A e : e \notin Promised
  BY <1>1, PromisedFacts
<1> QED
  BY <1>2

LEMMA PropagateStep == PropagateInv /\ [Next]_vars => PropagateInv'
<1> SUFFICES ASSUME PropagateInv, [Next]_vars PROVE PropagateInv'
  OBVIOUS
<1>1. WalkInv' /\ HearInv'
  BY WalkStep, HearStep DEF PropagateInv
<1>2. pc = "propagate" => visited = {}
  BY DEF PropagateInv, WalkInv, PhaseInv
<1>3. ASSUME pc \in {"declare", "cycles"}, pc' \in {"declare", "cycles"}, UNCHANGED tellVars
      PROVE  IdleInv' /\ (pc' = "propagate" => TellInv') /\ ToldOnce'
  <2>1. IdleInv'
    BY <1>3 DEF PropagateInv, IdleInv, tellVars
  <2>2. ToldOnce'
    BY <1>3 DEF ToldOnce
  <2> QED
    BY <1>3, <2>1, <2>2
<1>4. ASSUME NEW d \in Declaration, Declare(d)
      PROVE  IdleInv' /\ (pc' = "propagate" => TellInv') /\ ToldOnce'
  BY <1>3, <1>4 DEF Declare
<1>5. CASE DetectCycles \/ NextRoot \/ Descend \/ CloseCycle \/ PassVisited \/ Return
  BY <1>1, <1>3, <1>5 DEF DetectCycles, NextRoot, Descend, CloseCycle, PassVisited, Return, Enter,
                          AtNeighbor, PropagateInv
<1>6. CASE CyclesFound
  <2>1. /\ pc = "cycles" /\ pc' = "done" /\ visited' = visited /\ declared' = declared
        /\ UNCHANGED tellVars
    BY <1>6 DEF CyclesFound, cycleVars
  <2>2. findings = [c \in Contract |-> <<>>] /\ result = <<>> /\ IdleInv'
    BY <2>1 DEF PropagateInv, IdleInv, tellVars
  <2>3. Promised' = {} /\ result' = <<>>
    BY <2>1, <2>2, PromisedStays, NothingPromised DEF tellVars
  <2>4. ToSet(result)' = {} /\ Len(result)' = 0 /\ DOMAIN result' = {} /\ Cardinality({}) = 0
    BY <2>3, FS_EmptySet DEF ToSet
  <2>5. ToldOnce'
    BY <2>3, <2>4 DEF ToldOnce
  <2> QED
    BY <1>1, <2>1, <2>2, <2>5 DEF PropagateInv
<1>7. ASSUME NEW fs \in Reports, Propagate(fs)
      PROVE  IdleInv' /\ (pc' = "propagate" => TellInv') /\ ToldOnce'
  <2>1. pc = "declare" /\ pc' = "propagate" /\ visited' = visited
    BY <1>7 DEF Propagate, cycleVars
  <2>2. visited' = {}
    BY <2>1 DEF PropagateInv, WalkInv, PhaseInv
  <2>3. IdleInv
    BY DEF PropagateInv
  <2>4. pc \in {"declare", "cycles"} \/ visited # {}
    BY <2>1
  <2>5. TellInv'
    BY <1>7, <2>3, <2>4, PropagateStarts
  <2> QED
    BY <2>1, <2>2, <2>5 DEF IdleInv, ToldOnce
<1>8. CASE Seed \/ Tell
  <2>1. pc = "propagate" /\ pc' = pc /\ visited' = visited
    BY <1>8 DEF Seed, Tell, cycleVars
  <2>2. TellInv /\ HearInv
    BY <2>1 DEF PropagateInv
  <2>3. TellInv'
    BY <1>8, <2>2, SeedKeeps, TellKeeps
  <2>4. IdleInv' /\ ToldOnce'
    BY <1>2, <2>1 DEF IdleInv, ToldOnce
  <2> QED
    BY <1>1, <2>3, <2>4 DEF PropagateInv
<1>9. CASE Propagated
  <2>1. /\ pc = "propagate" /\ todo = <<>> /\ queue = <<>> /\ pc' = "done"
        /\ result' = Sorted(result) /\ declared' = declared /\ findings' = findings
        /\ visited' = visited
    BY <1>9 DEF Propagated, cycleVars
  <2>2. TellInv
    BY <2>1 DEF PropagateInv
  <2>3. PICK r : r = Sorted(result)
    OBVIOUS
  <2>4. /\ ToSet(r) = Promised /\ Len(r) = Cardinality(Promised)
        /\ \A i, j \in DOMAIN r : i < j =>
             Less(Append(SortKey(r[i]), r[i].at), Append(SortKey(r[j]), r[j].at))
    BY <2>1, <2>2, <2>3, FinalTold
  <2>5. result' = r /\ Promised' = Promised
    BY <2>1, <2>3, PromisedStays
  <2>6. ToldOnce'
    <3>1. findings' = findings
      BY <2>1
    <3>2. (\A i, j \in DOMAIN result : i < j =>
             Less(Append(SortKey(result[i]), result[i].at), Append(SortKey(result[j]), result[j].at)))'
      BY <2>4, <2>5, <3>1 DEF SortKey, Finding
    <3>3. (ToSet(result) = Promised /\ Len(result) = Cardinality(Promised))'
      BY <2>4, <2>5
    <3> QED
      BY <3>2, <3>3 DEF ToldOnce
  <2>7. IdleInv'
    BY <1>2, <2>1 DEF IdleInv
  <2> QED
    BY <1>1, <2>1, <2>6, <2>7 DEF PropagateInv
<1>10. CASE UNCHANGED vars
  <2>1. pc' = pc /\ visited' = visited /\ declared' = declared /\ UNCHANGED tellVars
    BY <1>10 DEF vars, tellVars
  <2>2. findings' = findings /\ result' = result /\ Promised' = Promised
    BY <2>1, PromisedStays DEF tellVars
  <2>3. ToldOnce'
    <3> SUFFICES ASSUME pc' = "done", visited' = {}
                 PROVE  (/\ ToSet(result) = Promised /\ Len(result) = Cardinality(Promised)
                         /\ \A i, j \in DOMAIN result : i < j =>
                              Less(Append(SortKey(result[i]), result[i].at),
                                   Append(SortKey(result[j]), result[j].at)))'
      BY DEF ToldOnce
    <3>1. /\ ToSet(result) = Promised /\ Len(result) = Cardinality(Promised)
          /\ \A i, j \in DOMAIN result : i < j =>
               Less(Append(SortKey(result[i]), result[i].at), Append(SortKey(result[j]), result[j].at))
      BY <2>1 DEF PropagateInv, ToldOnce
    <3>2. (\A i, j \in DOMAIN result : i < j =>
             Less(Append(SortKey(result[i]), result[i].at), Append(SortKey(result[j]), result[j].at)))'
      BY <2>2, <3>1 DEF SortKey, Finding
    <3>3. (ToSet(result) = Promised /\ Len(result) = Cardinality(Promised))'
      BY <2>2, <3>1
    <3> QED
      BY <3>2, <3>3
  <2>4. IdleInv'
    BY <2>1 DEF PropagateInv, IdleInv, tellVars
  <2>5. pc' = "propagate" => TellInv'
    BY <2>1, TellStays DEF PropagateInv
  <2> QED
    BY <1>1, <2>3, <2>4, <2>5 DEF PropagateInv
<1> QED
  BY <1>1, <1>4, <1>5, <1>6, <1>7, <1>8, <1>9, <1>10 DEF Next, PropagateInv

LEMMA PropagateInit == Init => PropagateInv
<1> SUFFICES ASSUME Init PROVE PropagateInv
  OBVIOUS
<1>1. WalkInv
  BY WalkInit
<1>2. HearInv
  BY DEF Init, HearInv, HearsIn, Hears
<1>3. IdleInv /\ ToldOnce /\ pc = "declare"
  BY DEF Init, IdleInv, ToldOnce
<1> QED
  BY <1>1, <1>2, <1>3 DEF PropagateInv

\* For any contracts, declarations and findings, in whatever order the HashMap is
\* walked: propagate tells each contract of what it hears of, once, at its
\* shortest distance, of nothing else, and in one order.  (dependency.rs: propagate.)
THEOREM EveryoneToldOnce == Spec => []ToldOnce
<1>1. PropagateInv => ToldOnce
  BY DEF PropagateInv
<1> QED
  BY <1>1, PropagateInit, PropagateStep, PTL DEF Spec
=============================================================================
