---------------------------- MODULE Dependencies ----------------------------
(***************************************************************************)
(* The inter-contract dependency graph (dependency.rs): declarations are   *)
(* merged into edges, detect_cycles walks them depth first, and propagate  *)
(* carries a contract's caller-visible findings to the contracts that call *)
(* it, directly or not.                                                    *)
(*                                                                         *)
(* Contracts are numbered in the order of their names, the order of the    *)
(* BTreeMaps. A finding is [severity, category, target]. NoTarget is None. *)
(***************************************************************************)
EXTENDS Naturals, Sequences, FiniteSets, SequencesExt

CONSTANTS
  Contract,         \* the contracts, as numbers in the order of their names
  Declaration,      \* the declarations a manifest may hold: [caller, callee, fns]
  Reports,          \* the findings the pair analyses may give: [Contract -> Seq(Finding)]
  CallerVisible,    \* CALLER_VISIBLE_CATEGORIES
  FnOf(_),          \* the name before a target's first dot; of NoTarget, NoTarget
  MaxDeclarations   \* bound: declarations of one graph

ASSUME ContractAssumption == Contract \subseteq Nat \ {0} /\ IsFiniteSet(Contract)

\* all_referenced: a name that is declared is a contract.
ASSUME DeclarationAssumption == \A d \in Declaration : d.caller \in Contract /\ d.callee \in Contract

\* Targets are numbered in the order of their whole names.
ASSUME ReportAssumption ==
  \A fs \in Reports : /\ DOMAIN fs = Contract
                       /\ \A c \in Contract : /\ fs[c] \in Seq(Range(fs[c]))
                                              /\ \A i \in DOMAIN fs[c] : fs[c][i].target \in Nat

NoTarget == 0

VARIABLES
  pc,        \* "declare", "cycles", "propagate" or "done"
  declared,  \* ghost: the declarations read so far
  edges,     \* caller -> its callees, each with the functions watched ({}: all)
  visited,   \* detect_cycles: nodes entered so far
  stack,     \* detect_cycles: the call stack, frames [node, next]; also `path` and `on_stack`
  cycles,    \* detect_cycles: the cycles found
  findings,  \* propagate: contract -> the findings of its own analysis
  todo,      \* propagate: the findings not seeded yet, in the order of the HashMap
  emitted,   \* propagate: <<affected, changed, key>> already queued
  queue,     \* propagate: the breadth-first queue
  result     \* propagate: the findings told, [changed, affected, at, depth]
vars == <<pc, declared, edges, visited, stack, cycles, findings, todo, emitted, queue, result>>
cycleVars == <<visited, stack, cycles>>
tellVars == <<findings, todo, emitted, queue, result>>

Init ==
  /\ pc = "declare" /\ declared = {}
  /\ edges = [c \in Contract |-> <<>>]
  /\ visited = {} /\ stack = <<>> /\ cycles = <<>>
  /\ findings = [c \in Contract |-> <<>>]
  /\ todo = <<>> /\ emitted = {} /\ queue = <<>> /\ result = <<>>

\* Mutant (MergeNarrow): a list declared later narrows a whole interface.
MergeNarrow(es, d) ==
  LET at == {i \in DOMAIN es : es[i].callee = d.callee}
  IN  IF at = {} THEN Append(es, [callee |-> d.callee, fns |-> d.fns])
      ELSE [i \in DOMAIN es |->
              IF i \in at /\ d.fns = {} THEN [es[i] EXCEPT !.fns = {}]
              ELSE IF i \in at THEN [es[i] EXCEPT !.fns = @ \cup d.fns] ELSE es[i]]

\* One edge for each pair; an empty list of functions absorbs any other.
Merge(es, d) ==
  LET at == {i \in DOMAIN es : es[i].callee = d.callee}
      Both(fns) == IF fns = {} \/ d.fns = {} THEN {} ELSE fns \cup d.fns
  IN  IF at = {} THEN Append(es, [callee |-> d.callee, fns |-> d.fns])
      ELSE [i \in DOMAIN es |-> IF i \in at THEN [es[i] EXCEPT !.fns = Both(@)] ELSE es[i]]

Declare(d) ==
  /\ pc = "declare" /\ Cardinality(declared) < MaxDeclarations
  /\ declared' = declared \cup {d}
  /\ edges' = [edges EXCEPT ![d.caller] = Merge(@, d)]
  /\ UNCHANGED <<pc, cycleVars, tellVars>>

-----------------------------------------------------------------------------
(* detect_cycles and dfs_cycles.                                           *)

DetectCycles ==
  /\ pc = "declare"
  /\ pc' = "cycles"
  /\ UNCHANGED <<declared, edges, cycleVars, tellVars>>

Roots == {c \in Contract : edges[c] # <<>> /\ c \notin visited}

Enter(node, below) ==
  /\ visited' = visited \cup {node}
  /\ stack' = Append(below, [node |-> node, next |-> 1])
  /\ UNCHANGED <<pc, declared, edges, cycles, tellVars>>

NextRoot ==
  /\ pc = "cycles" /\ stack = <<>>
  /\ \E c \in Roots : (\A d \in Roots : c <= d) /\ Enter(c, stack)

Top == stack[Len(stack)]
Callee == edges[Top.node][Top.next].callee
Looked == [stack EXCEPT ![Len(stack)].next = @ + 1]

AtNeighbor == pc = "cycles" /\ stack # <<>> /\ Top.next <= Len(edges[Top.node])

Descend == AtNeighbor /\ Callee \notin visited /\ Enter(Callee, Looked)

\* Mutant (OnPathEntered): any node entered before counts as one on the path.
OnPathEntered(c) == {i \in DOMAIN stack : stack[i].node = c \/ (c \in visited /\ i = 1)}

OnPath(c) == {i \in DOMAIN stack : stack[i].node = c}

CloseCycle ==
  /\ AtNeighbor /\ Callee \in visited
  /\ \E i \in OnPath(Callee) :
       cycles' = Append(cycles, [j \in 1..(Len(stack) - i + 2) |->
                                   IF j = Len(stack) - i + 2 THEN Callee
                                   ELSE stack[i + j - 1].node])
  /\ stack' = Looked
  /\ UNCHANGED <<pc, declared, edges, visited, tellVars>>

PassVisited ==
  /\ AtNeighbor /\ Callee \in visited /\ OnPath(Callee) = {}
  /\ stack' = Looked
  /\ UNCHANGED <<pc, declared, edges, visited, cycles, tellVars>>

Return ==
  /\ pc = "cycles" /\ stack # <<>> /\ Top.next > Len(edges[Top.node])
  /\ stack' = SubSeq(stack, 1, Len(stack) - 1)
  /\ UNCHANGED <<pc, declared, edges, visited, cycles, tellVars>>

CyclesFound ==
  /\ pc = "cycles" /\ stack = <<>> /\ Roots = {}
  /\ pc' = "done"
  /\ UNCHANGED <<declared, edges, cycleVars, tellVars>>

-----------------------------------------------------------------------------
(* propagate.                                                              *)

\* is_caller_visible
Visible(f) == f.severity # "info" /\ f.category \in CallerVisible

\* function_is_watched: the target is the function, or begins with its name and a dot.
Watched(f, fns) == fns = {} \/ FnOf(f.target) \in fns

\* propagation_key has the whole target; the contract, every entry names anyway.
Key(f) == <<f.category, f.target>>

\* The orders a HashMap of findings can be walked in: contract by contract,
\* each contract's findings in their own order.
Work(fs) == UNION {{c} \X DOMAIN fs[c] : c \in Contract}

Orders(fs) ==
  {s \in [1..Cardinality(Work(fs)) -> Work(fs)] :
     /\ \A w \in Work(fs) : \E i \in DOMAIN s : s[i] = w
     /\ \A i, j \in DOMAIN s : i < j /\ s[i][1] = s[j][1] =>
          s[i][2] < s[j][2] /\ \A k \in i..j : s[k][1] = s[i][1]}

Propagate(fs) ==
  /\ pc = "declare"
  /\ pc' = "propagate"
  /\ findings' = fs
  /\ todo' \in Orders(fs)
  /\ UNCHANGED <<declared, edges, cycleVars, emitted, queue, result>>

Finding(changed, at) == findings[changed][at]

\* The callers of `from` that watch the finding and were not told of it yet.
Untold(changed, at, from) ==
  LET f == Finding(changed, at)
  IN  {a \in Contract :
         /\ \E i \in DOMAIN edges[a] : edges[a][i].callee = from /\ Watched(f, edges[a][i].fns)
         /\ <<a, changed, Key(f)>> \notin emitted}

InOrder(S) ==
  {order \in [1..Cardinality(S) -> S] : \A i, j \in DOMAIN order : i < j => order[i] < order[j]}

Entries(changed, at, order, depth) ==
  [i \in DOMAIN order |-> [changed |-> changed, affected |-> order[i], at |-> at, depth |-> depth]]

\* They are queued behind `rest`, in the order of their names.
Offer(changed, at, from, depth, rest) ==
  LET new == Untold(changed, at, from)
  IN  /\ emitted' = emitted \cup {<<a, changed, Key(Finding(changed, at))>> : a \in new}
      /\ \E order \in InOrder(new) : queue' = rest \o Entries(changed, at, order, depth)

Seed ==
  /\ pc = "propagate" /\ todo # <<>>
  /\ LET changed == Head(todo)[1]
         at == Head(todo)[2]
     IN  IF Visible(Finding(changed, at)) THEN Offer(changed, at, changed, 1, queue)
         ELSE UNCHANGED <<emitted, queue>>
  /\ todo' = Tail(todo)
  /\ UNCHANGED <<pc, declared, edges, cycleVars, findings, result>>

Tell ==
  /\ pc = "propagate" /\ todo = <<>> /\ queue # <<>>
  /\ result' = Append(result, Head(queue))
  /\ LET e == Head(queue) IN Offer(e.changed, e.at, e.affected, e.depth + 1, Tail(queue))
  /\ UNCHANGED <<pc, declared, edges, cycleVars, findings, todo>>

\* The key of the final sort: depth, changed, affected, target.
SortKey(e) == <<e.depth, e.changed, e.affected, Finding(e.changed, e.at).target>>

Less(k, l) == \E i \in DOMAIN k : k[i] < l[i] /\ \A j \in 1..(i - 1) : k[j] = l[j]

\* sort_by is stable.
Sorted(es) ==
  LET Before(i, j) == \/ Less(SortKey(es[i]), SortKey(es[j]))
                      \/ SortKey(es[i]) = SortKey(es[j]) /\ i < j
  IN  [n \in DOMAIN es |->
         es[CHOOSE j \in DOMAIN es : Cardinality({i \in DOMAIN es : Before(i, j)}) = n - 1]]

Propagated ==
  /\ pc = "propagate" /\ todo = <<>> /\ queue = <<>>
  /\ pc' = "done"
  /\ result' = Sorted(result)
  /\ UNCHANGED <<declared, edges, cycleVars, findings, todo, emitted, queue>>

-----------------------------------------------------------------------------

Next ==
  \/ \E d \in Declaration : Declare(d)
  \/ DetectCycles \/ NextRoot \/ Descend \/ CloseCycle \/ PassVisited \/ Return \/ CyclesFound
  \/ \E fs \in Reports : Propagate(fs)
  \/ Seed \/ Tell \/ Propagated

Spec == Init /\ [][Next]_vars

-----------------------------------------------------------------------------
(* What the two calls promise, over the declarations as they were written. *)

Calls(a, c) == \E d \in declared : d.caller = a /\ d.callee = c
Hears(a, c, f) == \E d \in declared : d.caller = a /\ d.callee = c /\ Watched(f, d.fns)

Consecutive(s) == {<<s[i], s[i + 1]>> : i \in 1..(Len(s) - 1)}
Closing == {<<cycles[i][Len(cycles[i]) - 1], cycles[i][Len(cycles[i])]>> : i \in DOMAIN cycles}

\* Everything reached over `edge` from `from` in at most Cardinality(Contract) steps.
Reached(Edge(_, _), from) ==
  LET within[d \in 0..Cardinality(Contract)] ==
        IF d = 0 THEN {c \in Contract : Edge(from, c)}
        ELSE within[d - 1] \cup {c \in Contract : \E b \in within[d - 1] : Edge(b, c)}
  IN  within[Cardinality(Contract)]

OnCycle(c) == c \in Reached(Calls, c)

\* Declared calls through distinct contracts back to the first.
IsCycle(c) ==
  /\ Len(c) > 1 /\ c[1] = c[Len(c)]
  /\ \A j, k \in 1..(Len(c) - 1) : j # k => c[j] # c[k]
  /\ \A e \in Consecutive(c) : Calls(e[1], e[2])

\* The calls that close no reported cycle.
Kept(a, b) == Calls(a, b) /\ <<a, b>> \notin Closing

\* The kept calls among some contracts form no cycle: from any of them, one at
\* least calls none of the others, nor itself.
NoCycleIn(C) == \A T \in (SUBSET C) \ {{}} : \E a \in T : \A b \in T : ~Kept(a, b)

\* A cycle that is reported is one. And none is left out: without the calls that
\* close the reported cycles, the declared graph has no cycle.
\* (dependency.rs: detect_cycles, dfs_cycles.)
CyclesTold ==
  /\ \A i \in DOMAIN cycles : IsCycle(cycles[i])
  /\ pc = "done" /\ visited # {} => NoCycleIn(Contract)

\* When propagate returns, each contract that hears of a finding through calls
\* that all watch it is told of it once, at its shortest distance, and no other
\* contract is; two findings of one contract with one category and target count
\* as the first of them.
FirstOf(c, i) ==
  /\ Visible(findings[c][i])
  /\ \A j \in 1..(i - 1) : Visible(findings[c][j]) => Key(findings[c][j]) # Key(findings[c][i])

\* Those that hear of a finding of c through at most d calls.
Within(c, f) ==
  LET within[d \in 0..Cardinality(Contract)] ==
        IF d = 0 THEN {} ELSE IF d = 1 THEN {a \in Contract : Hears(a, c, f)}
        ELSE within[d - 1] \cup {a \in Contract : \E b \in within[d - 1] : Hears(a, b, f)}
  IN  within

Distance(c, f) ==
  LET within == Within(c, f)
  IN  {x \in Contract \X (1..Cardinality(Contract)) : x[1] \in within[x[2]] \ within[x[2] - 1]}

Promised ==
  UNION {{[changed |-> w[1], affected |-> x[1], at |-> w[2], depth |-> x[2]]
             : x \in Distance(w[1], findings[w[1]][w[2]])}
           : w \in {v \in Work(findings) : FirstOf(v[1], v[2])}}

\* Nor does the report depend on the order of the HashMap: the entries come by
\* depth, contracts and target, and then in the order of the contract's own
\* findings.
ToldOnce ==
  pc = "done" /\ visited = {} =>
    /\ ToSet(result) = Promised /\ Len(result) = Cardinality(Promised)
    /\ \A i, j \in DOMAIN result : i < j =>
         Less(Append(SortKey(result[i]), result[i].at), Append(SortKey(result[j]), result[j].at))

\* "Returns every cycle": a contract that reaches itself is in a reported cycle.
EveryMemberTold ==
  pc = "done" /\ visited # {} =>
    \A c \in Contract : OnCycle(c) => \E i \in DOMAIN cycles : c \in ToSet(cycles[i])
=============================================================================
