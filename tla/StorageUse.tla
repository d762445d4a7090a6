----------------------------- MODULE StorageUse -----------------------------
(***************************************************************************)
(* What a build does with storage, as far as its bytecode shows it          *)
(* (src/storage_inference.rs), and what a declared schema says it does      *)
(* (src/storage_schema.rs).                                                 *)
(*                                                                          *)
(* A module has a size in bytes, `exports` tells whether it exports a       *)
(* function, and its code section is a sequence of bodies [name, ops]; an   *)
(* operation is "other", "indirect" or a call of a host function. `host`    *)
(* is the classification of an import by its name: [operation, durability], *)
(* or NotStorage. The name of a body is how its author calls it; the        *)
(* analysis never learns it.                                                *)
(*                                                                          *)
(* A declaration is [name, function, operation, durability, namespace, key, *)
(* value]; Unstated stands for a field that is left out.                         *)
(***************************************************************************)
EXTENDS Integers, Sequences, FiniteSets, TLC

Unstated        == "any"
NotStorage == [operation |-> "none", durability |-> Unstated]

CONSTANTS MaxWasmBytes, MaxInstructions, MaxCalls

\* A module that parses, and a schema.
IsModule(module) ==
    /\ module.bodies \in Seq({module.bodies[i] : i \in DOMAIN module.bodies})
    /\ \A i \in DOMAIN module.bodies :
          LET ops == module.bodies[i].ops IN ops \in Seq({ops[k] : k \in DOMAIN ops})
    /\ {"other", "indirect"} \cap DOMAIN module.host = {}
    /\ module.bytes \in Nat
IsSchema(schema) == schema \in Seq({schema[i] : i \in DOMAIN schema})

------------------------------------------------------------------------------
(* Inference *)

\* A body is labelled by the number of instructions read before it.
Label(count) == "function_" \o ToString(count)

Start == [observations |-> <<>>, gaps |-> {}, instructions |-> 0, calls |-> 0,
          truncated |-> FALSE, label |-> Label(0)]

IsCall(op) == op \notin {"other", "indirect"}

\* One operation of the body whose label is `scan.label`. Key and value types
\* are never proven.
Read(scan, op, host) ==
    IF scan.truncated THEN scan
    ELSE IF scan.instructions >= MaxInstructions
    THEN [scan EXCEPT !.truncated = TRUE, !.gaps = @ \cup {<<scan.label, "instruction limit">>}]
    ELSE LET next == [scan EXCEPT !.instructions = @ + 1,
                                  !.calls = IF IsCall(op) THEN @ + 1 ELSE @]
         IN  IF next.calls > MaxCalls
             THEN [next EXCEPT !.truncated = TRUE, !.gaps = @ \cup {<<scan.label, "call limit">>}]
             ELSE IF op = "indirect"
             THEN [next EXCEPT !.gaps = @ \cup {<<scan.label, "indirect call">>}]
             ELSE IF IsCall(op) /\ host[op] # NotStorage
             THEN [next EXCEPT
                     !.observations = Append(@, [function   |-> scan.label,
                                                 operation  |-> host[op].operation,
                                                 durability |-> host[op].durability,
                                                 key |-> Unstated, value |-> Unstated]),
                     !.gaps = @ \cup {<<scan.label, "data flow">>}]
             ELSE next

ReadBody(scan, body, host) ==
    LET after[k \in 0 .. Len(body.ops)] ==
            IF k = 0 THEN scan ELSE Read(after[k - 1], body.ops[k], host)
        end == after[Len(body.ops)]
    IN  [end EXCEPT !.label = Label(end.instructions)]

\* The last gap is for recognised imports that no body calls, in a module
\* that exports a function.
ReadBodies(module) ==
    LET after[i \in 0 .. Len(module.bodies)] ==
            IF i = 0 THEN Start ELSE ReadBody(after[i - 1], module.bodies[i], module.host)
        end == after[Len(module.bodies)]
        imported == \E f \in DOMAIN module.host : module.host[f] # NotStorage
    IN  IF ~end.truncated /\ module.exports /\ imported /\ end.observations = <<>>
        THEN [end EXCEPT !.gaps = @ \cup {<<"module", "not reachable">>}]
        ELSE end

\* A module above the limit is an error and not a scan that stopped early.
TooLarge == [error |-> "the module exceeds the limit of the storage analysis"]
InferStorage(module) ==
    IF module.bytes > MaxWasmBytes THEN TooLarge ELSE ReadBodies(module)

------------------------------------------------------------------------------
(* Reconciliation of one build *)

ValidSchema(schema) ==
    \A i \in DOMAIN schema : schema[i].name # "" /\ schema[i].operation # "unknown"

\* Mutant (MatchesAnyOperation): the operation is not compared.
MatchesAnyOperation(declaration, observation) ==
    /\ declaration.function \in {Unstated, observation.function}
    /\ declaration.durability \in {Unstated, observation.durability}

Matches(declaration, observation) ==
    /\ declaration.operation = observation.operation
    /\ declaration.function \in {Unstated, observation.function}
    /\ declaration.durability \in {Unstated, observation.durability}

\* The first of some positions, 0 when there is none.
First(positions) ==
    IF positions = {} THEN 0 ELSE CHOOSE i \in positions : \A j \in positions : i =< j

\* The first declaration that matches takes the observation.
TakenBy(schema, observation) == First({i \in DOMAIN schema : Matches(schema[i], observation)})

Contradicts(declared, inferred) == Unstated \notin {declared, inferred} /\ declared # inferred

Reconcile(schema, inference) ==
    LET seen == inference.observations
        taken == {TakenBy(schema, seen[k]) : k \in DOMAIN seen}
    IN  {<<"missing declaration", seen[k].function, k>> :
            k \in {j \in DOMAIN seen : TakenBy(schema, seen[j]) = 0}}
        \cup (UNION {LET d == schema[TakenBy(schema, seen[k])]
                     IN  {<<"type contradiction", d.name, role>> :
                             role \in {r \in {"key", "value"} : Contradicts(d[r], seen[k][r])}}
                         \cup {<<"durability contradiction", d.name, seen[k].durability>> :
                                 x \in {y \in {0} : Contradicts(d.durability, seen[k].durability)}} :
                       k \in {j \in DOMAIN seen : TakenBy(schema, seen[j]) # 0}})
        \cup {<<"unobserved declaration", schema[i].name, i>> : i \in DOMAIN schema \ taken}

Complete(inference) == inference.gaps = {}

------------------------------------------------------------------------------
(* Comparison of the two schemas *)

\* Each old declaration is set against the first new one of its name.
Namesake(schema, name) == First({i \in DOMAIN schema : schema[i].name = name})

Moves(old, new) ==
    UNION {LET o == old[i]
               n == new[Namesake(new, o.name)]
           IN  {<<"durability changed", o.name>> :
                    x \in {y \in {0} : Contradicts(o.durability, n.durability)}}
               \cup {<<"namespace changed", o.name>> :
                        x \in {y \in {0} : o.namespace # n.namespace}} :
             i \in {j \in DOMAIN old : Namesake(new, old[j].name) # 0}}

CompareSchemas(old, oldInference, new, newInference) ==
    [old   |-> Reconcile(old, oldInference),
     new   |-> Reconcile(new, newInference),
     moves |-> Moves(old, new)]

==============================================================================
