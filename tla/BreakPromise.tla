---------------------------- MODULE BreakPromise ----------------------------
(***************************************************************************)
(* What a comparison of two builds promises about stored types: it marks a *)
(* type of the old build as broken only if the type's own layout is not    *)
(* kept or the type embeds one that is marked, it never takes a mark back, *)
(* and in the end it has marked every such type.                           *)
(***************************************************************************)
EXTENDS ContractSpecs

VARIABLES old, new, marked

vars == <<old, new, marked>>

Markable(t) ==
    \/ ~LayoutKept(old, new, t)
    \/ Refs(old.types[t]) \cap marked # {}

Init ==
    /\ IsSpec(old)
    /\ IsSpec(new)
    /\ marked = {}

Mark ==
    /\ \E S \in SUBSET {t \in DOMAIN old.types \ marked : Markable(t)} :
           /\ S # {}
           /\ marked' = marked \cup S
    /\ UNCHANGED <<old, new>>

Next == Mark

Safety == Init /\ [][Next]_vars

Spec == Safety /\ WF_vars(Next)
=============================================================================
