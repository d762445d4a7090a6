----------------------------- MODULE MCPairRuns -----------------------------
(* Two builds, of which one reads what the other stored but not the other  *)
(* way round; runs that record, retire, cap or watch.                      *)
EXTENDS PairRuns, TLC

Symmetry == Permutations(Procs)

B(layout, fns) == [layout |-> layout, fns |-> fns]
MCBuilds == {B(<<1>>, {"f"}), B(<<1, 2>>, {"f"})}

Default == [NoArgs EXCEPT !.gated = {"storage_layout", "call_abi", "runtime_surface"}]
StorageOnly == [NoArgs EXCEPT !.gated = {"storage_layout"}]

MCArgs ==
  {[StorageOnly EXCEPT !.record = "v1"], [StorageOnly EXCEPT !.record = "v2", !.cap = 1, !.strict = TRUE],
   [StorageOnly EXCEPT !.record = "v3", !.retire = "v1", !.rules = {"memory"}],
   [StorageOnly EXCEPT !.watch = TRUE, !.record = "v2"],
   [Default EXCEPT !.watch = TRUE, !.lockfile = TRUE]}

DefaultArgs == {[Default EXCEPT !.record = "v1"], Default}
GrownBuilds == {B(<<1>>, {"f"}), B(<<1>>, {"f", "g"})}
=============================================================================
