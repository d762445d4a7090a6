---------------------------- MODULE MCBatchWatch ----------------------------
(* BatchWatch on two contracts, for TLC. *)
EXTENDS BatchWatch

\* The engine of the instance: a new build ahead of the old one is breaking,
\* which only an advisory policy lets pass; the run-level input matters under
\* strict settings.
MCCompare(v, w, e, d) ==
  /\ w <= v \/ d.policy = "advise"
  /\ e = 1 \/ d.setting # "strict"

\* The runs start from files at version 1, some of them missing in directory
\* mode, and a manifest that says the same of both contracts: edits reach the
\* other trees.
MCInit ==
  /\ Init
  /\ \A p \in Inputs : fs[p] = 1 \/ (fs[p] = 0 /\ ~ManifestMode)
  /\ \A m, n \in Names : manifest.pairs[m] = manifest.pairs[n]

MCSpec == MCInit /\ [][Next]_vars
MCFairSpec == MCInit /\ [][Next]_vars /\ WF_vars(LoopStep)
=============================================================================
