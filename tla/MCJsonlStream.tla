---------------------------- MODULE MCJsonlStream ----------------------------
(* JsonlStream with two worker threads and a few lines, for TLC. *)
EXTENDS JsonlStream

\* One representative of inputs that the code cannot tell apart: identifiers
\* only matter on jobs, nothing is read after an unreadable line, and "a" comes
\* before "b".
MCLines ==
  /\ \A i \in DOMAIN lines :
       /\ lines[i].kind # "job" => lines[i].id = EmptyId
       /\ lines[i].kind = "io" => i = Len(lines)
       /\ lines[i].id = "b" => \E j \in 1..(i - 1) : lines[j].id = "a"

\* Empty identifiers only in input order: SentinelInit has them in completion order.
MCInit ==
  /\ Init
  /\ MCLines
  /\ order = "completion" => \A i \in DOMAIN lines : lines[i].kind = "job" => lines[i].id # EmptyId

MCSpec == MCInit /\ [][Next]_vars
MCFairSpec == MCSpec /\ Fairness

SentinelSpec == Init /\ MCLines /\ [][Next]_vars
MCSilentSpec == MCSpec /\ SilentFairness
=============================================================================
