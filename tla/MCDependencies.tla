--------------------------- MODULE MCDependencies ---------------------------
(* Three contracts, of which any may call any, itself included; some calls *)
(* may be declared for function 1 only. Targets 1 and 2 are functions of   *)
(* these numbers, 3 is a parameter of function 1 and 4 of function 2.      *)
EXTENDS Dependencies

MCContract == 1..3
MCWhole == [caller : MCContract, callee : MCContract, fns : {{}}]
MCDeclaration == MCWhole \cup [caller : {1, 2}, callee : {2, 3}, fns : {{1}}]
MCVisible == {"removed", "type"}

MCFnOf(target) == IF target > 2 THEN target - 2 ELSE target
F(category, target, severity) == [category |-> category, target |-> target, severity |-> severity]
Found(c, fs) == [x \in MCContract |-> IF x = c THEN fs ELSE <<>>]
MCReports ==
  {Found(3, <<F("removed", 1, "critical"), F("type", 1, "warning")>>),
   Found(3, <<F("type", 3, "critical"), F("type", 1, "warning"), F("type", 4, "critical")>>),
   Found(3, <<F("removed", 2, "critical"), F("removed", 1, "info")>>),
   [Found(2, <<F("removed", 1, "critical"), F("removed", 1, "warning")>>)
      EXCEPT ![3] = <<F("type", NoTarget, "critical")>>],
   [Found(1, <<F("type", 2, "warning"), F("storage", 1, "critical")>>)
      EXCEPT ![2] = <<F("type", 2, "critical"), F("removed", 1, "critical")>>]}
NoReports == {}
=============================================================================
