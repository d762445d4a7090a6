SPECIFICATION MCSpec
CONSTANTS
  Names = {1, 2}
  MaxVersion = 2
  Modes = {TRUE, FALSE}
  Settings = {"plain", "strict"}
  Policies = {"gate"}
  Faults = {}
  MaxEdits = 3
  Compare <- MCCompare
INVARIANTS
  TypeOK
  NoFalseSafe
  Fresh
\* the process ends on SIGTERM
CHECK_DEADLOCK FALSE
