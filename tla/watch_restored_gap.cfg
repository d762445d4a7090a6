SPECIFICATION MCSpec
CONSTANTS
  Names = {1, 2}
  MaxVersion = 2
  Modes = {FALSE}
  Settings = {"cli"}
  Policies = {"gate"}
  Faults = {}
  MaxEdits = 3
  Compare <- MCCompare
INVARIANTS
  RestoredGapHeals
\* the process ends on SIGTERM
CHECK_DEADLOCK FALSE
