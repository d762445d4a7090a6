SPECIFICATION Spec
CONSTANTS
  Procs = {p, q, r}
  Absent = Absent
  Stores = {"metadata", "remote", "oci", "output", "status"}
  MaxRuns = 4
  MaxFaults = 1
  MaxClears = 1
SYMMETRY Symmetry
INVARIANTS
  ReplacedWhole
PROPERTIES
  Heals
\* the tool is a sequence of one-shot runs
CHECK_DEADLOCK FALSE
