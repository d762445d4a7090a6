SPECIFICATION MCFairSpec
CONSTANTS
  Names = {1, 2}
  MaxVersion = 2
  Modes = {TRUE, FALSE}
  Settings = {"plain", "strict"}
  Policies = {"gate"}
  Faults = {"render", "watch", "early", "broken", "noise"}
  MaxEdits = 2
  Compare <- MCCompare
INVARIANTS
  CoversPlan
  CachesCoherent
PROPERTIES
  EventsSettle
  ShutdownAnswered
\* the process ends on SIGTERM
CHECK_DEADLOCK FALSE
