SPECIFICATION Spec
CONSTANTS
  None = None
  Broken = Broken
  c1 = c1
  c2 = c2
  Path <- MCPath
  Root = "root"
  FileOf <- MCFileOf
  Text <- MCText
  MaxDepth = 2
  MaxPairs = 2
  Invocation <- MCInvocation
  ConfigText <- MCConfigText
  Sweep <- MCSweep
  Stem <- MCStem
  Templates <- MCTemplates
  Sanitized <- MCSanitized
  Outcome = {"clean", "break", "fails"}
  MaxEdits = 1
INVARIANTS
  AcceptsExactly
  SettingsResolved
  VerdictHonest
\* a run ends
CHECK_DEADLOCK FALSE
