SPECIFICATION Spec
CONSTANTS
  NoId = NoId
  NoCap = NoCap
  Missing = Missing
  NoSpec = NoSpec
  BadSpec = BadSpec
  Garbled = Garbled
  Procs = {p, q}
  Builds <- MCBuilds
  Args <- MCArgs
  MaxRuns = 3
  MaxEdits = 1
  MaxTroubles = 1
SYMMETRY Symmetry
INVARIANTS
  HistoryChecked
  FreshRecorded
  JudgedCurrent
PROPERTIES
  SaveKeeps
\* the runs are bounded
CHECK_DEADLOCK FALSE
