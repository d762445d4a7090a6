SPECIFICATION MCFairSpec
CONSTANTS
  Workers = {w1, w2}
  Ids = {"", "a", "b"}
  EmptyId = ""
  None = none
  Orders = {"completion", "input"}
  MaxLines = 4
  MaxPanics = 2
  WriterFails = TRUE
INVARIANTS
  NoWorkerStranded
  NothingLost
PROPERTIES
  ImplementsPromise
\* the run ends
CHECK_DEADLOCK FALSE
