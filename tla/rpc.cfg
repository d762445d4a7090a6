SPECIFICATION FairSpec
CONSTANTS
  Hashes = {"h1", "h2"}
  MaxLedger = 3
  Lag = 1
  MaxRetries = 2
  Sources = {"contract", "hash", "record"}
  Faults = {"failed", "garbled", "noLedger", "otherId", "strayed"}
  MaxFaulty = 1
INVARIANTS
  SnapshotTrue
  ReplaySameOrRefused
PROPERTIES
  FetchEnds
\* the run is one-shot
CHECK_DEADLOCK FALSE
