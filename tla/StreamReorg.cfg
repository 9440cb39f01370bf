\* Reorganizations no deeper than reorg_depth that never lower the head, while
\* the calls of the reorg check itself may fail; under fairness the view settles.
\* The first start takes the head of that moment (from_block = latest).
SPECIFICATION FairSpec
CONSTANTS
  Watched = {"event", "native"}
  FromBlock <- MCLatest
  LogChunkBlocks = 2
  ReorgDepth = 2
  ChainID = 1
  UseCheckpoint = FALSE
  OldCursors = {}
  Faults = {"frontier", "fork", "cap"}
  InitHead = 0
  MaxHeight = 4
  MaxReorgs = 2
  MaxOrphans = 2
  MayShrink = FALSE
  Finality = FALSE
INVARIANTS TypeOK StaleIsDetectable NoHole
PROPERTIES MarkerTruthful EventuallyInSync
