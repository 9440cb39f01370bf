\* Reorganizations above the finalized height that may lower the head, failed
\* scans and writes, crashes: finality is final and the cursor is the frontier.
SPECIFICATION Spec
CONSTANTS
  Watched = {"event"}
  FromBlock = 1
  LogChunkBlocks = 1
  ReorgDepth = 2
  ChainID = 1
  UseCheckpoint = TRUE
  OldCursors = {}
  Faults = {"scan", "finalized", "emit", "epipe", "crash"}
  InitHead = 2
  MaxHeight = 3
  MaxReorgs = 1
  MaxOrphans = 2
  MayShrink = TRUE
  Finality = TRUE
INVARIANTS FinalizedIsForever CursorIsFrontier
