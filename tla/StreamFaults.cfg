\* One chain without reorganizations, every failure the loop recovers from, crashes
\* and restarts from the cursor; once the outages end every block is written.
SPECIFICATION FairSpec
CONSTANTS
  Watched = {"event", "native"}
  FromBlock = 1
  LogChunkBlocks = 2
  ReorgDepth = 2
  ChainID = 1
  UseCheckpoint = TRUE
  OldCursors <- MCOldCursors
  Faults = {"header", "finalized", "frontier", "fork", "scan", "cap", "lag", "epipe", "save", "load", "crash"}
  InitHead = 2
  MaxHeight = 4
  MaxReorgs = 0
  MaxOrphans = 0
  MayShrink = FALSE
  Finality = FALSE
INVARIANTS GapFree CursorNeverAhead
PROPERTIES FeedSpec EveryBlockSent
