\* A failed scan after a rewind: the retracted blocks are not scanned again.
SPECIFICATION Spec
CONSTANTS
  Watched = {"event"}
  FromBlock = 1
  LogChunkBlocks = 2
  ReorgDepth = 2
  ChainID = 1
  UseCheckpoint = FALSE
  OldCursors = {}
  Faults = {"scan"}
  InitHead = 2
  MaxHeight = 4
  MaxReorgs = 1
  MaxOrphans = 2
  MayShrink = FALSE
  Finality = FALSE
INVARIANT NoHole
