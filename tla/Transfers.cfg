\* Blocks of up to three transactions, two in a row, every failure, any number of
\* times.
SPECIFICATION FairSpec
CONSTANTS
  Blocks <- MCBlocks
  Filters <- MCFilters
  ReceiptConcurrency = 2
  MaxTraceAttempts = 4
  Faults = {"receipt", "null", "trace", "untraced", "stop"}
INVARIANTS BlockAccountedFor DisabledIsJustified
PROPERTY BlockEnds
CHECK_DEADLOCK FALSE
