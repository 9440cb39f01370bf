\* A failed transaction beside another, seen through trace_block.
SPECIFICATION Spec
CONSTANTS
  Blocks <- MCOne
  Filters <- MCAll
  ReceiptConcurrency = 2
  MaxTraceAttempts = 4
  Faults = {"trace"}
INVARIANT OnlyRevertedIsPruned
CHECK_DEADLOCK FALSE
