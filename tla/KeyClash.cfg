\* A transaction that logs and moves value inside.
SPECIFICATION Spec
CONSTANTS
  Blocks <- MCLogging
  Filters <- MCAll
  ReceiptConcurrency = 2
  MaxTraceAttempts = 4
  Faults = {}
INVARIANT KeysUnique
CHECK_DEADLOCK FALSE
