\* Every sink, one crash or restart, one outage, one unanswered attempt; the loops
\* under fairness.
SPECIFICATION FairSpec
CONSTANTS
  a = a
  b = b
  Keys = {a, b}
  Poison = Poison
  Odd = Odd
  Setups <- MCSetups
  MaxStops = 1
  MaxOutages = 1
  MaxGhosts = 1
INVARIANTS ConfirmedIsStored AtMostOneOpen FirstCopiesInOrder OncePerKey
PROPERTIES SignalStops RecordSettled ReadyAgain
CHECK_DEADLOCK FALSE
