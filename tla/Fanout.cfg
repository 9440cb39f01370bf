\* Two sinks, one of which may crash, and one stop of the producer; under fairness
\* nobody waits for ever.
SPECIFICATION FairSpec
CONSTANTS
  s1 = s1
  s2 = s2
  Sinks <- MCSinks
  Modes = {TRUE, FALSE}
  BufCap = 1
  MaxRecord = 2
  MaxConns = 3
  MaxStops = 1
  MaxSinkStops = 1
INVARIANTS NoLostWakeup LiveTail LossNeedsSinkCrash
PROPERTIES LosslessFeed EveryRecordStored
\* After the last record everyone waits for the next one.
CHECK_DEADLOCK FALSE
