\* Lines of two units in files of four, one backup; one full disk, two faults
\* and one restart.
SPECIFICATION Spec
CONSTANTS
  Configs <- MCConfigs
  MaxSize = 4
  MaxBackups = 1
  MaxLine = 5
  MaxFull = 1
  MaxFaults = 2
  MaxStops = 1
INVARIANTS TypeOK AckedKept RetainedAreNewest
CHECK_DEADLOCK FALSE
