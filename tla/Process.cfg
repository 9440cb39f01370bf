\* Both tools, started from files, flags, variables and commands; one edit of the
\* file and any number of reloads and stop signals while it starts, polls and writes.
SPECIFICATION FairSpec
CONSTANTS
  Setups <- MCSetups
  Disks <- MCDisks
  Files <- MCFiles
  Taken = {":taken"}
  Threshold = 2
  MaxEdits <- MCMaxEdits
  MaxAge = 3
INVARIANTS TypeOK SettingsAsPromised StartsIffValid ReloadsTakeEffect WedgedIsNotReady
PROPERTY TermEnds
\* The process ends.
CHECK_DEADLOCK FALSE
