CONSTANTS
  Contents = {A}
  Artifacts = {m1}
  MaxPuts = 1
  MaxFinalizes = 1
  MaxDeletions = 1
  MaxDownloads = 0
  MaxFaults = 0
  MaxTries = 1
  MaxBackups = 0
SPECIFICATION BackupSpec
INVARIANT NoDanglingRun
CHECK_DEADLOCK FALSE
