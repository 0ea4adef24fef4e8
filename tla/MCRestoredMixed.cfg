CONSTANTS
  Contents = {A}
  Artifacts = {m1}
  MaxPuts = 1
  MaxFinalizes = 1
  MaxDeletions = 1
  MaxDownloads = 0
  MaxFaults = 1
  MaxTries = 1
  MaxBackups = 1
SPECIFICATION BackupSpec
PROPERTY RestoredIsBackup
CHECK_DEADLOCK FALSE
