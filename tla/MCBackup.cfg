CONSTANTS
  Contents = {A, B}
  Artifacts = {m1, m2}
  MaxPuts = 2
  MaxFinalizes = 2
  MaxDeletions = 1
  MaxDownloads = 1
  MaxFaults = 1
  MaxTries = 2
  MaxBackups = 1
SPECIFICATION BackupSpec
INVARIANTS RowsHaveBytes DeletionIsThorough InstalledIsWhole BackupIsWhole
SYMMETRY MCSymmetry
CHECK_DEADLOCK FALSE
