CONSTANTS
  MaxAttempts = 2
  NeedsTask = FALSE
  NeedsPositive = FALSE
  Gated = FALSE
  WrapsErrors = FALSE
  Controls = {"PAUSE", "RESUME"}
  MaxControls = 2
  MaxCrashes = 0
  MaxFailures = 0
SPECIFICATION FairSpec
PROPERTIES
  RunEnds
CHECK_DEADLOCK FALSE
