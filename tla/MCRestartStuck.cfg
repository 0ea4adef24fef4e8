CONSTANTS
  MaxAttempts = 2
  NeedsTask = TRUE
  NeedsPositive = TRUE
  Gated = TRUE
  WrapsErrors = TRUE
  Controls = {}
  MaxControls = 0
  MaxCrashes = 1
  MaxFailures = 0
SPECIFICATION FairSpec
PROPERTIES
  RunEndsWhilePolled
CHECK_DEADLOCK FALSE
