CONSTANTS
  MaxAttempts = 2
  NeedsTask = TRUE
  NeedsPositive = TRUE
  Gated = TRUE
  WrapsErrors = TRUE
  Controls = {"PAUSE"}
  MaxControls = 1
  MaxCrashes = 0
  MaxFailures = 0
SPECIFICATION Spec
PROPERTIES
  PausedStaysPaused
CHECK_DEADLOCK FALSE
