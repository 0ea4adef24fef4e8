CONSTANTS
  MaxAttempts = 2
  NeedsTask = TRUE
  NeedsPositive = TRUE
  Gated = TRUE
  WrapsErrors = TRUE
  Controls = {"CANCEL"}
  MaxControls = 1
  MaxCrashes = 0
  MaxFailures = 0
SPECIFICATION Spec
PROPERTIES
  TerminalIrreversible
CHECK_DEADLOCK FALSE
