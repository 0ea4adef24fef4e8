CONSTANTS
  MaxAttempts = 2
  NeedsTask = TRUE
  NeedsPositive = TRUE
  Gated = TRUE
  WrapsErrors = TRUE
  Controls = {"PAUSE", "RESUME", "CANCEL"}
  MaxControls = 2
  MaxCrashes = 1
  MaxFailures = 2
SPECIFICATION FairSpec
INVARIANTS
  TypeOK
  TerminalIsSettled
  StagesInOrder
  OneOutputPerType
  StagesHaveEvidence
  OpenPacketBlocks
  OnlyApprovedModels
  CompletedJobEndsRun
  RunnableRunHasWork
  DeadJobFailsRun
  OneQualityReport
  AnswersAppliedFirst
PROPERTIES
  ResultImmutable
  UncrashedRunEnds
  UndisturbedRunEnds
CHECK_DEADLOCK FALSE
