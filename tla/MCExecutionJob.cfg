CONSTANTS
  Runs = {1, 2}
  Steps = {"TRAIN"}
  MaxAttempts = 2
  LeaseTicks = 2
  Delays = {0, 1}
  MaxTime = 4
  MaxGen = 3
  MaxEpoch = 1
SPECIFICATION Spec
INVARIANTS TypeOK OneLiveLease OneTicketPasses DeadMeansExhausted
PROPERTIES LostFenceStaysLost ClosedRowsStayClosed ImplementsFencedLease
CHECK_DEADLOCK FALSE
