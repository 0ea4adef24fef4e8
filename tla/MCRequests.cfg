CONSTANTS
  Callers = {"a", "c"}
  KeyOf <- MCKeyOf
  BodyOf <- MCBodyOf
  MaxSends <- MCMaxSends
  MaxActive = 2
  MaxFaults = 1
SPECIFICATION Spec
INVARIANTS RepliesAreRecorded NoLostWakeup SlotsBalanced
PROPERTIES RequestsEnd ImplementsOncePerKey
CHECK_DEADLOCK FALSE
