CONSTANTS
  MaxControls = 1
  Filters <- MCFilters
  PageSize = 4
  Capacity = 1
  Window = 2
  MaxDrops = 1
SPECIFICATION Spec
INVARIANTS DeliveredInSequence EndedIsComplete NoLostWakeup
PROPERTY ReadersEnd
CHECK_DEADLOCK FALSE
