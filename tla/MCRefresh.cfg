CONSTANTS
  NumRanks = 1
  NumQueues = 2
  tREFI = 3
  tRFC = 2
  MaxPending = 2
SPECIFICATION Spec
PROPERTIES
  RefreshDue
CHECK_DEADLOCK FALSE
