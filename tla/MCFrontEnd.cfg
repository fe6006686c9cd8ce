CONSTANTS
  AddressSpan = 64
  MaxWidth = 8
  NumRequestors = 3
  Configurations <- MCConfigurations
  BurstsPerRequest = 1
  timeSlot = 6
  Turnaround = 2
  NoRequest = NoRequest
SPECIFICATION Spec
INVARIANTS
  OnePlace
  AccessesFindRow
  OneBankPerQueue
  OvertakenOnceByEach
PROPERTIES
  RequestsScheduled
CHECK_DEADLOCK TRUE
