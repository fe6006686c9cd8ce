CONSTANTS
  AddressSpan = 64
  MaxWidth = 8
  NumRequestors = 3
  Configurations <- RRConfigurations
  BurstsPerRequest = 1
  timeSlot = 2
  Turnaround = 2
  NoRequest = NoRequest
SPECIFICATION Spec
INVARIANTS
  OnePlace
CHECK_DEADLOCK TRUE
