CONSTANTS
  AddressSpan = 64
  MaxWidth = 8
  NumRequestors = 3
  Configurations <- RoundConfigurations
  BurstsPerRequest = 1
  timeSlot = 2
  Turnaround = 2
  NoRequest = NoRequest
SPECIFICATION Spec
INVARIANTS
  CommandRemoved
CHECK_DEADLOCK TRUE
