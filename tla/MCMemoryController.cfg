CONSTANTS
  NumRequestors = 2
  Addresses <- MCAddresses
  Delays = {0, 1}
  TraceLength <- ThreeLinesEach
  RowOf <- MCRowOf
  AddressSpan = 4
  BurstsPerRequest = 2
  tWL = 1
  tRL = 2
  tBus = 1
  MaxUnsigned = 15
  NoRequest = NoRequest
SPECIFICATION Spec
INVARIANTS
  TypeOK
  WriteCountersOrdered
  ReadCountersOrdered
  BurstsAccounted
  EndedRequestorDrained
PROPERTY
  ImplementsService
