CONSTANTS
  NumRequestors = 2
  Addresses <- OneAddress
  Delays = {0, 1000}
  TraceLength <- OneLineEach
  RowOf <- OneRow
  AddressSpan = 4
  BurstsPerRequest = 1
  tWL = 8
  tRL = 9
  tBus = 4
  MaxUnsigned = 15
  NoRequest = NoRequest
  NoRow = NoRow
  Speed <- DDR3_1600H
  Ranks = {0}
  Banks = {0, 1}
  Commands <- OpenPage
  NumOrder = 1
  FreshInts = {0}
  FreshBools = {FALSE}
  MaxAge = 37
  MaxLatency = 1000
SPECIFICATION ObservedSpec
INVARIANTS
  LatencyBounded
