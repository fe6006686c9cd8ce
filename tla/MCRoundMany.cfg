CONSTANTS
  NumRequestors = 5
  Addresses <- OneAddress
  Delays = {0}
  TraceLength <- TwoRepeat
  RowOf <- OneRow
  AddressSpan = 4
  BurstsPerRequest = 1
  tWL = 8
  tRL = 9
  tBus = 4
  MaxUnsigned = 15
  NoRequest = NoRequest
  NoRow = NoRow
  Speed <- DDR3_1600H
  Ranks = {0}
  Banks = {0, 1, 2, 3, 4}
  Commands <- OpenPage
  NumOrder = 8
  FreshInts = {0}
  FreshBools = {FALSE}
  MaxAge = 37
  MaxLatency = 100
SPECIFICATION ObservedSpec
PROPERTIES
  EveryRequestAnswered
INVARIANTS
  FourActivatesInWindow
