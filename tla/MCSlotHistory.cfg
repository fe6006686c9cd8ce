CONSTANTS
  NumRequestors = 3
  Addresses <- OneAddress
  Delays = {0, 1}
  TraceLength <- TwoLinesEach
  RowOf <- OneRow
  AddressSpan = 4
  BurstsPerRequest = 1
  tWL = 8
  tRL = 9
  tBus = 4
  MaxUnsigned = 15
  NoRequest = NoRequest
  Speed <- DDR3_1600H
  Ranks = {0}
  Banks = {0, 1, 2}
  Commands <- OpenPage
  timeSlot = 42
  Critical = {0, 1}
  MaxAge = 37
  MaxLatency = 160
SPECIFICATION ObservedSpec
INVARIANTS
  TurnsInOrder
  ServedInTurn
  SlotLatency
PROPERTIES
  SlotCommandsInTime
  SlotsIsolated
  CriticalAnswered
