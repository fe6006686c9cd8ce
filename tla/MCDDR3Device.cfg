CONSTANTS
  r0 = r0
  r1 = r1
  b0 = b0
  b1 = b1
  b2 = b2
  NoRow = NoRow
  Speed <- MCSpeed
  Ranks = {r0, r1}
  Banks = {b0, b1, b2}
  Commands <- MCCommands
  Workloads <- MCWorkloads
SPECIFICATION Spec
INVARIANTS
  AcceptsExactly
  BusNeverShared
  OpenNeverActivated
