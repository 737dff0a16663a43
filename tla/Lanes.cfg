SPECIFICATION Spec
CONSTANTS
  Key <- TenKeys
  ByteOrders <- Orders
  Base = 3
  LaneBytes = 1
  Capacity = 4
INVARIANTS PositionExact LanesCheckOut CandidateConfirms HintsAgree
CHECK_DEADLOCK FALSE
