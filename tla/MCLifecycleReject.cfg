SPECIFICATION Spec
CONSTANTS
  N = 3
  Gates <- TheGate
  Keyed <- Last
  Bound <- OneOfEach
  MaxEvents = 1
INVARIANTS CompletedIsApproved
CHECK_DEADLOCK FALSE
