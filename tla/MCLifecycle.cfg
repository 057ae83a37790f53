SPECIFICATION FairSpec
CONSTANTS
  N = 3
  Gates <- TheGate
  Keyed <- Last
  Bound <- OneOfEach
  MaxEvents = 2
INVARIANTS RunningRowsHaveExecutors
PROPERTIES ImplementsTaskVerdict FinishedWorkIsKept TaskSettles
CHECK_DEADLOCK FALSE
