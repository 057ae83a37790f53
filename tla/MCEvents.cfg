SPECIFICATION Spec
CONSTANTS
  Clients <- MCClients
  Resuming <- MCResuming
  Drivers <- MCDrivers
  Callers <- MCCallers
  Wanted <- MCWanted
  HistoryLimit = 2
  MayLackSecret = TRUE
  MaxEvents = 4
  MaxCalls = 3
  MaxActive = 1
  MaxCrashes = 1
INVARIANTS
  OnlyNewsInFlight
  NothingRetainedIsLost
  NobodyWaitsInVain
CHECK_DEADLOCK FALSE
