SPECIFICATION FairSpec
CONSTANTS
  Items <- MCItems
  Sources <- MCSources
  NeedsKey <- NeedA
  Concurrency = 2
  ElementRetries = 1
  MaxPasses = 2
  MaxCrashes = 1
  MaxRewinds = 1
  MaxMigrations = 1
INVARIANTS AggregateMatchesSource NothingLeftRunning
PROPERTIES PassEndsEventually
CHECK_DEADLOCK FALSE
