SPECIFICATION Spec
CONSTANTS
  Items <- StaleItems
  Sources <- StaleSources
  NeedsKey <- None
  Concurrency = 2
  ElementRetries = 1
  MaxPasses = 3
  MaxCrashes = 0
  MaxRewinds = 1
  MaxMigrations = 0
CHECK_DEADLOCK FALSE
INVARIANTS AggregateMatchesSource
