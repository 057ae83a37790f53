SPECIFICATION FairSpec
CONSTANTS
  Outputs <- MCOutputs
  RetryOptions <- MCRetries
  McpBudget = 1
  FeedbackRounds = 1
  MaxMessages = 4
INVARIANTS OneMoreTurn SilentWhileRetrying RecordAgreesWithRow
PROPERTIES ImplementsStageCall InterruptEndsTheCall
CHECK_DEADLOCK FALSE
