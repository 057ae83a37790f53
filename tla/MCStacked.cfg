SPECIFICATION CalmSpec
CONSTANTS
  Stages = {"plan", "first", "write", "second", "publish"}
  Gates = {"first", "second"}
  Scripts = {}
  External = "external"
  Ports <- MCPorts
  Owner <- MCOwner
  Feedback <- MCFeedback
  Wires <- MCWires
  Values <- MCValues
  Seed = "empty"
  Routes <- MCRoutes
  BackTo <- MCBackTo
  MaxRetries <- MCMaxRetries
  MaxTotalAttempts = 4
  SecretStages = {}
  Rewriters = {}
  PartialScripts = {}
INVARIANTS
  OnlyPickedStagesRun
  InputsAreCurrent
  OutputsAreFromLatestRun
  OneExecutorPerStage
PROPERTIES
  Terminates
