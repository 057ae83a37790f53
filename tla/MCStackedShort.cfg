SPECIFICATION CalmSpec
CONSTANTS
  Stages = {"plan", "first", "write", "second", "publish"}
  Gates = {"first", "second"}
  Scripts = {}
  External = "external"
  Ports <- MCPorts
  Owner <- MCOwner
  Feedback <- MCFeedback
  Wires <- ShortWires
  Values <- MCValues
  Seed = "empty"
  Routes <- ShortRoutes
  BackTo <- MCBackTo
  MaxRetries <- MCMaxRetries
  MaxTotalAttempts = 2
  SecretStages = {}
  Rewriters = {}
  PartialScripts = {}
PROPERTIES
  Terminates
CHECK_DEADLOCK FALSE
