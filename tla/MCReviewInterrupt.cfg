SPECIFICATION InterruptSpec
CONSTANTS
  Stages = {"draft", "review", "render", "publish"}
  Gates = {"review"}
  Scripts = {"render"}
  External = "external"
  Ports <- MCPorts
  Owner <- MCOwner
  Feedback <- MCFeedback
  Wires <- MCWires
  Values <- MCValues
  Seed = "empty"
  Routes <- MCRoutes
  BackTo <- MCBackTo
  MaxRetries <- MCMaxRetries
  MaxTotalAttempts = 1
  SecretStages = {}
  Rewriters = {}
  PartialScripts = {}
PROPERTIES
  InterruptEnds
CHECK_DEADLOCK FALSE
