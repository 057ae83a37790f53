SPECIFICATION Spec
CONSTANTS
  Stages = {"draft", "review", "render", "publish"}
  Gates = {"review"}
  Scripts = {"render"}
  External = "external"
  Ports <- MCPorts
  Owner <- MCOwner
  Feedback <- MCFeedback
  Wires <- MCWires
  Values <- MCValues
  Seed = "empty"
  Routes <- MCRoutes
  BackTo <- RetryBackTo
  MaxRetries <- RetryMax
  MaxTotalAttempts = 3
  SecretStages = {"draft"}
  Rewriters = {"draft"}
  PartialScripts = {"render"}
INVARIANTS
  CorrectionIsKept
CHECK_DEADLOCK FALSE
