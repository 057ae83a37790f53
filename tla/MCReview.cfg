SPECIFICATION Spec
CONSTANTS
  Stages = {"draft", "review", "render", "publish"}
  Gates = {"review"}
  Scripts = {"render"}
  External = "external"
  Ports <- MCPorts
  Owner <- MCOwner
  Feedback <- MCFeedback
  Wires <- MCWires
  Values <- MCValues
  Seed = "empty"
  Routes <- MCRoutes
  BackTo <- MCBackTo
  MaxRetries <- MCMaxRetries
  MaxTotalAttempts = 2
  SecretStages = {"draft"}
  Rewriters = {"draft"}
  PartialScripts = {"render"}
INVARIANTS
  OneOpenRowPerGate
  CancelledHasRootCause
  CorrectionIsKept
PROPERTIES
  FirstVerdictStands
