SPECIFICATION CalmSpec
CONSTANTS
  Stages = {"plan", "choose", "build", "write"}
  Gates = {"choose"}
  Scripts = {"build"}
  External = "external"
  Ports <- MCPorts
  Owner <- MCOwner
  Feedback <- MCFeedback
  Wires <- MCWires
  Values <- MCValues
  Seed = "empty"
  Routes <- MCRoutes
  BackTo <- MCBackTo
  MaxRetries <- MCMaxRetries
  MaxTotalAttempts = 3
  SecretStages = {}
  Rewriters = {}
  PartialScripts = {}
INVARIANTS
  PickedIsNotSkipped
  CompletedMeansAllDone
  RetriesWithinBudget
PROPERTIES
  AskedOnce
