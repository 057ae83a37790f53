SPECIFICATION CalmSpec
CONSTANTS
  Stages = {"plan", "choose", "build", "write", "slow"}
  Gates = {"choose"}
  Scripts = {"build"}
  External = "external"
  Ports <- SlowPorts
  Owner <- SlowOwner
  Feedback <- MCFeedback
  Wires <- SlowWires
  Values <- MCValues
  Seed = "empty"
  Routes <- MCRoutes
  BackTo <- MCBackTo
  MaxRetries <- MCMaxRetries
  MaxTotalAttempts = 2
  SecretStages = {}
  Rewriters = {}
  PartialScripts = {}
INVARIANTS
  PickedIsNotSkipped
