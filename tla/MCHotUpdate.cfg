SPECIFICATION Spec
CONSTANTS
  Submissions <- TheSubmissions
  Requests <- TheRequests
  Known <- TheStages
  MaxProposals = 1
  MaxMoves = 2
  MaxFaults = 1
INVARIANTS VersionsAreSound SegmentsRunInTurn NoStageIsOverlooked PromptsAreFound AutoApprovedKeepsTheGraph
PROPERTIES RedoIsExact
CHECK_DEADLOCK FALSE
