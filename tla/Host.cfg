SPECIFICATION MCSpec
CONSTANTS
  p = p
  q = q
  Stage <- MCStage
  Artifact <- MCArtifact
  Graphs <- MCGraphs
  NegInf = 0
  Questions <- MCQuestions
  Case <- MCCase
  Contents <- MCContents
  References <- MCReferences
  Candidates <- MCCandidates
  Commands <- MCCommands
  WarmUps = 3
  EventTrials = 2
  KinetoTrials = 2
  Graph <- MCGraph
  OpNumbers <- MCOpNumbers
  Checks = {p, q}
  Paths <- MCPaths
  Assignments <- MCAssignments
  CheckCases = {"small"}
  BenchCases = {"large"}
  Sources <- MCSources
  Settings <- MCSettings
  Machines <- MCMachines
  MaxChanges = 2
  MaxEdits = 1
  MaxFailures = 1
  MaxIncidents = 2
  OrderPlans <- MCOrderPlans
  Shifts <- MCShifts
  CampaignCases <- MCCampaignCases
  CaseFiles <- MCCaseFiles
SYMMETRY PathsAlike
INVARIANTS
  OrderedAndFed
  VerdictIsTheGraphs
  OracleExact
  GateExact
  MeasuredIntact
  AttributionExact
  DecidesOnEvidence
  GateFresh
  DriftCancels
  TableDurable
CHECK_DEADLOCK FALSE
