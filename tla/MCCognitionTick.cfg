SPECIFICATION Spec
CONSTANTS
  Agents <- MCAgents
  Period <- MCPeriod
  Dwell <- MCDwell
  Tracing = FALSE
  MaxObs = 2
  MaxRan = 3
INVARIANTS
  ObservationsAccounted
PROPERTIES
  MinimumGap
  DwellHonoured
  EveryAgentSteps
