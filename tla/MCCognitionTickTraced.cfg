SPECIFICATION Spec
CONSTANTS
  Agents <- MCAgents
  Period <- MCPeriod
  Dwell <- MCDwell
  Tracing = TRUE
  MaxObs = 2
  MaxRan = 3
PROPERTIES
  MinimumGap
