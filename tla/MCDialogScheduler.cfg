SPECIFICATION DialogSpec
CONSTANTS
  Agents <- MCAgents
  Zones <- MCZones
  ReflectiveZones <- MCReflectiveZones
  Generations = 2
  CooldownLive = 1
  CooldownEval = 1
  Timeout = 1
  MaxTurns = 1
  EvalNatural = FALSE
  GoldenStart = TRUE
  Never = Never
INVARIANTS
  OpenIffPaired
