SPECIFICATION WorldSpec
CONSTANTS
  Agents <- MCTwoAgents
  Zones <- MCZones
  ReflectiveZones <- MCReflectiveZones
  Generations = 2
  CooldownLive = 3
  CooldownEval = 1
  Timeout = 3
  MaxTurns = 3
  EvalNatural = FALSE
  GoldenStart = FALSE
  Never = Never
  Budget <- MCBudget
  MaxBehind = 2
INVARIANTS
  TranscriptAlternates
  BudgetKept
  NoneOverdue
  RestHonoured
PROPERTIES
  TimeoutMeansSilence
  DialogsEnd
