SPECIFICATION Spec
CONSTANTS
  Handlers <- MCHandlers
  Period <- MCPeriod
  Rank <- MCRank
  MaxLag = 7
  None = None
INVARIANTS
  Lockstep
  OldestFirst
PROPERTIES
  NoDrift
  EveryHandlerRuns
  StopReturns
\* run() returns after stop() or a cancellation, and the task is then over.
CHECK_DEADLOCK FALSE
