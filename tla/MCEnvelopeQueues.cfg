SPECIFICATION QueueSpec
CONSTANTS
  Capacity = 3
  MaxPut = 6
  MaxBeats = 3
INVARIANTS
  NoneLostSilently
  NewestWarningIsExact
  LatestBeatKept
PROPERTIES
  BroadcastStream
  BroadcastCatchesUp
\* The broadcaster is gone after a shutdown, and the bounded producers stop.
CHECK_DEADLOCK FALSE
