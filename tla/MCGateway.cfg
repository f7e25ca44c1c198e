SPECIFICATION Spec
CONSTANTS
  Sessions = {s1, s2}
  Agents = {a1, a2}
  MaxSessions = 1
  Backlog = 2
  MaxSent = 4
  All = All
INVARIANTS
  SlotsKept
  GapsAnnounced
PROPERTIES
  ClientStreams
  SilentPeersLeave
\* Every session ends, and the bounded fan-out stops.
CHECK_DEADLOCK FALSE
