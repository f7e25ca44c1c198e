CONSTANTS
  None = None
  Loop = loop
  Callers = {kant, nietzsche, rikyu, loop}
SPECIFICATION Spec
INVARIANTS
  NoUseAfterClose
  NothingLeftOpen
PROPERTIES
  FailureTold
  ShutdownEnds
CHECK_DEADLOCK FALSE
