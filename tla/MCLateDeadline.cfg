SPECIFICATION Spec
CONSTANTS
  Asked <- MCAsked
  MaxSessions = 2
  CollapsedRetries = 1
INVARIANT
  InterruptedByOwnContext
CHECK_DEADLOCK FALSE
