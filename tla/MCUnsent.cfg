SPECIFICATION Spec
CONSTANTS
  p = p
  q = q
  Props <- MCProps
  MaxSteps = 2
  MaxConsecutiveApplyFailures = 2
  StopOnViolation = FALSE
  AllowNoGeneratorActions = TRUE
  Kinds <- MCDoubleTap
INVARIANT
  UnsentReachedNothing
CHECK_DEADLOCK FALSE
