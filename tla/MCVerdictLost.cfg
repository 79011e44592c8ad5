SPECIFICATION Spec
CONSTANTS
  p = p
  q = q
  Props <- MCProps
  MaxSteps = 2
  MaxConsecutiveApplyFailures = 2
  StopOnViolation = FALSE
  AllowNoGeneratorActions = TRUE
  Kinds <- MCFewKinds
INVARIANT
  NoVerdictLost
CHECK_DEADLOCK FALSE
