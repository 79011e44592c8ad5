SPECIFICATION Spec
CONSTANTS
  p = p
  q = q
  Props <- MCProps
  MaxSteps = 3
  MaxConsecutiveApplyFailures = 2
  StopOnViolation = TRUE
  AllowNoGeneratorActions = FALSE
  Kinds <- MCFewKinds
INVARIANTS
  RelaunchIsReported
  StreakMatchesTrace
  CleanExitIsEarned
PROPERTIES
  NoActionSwallowed
CHECK_DEADLOCK FALSE
