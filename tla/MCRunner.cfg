SPECIFICATION FairSpec
CONSTANTS
  p = p
  q = q
  Props <- MCTwoProps
  MaxSteps = 2
  MaxConsecutiveApplyFailures = 2
  StopOnViolation = FALSE
  AllowNoGeneratorActions = TRUE
  Kinds <- MCKinds
INVARIANTS
  TypeOK
  EffectHasCause
  SummaryMatchesTrace
  CleanExitIsEarned
PROPERTIES
  LedgerSpec
  Termination
CHECK_DEADLOCK FALSE
