SPECIFICATION Spec
CONSTANTS
  Roots <- MCRoots
  Outcomes <- MCOutcomes
  Gaps <- MCGaps
  Depth = 3
  Bounds <- MCBounds
  MaxObservations = 4
INVARIANTS
  TypeOK
  VerdictIsTruth
  FinalVerdictIsTruth
  BlamesArmingStep
CHECK_DEADLOCK FALSE
