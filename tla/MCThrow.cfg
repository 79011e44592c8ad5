SPECIFICATION Spec
CONSTANTS
  Roots <- NegatedRoots
  Outcomes <- MCOutcomes
  Gaps <- OneGap
  Depth = 3
  Bounds <- MCBounds
  MaxObservations = 2
INVARIANT ThrowConvicts
CHECK_DEADLOCK FALSE
