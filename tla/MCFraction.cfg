SPECIFICATION Spec
CONSTANTS
  Roots <- FractionalRoots
  Outcomes <- MCOutcomes
  Gaps <- OneGap
  Depth = 3
  Bounds <- FractionalBounds
  MaxObservations = 3
INVARIANT ClosedWindowDecides
CHECK_DEADLOCK FALSE
