SPECIFICATION Spec
CONSTANTS
  Asked <- MCAsked
  MaxSessions = 2
  CollapsedRetries = 1
INVARIANTS
  TypeOK
  AnswersInStep
  DoneOncePerProcess
  RetriedOnce
PROPERTIES
  OperationsReturn
CHECK_DEADLOCK FALSE
