SPECIFICATION FairSpec
CONSTANTS
  MaxSteps = 2
  MaxLogs = 1
  MaxThrows = 1
  MaxNavigations = 2
  MaxClock = 2
  Chunks = 2
  MaxText = 1
  MaxDisturbances = 1
  MaxFades = 1
  MaxChurns = 1
  MaxRelaunches = 1
  Controls <- MCControls
  Facts <- MCFacts
  Keys <- MCKeys
  Nodes <- MCNodes
  LabelOf <- MCLabelOf
  DepthOf <- MCDepthOf
  Trees <- MCTrees
  Displays <- MCDisplays
  Routes = {"/", "/list"}
  MemorySize = 2
  MaxAsks = 3
  Pieces = 2
  MaxReads = 3
  MaxDrops = 2
  Ports = {1, 2}
  MaxSpawns = 2
INVARIANTS TypeOK DrawsFollowTheSeed EvidenceIsKept EnginesAgree TextGoesWhereMeant VerifiedTreeIsSettled NothingLeftBehind RecordTellsTheStep MemoryTellsTheScreens PoliciesShareOneSpace InputReplaces OneRunDrives
PROPERTIES BackOnlyClosesKeyboard ExecuteReturns
CHECK_DEADLOCK FALSE
