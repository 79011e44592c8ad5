SPECIFICATION FairSpec
CONSTANTS
  Names = {p}
  MaxLines = 2
  MaxTick = 1
  Clients <- MCClients
  Viewers = {v1, v2}
  Capacity = 1
  MaxChanges = 3
INVARIANTS TypeOK MissesOnlyUnfinishedLines MarkersAgree NoPanic
PROPERTIES CacheOnlyGrows ChangeReachesViewer StreamsEnd
CHECK_DEADLOCK FALSE
