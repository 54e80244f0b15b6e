SPECIFICATION Spec
CONSTANTS
  j1 = j1
  j2 = j2
  NULL = NULL
  UINT <- MCUINT
  Joiners <- MCJoiners
  Observers <- MCObservers
  Builds <- MCBuilds
  Lim <- TallyLim
  RestSizes <- TallyRestSizes
  FieldLens <- TallyFieldLens
  ItemCnts <- TallyItemCnts
  TimeIncs <- TallyTimeIncs
  StrLens = {0}
  MallocResults = {TRUE}
INVARIANTS
  UnusedIdRefused
