SPECIFICATION Spec
CONSTANTS
  j1 = j1
  j2 = j2
  NULL = NULL
  UINT <- MCUINT
  Joiners <- MCJoiners
  Observers <- MCObservers
  Builds <- MCBuilds
  Lim <- GrammarLim
  RestSizes <- GrammarRestSizes
  FieldLens <- GrammarFieldLens
  ItemCnts <- GrammarItemCnts
  TimeIncs <- GrammarTimeIncs
  StrLens = {0}
  MallocResults = {TRUE}
INVARIANTS
  TypeOK
  Accounting
  SuccessAtEnd
PROPERTIES
  ClosesShort
  Grammar
