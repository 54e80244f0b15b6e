SPECIFICATION FairSpec
CONSTANTS
  Lim = 92
  Builds <- MCBuilds
  Ids <- MCIds
  StrLens = {0}
  EcdStrs <- MCEcdStrs
  SlotCnts = {0, 1, 2, 3}
  MallocResults = {TRUE, FALSE}
INVARIANTS
  TypeOK
  Contiguous
  OwnedOnce
  ReleasedOnce
  JoinersMatchSlots
  DecodedSoFar
  OptsInBuffer
PROPERTIES
  Termination
