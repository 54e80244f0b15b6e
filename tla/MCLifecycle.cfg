SPECIFICATION FairCSpec
CONSTANTS
  Tasks <- MCTasks
  FileMainHdrs <- MCMainHdrs
  FileSubHdrs <- MCSubHdrs
  DcdSizes = {1, 2}
  MallocResults = {TRUE, FALSE}
  Letters <- MCLetters
  MaxOpts = 2
  JunkReqs <- MCJunkReqs
INVARIANTS
  TypeOK
  CTypeOK
  PointersMatch
  AllFreed
  AnswersReady
  ApmHasJoiners
  LimDecoded
  StatusIsHonest
PROPERTIES
  PrintedIsThere
  Termination
