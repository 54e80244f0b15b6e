SPECIFICATION CSpec
CONSTANTS
  Tasks <- MCTasks
  FileMainHdrs <- MCMainHdrs
  FileSubHdrs <- MCSubHdrs
  DcdSizes = {1}
  MallocResults = {TRUE}
  Letters <- MCLetters
  MaxOpts = 1
  JunkReqs <- MCJunkReqs
INVARIANTS
  OldHeaderAccepted
