SPECIFICATION FairSpec
CONSTANTS
  d1 = d1
  d2 = d2
  NoData = NoData
  arr_size = 2
  MaxCnt = 7
  Data <- MCData
  Indices <- MCIndices
INVARIANTS
  TypeOK
  ChainOK
  CursorOK
  AllReleased
PROPERTIES
  IsAppendList
  CallsReturn
