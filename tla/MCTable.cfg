SPECIFICATION FairSpec
CONSTANTS
  Junk = Junk
  Data <- MCData
  Key <- MCKey
  Lens <- MCLens
  DEFAULT_TBL_SIZE = 2
INVARIANTS
  TypeOK
  PartlySorted
  NothingLost
PROPERTIES
  IsPointerTable
  CallsReturn
