SPECIFICATION Spec
CONSTANTS
  Junk = Junk
  Data <- MCData
  Key <- MCKey
  Lens <- MCLens
  DEFAULT_TBL_SIZE = 2
INVARIANTS
  ComparesElements
