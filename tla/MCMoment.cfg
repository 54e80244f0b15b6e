SPECIFICATION Spec
CONSTANTS
  TimeIncs <- MCTimeIncs
  MaxTotal <- MCMaxTotal
INVARIANTS
  TypeOK
  ClockAgrees
