SPECIFICATION MCSpec
CONSTANTS
  Types <- CallTypes
  Funcs <- CallFuncs
  NextOps <- CallNext
  Words = {0, 1}
  MAX_CALL_DEPTH = 3
  MAX_VALUE_STACK = 5
  MaxBody = 6
  MaxAny = 0
INVARIANTS
  NeverPanics
  CallsBalance
PROPERTIES
  CallersUntouched
