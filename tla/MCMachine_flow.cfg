SPECIFICATION MCFairSpec
CONSTANTS
  Types <- SmallTypes
  Funcs <- FlowFuncs
  NextOps <- FlowNext
  Words = {0, 1}
  MAX_CALL_DEPTH = 2
  MAX_VALUE_STACK = 5
  MaxBody = 7
  MaxAny = 4
INVARIANTS
  StructureAgrees
  ShapesAgree
PROPERTIES
  StraightCodeEnds
