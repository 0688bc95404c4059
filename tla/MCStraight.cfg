SPECIFICATION StraightSpec
CONSTANTS
  Locals <- SmallLocals
  Globals <- SmallGlobals
  Tables <- SmallTables
  Elems <- SmallElems
  Datas = 1
  Declared <- SmallDeclared
  Memories = {0, 1}
  Indices <- SmallIndices
  Aligns <- SmallAligns
  LaneBytes <- SmallLanes
  MaxHeight = 2
INVARIANTS NeverPanics StacksKeepTypes AsksWhatIsNeeded
CHECK_DEADLOCK FALSE
