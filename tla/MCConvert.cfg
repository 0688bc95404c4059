SPECIFICATION Spec
CONSTANTS
  ByteBits = 1
  F32Frac = 2
  F64Frac = 4
  Objects <- SmallObjects
  Returned <- SmallReturned
INVARIANT VerdictIsMeaning
PROPERTY ArgumentIsMeant
CHECK_DEADLOCK FALSE
