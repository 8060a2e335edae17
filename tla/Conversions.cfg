CONSTANTS
  CharBits = 2
  ShortBits = 3
  IntBits = 4
  LongBits = 5
  MaxFloat = 3
  NaN = NaN
  Poison = Poison
  Halt = Halt
SPECIFICATION Spec
INVARIANTS
  
  OperatorsAreC
  CompoundAssignmentsAreC
  OffsetsAreC
  LiteralsAreC
