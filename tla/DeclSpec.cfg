CONSTANTS
  Boxed = {A, B}
  NoType = NoType
  MaxWords = 5
  MaxBoxed = 2
\* A declaration's specifiers end.
CHECK_DEADLOCK FALSE
SYMMETRY MCSymmetry
SPECIFICATION Spec
INVARIANTS
  OrderIrrelevant
  AcceptedTypesAreC
