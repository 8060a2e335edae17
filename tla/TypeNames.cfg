CONSTANTS
  a = a
  b = b
  Names = {a, b, va}
  Builtins = {va}
  va = va
  MaxScopes = 4
  MaxBraces = 2
SPECIFICATION Spec
SYMMETRY MCSymmetry
\* A unit that is refused ends.
CHECK_DEADLOCK FALSE
INVARIANTS
  AcceptedUnitsAreReadAsC
  ResolvedAsRead
  UnitsStartAlike
