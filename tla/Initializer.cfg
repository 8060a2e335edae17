CONSTANTS
  Unsized = Unsized
  MaxElems = 5
  Types <- MCTypes
  Lists <- MCLists
SPECIFICATION Spec
\* The walk is over.
CHECK_DEADLOCK FALSE
INVARIANTS
  TypeOK
  ObjectsAreC
  LengthIsC
  WarningsAreC
  RefusedInitializers
PROPERTY
  Terminates
