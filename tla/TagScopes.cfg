CONSTANTS
  sA = sA
  uB = uB
  eA = eA
  Structs = {sA, uB}
  Unions = {uB}
  Enums = {eA}
  MaxObjects = 3
  MaxScopes = 4
  MaxBodies = 3
  MaxLists = 2
SPECIFICATION Spec
CONSTRAINT NotStrayed
\* The walk may have halted.
CHECK_DEADLOCK FALSE
INVARIANTS
  TagsResolveAsC
  EnumTagsAreAsComplete
  SameTypesAreC
  ClonesSeeTheBody
  HaltsAreErrors
