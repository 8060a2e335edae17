CONSTANTS
  Inputs = {"a/x.c", "b/x.c", "y.c"}
  Stems = {"x", "y"}
  StemOf <- MCStemOf
  MSG_LIST_MIN_CAP = 1
  MaxInputs = 3
  MaxSteps = 2
SPECIFICATION Spec
INVARIANTS
  WrittenUnitsAreClean
  MessagesAreShownOnce
  GeneratorStartsBalanced
  SuccessIsComplete
PROPERTY ImplementsCompilation
