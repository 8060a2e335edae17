CONSTANTS
  Names = {x}
  ObjectTypes = {"int"}
  FunctionTypes = {"int()"}
  Inits = {"one"}
  MaxDeclarations = 5
  MaxScopes = 3
SPECIFICATION Spec
INVARIANTS
  LinkedVariablesAreOneObject
  DeclaredTypesAgree
  RedefinitionsAreReported
  BodyCompletesDeclarations
