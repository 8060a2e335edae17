CONSTANTS
  Names = {x}
  ObjectTypes = {"int"}
  FunctionTypes = {"int()"}
  Inits = {"one"}
  MaxDeclarations = 3
  MaxScopes = 2
SPECIFICATION Spec
INVARIANT StaticComesFirst
