CONSTANTS
  Names = {x, y}
  ObjectTypes = {"int"}
  FunctionTypes = {"int()"}
  Inits = {"one"}
  MaxDeclarations = 4
  MaxScopes = 3
SPECIFICATION Spec
INVARIANT StaticLocalsAreTheirOwn
