CONSTANTS
  Labels = {l1}
  CaseValues = {c1}
  SwitchWidths = {8, 64}
  ResultKinds = {"value"}
  StaleBack = {FALSE,TRUE}
  OperandEmits = {TRUE}
  Constructs = {"switch", "case", "break", "goto", "label", "and", "or", "conditional", "binary", "return", "filescope"}
  MaxNodes = 4
SPECIFICATION Spec
INVARIANTS
  SwitchStacksFollowNesting
  DefectsComeFromSwitches
  PhisMatchPredecessors
PROPERTY InstructionsStay
