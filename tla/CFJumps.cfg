CONSTANTS
  Labels = {l1, l2}
  CaseValues = {c1}
  SwitchWidths = {32}
  ResultKinds = {"void"}
  StaleBack = {FALSE}
  OperandEmits = {FALSE}
  Constructs = {"while", "do", "for", "if", "switch", "compound",
                "continue", "break", "return", "goto", "label"}
  MaxNodes = 4
SPECIFICATION Spec
INVARIANTS
  TypeOK
  JumpStacksFollowNesting
  OnlySwitchIsFollowed
  GotosReachTheirLabel
  LabelsAreTheFunctions
  ScopesFollowNesting
SYMMETRY LabelSymmetry
