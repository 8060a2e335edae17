CONSTANTS
  Labels = {l1}
  CaseValues = {c1}
  SwitchWidths = {32}
  ResultKinds = {"void"}
  StaleBack = {FALSE}
  OperandEmits = {TRUE}
  Constructs = {"do", "continue", "break"}
  MaxNodes = 2
SPECIFICATION Spec
INVARIANT DoEntersBodyFirst
