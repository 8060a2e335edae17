--------------------------- MODULE MCControlFlow ---------------------------
EXTENDS ControlFlow, TLC
LabelSymmetry == Permutations(Labels)
=============================================================================
