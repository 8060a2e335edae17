---------------------------- MODULE MCTypeNames ----------------------------
EXTENDS TypeNames, TLC
MCSymmetry == Permutations(Names \ Builtins)
=============================================================================
