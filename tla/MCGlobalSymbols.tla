-------------------------- MODULE MCGlobalSymbols --------------------------
EXTENDS GlobalSymbols, TLC
NameSymmetry == Permutations(Names)
=============================================================================
