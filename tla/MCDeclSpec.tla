----------------------------- MODULE MCDeclSpec -----------------------------
EXTENDS DeclSpec, TLC
MCSymmetry == Permutations(Boxed)
=============================================================================
