---------------------------- MODULE MCTagScopes ----------------------------
EXTENDS TagScopes
\* The properties say nothing of a unit once it has strayed.
NotStrayed == ~strayed
=============================================================================
