---------------------------- MODULE MCConversions ----------------------------
EXTENDS Conversions
=============================================================================
