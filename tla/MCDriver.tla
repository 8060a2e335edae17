------------------------------ MODULE MCDriver ------------------------------
EXTENDS Driver
\* Two files of one name in different directories, and another.
MCStemOf == [i \in Inputs |-> IF i = "b/x.c" THEN "x" ELSE
                              IF i = "a/x.c" THEN "x" ELSE "y"]
=============================================================================
