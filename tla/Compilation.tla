---------------------------- MODULE Compilation ----------------------------
(***************************************************************************)
(* What the compiler promises of a command line: the inputs are compiled   *)
(* one by one, in order, each from its own text; one that cannot be        *)
(* compiled ends the command; success means that all of them were.         *)
(***************************************************************************)
EXTENDS Naturals, Sequences

VARIABLES
    inputs,    \* the command's inputs
    compiled,  \* the input that each result so far was made from
    outcome

vars == <<inputs, compiled, outcome>>

Init == compiled = <<>> /\ outcome = "running"

Compile ==
    /\ outcome = "running"
    /\ Len(compiled) < Len(inputs)
    /\ compiled' = Append(compiled, inputs[Len(compiled) + 1])
    /\ UNCHANGED <<inputs, outcome>>

Fail ==
    /\ outcome = "running"
    /\ outcome' = "failed"
    /\ UNCHANGED <<inputs, compiled>>

Succeed ==
    /\ outcome = "running"
    /\ compiled = inputs
    /\ outcome' = "succeeded"
    /\ UNCHANGED <<inputs, compiled>>

Next == Compile \/ Fail \/ Succeed

Safety == Init /\ [][Next]_vars

Spec == Safety /\ WF_vars(Next)
=============================================================================
