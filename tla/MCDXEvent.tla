------------------------------ MODULE MCDXEvent ------------------------------
(***************************************************************************)
(* The model-checking instance of DXQueue in which two streams signal and   *)
(* wait for the same event, as in the example of the README.                *)
(***************************************************************************)
EXTENDS DXQueue

CONSTANTS A, B, event

MCSignals == {A, B} \X {event}
MCWorkloads == {[s \in {A, B} |-> 2]}
=============================================================================
