------------------------- MODULE MCWaitForOperation -------------------------
(* Values of the constants of WaitForOperation for the model checker. *)
EXTENDS WaitForOperation

MCDefaultStates == DefaultSettledStates
=============================================================================
