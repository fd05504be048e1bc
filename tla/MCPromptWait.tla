---------------------------- MODULE MCPromptWait ----------------------------
(* Values of the constants of PromptWait for the model checker. *)
EXTENDS PromptWait

MCDefaultStates == DefaultSettledStates
=============================================================================
