---------------------------- MODULE MCAuthClient ----------------------------
(* Symmetric callers for the model checker. *)
EXTENDS AuthClient, TLC

CallerSymmetry == Permutations(Callers)
=============================================================================
