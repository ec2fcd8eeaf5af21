---------------------------- MODULE MCApiClient -----------------------------
(* Model-checking instance of ApiClient.                                   *)
EXTENDS ApiClient, TLC

CallerSymmetry == Permutations(Callers)

=============================================================================
