---------------------------- MODULE MCTokenCache ----------------------------
(* Model-checking instance of TokenCache.                                  *)
EXTENDS TokenCache

=============================================================================
