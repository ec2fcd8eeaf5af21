-------------------------- MODULE MCClusterLifecycle --------------------------
(* Model-checking instance of ClusterLifecycle.                            *)
EXTENDS ClusterLifecycle

=============================================================================
