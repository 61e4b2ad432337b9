---------------------------- MODULE MCLifecycle ----------------------------
(* Lifecycle as the configurations run it.                                 *)
EXTENDS Lifecycle
=============================================================================
