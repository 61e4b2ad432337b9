---------------------------- MODULE MCConcurrent ----------------------------
(* Concurrent as the configuration runs it: one second terminal, one port. *)
EXTENDS Concurrent
=============================================================================
