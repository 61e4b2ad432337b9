---------------------------- MODULE MCInvocation ----------------------------
(* Invocation with the bounds of Invocation.cfg.                           *)
EXTENDS Invocation
=============================================================================
