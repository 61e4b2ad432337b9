------------------------------ MODULE MCRecovery ------------------------------
(* Recovery as the configurations run it.                                  *)
EXTENDS Recovery
=============================================================================
