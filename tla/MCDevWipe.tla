------------------------------ MODULE MCDevWipe ------------------------------
(* DevWipe as the configurations run it.                                   *)
EXTENDS DevWipe
=============================================================================
