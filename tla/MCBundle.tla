------------------------------- MODULE MCBundle -------------------------------
(* Bundle as the configuration runs it: secrets and texts are only compared *)
(* with one another, and the properties are invariants.                    *)
EXTENDS Bundle, TLC

Symmetry == Permutations(Secrets) \cup Permutations(Texts)
=============================================================================
