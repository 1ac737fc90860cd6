------------------------------ MODULE MCPylcs ------------------------------
(* Instances of Pylcs for TLC. *)
EXTENDS Pylcs

CONSTANTS s1, s2, c1, c2
=============================================================================
