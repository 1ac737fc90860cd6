---------------------------- MODULE MCSvsemOpen ----------------------------
(* Instances of SvsemOpen for TLC. *)
EXTENDS SvsemOpen

CONSTANTS p1, p2
=============================================================================
