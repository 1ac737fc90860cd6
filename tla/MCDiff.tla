------------------------------- MODULE MCDiff -------------------------------
(* Instances of Diff for TLC. *)
EXTENDS Diff

CONSTANTS e1, e2
=============================================================================
