------------------------------ MODULE MCSvcond ------------------------------
(* Instances of Svcond for TLC. *)
EXTENDS Svcond, TLC

CONSTANTS p1, p2, p3

Symmetry == Permutations(Procs)

Zero == {0}
One  == {1}
None == {}
Benign  == {"wait_gate", "signal_unblock"}
InQueue == {"wait_queue"}
InGate  == {"signal_gate"}
=============================================================================
