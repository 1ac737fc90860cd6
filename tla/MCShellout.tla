------------------------------ MODULE MCShellout ------------------------------
(* Shellout.tla for TLC: two patterns, one the end of the other, and a     *)
(* buffer the program overruns.                                            *)
EXTENDS Shellout

MCPattern == <<<<"a", "b">>, <<"b">>>>
=============================================================================
