----------------------------- MODULE MCContainers -----------------------------
(***************************************************************************)
(* Containers.tla for TLC: tables that grow and shrink, an array that      *)
(* doubles and halves, a list whose cache overflows, memory for two or     *)
(* three cells, a pool for one condition variable and a half, a table of   *)
(* three lists of messages and five to add.                                *)
(***************************************************************************)
EXTENDS Containers

MCNode == 1 .. 4
MCKey == 1 .. 6
MCHash == <<0, 1, 1, 2, 7, 8>>
MCTableSizes == <<3, 5>>
MCMsgList == [a |-> <<0, 0>>, b |-> <<1, 0, 0, 5>>, c |-> <<0, 3, 1>>, d |-> <<0, 0, 0>>, e |-> <<1>>]
=============================================================================
