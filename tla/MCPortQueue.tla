------------------------------ MODULE MCPortQueue ------------------------------
(***************************************************************************)
(* PortQueue for TLC: one blocking sender, one blocking receiver, two      *)
(* distinguishable messages and a ring of three slots, so that first and   *)
(* first + validCount both wrap and the queue is seen full and empty.      *)
(***************************************************************************)
EXTENDS PortQueue
===============================================================================
