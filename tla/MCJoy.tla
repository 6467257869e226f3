--------------------------------- MODULE MCJoy ---------------------------------
(***************************************************************************)
(* Instances of Joy for TLC.  Four slots are the least in which a window   *)
(* of several samples, a free slot and the wrap can occur together.        *)
(***************************************************************************)
EXTENDS Joy
===============================================================================
