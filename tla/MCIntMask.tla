------------------------------- MODULE MCIntMask -------------------------------
(***************************************************************************)
(* Instances of IntMask for TLC: three threads contend for the section in  *)
(* the program, the scheduler (musicFadeTick), the main thread and the     *)
(* audio manager, one more may be a transient thread.                      *)
(***************************************************************************)
EXTENDS IntMask
===============================================================================
