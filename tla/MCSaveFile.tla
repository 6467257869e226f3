------------------------------ MODULE MCSaveFile ------------------------------
(***************************************************************************)
(* Two folders and three slots: a folder saved, copied and deleted beside  *)
(* another, with the slots in every order and the generation wrapping.     *)
(***************************************************************************)
EXTENDS SaveFile
===============================================================================
