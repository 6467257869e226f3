------------------------------ MODULE MCRcpSched ------------------------------
(***************************************************************************)
(* Small instances of RcpSched for TLC.  The queue sizes are the only      *)
(* constants; the configurations choose sizes at which each queue fills.   *)
(***************************************************************************)
EXTENDS RcpSched
===============================================================================
