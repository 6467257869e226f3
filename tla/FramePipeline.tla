----------------------------- MODULE FramePipeline -----------------------------
(***************************************************************************)
(* What the RCP scheduler promises the main loop: at most Depth frames are *)
(* submitted and not yet acknowledged, each frame submitted is completed   *)
(* once, in the order of submission, and each completion is reported to    *)
(* the main loop once.  Module RcpSched, the scheduler of src/sched.c with *)
(* its clients, implements it with a Depth of two.                         *)
(***************************************************************************)
EXTENDS Naturals, Sequences

CONSTANTS
  Frame,     \* the task structures a frame is submitted with
  Depth      \* how many frames may be in flight or reported and unread

VARIABLES
  inFlight,  \* frames submitted and not completed, oldest first
  reports    \* how many completions the main loop has yet to read

vars == <<inFlight, reports>>

Init == inFlight = <<>> /\ reports = 0

\* A task structure in flight is never submitted again.
Submit(f) ==
  /\ Len(inFlight) + reports < Depth
  /\ \A i \in DOMAIN inFlight : inFlight[i] # f
  /\ inFlight' = Append(inFlight, f)
  /\ UNCHANGED reports

Complete ==
  /\ inFlight # <<>>
  /\ inFlight' = Tail(inFlight)
  /\ reports' = reports + 1

Acknowledge ==
  /\ reports > 0
  /\ reports' = reports - 1
  /\ UNCHANGED inFlight

Next == (\E f \in Frame : Submit(f)) \/ Complete \/ Acknowledge

Spec == Init /\ [][Next]_vars
===============================================================================
