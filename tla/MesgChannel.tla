------------------------------ MODULE MesgChannel ------------------------------
(***************************************************************************)
(* What a libultra message queue promises its users, whatever implements   *)
(* it: a bounded first-in first-out channel.  A message is accepted only   *)
(* while there is room, and the message delivered is always the oldest one *)
(* accepted and not yet delivered.  Module PortQueue, the pthread          *)
(* implementation of the port, is shown to implement this.                 *)
(***************************************************************************)
EXTENDS Naturals, Sequences

CONSTANTS
  Mesg,       \* the messages
  NoMesg,     \* "nothing delivered yet"
  Capacity    \* how many messages the channel holds

VARIABLES
  q,          \* the messages in flight, oldest first
  delivered   \* the message handed over by the last delivery

Init ==
  /\ q = <<>>
  /\ delivered = NoMesg

Accept(m) ==
  /\ Len(q) < Capacity
  /\ q' = Append(q, m)
  /\ UNCHANGED delivered

Deliver ==
  /\ q # <<>>
  /\ delivered' = Head(q)
  /\ q' = Tail(q)

Next ==
  \/ \E m \in Mesg : Accept(m)
  \/ Deliver

vars == <<q, delivered>>

Spec == Init /\ [][Next]_vars
===============================================================================
