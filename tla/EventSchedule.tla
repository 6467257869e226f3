----------------------------- MODULE EventSchedule -----------------------------
(***************************************************************************)
(* What the event queue of the audio library promises: an agenda of events *)
(* in the order in which they fall due, those due at once in the order in  *)
(* which they were posted.  The agenda is short; one event too many is     *)
(* refused, which is a step that changes nothing.                          *)
(***************************************************************************)
EXTENDS Integers, SequencesExt

CONSTANTS Event, None, Capacity

VARIABLES
  agenda,   \* the events to come, each with the time from the current one
  current   \* the event last delivered, None if there was none to deliver

Entry == [event : Event, due : Nat]

Init == agenda = <<>> /\ current \in Event

\* An event is put in at a place that keeps the order.
Post(place) ==
  /\ Len(agenda) < Capacity /\ Len(agenda') = Len(agenda) + 1
  /\ agenda' = InsertAt(agenda, place, agenda'[place])
  /\ agenda'[place] \in Entry
  /\ \A i \in 1 .. (place - 1) : agenda'[i].due <= agenda'[place].due
  /\ \A i \in (place + 1) .. Len(agenda') : agenda'[place].due < agenda'[i].due
  /\ UNCHANGED current

\* The next event becomes the current one, from which time then counts.
Deliver ==
  IF agenda = <<>> THEN current' = None /\ UNCHANGED agenda
  ELSE /\ current' = Head(agenda).event
       /\ agenda' = [i \in 1 .. (Len(agenda) - 1) |->
                       [agenda[i + 1] EXCEPT !.due = @ - Head(agenda).due]]

\* Some events are called off; the n that are kept stay in order, and due when they were.
CallOff(n) ==
  /\ \E kept \in [1 .. n -> DOMAIN agenda] :
       /\ \A i, j \in 1 .. n : i < j => kept[i] < kept[j]
       /\ agenda' = [i \in 1 .. n |-> agenda[kept[i]]]
  /\ UNCHANGED current

Next ==
  \/ \E place \in 1 .. (Len(agenda) + 1) : Post(place)
  \/ Deliver
  \/ \E n \in 0 .. Len(agenda) : CallOff(n)

Spec == Init /\ [][Next]_<<agenda, current>>
===============================================================================
