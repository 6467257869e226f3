------------------------------- MODULE SndPlayer -------------------------------
(***************************************************************************)
(* The sound effect player, src/snd.c, and its event queue,                *)
(* src/libultra/audio/event.c.  The main thread starts sounds, stops them  *)
(* and changes their volume; the audio manager handles one event after the *)
(* other, of which a sound has one at a time: play, decay, stop, end.      *)
(*                                                                         *)
(* The event queue is changed under the interrupt mask, so each of its     *)
(* operations is one step, and none is taken by the audio manager while    *)
(* the main thread walks the list of sounds under the mask.  The lists of  *)
(* sounds are changed by the main thread under the mask and by the audio   *)
(* manager without it; each of the two changes is one step all the same.   *)
(*                                                                         *)
(* Left out are sounds that are retriggered or slide in pitch, volumes,    *)
(* and the events of sndCreatePostEvent, which posts nothing in the port.  *)
(***************************************************************************)
EXTENDS Integers, FiniteSets, SequencesExt

CONSTANTS
  NumStates,  \* maybeSndStateCount (64)
  MaxEvents,  \* items of the event queue (64)
  MaxSounds,  \* maxSounds (8)
  Sounds,     \* sounds, each the list of its parts
  Frame,      \* 33 ms, in units of Short
  Short,      \* 1 ms
  Attack, Decay, Release,
  Retries     \* how often a sound waits a frame for a voice (2)

Part == [looped : BOOLEAN, delay : Nat]

ASSUME SndAssumption ==
  /\ NumStates \in Nat \ {0} /\ MaxEvents \in Nat \ {0} /\ MaxSounds \in Nat \ {0}
  /\ Sounds \subseteq Seq(Part) \ {<<>>}
  /\ {Frame, Short} \subseteq Nat \ {0} /\ {Attack, Decay, Release, Retries} \subseteq Nat

State == 1 .. NumStates
NULL == 0

Type == {"PLAY", "STOP", "API", "DECAY", "END", "DEACTIVATE", "RELEASE", "UNKNOWN_12"}
Ev(type, s) == [type |-> type, state |-> s]
Heartbeat == Ev("API", NULL)
NoEvent == Ev("none", NULL)
Event == [type : Type, state : State \cup {NULL}]

VARIABLES
  events,      \* allocList of the event queue: a sequence of [event, delta]
  nextEvent,   \* the event taken from it
  todo,        \* what the audio manager has yet to do for that event
  next, prev,  \* link of each sound state
  head,        \* g_sndPlayerSoundStatePtr: the first free sound state
  first, last, \* D_800243E4.node: the first and the last one in use
  sound,       \* sound, playingState, unk38, unk3e and state of each
  count,       \* g_sndAllocatedVoicesCount
  handle,      \* where the game keeps a pointer to a sound of its own
  main,        \* what the main thread is doing
  \* history
  overlapped,  \* a sound was disposed of, or cut off, in the middle of a start or a walk
  dropped      \* an event was refused

queue == <<events, nextEvent>>
lists == <<next, prev, head, first, last>>
vars == <<queue, todo, lists, sound, count, handle, main, overlapped, dropped>>

Silent == [set |-> FALSE, playingState |-> "NONE", unk38 |-> 0, owned |-> FALSE,
           looped |-> FALSE, playing |-> FALSE, final |-> FALSE]
Idle == [pc |-> "idle", item |-> NULL, latest |-> NULL, parts |-> <<>>, pending |-> FALSE]

TypeOK ==
  /\ events \in Seq([event : Event, delta : Nat]) /\ Len(events) <= MaxEvents
  /\ nextEvent \in Event \cup {NoEvent}
  /\ {next, prev} \subseteq [State -> State \cup {NULL}]
  /\ {head, first, last, handle, main.item, main.latest} \subseteq State \cup {NULL}
  /\ sound \in [State -> [set : BOOLEAN, owned : BOOLEAN, looped : BOOLEAN, playing : BOOLEAN,
                          final : BOOLEAN, unk38 : 0 .. Retries,
                          playingState : {"NONE", "PLAYING", "STOPPING", "PREEMPT",
                                          "WAIT_VOICE", "INIT"}]]
  /\ count \in Int /\ overlapped \in BOOLEAN /\ dropped \in BOOLEAN

\* sndNewPlayerInit
Init ==
  /\ events = <<>> /\ nextEvent = Heartbeat /\ todo = <<>>
  /\ next = [s \in State |-> IF s = NumStates THEN NULL ELSE s + 1]
  /\ prev = [s \in State |-> s - 1]
  /\ head = 1 /\ first = NULL /\ last = NULL
  /\ sound = [s \in State |-> Silent]
  /\ count = 0 /\ handle = NULL /\ main = Idle
  /\ overlapped = FALSE /\ dropped = FALSE

-------------------------------------------------------------------------------
(* The event queue: alEvtqPostEvent, alEvtqNextEvent and sndRemoveEvents.  *)

\* The new event goes ahead of the first that is due after it.
Passed(delay, delta) == delay >= delta

PostStep(s, item) ==
  IF s.placed THEN [s EXCEPT !.list = Append(@, item)]
  ELSE IF Passed(s.delay, item.delta)
       THEN [s EXCEPT !.list = Append(@, item), !.delay = @ - item.delta]
  ELSE [s EXCEPT !.list = @ \o <<[event |-> s.event, delta |-> s.delay],
                                 [item EXCEPT !.delta = @ - s.delay]>>,
                 !.placed = TRUE]

Posted(list, e, delay) ==
  LET s == FoldLeft(PostStep, [event |-> e, delay |-> delay, list |-> <<>>, placed |-> FALSE], list)
  IN IF s.placed THEN s.list ELSE Append(s.list, [event |-> e, delta |-> s.delay])

Post(e, delay) ==
  IF Len(events) = MaxEvents
  THEN dropped' = TRUE /\ UNCHANGED events
  ELSE events' = Posted(events, e, delay) /\ UNCHANGED dropped

NextEvent ==
  IF events = <<>> THEN nextEvent' = NoEvent /\ UNCHANGED events
  ELSE nextEvent' = Head(events).event /\ events' = Tail(events)

\* The time of an event taken out is added to the one behind it
\* (faulty variant of Carried: it is lost).
NothingCarried(delta) == 0
Carried(delta) == delta

WithoutEvents(list, s, types) ==
  LET Step(r, item) ==
        LET delta == item.delta + r.carry
        IN IF item.event.state = s /\ item.event.type \in types
           THEN [r EXCEPT !.carry = Carried(delta)]
           ELSE [list |-> Append(r.list, [item EXCEPT !.delta = delta]), carry |-> 0]
  IN FoldLeft(Step, [list |-> <<>>, carry |-> 0], list).list

-------------------------------------------------------------------------------
(* The lists of sound states.                                              *)

\* alUnlink: the neighbours of s are linked with each other.
NextUnlinked(s) == IF prev[s] = NULL THEN next ELSE [next EXCEPT ![prev[s]] = next[s]]
PrevUnlinked(s) == IF next[s] = NULL THEN prev ELSE [prev EXCEPT ![next[s]] = prev[s]]

\* What sndSetupSound does under the mask to the state s it found free before.
TakeState(s) ==
  /\ head' = next[s]
  /\ IF first # NULL
     THEN /\ next' = [NextUnlinked(s) EXCEPT ![s] = first]
          /\ prev' = [PrevUnlinked(s) EXCEPT ![s] = NULL, ![first] = s]
          /\ first' = s /\ UNCHANGED last
     ELSE /\ next' = [NextUnlinked(s) EXCEPT ![s] = NULL]
          /\ prev' = [PrevUnlinked(s) EXCEPT ![s] = NULL]
          /\ first' = s /\ last' = s

\* The last state in use once s is freed (faulty variant: it is kept).
LastKept(s) == last
LastWithout(s) == IF s = last THEN prev[s] ELSE last

\* sndUnlinkClearSound: the lists
FreeState(s) ==
  /\ first' = (IF s = first THEN next[s] ELSE first)
  /\ last' = LastWithout(s)
  /\ next' = [NextUnlinked(s) EXCEPT ![s] = head]
  /\ prev' = (IF head = NULL THEN [PrevUnlinked(s) EXCEPT ![s] = NULL]
              ELSE [PrevUnlinked(s) EXCEPT ![s] = NULL, ![head] = s])
  /\ head' = s

\* The states reached from s.
Chain(link, s) ==
  LET c[n \in 0 .. NumStates] ==
        IF n = 0 THEN s ELSE IF c[n - 1] = NULL THEN NULL ELSE link[c[n - 1]]
  IN c

-------------------------------------------------------------------------------
(* The main thread.                                                        *)

\* (bound: the game begins nothing more once one of these has happened)
Unspoilt == ~overlapped /\ ~dropped

Doing(op) == todo # <<>> /\ Head(todo).op = op
MaskFree == main.pc \notin {"DEACTIVATE", "RELEASE"}
Starting == main.pc \in {"take", "fill", "post", "read", "finish"}

\* sndPlaySfx, for one part of the sound after the other: sndSetupSound looks for
\* a free state before it takes the mask.  Without one the sound ends here.
Look(m) ==
  main' = IF head # NULL THEN [m EXCEPT !.pc = "take", !.item = head]
          ELSE [m EXCEPT !.pc = "finish", !.item = NULL]

PlaySfx ==
  /\ main.pc = "idle" /\ Unspoilt
  /\ \E parts \in Sounds : Look([Idle EXCEPT !.parts = parts, !.pending = (handle = NULL)])
  /\ UNCHANGED <<queue, todo, lists, sound, count, handle, overlapped, dropped>>

LookAgain ==
  /\ main.pc = "read" /\ Look(main)
  /\ UNCHANGED <<queue, todo, lists, sound, count, handle, overlapped, dropped>>

Take ==
  /\ main.pc = "take" /\ TakeState(main.item)
  /\ main' = [main EXCEPT !.pc = "fill"]
  /\ overlapped' = (overlapped \/ (Doing("remove") /\ Head(todo).state = main.item))
  /\ UNCHANGED <<queue, todo, sound, count, handle, dropped>>

Fill ==
  /\ main.pc = "fill"
  /\ sound' = [sound EXCEPT ![main.item] =
                 [Silent EXCEPT !.set = TRUE, !.playingState = "INIT", !.unk38 = Retries,
                                !.looped = Head(main.parts).looped]]
  /\ main' = [main EXCEPT !.pc = "post"]
  /\ UNCHANGED <<queue, todo, lists, count, handle, overlapped, dropped>>

PostPlay ==
  /\ main.pc = "post"
  /\ Post(Ev("PLAY", main.item), Head(main.parts).delay * Frame + 1)
  /\ main' = [main EXCEPT !.pc = IF Len(main.parts) = 1 THEN "finish" ELSE "read",
                          !.latest = main.item, !.parts = Tail(@)]
  /\ UNCHANGED <<nextEvent, todo, lists, sound, count, handle, overlapped>>

Finish ==
  /\ main.pc = "finish" /\ main' = Idle
  /\ sound' = IF main.latest = NULL THEN sound
              ELSE [sound EXCEPT ![main.latest].final = TRUE,
                                 ![main.latest].owned = main.pending]
  /\ handle' = IF main.pending THEN main.latest ELSE handle
  /\ UNCHANGED <<queue, todo, lists, count, overlapped, dropped>>

\* A sound of the game's own is stopped if it is found to be playing.
Check ==
  /\ main.pc = "idle" /\ Unspoilt /\ handle # NULL /\ sound[handle].playingState # "NONE"
  /\ main' = [Idle EXCEPT !.pc = "deactivate", !.item = handle]
  /\ UNCHANGED <<queue, todo, lists, sound, count, handle, overlapped, dropped>>

Deactivate ==
  /\ main.pc = "deactivate" /\ main' = Idle
  /\ Post(Ev("DEACTIVATE", main.item), 0)
  /\ UNCHANGED <<nextEvent, todo, lists, sound, count, handle, overlapped>>

\* sndDeactivateAllSfxByFlag and sndSetSfxSlotVolume: the mask is held from the
\* first state to the end of the list.
Walk ==
  /\ main.pc = "idle" /\ Unspoilt /\ first # NULL
  /\ \E type \in {"DEACTIVATE", "RELEASE"} : main' = [Idle EXCEPT !.pc = type, !.item = first]
  /\ UNCHANGED <<queue, todo, lists, sound, count, handle, overlapped, dropped>>

WalkStep ==
  /\ ~MaskFree
  /\ LET s == main.item
     IN /\ IF IF main.pc = "RELEASE" THEN sound[s].set ELSE sound[s].final
           THEN Post(Ev(main.pc, s), 0)
           ELSE UNCHANGED <<events, dropped>>
        /\ main' = IF next[s] = NULL THEN Idle ELSE [main EXCEPT !.item = next[s]]
  /\ UNCHANGED <<nextEvent, todo, lists, sound, count, handle, overlapped>>

-------------------------------------------------------------------------------
(* The audio manager: sndPlayerVoiceHandler.                               *)

ToPost(e, delay) == [op |-> "post", event |-> e, delay |-> delay]
ToRemove(s, types) == [op |-> "remove", state |-> s, types |-> types]
ToDispose(s) == <<[op |-> "dispose", state |-> s], ToRemove(s, Type)>>
ToGoOn(type, s) == [op |-> "go on", event |-> Ev(type, s)]
ToGetNext == [op |-> "next"]

\* What is done for an event comes before what was to follow it: the next event.
Do(ops) == todo' = ops \o (IF todo = <<>> THEN <<ToGetNext>> ELSE Tail(todo))

\* The last sound with a voice that may be cut off for another
Victims ==
  LET c == Chain(prev, last)
      may(n) == /\ c[n] # NULL /\ sound[c[n]].playing /\ ~sound[c[n]].looped
                /\ sound[c[n]].playingState # "PREEMPT"
  IN {c[n] : n \in {k \in 0 .. (NumStates - 1) : may(k) /\ \A j \in 0 .. (k - 1) : ~may(j)}}

LimitReached == MaxSounds <= count

\* AL_SNDP_PLAY_EVT: there is a voice, or the sound waits a frame for one, or
\* another sound is cut off for it, or it is given up.
HandlePlay(s) ==
  IF sound[s].playingState \notin {"INIT", "WAIT_VOICE"}
  THEN Do(<<>>) /\ UNCHANGED <<sound, count>>
  ELSE \/ /\ ~LimitReached
          /\ sound' = [sound EXCEPT ![s].playing = TRUE, ![s].playingState = "PLAYING"]
          /\ count' = count + 1
          /\ Do(<<ToPost(Ev("DECAY", s), Attack)>>)
       \/ /\ sound[s].looped \/ sound[s].unk38 > 0
          /\ sound' = [sound EXCEPT ![s].playingState = "WAIT_VOICE",
                                    ![s].unk38 = IF @ = 0 THEN 0 ELSE @ - 1]
          /\ Do(<<ToPost(Ev("PLAY", s), Frame)>>)
          /\ UNCHANGED count
       \/ /\ ~sound[s].looped /\ sound[s].unk38 = 0 /\ LimitReached
          /\ \E v \in Victims :
               /\ sound' = [sound EXCEPT ![v].playingState = "PREEMPT", ![s].unk38 = Retries]
               /\ Do(<<ToPost(Ev("END", v), Short), ToPost(Ev("PLAY", s), Short + 1)>>)
          /\ UNCHANGED count
       \/ /\ ~sound[s].looped /\ sound[s].unk38 = 0 /\ (LimitReached => Victims = {})
          /\ Do(ToDispose(s))
          /\ UNCHANGED <<sound, count>>

\* AL_SNDP_DECAY_EVT: a sound that is not looped will be stopped.
HandleDecay(s) == Do(IF sound[s].looped THEN <<>> ELSE <<ToPost(Ev("STOP", s), Decay)>>)

\* How a sound is stopped (faulty variant: all its events go, its end with them).
StopOpsEndLost(s) ==
  IF sound[s].playingState = "PLAYING"
  THEN <<ToPost(Ev("END", s), Release), ToRemove(s, Type)>>
  ELSE IF sound[s].playingState \in {"WAIT_VOICE", "INIT"} THEN ToDispose(s) ELSE <<>>
StopOps(s) ==
  CASE sound[s].playingState = "PLAYING" ->
         <<ToRemove(s, {"DECAY"})>>
           \o (IF Release = 0 THEN ToDispose(s) ELSE <<ToPost(Ev("END", s), Release)>>)
    [] sound[s].playingState \in {"WAIT_VOICE", "INIT"} -> ToDispose(s)
    [] OTHER -> <<>>

\* The events that stop sounds; UNKNOWN_12 stops the looped parts of one only.
HandleStop(type, s) ==
  LET stops == type # "UNKNOWN_12" \/ sound[s].looped
  IN /\ Do((IF stops THEN StopOps(s) ELSE <<>>)
            \o <<ToGoOn(IF type = "STOP" THEN "UNKNOWN_12" ELSE type, next[s])>>)
     /\ sound' = IF stops /\ sound[s].playingState = "PLAYING" /\ Release # 0
                 THEN [sound EXCEPT ![s].playingState = "STOPPING"] ELSE sound

Nothing == Do(<<>>) /\ UNCHANGED <<sound, count>>

\* sndHandleEvent: some events are for one sound, the others for all its parts.
HandleOne(type, s) ==
  \/ type = "PLAY" /\ HandlePlay(s)
  \/ type = "DECAY" /\ HandleDecay(s) /\ UNCHANGED <<sound, count>>
  \/ type = "END" /\ Do(ToDispose(s)) /\ UNCHANGED <<sound, count>>

HandlePart(type, s) ==
  \/ type \in {"STOP", "DEACTIVATE", "UNKNOWN_12"} /\ HandleStop(type, s) /\ UNCHANGED count
  \/ type = "RELEASE" /\ Do(<<ToGoOn(type, next[s])>>) /\ UNCHANGED <<sound, count>>

Handle(type, s) ==
  IF ~sound[s].set THEN Nothing
  ELSE IF type \in {"PLAY", "DECAY", "END"} THEN HandleOne(type, s) ELSE HandlePart(type, s)

\* The player's own event comes again and again; the one alEvtqNextEvent makes up
\* when there is none means nothing.
HandleEvent ==
  /\ todo = <<>>
  /\ \/ /\ nextEvent = Heartbeat
        /\ Do(<<ToPost(Heartbeat, Frame)>>) /\ UNCHANGED <<sound, count>>
     \/ nextEvent = NoEvent /\ Nothing
     \/ /\ nextEvent \notin {Heartbeat, NoEvent}
        /\ Handle(nextEvent.type, nextEvent.state)
  /\ overlapped' = (overlapped
                      \/ (main.pc = "fill" /\ sound'[main.item] # sound[main.item]))
  /\ UNCHANGED <<queue, lists, handle, main, dropped>>

\* The event is for the next sound as well, unless that is the last part of another.
GoOn ==
  /\ Doing("go on")
  /\ LET e == Head(todo).event
     IN IF \/ e.state = NULL
           \/ e.state # NULL /\ (sound[e.state].final \/ ~sound[e.state].set)
        THEN Nothing ELSE HandlePart(e.type, e.state)
  /\ UNCHANGED <<queue, lists, handle, main, overlapped, dropped>>

PostEvent ==
  /\ Doing("post") /\ MaskFree
  /\ Post(Head(todo).event, Head(todo).delay) /\ Do(<<>>)
  /\ UNCHANGED <<nextEvent, lists, sound, count, handle, main, overlapped>>

\* sndDisposeSound: sndUnlinkClearSound, and then sndRemoveEvents
Dispose ==
  /\ Doing("dispose") /\ Do(<<>>)
  /\ LET s == Head(todo).state
     IN /\ FreeState(s)
        /\ sound' = [sound EXCEPT ![s].playingState = "NONE", ![s].owned = FALSE]
        /\ count' = IF sound[s].playing THEN count - 1 ELSE count
        /\ handle' = IF sound[s].owned /\ handle = s THEN NULL ELSE handle
        /\ overlapped' = (overlapped \/ main.pc = "take" \/ ~MaskFree
                            \/ (Starting /\ s \in {main.item, main.latest}))
  /\ UNCHANGED <<queue, main, dropped>>

RemoveEvents ==
  /\ Doing("remove") /\ MaskFree /\ Do(<<>>)
  /\ events' = WithoutEvents(events, Head(todo).state, Head(todo).types)
  /\ UNCHANGED <<nextEvent, lists, sound, count, handle, main, overlapped, dropped>>

GetNext ==
  /\ Doing("next") /\ MaskFree /\ Do(<<>>)
  /\ NextEvent
  /\ UNCHANGED <<lists, sound, count, handle, main, overlapped, dropped>>

-------------------------------------------------------------------------------
Game ==
  \/ PlaySfx \/ Check \/ Walk
  \/ Take \/ Fill \/ PostPlay \/ LookAgain \/ Finish \/ Deactivate \/ WalkStep

Audio == HandleEvent \/ GoOn \/ PostEvent \/ Dispose \/ RemoveEvents \/ GetNext

Next == Game \/ Audio

Spec == Init /\ [][Next]_vars

-------------------------------------------------------------------------------
(* Properties.                                                             *)

Agenda ==
  LET due[i \in 0 .. Len(events)] == IF i = 0 THEN 0 ELSE due[i - 1] + events[i].delta
  IN [i \in 1 .. Len(events) |-> [event |-> events[i].event, due |-> due[i]]]

Schedule == INSTANCE EventSchedule WITH
  None <- NoEvent, Capacity <- MaxEvents,
  agenda <- Agenda, current <- nextEvent

\* Each event comes when it was posted for, whatever is posted ahead of it or taken
\* out from before it in the meantime, and those due at once come in order.
ImplementsSchedule == Schedule!Spec

\* As long as no sound was disposed of or cut off in the middle of a start or a walk, each
\* state is on one of the two lists, both are linked soundly in both directions,
\* the voices are counted right and the game's pointer is to a sound in use.
SoundsAccounted ==
  LET free == {Chain(next, head)[n] : n \in 0 .. NumStates} \ {NULL}
      used == {Chain(next, first)[n] : n \in 0 .. NumStates} \ {NULL}
  IN ~overlapped =>
       /\ free \cup used = State /\ free \cap used = {}
       /\ \A s \in State : next[s] # NULL => prev[next[s]] = s
       /\ used # {} => next[last] = NULL /\ last \in used
       /\ count = Cardinality({s \in used : sound[s].playing /\ sound[s].playingState # "NONE"})
       /\ handle # NULL => handle \in used /\ sound[handle].owned

\* A sound in use has an event to come, or one being handled, that will end it or
\* lead to one that does; a looped one may play without.
SoundHasEvent ==
  LET coming == {events[i].event : i \in DOMAIN events}
        \cup (IF todo = <<>> THEN {nextEvent} ELSE {})
        \cup {todo[i].event : i \in {j \in DOMAIN todo : todo[j].op = "post"}}
      ending == {todo[i].state : i \in {j \in DOMAIN todo : todo[j].op = "dispose"}}
  IN Unspoilt =>
       \A s \in State \ {main.item} :
         \/ sound[s].playingState = "NONE" \/ s \in ending
         \/ sound[s].looped /\ sound[s].playingState = "PLAYING"
         \/ \E type \in {"PLAY", "DECAY", "STOP", "END"} : Ev(type, s) \in coming

\* The comment in sndSetSfxSlotVolume: under the mask the walk is atomic with respect
\* to the audio manager.  So the state it has come to is one in use.
WalkIsAtomic ==
  ~MaskFree => main.item \in {Chain(next, first)[n] : n \in 0 .. NumStates}
===============================================================================
