------------------------------- MODULE PortQueue -------------------------------
(***************************************************************************)
(* One OSMesgQueue as the port implements it (port/src/libultra.c): a ring *)
(* buffer under a pthread mutex, with ONE condition variable on which both *)
(* the threads that wait for room and the threads that wait for a message  *)
(* sleep, and pthread_cond_signal (not broadcast) after every change.      *)
(*                                                                         *)
(* Every critical section, from pthread_mutex_lock to the unlock or to the *)
(* pthread_cond_wait that releases the mutex, is one step.  A thread that  *)
(* is signalled re-acquires the mutex and re-tests its condition in a      *)
(* later step of its own, so other threads may get in between.             *)
(***************************************************************************)
EXTENDS Integers, Sequences

CONSTANTS
  Senders,     \* threads that call osSendMesg(.., OS_MESG_BLOCK)
  Receivers,   \* threads that call osRecvMesg(.., OS_MESG_BLOCK)
  Mesg,        \* the messages
  NoMesg,      \* the content of a slot nobody has written
  MsgCount     \* mq->msgCount, the number of slots

(***************************************************************************)
(* No queue of the program has two threads blocked on the same side: the   *)
(* frame queue is filled under OS_MESG_BLOCK by the scheduler and emptied  *)
(* by the main thread, cmdQ is filled under OS_MESG_BLOCK by the main      *)
(* thread only, the audio reply queue by the scheduler and emptied by the  *)
(* audio manager, the joy handshake queues are waited on by the main       *)
(* thread only.  Everything else uses OS_MESG_NOBLOCK.                     *)
(***************************************************************************)
ASSUME MsgCountAssumption == MsgCount \in Nat \ {0}
ASSUME OneOfEach ==
  /\ \A s1, s2 \in Senders : s1 = s2
  /\ \A r1, r2 \in Receivers : r1 = r2
  /\ Senders \cap Receivers = {}

Threads == Senders \cup Receivers
Slots == 0 .. (MsgCount - 1)

VARIABLES
  msg,         \* mq->msg, the ring of slots
  first,       \* mq->first, the slot of the oldest message
  validCount,  \* mq->validCount, how many messages are queued
  cond,        \* the threads asleep in pthread_cond_wait(&pq->cond)
  call,        \* what each thread is doing: "none", "send" or "recv"
  arg,         \* the message each sending thread was called with
  got          \* the message the last dequeue returned

vars == <<msg, first, validCount, cond, call, arg, got>>
ring == <<msg, first, validCount>>

Init ==
  /\ msg = [i \in Slots |-> NoMesg]
  /\ first = 0
  /\ validCount = 0
  /\ cond = {}
  /\ call = [t \in Threads |-> "none"]
  /\ arg = [t \in Threads |-> NoMesg]
  /\ got = NoMesg

-------------------------------------------------------------------------------
(* The pieces of the critical sections.                                    *)

Full == validCount >= MsgCount
Empty == validCount = 0

\* (faulty variant of a signal: nobody is woken)
NoSignal == UNCHANGED cond

\* pthread_cond_signal: wakes one sleeper, any one, if there is one.
SignalOne ==
  \/ cond = {} /\ UNCHANGED cond
  \/ \E t \in cond : cond' = cond \ {t}

\* the signal after a removal, for the sake of a thread waiting for room
SignalRemoval == SignalOne

\* (faulty variant of Store: overwrites the oldest message)
StoreAtFirst(m) ==
  /\ msg' = [msg EXCEPT ![first] = m]
  /\ validCount' = validCount + 1
  /\ UNCHANGED <<first, got>>

Store(m) ==
  /\ msg' = [msg EXCEPT ![(first + validCount) % MsgCount] = m]
  /\ validCount' = validCount + 1
  /\ UNCHANGED <<first, got>>

Remove ==
  /\ got' = msg[first]
  /\ first' = (first + 1) % MsgCount
  /\ validCount' = validCount - 1
  /\ UNCHANGED msg

-------------------------------------------------------------------------------
(* osSendMesg and osRecvMesg with OS_MESG_BLOCK.                           *)

CallSend(t, m) ==
  /\ call[t] = "none"
  /\ call' = [call EXCEPT ![t] = "send"]
  /\ arg' = [arg EXCEPT ![t] = m]
  /\ UNCHANGED <<ring, cond, got>>

\* while (validCount >= msgCount) pthread_cond_wait(..)
SendWaits(t) ==
  /\ call[t] = "send" /\ t \notin cond
  /\ Full
  /\ cond' = cond \cup {t}
  /\ UNCHANGED <<ring, call, arg, got>>

SendStores(t) ==
  /\ call[t] = "send" /\ t \notin cond
  /\ ~Full
  /\ Store(arg[t])
  /\ SignalOne
  /\ call' = [call EXCEPT ![t] = "none"]
  /\ UNCHANGED arg

CallRecv(t) ==
  /\ call[t] = "none"
  /\ call' = [call EXCEPT ![t] = "recv"]
  /\ UNCHANGED <<ring, cond, arg, got>>

\* while (validCount == 0) pthread_cond_wait(..)
RecvWaits(t) ==
  /\ call[t] = "recv" /\ t \notin cond
  /\ Empty
  /\ cond' = cond \cup {t}
  /\ UNCHANGED <<ring, call, arg, got>>

RecvRemoves(t) ==
  /\ call[t] = "recv" /\ t \notin cond
  /\ ~Empty
  /\ Remove
  /\ SignalRemoval
  /\ call' = [call EXCEPT ![t] = "none"]
  /\ UNCHANGED arg

-------------------------------------------------------------------------------
(* The calls that never wait.  When there is no room (no message) they     *)
(* return -1 or do nothing, which changes no state.                        *)

\* osSendMesg(.., OS_MESG_NOBLOCK) and osEnqueueMesg, from any thread
PostMesg(m) ==
  /\ ~Full
  /\ Store(m)
  /\ SignalOne
  /\ UNCHANGED <<call, arg>>

\* osRecvMesg(.., OS_MESG_NOBLOCK) and osDequeueMesg, from any thread
PollMesg ==
  /\ ~Empty
  /\ Remove
  /\ SignalRemoval
  /\ UNCHANGED <<call, arg>>

\* POSIX lets pthread_cond_wait return without a signal
SpuriousWakeup(t) ==
  /\ t \in cond
  /\ cond' = cond \ {t}
  /\ UNCHANGED <<ring, call, arg, got>>

Next ==
  \/ \E t \in Senders : \/ \E m \in Mesg : CallSend(t, m)
                        \/ SendWaits(t)
                        \/ SendStores(t)
  \/ \E t \in Receivers : CallRecv(t) \/ RecvWaits(t) \/ RecvRemoves(t)
  \/ \E m \in Mesg : PostMesg(m)
  \/ PollMesg
  \/ \E t \in Threads : SpuriousWakeup(t)

\* A thread that is awake inside a call gets the mutex eventually: the critical
\* sections are finite and a pthread mutex is not held across a call.
Fairness ==
  /\ \A t \in Senders : WF_vars(SendWaits(t)) /\ WF_vars(SendStores(t))
  /\ \A t \in Receivers : WF_vars(RecvWaits(t)) /\ WF_vars(RecvRemoves(t))

Spec == Init /\ [][Next]_vars
FairSpec == Spec /\ Fairness

-------------------------------------------------------------------------------
(* Properties.                                                             *)

\* The ring indices stay inside the buffer and only threads inside a call sleep
\* on the condition variable (osSendMesg and osRecvMesg of libultra.c).
TypeOK ==
  /\ msg \in [Slots -> Mesg \cup {NoMesg}]
  /\ first \in Slots
  /\ validCount \in 0 .. MsgCount
  /\ cond \in SUBSET Threads
  /\ call \in [Threads -> {"none", "send", "recv"}]
  /\ arg \in [Threads -> Mesg \cup {NoMesg}]
  /\ got \in Mesg \cup {NoMesg}
  /\ \A t \in Threads : call[t] = "send" => arg[t] \in Mesg

\* No wakeup is lost although senders and receivers share one condition variable
\* and every change signals a single sleeper: whoever sleeps has a reason to, a
\* receiver an empty queue and a sender a full one (the "lost wakeup: permanent
\* stall" the D59 comment in front of portQueueGet is about).
NoLostWakeup ==
  /\ \A t \in cond \cap Receivers : Empty
  /\ \A t \in cond \cap Senders : Full

\* The messages of the ring, oldest first.
Contents == [i \in 1 .. validCount |-> msg[(first + i - 1) % MsgCount]]

Channel == INSTANCE MesgChannel
             WITH q <- Contents, delivered <- got, Capacity <- MsgCount

\* The ring buffer implements the bounded FIFO channel: nothing is delivered
\* twice, dropped once accepted, or out of order, whichever mix of blocking and
\* non-blocking calls the threads make.
ImplementsChannel == Channel!Spec

\* A thread blocked in osRecvMesg (osSendMesg) is never left behind while there
\* is a message (room): it returns, or other callers empty (fill) the queue first.
WaiterServed ==
  /\ \A t \in Receivers :
       (call[t] = "recv" /\ ~Empty) ~> (call[t] = "none" \/ Empty)
  /\ \A t \in Senders :
       (call[t] = "send" /\ ~Full) ~> (call[t] = "none" \/ Full)
===============================================================================
