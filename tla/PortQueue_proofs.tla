--------------------------- MODULE PortQueue_proofs ---------------------------
(***************************************************************************)
(* For every number of slots and every set of messages: the ring indices   *)
(* stay in range, no wakeup is lost, and the ring implements the FIFO      *)
(* channel of module MesgChannel.                                          *)
(***************************************************************************)
EXTENDS PortQueue, SequenceTheorems, TLAPS

(***************************************************************************)
(* Ring arithmetic.                                                        *)
(***************************************************************************)

\* x % N on the two periods the ring indices of osSendMesg and osRecvMesg reach.
LEMMA ModWrap ==
  ASSUME NEW N \in Nat \ {0}, NEW x \in 0 .. (2 * N - 1)
  PROVE  /\ x % N \in 0 .. (N - 1)
         /\ x % N = IF x < N THEN x ELSE x - N
  <1>1. x < N => x % N = x
    OBVIOUS
  <1>2. x >= N => x % N = x - N
    OBVIOUS
  <1>3. QED
    BY <1>1, <1>2

\* The slot osSendMesg writes is none of the slots that hold a message.
LEMMA FreeSlot ==
  ASSUME NEW N \in Nat \ {0}, NEW f \in 0 .. (N - 1),
         NEW v \in 0 .. (N - 1), NEW i \in 1 .. v
  PROVE  (f + i - 1) % N # (f + v) % N
  <1> DEFINE a == f + i - 1
             b == f + v
  <1>1. a \in 0 .. (2 * N - 1) /\ b \in 0 .. (2 * N - 1)
    OBVIOUS
  <1>2. a % N = IF a < N THEN a ELSE a - N
    BY <1>1, ModWrap
  <1>3. b % N = IF b < N THEN b ELSE b - N
    BY <1>1, ModWrap
  <1>4. a < b /\ b - a < N
    OBVIOUS
  <1> HIDE DEF a, b
  <1>5. a % N # b % N
    BY <1>1, <1>2, <1>3, <1>4
  <1>6. QED
    BY <1>5 DEF a, b

\* After the oldest message is removed, message i is the former message i + 1.
LEMMA NextSlot ==
  ASSUME NEW N \in Nat \ {0}, NEW f \in 0 .. (N - 1),
         NEW i \in 1 .. (N - 1)
  PROVE  (((f + 1) % N) + i - 1) % N = (f + i) % N
  <1> DEFINE h == f + 1
             g == h % N
             a == g + i - 1
             b == f + i
  <1>1. h \in 0 .. (2 * N - 1)
    OBVIOUS
  <1>2. g = IF h < N THEN h ELSE h - N
    <2> HIDE DEF h
    <2>1. QED
      BY <1>1, ModWrap
  <1>3. a \in 0 .. (2 * N - 1) /\ b \in 0 .. (2 * N - 1)
    BY <1>2
  <1>4. a % N = IF a < N THEN a ELSE a - N
    BY <1>3, ModWrap
  <1>5. b % N = IF b < N THEN b ELSE b - N
    BY <1>3, ModWrap
  <1>6. a = b \/ (a = b - N /\ b >= N /\ a < N)
    BY <1>2
  <1> HIDE DEF a, b
  <1>7. a % N = b % N
    BY <1>3, <1>4, <1>5, <1>6
  <1>8. QED
    BY <1>7 DEF a, b

\* The slots between first and first + validCount, read in order, are a sequence.
LEMMA RingIsSequence ==
  ASSUME NEW N \in Nat \ {0}, NEW S, NEW b \in [0 .. (N - 1) -> S],
         NEW f \in 0 .. (N - 1), NEW v \in 0 .. N
  PROVE  /\ [i \in 1 .. v |-> b[(f + i - 1) % N]] \in Seq(S)
         /\ Len([i \in 1 .. v |-> b[(f + i - 1) % N]]) = v
  <1> DEFINE c == [i \in 1 .. v |-> b[(f + i - 1) % N]]
  <1>1. \A i \in 1 .. v : b[(f + i - 1) % N] \in S
    <2>1. SUFFICES ASSUME NEW i \in 1 .. v PROVE b[(f + i - 1) % N] \in S
      OBVIOUS
    <2>2. f + i - 1 \in 0 .. (2 * N - 1)
      OBVIOUS
    <2>3. (f + i - 1) % N \in 0 .. (N - 1)
      BY <2>2, ModWrap
    <2>4. QED
      BY <2>3
  <1>2. c \in [1 .. v -> S]
    BY <1>1
  <1>3. c \in Seq(S)
    BY <1>2, SeqDef
  <1>4. DOMAIN c = 1 .. v
    OBVIOUS
  <1> HIDE DEF c
  <1>5. Len(c) = v
    BY <1>3, <1>4, LenProperties
  <1>6. QED
    BY <1>3, <1>5 DEF c

(***************************************************************************)
(* Type correctness.                                                       *)
(***************************************************************************)

LEMMA TypeStore ==
  ASSUME TypeOK, ~Full, NEW m \in Mesg \cup {NoMesg}, Store(m)
  PROVE  /\ msg' \in [Slots -> Mesg \cup {NoMesg}]
         /\ first' \in Slots
         /\ validCount' \in 0 .. MsgCount
         /\ got' \in Mesg \cup {NoMesg}
  BY MsgCountAssumption DEF TypeOK, Full, Store, Slots

LEMMA TypeRemove ==
  ASSUME TypeOK, ~Empty, Remove
  PROVE  /\ msg' \in [Slots -> Mesg \cup {NoMesg}]
         /\ first' \in Slots
         /\ validCount' \in 0 .. MsgCount
         /\ got' \in Mesg \cup {NoMesg}
  <1>1. (first + 1) % MsgCount \in Slots
    BY MsgCountAssumption, ModWrap DEF TypeOK, Slots
  <1>2. QED
    BY <1>1, MsgCountAssumption DEF TypeOK, Empty, Remove, Slots

\* The ring indices of osSendMesg and osRecvMesg never leave the buffer.
THEOREM TypeCorrect == Spec => []TypeOK
  <1>1. Init => TypeOK
    BY MsgCountAssumption DEF Init, TypeOK, Slots
  <1>2. TypeOK /\ [Next]_vars => TypeOK'
    <2> SUFFICES ASSUME TypeOK, [Next]_vars PROVE TypeOK'
      OBVIOUS
    <2>1. ASSUME NEW t \in Senders, NEW m \in Mesg, CallSend(t, m) PROVE TypeOK'
      BY <2>1 DEF CallSend, TypeOK, Threads, ring
    <2>2. ASSUME NEW t \in Senders, SendWaits(t) PROVE TypeOK'
      BY <2>2 DEF SendWaits, TypeOK, Threads, ring
    <2>3. ASSUME NEW t \in Senders, SendStores(t) PROVE TypeOK'
      <3>1. arg[t] \in Mesg \cup {NoMesg}
        BY DEF TypeOK, Threads
      <3>2. cond' \in SUBSET Threads
        BY <2>3 DEF SendStores, SignalOne, TypeOK
      <3>3. QED
        BY <2>3, <3>1, <3>2, TypeStore DEF SendStores, TypeOK, Threads
    <2>4. ASSUME NEW t \in Receivers, CallRecv(t) PROVE TypeOK'
      BY <2>4 DEF CallRecv, TypeOK, Threads, ring
    <2>5. ASSUME NEW t \in Receivers, RecvWaits(t) PROVE TypeOK'
      BY <2>5 DEF RecvWaits, TypeOK, Threads, ring
    <2>6. ASSUME NEW t \in Receivers, RecvRemoves(t) PROVE TypeOK'
      <3>1. cond' \in SUBSET Threads
        BY <2>6 DEF RecvRemoves, SignalRemoval, SignalOne, TypeOK
      <3>2. QED
        BY <2>6, <3>1, TypeRemove DEF RecvRemoves, TypeOK, Threads
    <2>7. ASSUME NEW m \in Mesg, PostMesg(m) PROVE TypeOK'
      <3>1. cond' \in SUBSET Threads
        BY <2>7 DEF PostMesg, SignalOne, TypeOK
      <3>2. QED
        BY <2>7, <3>1, TypeStore DEF PostMesg, TypeOK
    <2>8. ASSUME PollMesg PROVE TypeOK'
      <3>1. cond' \in SUBSET Threads
        BY <2>8 DEF PollMesg, SignalRemoval, SignalOne, TypeOK
      <3>2. QED
        BY <2>8, <3>1, TypeRemove DEF PollMesg, TypeOK
    <2>9. ASSUME NEW t \in Threads, SpuriousWakeup(t) PROVE TypeOK'
      BY <2>9 DEF SpuriousWakeup, TypeOK, ring
    <2>10. CASE UNCHANGED vars
      BY <2>10 DEF vars, TypeOK
    <2>11. QED
      BY <2>1, <2>2, <2>3, <2>4, <2>5, <2>6, <2>7, <2>8, <2>9, <2>10 DEF Next
  <1>3. QED
    BY <1>1, <1>2, PTL DEF Spec

(***************************************************************************)
(* No lost wakeup.  The argument rests on OneOfEach: at a moment when the  *)
(* queue is neither full nor empty nobody may be asleep, and the change    *)
(* that leaves the full (empty) state signals the only sleeper there is.   *)
(***************************************************************************)

\* When the queue is not full the only possible sleeper is the one receiver, and
\* the signal of osSendMesg reaches it.
LEMMA SignalReachesReceiver ==
  ASSUME TypeOK, NoLostWakeup, ~Full, SignalOne
  PROVE  cond' = {}
  <1>1. cond \subseteq Receivers
    BY DEF TypeOK, NoLostWakeup, Threads
  <1>2. \A t \in cond : cond \ {t} = {}
    BY <1>1, OneOfEach
  <1>3. QED
    BY <1>2 DEF SignalOne

\* When the queue is not empty the only possible sleeper is the one sender, and
\* the signal of osRecvMesg reaches it.
LEMMA SignalReachesSender ==
  ASSUME TypeOK, NoLostWakeup, ~Empty, SignalRemoval
  PROVE  cond' = {}
  <1>1. cond \subseteq Senders
    BY DEF TypeOK, NoLostWakeup, Threads
  <1>2. \A t \in cond : cond \ {t} = {}
    BY <1>1, OneOfEach
  <1>3. QED
    BY <1>2 DEF SignalRemoval, SignalOne

\* No interleaving of blocking and non-blocking calls strands a thread on the
\* shared condition variable of a queue: a sleeping receiver's queue is empty, a
\* sleeping sender's queue is full.
THEOREM NoWakeupIsLost == Spec => []NoLostWakeup
  <1>1. Init => NoLostWakeup
    BY DEF Init, NoLostWakeup
  <1>2. TypeOK /\ NoLostWakeup /\ [Next]_vars => NoLostWakeup'
    <2> SUFFICES ASSUME TypeOK, NoLostWakeup, [Next]_vars PROVE NoLostWakeup'
      OBVIOUS
    <2>1. ASSUME NEW t \in Senders, NEW m \in Mesg, CallSend(t, m)
          PROVE  NoLostWakeup'
      BY <2>1 DEF CallSend, NoLostWakeup, Full, Empty, ring
    <2>2. ASSUME NEW t \in Senders, SendWaits(t) PROVE NoLostWakeup'
      <3>1. t \notin Receivers
        BY OneOfEach
      <3>2. QED
        BY <2>2, <3>1 DEF SendWaits, NoLostWakeup, Full, Empty, ring
    <2>3. ASSUME NEW t \in Senders, SendStores(t) PROVE NoLostWakeup'
      BY <2>3, SignalReachesReceiver DEF SendStores, NoLostWakeup
    <2>4. ASSUME NEW t \in Receivers, CallRecv(t) PROVE NoLostWakeup'
      BY <2>4 DEF CallRecv, NoLostWakeup, Full, Empty, ring
    <2>5. ASSUME NEW t \in Receivers, RecvWaits(t) PROVE NoLostWakeup'
      <3>1. t \notin Senders
        BY OneOfEach
      <3>2. QED
        BY <2>5, <3>1 DEF RecvWaits, NoLostWakeup, Full, Empty, ring
    <2>6. ASSUME NEW t \in Receivers, RecvRemoves(t) PROVE NoLostWakeup'
      BY <2>6, SignalReachesSender DEF RecvRemoves, NoLostWakeup
    <2>7. ASSUME NEW m \in Mesg, PostMesg(m) PROVE NoLostWakeup'
      BY <2>7, SignalReachesReceiver DEF PostMesg, NoLostWakeup
    <2>8. ASSUME PollMesg PROVE NoLostWakeup'
      BY <2>8, SignalReachesSender DEF PollMesg, NoLostWakeup
    <2>9. ASSUME NEW t \in Threads, SpuriousWakeup(t) PROVE NoLostWakeup'
      BY <2>9 DEF SpuriousWakeup, NoLostWakeup, Full, Empty, ring
    <2>10. CASE UNCHANGED vars
      BY <2>10 DEF vars, NoLostWakeup, Full, Empty
    <2>11. QED
      BY <2>1, <2>2, <2>3, <2>4, <2>5, <2>6, <2>7, <2>8, <2>9, <2>10 DEF Next
  <1>3. QED
    BY <1>1, <1>2, TypeCorrect, PTL DEF Spec

(***************************************************************************)
(* The ring implements the FIFO channel.                                   *)
(***************************************************************************)

\* Storing at (first + validCount) % msgCount appends to the queued messages.
LEMMA StoreAccepts ==
  ASSUME TypeOK, ~Full, NEW m \in Mesg \cup {NoMesg}, Store(m)
  PROVE  /\ Len(Contents) < MsgCount
         /\ Contents' = Append(Contents, m)
         /\ got' = got
  <1> DEFINE N == MsgCount
             v == validCount
             f == first
  <1>1. N \in Nat \ {0} /\ f \in 0 .. (N - 1) /\ v \in 0 .. (N - 1)
    BY MsgCountAssumption DEF TypeOK, Full, Slots
  <1>2. validCount' = v + 1 /\ first' = f /\ got' = got
    BY DEF Store
  <1>3. Contents \in Seq(Mesg \cup {NoMesg}) /\ Len(Contents) = v
    BY <1>1, RingIsSequence DEF Contents, TypeOK, Slots
  <1>4. \A i \in 1 .. v : msg'[(f + i - 1) % N] = msg[(f + i - 1) % N]
    <2>1. SUFFICES ASSUME NEW i \in 1 .. v
                   PROVE  msg'[(f + i - 1) % N] = msg[(f + i - 1) % N]
      OBVIOUS
    <2>2. (f + i - 1) % N # (f + v) % N
      BY <1>1, FreeSlot
    <2>3. (f + i - 1) % N \in Slots
      BY <1>1, ModWrap DEF Slots
    <2>4. QED
      BY <2>2, <2>3 DEF Store, TypeOK
  <1>5. msg'[(f + v) % N] = m
    <2>1. (f + v) % N \in Slots
      BY <1>1, ModWrap DEF Slots
    <2>2. QED
      BY <2>1 DEF Store, TypeOK
  <1>6. Contents' = Append(Contents, m)
    <2>1. Contents' = [i \in 1 .. (v + 1) |-> msg'[(f + i - 1) % N]]
      BY <1>2 DEF Contents
    <2>2. /\ Contents' \in Seq(Mesg \cup {NoMesg})
          /\ Len(Contents') = v + 1
      <3>1. /\ v + 1 \in 0 .. N
            /\ msg' \in [Slots -> Mesg \cup {NoMesg}]
        BY <1>1, TypeStore
      <3>2. QED
        BY <2>1, <3>1, <1>1, RingIsSequence DEF Slots
    <2>3. \A i \in 1 .. (v + 1) :
            msg'[(f + i - 1) % N] = IF i = v + 1 THEN m ELSE Contents[i]
      <3>1. SUFFICES ASSUME NEW i \in 1 .. (v + 1)
                     PROVE  msg'[(f + i - 1) % N]
                              = IF i = v + 1 THEN m ELSE Contents[i]
        OBVIOUS
      <3>2. CASE i = v + 1
        <4>1. f + i - 1 = f + v
          BY <1>1, <3>2
        <4>2. QED
          BY <3>2, <4>1, <1>5
      <3>3. CASE i # v + 1
        <4>1. i \in 1 .. v
          BY <1>1, <3>3
        <4>2. QED
          BY <3>3, <4>1, <1>4 DEF Contents
      <3>4. QED
        BY <3>2, <3>3
    <2>4. \A i \in 1 .. (v + 1) :
            Contents'[i] = IF i = v + 1 THEN m ELSE Contents[i]
      BY <2>1, <2>3
    <2> DEFINE c == Contents
               d == Contents'
    <2>5. c \in Seq(Mesg \cup {NoMesg}) /\ Len(c) = v
      BY <1>3
    <2>6. d \in Seq(Mesg \cup {NoMesg}) /\ Len(d) = v + 1
      BY <2>2
    <2>7. \A i \in 1 .. (v + 1) : d[i] = IF i = v + 1 THEN m ELSE c[i]
      BY <2>4
    <2> HIDE DEF c, d
    <2>8. /\ Append(c, m) \in Seq(Mesg \cup {NoMesg})
          /\ Len(Append(c, m)) = v + 1
          /\ \A i \in 1 .. (v + 1) :
               Append(c, m)[i] = IF i = v + 1 THEN m ELSE c[i]
      BY <1>1, <2>5, AppendProperties
    <2>9. d = Append(c, m)
      BY <2>6, <2>7, <2>8, SeqEqual
    <2>10. QED
      BY <2>9 DEF c, d
  <1>7. QED
    BY <1>1, <1>2, <1>3, <1>6

\* Taking msg[first] and advancing first delivers the oldest queued message.
LEMMA RemoveDelivers ==
  ASSUME TypeOK, ~Empty, Remove
  PROVE  /\ Contents # <<>>
         /\ got' = Head(Contents)
         /\ Contents' = Tail(Contents)
  <1> DEFINE N == MsgCount
             v == validCount
             f == first
  <1>1. N \in Nat \ {0} /\ f \in 0 .. (N - 1) /\ v \in 1 .. N
    BY MsgCountAssumption DEF TypeOK, Empty, Slots
  <1>2. validCount' = v - 1 /\ first' = (f + 1) % N /\ msg' = msg
    BY DEF Remove
  <1>3. Contents \in Seq(Mesg \cup {NoMesg}) /\ Len(Contents) = v
    BY <1>1, RingIsSequence DEF Contents, TypeOK, Slots
  <1>4. got' = Head(Contents)
    <2>1. f + 1 - 1 = f /\ f \in 0 .. (2 * N - 1)
      BY <1>1
    <2>2. f % N = f
      BY <1>1, <2>1, ModWrap
    <2>3. Contents[1] = msg[f]
      BY <1>1, <2>1, <2>2 DEF Contents
    <2>4. QED
      BY <1>1, <1>3, <2>3 DEF Remove
  <1>5. Contents' = Tail(Contents)
    <2>1. Contents' = [i \in 1 .. (v - 1) |-> msg[(((f + 1) % N) + i - 1) % N]]
      BY <1>2 DEF Contents
    <2>2. /\ Contents' \in Seq(Mesg \cup {NoMesg})
          /\ Len(Contents') = v - 1
      <3>1. /\ v - 1 \in 0 .. N
            /\ (f + 1) % N \in 0 .. (N - 1)
            /\ msg \in [Slots -> Mesg \cup {NoMesg}]
        <4>1. f + 1 \in 0 .. (2 * N - 1)
          BY <1>1
        <4>2. QED
          BY <4>1, <1>1, ModWrap DEF TypeOK
      <3>2. QED
        BY <2>1, <3>1, <1>1, RingIsSequence DEF Slots
    <2>3. \A i \in 1 .. (v - 1) :
            msg[(((f + 1) % N) + i - 1) % N] = Contents[i + 1]
      <3>1. SUFFICES ASSUME NEW i \in 1 .. (v - 1)
                     PROVE  msg[(((f + 1) % N) + i - 1) % N] = Contents[i + 1]
        OBVIOUS
      <3>2. i \in 1 .. (N - 1) /\ i + 1 \in 1 .. v
        BY <1>1
      <3>3. (((f + 1) % N) + i - 1) % N = (f + i) % N
        BY <1>1, <3>2, NextSlot
      <3>4. Contents[i + 1] = msg[(f + (i + 1) - 1) % N]
        BY <3>2 DEF Contents
      <3>5. f + (i + 1) - 1 = f + i
        BY <1>1
      <3>6. QED
        BY <3>3, <3>4, <3>5
    <2>4. \A i \in 1 .. (v - 1) : Contents'[i] = Contents[i + 1]
      BY <2>1, <2>3
    <2> DEFINE c == Contents
               d == Contents'
    <2>5. c \in Seq(Mesg \cup {NoMesg}) /\ Len(c) = v
      BY <1>3
    <2>6. d \in Seq(Mesg \cup {NoMesg}) /\ Len(d) = v - 1
      BY <2>2
    <2>7. \A i \in 1 .. (v - 1) : d[i] = c[i + 1]
      BY <2>4
    <2> HIDE DEF c, d
    <2>8. c # <<>>
      BY <1>1, <2>5, EmptySeq
    <2>9. /\ Tail(c) \in Seq(Mesg \cup {NoMesg})
          /\ Len(Tail(c)) = v - 1
          /\ \A i \in 1 .. (v - 1) : Tail(c)[i] = c[i + 1]
      BY <1>1, <2>5, <2>8, HeadTailProperties
    <2>10. d = Tail(c)
      BY <2>6, <2>7, <2>9, SeqEqual
    <2>11. QED
      BY <2>10 DEF c, d
  <1>6. QED
    BY <1>1, <1>3, <1>4, <1>5, EmptySeq

\* Every mix of blocking and non-blocking calls on the pthread ring behaves like
\* the bounded FIFO channel: no message is lost once accepted, none is delivered
\* twice or out of order.
THEOREM RingImplementsChannel == Spec => ImplementsChannel
  <1>1. Init => Channel!Init
    BY DEF Init, Channel!Init, Contents
  <1>2. TypeOK /\ [Next]_vars => [Channel!Next]_(Channel!vars)
    <2> SUFFICES ASSUME TypeOK, [Next]_vars
                 PROVE  Channel!Next \/ UNCHANGED <<Contents, got>>
      BY DEF Channel!vars
    <2>1. ASSUME UNCHANGED ring, UNCHANGED got
          PROVE  UNCHANGED <<Contents, got>>
      BY <2>1 DEF ring, Contents
    <2>2. ASSUME NEW m \in Mesg \cup {NoMesg}, m \in Mesg, ~Full, Store(m)
          PROVE  Channel!Next
      BY <2>2, StoreAccepts DEF Channel!Next, Channel!Accept
    <2>3. ASSUME ~Empty, Remove PROVE Channel!Next
      BY <2>3, RemoveDelivers DEF Channel!Next, Channel!Deliver
    <2>4. ASSUME NEW t \in Senders, SendStores(t) PROVE Channel!Next
      BY <2>4, <2>2 DEF SendStores, TypeOK, Threads
    <2>5. QED
      BY <2>1, <2>2, <2>3, <2>4
      DEF Next, CallSend, SendWaits, CallRecv, RecvWaits, RecvRemoves,
          PostMesg, PollMesg, SpuriousWakeup, vars, ring
  <1>3. QED
    BY <1>1, <1>2, TypeCorrect, PTL DEF Spec, ImplementsChannel, Channel!Spec
===============================================================================
