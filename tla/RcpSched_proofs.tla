---------------------------- MODULE RcpSched_proofs ----------------------------
(***************************************************************************)
(* Proofs, for every size of the queues, that the variables of RcpSched    *)
(* keep their types and that no "task done" event is ever lost; and what   *)
(* the main loop relies on when it builds a frame while the scheduler runs *)
(* another.                                                                *)
(*                                                                         *)
(* The argument for the done events: the tick thread posts a retrace only  *)
(* below IntQSize - 2 messages, and at most one retrace is past that       *)
(* check, so of the messages that are not done events there are at most    *)
(* IntQSize - 2 and one fewer while the tick thread is past its check.  At *)
(* most one RSP and one RDP event are in the queue, and each is posted     *)
(* only while its unit is free: a slot is always there, whatever the       *)
(* interleaving of the tick thread's unlocked check with the scheduler.    *)
(***************************************************************************)
EXTENDS RcpSched, SequenceTheorems, FiniteSetTheorems, FunctionTheorems, TLAPS

Has(q, m) == \E i \in 1 .. Len(q) : q[i] = m
Once(q, m) == \A i, j \in 1 .. Len(q) : q[i] = m /\ q[j] = m => i = j

\* Appending and removing a message keep the type of a queue.
LEMMA AppendTyped ==
  ASSUME NEW S, NEW q \in Seq(S), NEW e \in S
  PROVE  /\ Append(q, e) \in Seq(S) /\ Append(q, e) # <<>>
         /\ Len(Append(q, e)) = Len(q) + 1
<1>1. Append(q, e) \in Seq(S)
  OBVIOUS
<1>2. Len(Append(q, e)) = Len(q) + 1 /\ Len(q) \in Nat
  OBVIOUS
<1>3. Append(q, e) # <<>>
  <2>1. Len(<<>>) = 0
    OBVIOUS
  <2> QED
    BY <1>2, <2>1
<1> QED
  BY <1>1, <1>2, <1>3

LEMMA TailTyped ==
  ASSUME NEW S, NEW q \in Seq(S), q # <<>>
  PROVE  /\ Head(q) \in S /\ Tail(q) \in Seq(S)
         /\ Len(Tail(q)) = Len(q) - 1 /\ Len(q) > 0
OBVIOUS

\* An appended message is in the queue, and nothing else is new.
LEMMA AppendHas ==
  ASSUME NEW S, NEW q \in Seq(S), NEW e \in S, NEW m
  PROVE  Has(Append(q, e), m) <=> Has(q, m) \/ e = m
BY DEF Has

\* Appending a message that is not in the queue keeps every message single.
LEMMA AppendOnce ==
  ASSUME NEW S, NEW q \in Seq(S), NEW e \in S, NEW m,
         Once(q, m), e # m \/ ~Has(q, m)
  PROVE  Once(Append(q, e), m)
BY DEF Has, Once

\* Removing the head keeps the other messages.
LEMMA TailHas ==
  ASSUME NEW S, NEW q \in Seq(S), q # <<>>, NEW m, Head(q) # m
  PROVE  Has(Tail(q), m) <=> Has(q, m)
<1>1. Len(Tail(q)) = Len(q) - 1 /\ Len(q) > 0
  OBVIOUS
<1>2. \A i \in 1 .. Len(q) - 1 : Tail(q)[i] = q[i + 1]
  OBVIOUS
<1>3. Has(Tail(q), m) => Has(q, m)
  BY <1>1, <1>2 DEF Has
<1>4. ASSUME Has(q, m) PROVE Has(Tail(q), m)
  <2>1. PICK i \in 1 .. Len(q) : q[i] = m
    BY <1>4 DEF Has
  <2>2. i # 1
    BY <2>1
  <2>3. i - 1 \in 1 .. Len(q) - 1 /\ Tail(q)[i - 1] = q[i]
    BY <1>2, <2>2
  <2> QED
    BY <1>1, <2>1, <2>3 DEF Has
<1> QED
  BY <1>3, <1>4

\* Removing the head keeps every message single, and a single message that was at
\* the head is gone.
LEMMA TailOnce ==
  ASSUME NEW S, NEW q \in Seq(S), q # <<>>, NEW m, Once(q, m)
  PROVE  Once(Tail(q), m) /\ (Head(q) = m => ~Has(Tail(q), m))
<1>1. Len(Tail(q)) = Len(q) - 1 /\ Len(q) > 0 /\ Len(q) \in Nat
  OBVIOUS
<1>2. \A i \in 1 .. Len(q) - 1 : Tail(q)[i] = q[i + 1] /\ i + 1 \in 1 .. Len(q)
  OBVIOUS
<1>3. ASSUME NEW i \in 1 .. Len(Tail(q)), NEW j \in 1 .. Len(Tail(q)),
             Tail(q)[i] = m, Tail(q)[j] = m
      PROVE  i = j
  <2>1. q[i + 1] = m /\ q[j + 1] = m /\ i + 1 \in 1 .. Len(q) /\ j + 1 \in 1 .. Len(q)
    BY <1>1, <1>2, <1>3
  <2>2. i + 1 = j + 1
    BY <2>1 DEF Once
  <2> QED
    BY <2>2
<1>4. ASSUME Head(q) = m, NEW i \in 1 .. Len(Tail(q)), Tail(q)[i] = m PROVE FALSE
  <2>1. q[i + 1] = m /\ i + 1 \in 1 .. Len(q) /\ q[1] = m /\ 1 \in 1 .. Len(q)
    BY <1>1, <1>2, <1>4
  <2>2. i + 1 = 1
    BY <2>1 DEF Once
  <2> QED
    BY <2>2
<1> QED
  BY <1>3, <1>4 DEF Has, Once

\* A message that is in the queue once has one position, an absent one has none.
LEMMA OnePosition ==
  ASSUME NEW S, NEW q \in Seq(S), NEW m, Once(q, m)
  PROVE  Cardinality(Positions(q, m)) = IF Has(q, m) THEN 1 ELSE 0
<1>1. DOMAIN q = 1 .. Len(q)
  OBVIOUS
<1>2. CASE ~Has(q, m)
  <2>1. Positions(q, m) = {}
    BY <1>1, <1>2 DEF Has, Positions
  <2> QED
    BY <1>2, <2>1, FS_EmptySet
<1>3. CASE Has(q, m)
  <2>1. PICK i \in 1 .. Len(q) : q[i] = m
    BY <1>3 DEF Has
  <2>2. Positions(q, m) = {i}
    BY <1>1, <2>1 DEF Once, Positions
  <2> QED
    BY <1>3, <2>2, FS_Singleton
<1> QED
  BY <1>2, <1>3

-------------------------------------------------------------------------------
\* An RSP, an RDP event has been posted and not yet handled.
RSPOwed == curRSPTask # NoTask \/ schedPc = "postDP"
RDPOwed == curRDPTask # NoTask
Owed == (IF RSPOwed THEN 1 ELSE 0) + (IF RDPOwed THEN 1 ELSE 0)

\* The list doAudio promises is not empty; a frame is built only below the limit.
Guarded ==
  /\ doAudio => audioList # <<>>
  /\ mainPc \in {"build", "submit"} => pendingGfx < 2

\* The done events are in the queue exactly while they are owed.
EventsOwed ==
  /\ Once(interruptQ, "RSP_DONE") /\ Once(interruptQ, "RDP_DONE")
  /\ Has(interruptQ, "RSP_DONE") <=> RSPOwed
  /\ Has(interruptQ, "RDP_DONE") <=> RDPOwed

\* The retraces leave room for the done events.
RoomKept ==
  /\ Len(interruptQ) <= IntQSize - 2 + Owed
  /\ tick = "post" => Len(interruptQ) <= IntQSize - 3 + Owed

\* __scExec runs a task only on units that are free, and no event is ever dropped.
UnitsFree ==
  /\ schedPc \in {"postSP", "postDP"} => curRSPTask = NoTask /\ sp \in Tasks
  /\ schedPc = "postSP" /\ sp \in GfxTasks => curRDPTask = NoTask
  /\ schedPc = "postDP" => curRDPTask = NoTask /\ sp \in GfxTasks
  /\ postStep = "send"

IInv == TypeOK /\ Guarded /\ EventsOwed /\ RoomKept /\ UnitsFree

USE SizeAssumption
USE DEF audioQs, retrace, lists, units, job, mainSlots

LEMMA TypeStep == IInv /\ [Next]_vars => TypeOK' /\ Guarded'
<1> SUFFICES ASSUME TypeOK, Guarded, UnitsFree, [Next]_vars
             PROVE  TypeOK' /\ Guarded'
  BY DEF IInv
<1> USE DEF TypeOK, Guarded, Tasks
<1>1. CASE TickChecksRoom
  BY <1>1 DEF TickChecksRoom, DoneReserve, queues, schedVars, mainVars, audioVars
<1>2. CASE TickPosts
  BY <1>2 DEF TickPosts, queues, schedVars, mainVars, audioVars
<1>3. CASE ReceiveRetrace
  BY <1>3 DEF ReceiveRetrace, queues, schedVars, mainVars, audioVars
<1>4. CASE ReceiveRSPDone
  <2>1. interruptQ' \in Seq({"VIDEO", "RSP_DONE", "RDP_DONE"}) /\ Len(interruptQ') <= IntQSize
    BY <1>4 DEF ReceiveRSPDone
  <2>2. needs' \in [Tasks -> SUBSET {"RSP", "RDP"}]
    BY <1>4 DEF ReceiveRSPDone, UnitDone
  <2>3. schedPc' \in {"wait", "schedule", "complete"} /\ doneTask' \in Tasks \cup {NoTask}
    BY <1>4 DEF ReceiveRSPDone, UnitDone
  <2> QED
    BY <1>4, <2>1, <2>2, <2>3 DEF ReceiveRSPDone, mainVars, audioVars
<1>5. CASE ReceiveRDPDone
  <2>1. interruptQ' \in Seq({"VIDEO", "RSP_DONE", "RDP_DONE"}) /\ Len(interruptQ') <= IntQSize
    BY <1>5 DEF ReceiveRDPDone
  <2>2. needs' \in [Tasks -> SUBSET {"RSP", "RDP"}]
    BY <1>5 DEF ReceiveRDPDone, UnitDone
  <2>3. schedPc' \in {"wait", "schedule", "complete"} /\ doneTask' \in Tasks \cup {NoTask}
    BY <1>5 DEF ReceiveRDPDone, UnitDone
  <2> QED
    BY <1>5, <2>1, <2>2, <2>3 DEF ReceiveRDPDone, mainVars, audioVars
<1>6. CASE DrainCommand
  <2>1. Head(cmdQ) \in Tasks /\ cmdQ' \in Seq(Tasks) /\ Len(cmdQ') <= CmdQSize
    BY <1>6 DEF DrainCommand
  <2>2. needs' \in [Tasks -> SUBSET {"RSP", "RDP"}]
    BY <1>6 DEF DrainCommand, Flags
  <2>3. /\ gfxList' \in Seq(GfxTasks) /\ audioList' \in Seq(AudioTasks)
        /\ doAudio' \in BOOLEAN /\ (doAudio' => audioList' # <<>>)
    <3>1. CASE AppendAudio(Head(cmdQ)) /\ Head(cmdQ) \in AudioTasks
      <4>1. doAudio' \in BOOLEAN
        BY <3>1, Zenon DEF AppendAudio
      <4>2. gfxList' \in Seq(GfxTasks) /\ audioList' \in Seq(AudioTasks) /\ audioList' # <<>>
        BY <3>1, AppendTyped DEF AppendAudio
      <4> QED
        BY <4>1, <4>2
    <3>2. CASE AppendGfx(Head(cmdQ)) /\ Head(cmdQ) \in GfxTasks
      BY <3>2 DEF AppendGfx
    <3> QED
      BY <1>6, <3>1, <3>2 DEF DrainCommand
  <2> QED
    BY <1>6, <2>1, <2>2, <2>3 DEF DrainCommand, mainVars, audioVars
<1>7. CASE DrainEnds
  BY <1>7 DEF DrainEnds, queues, schedVars, mainVars, audioVars
<1>8. CASE TellAudioClient
  BY <1>8 DEF TellAudioClient, queues, schedVars, mainVars, audioVars
<1>9. CASE TellGfxClient
  <2>1. inRetrace' \in BOOLEAN
    BY <1>9, Zenon DEF TellGfxClient, queues, schedVars, mainVars
  <2> QED
    BY <1>9, <2>1 DEF TellGfxClient, queues, schedVars, mainVars, audioVars
<1>10. CASE ScheduleAudio
  <2>1. doAudio' \in BOOLEAN
    BY <1>10, Zenon DEF ScheduleAudio, queues, schedVars, mainVars
  <2> QED
    BY <1>10, <2>1 DEF ScheduleAudio, RSPFree, queues, schedVars, mainVars, audioVars
<1>11. CASE ScheduleGfx
  BY <1>11 DEF ScheduleGfx, queues, schedVars, mainVars, audioVars
<1>12. CASE ScheduleNothing
  BY <1>12 DEF ScheduleNothing, AfterSchedule, queues, schedVars, mainVars, audioVars
<1>13. CASE PostRSPDone
  <2>1. /\ interruptQ' \in Seq({"VIDEO", "RSP_DONE", "RDP_DONE"}) /\ Len(interruptQ') <= IntQSize
        /\ postStep' \in {"send", "drop", "resend"}
    <3>1. PostEventForce("RSP_DONE") /\ postStep = "send" /\ Len(interruptQ) \in Nat
      BY <1>13 DEF PostRSPDone, UnitsFree
    <3>2. CASE Len(interruptQ) < IntQSize
      <4>1. interruptQ' = Append(interruptQ, "RSP_DONE") /\ postStep' = "send"
        BY <3>1, <3>2 DEF PostEventForce
      <4> QED
        BY <3>1, <3>2, <4>1, AppendTyped
    <3>3. CASE Len(interruptQ) >= IntQSize
      BY <3>1, <3>3 DEF PostEventForce
    <3> QED
      BY <3>1, <3>2, <3>3
  <2>2. /\ schedPc' \in {"postSP", "postDP", "audioClient", "wait"}
        /\ sp' \in Tasks \cup {NoTask} /\ curRSPTask' \in Tasks \cup {NoTask}
        /\ curRDPTask' \in GfxTasks \cup {NoTask}
    BY <1>13 DEF PostRSPDone, AfterSchedule, UnitsFree
  <2> QED
    BY <1>13, <2>1, <2>2 DEF PostRSPDone, mainVars, audioVars
<1>14. CASE PostRDPDone
  <2>1. /\ interruptQ' \in Seq({"VIDEO", "RSP_DONE", "RDP_DONE"}) /\ Len(interruptQ') <= IntQSize
        /\ postStep' \in {"send", "drop", "resend"}
    <3>1. PostEventForce("RDP_DONE") /\ postStep = "send" /\ Len(interruptQ) \in Nat
      BY <1>14 DEF PostRDPDone, UnitsFree
    <3>2. CASE Len(interruptQ) < IntQSize
      <4>1. interruptQ' = Append(interruptQ, "RDP_DONE") /\ postStep' = "send"
        BY <3>1, <3>2 DEF PostEventForce
      <4> QED
        BY <3>1, <3>2, <4>1, AppendTyped
    <3>3. CASE Len(interruptQ) >= IntQSize
      BY <3>1, <3>3 DEF PostEventForce
    <3> QED
      BY <3>1, <3>2, <3>3
  <2>2. /\ schedPc' \in {"postSP", "postDP", "audioClient", "wait"}
        /\ sp' \in Tasks \cup {NoTask} /\ curRSPTask' \in Tasks \cup {NoTask}
        /\ curRDPTask' \in GfxTasks \cup {NoTask}
    BY <1>14 DEF PostRDPDone, AfterSchedule, UnitsFree
  <2> QED
    BY <1>14, <2>1, <2>2 DEF PostRDPDone, mainVars, audioVars
<1>15. CASE ReportAudioDone
  BY <1>15 DEF ReportAudioDone, queues, schedVars, mainVars, audioVars
<1>16. CASE ReportFrameDone
  BY <1>16 DEF ReportFrameDone, queues, schedVars, mainVars, audioVars
<1>17. CASE SwapFramebuffer
  BY <1>17 DEF SwapFramebuffer, queues, schedVars, mainVars, audioVars
<1>18. CASE LoadStage
  BY <1>18 DEF LoadStage, queues, schedVars, mainVars, audioVars
<1>19. CASE FlushFrameQ
  <2>1. gfxFrameMsgQ' \in Seq({"RETRACE", "DONE"}) /\ Len(gfxFrameMsgQ') <= FrameQSize
    <3>1. CASE gfxFrameMsgQ # <<>>
      <4>1. gfxFrameMsgQ' = Tail(gfxFrameMsgQ)
        BY <1>19, <3>1 DEF FlushFrameQ
      <4> QED
        BY <3>1, <4>1, TailTyped
    <3>2. CASE gfxFrameMsgQ = <<>>
      BY <1>19, <3>2 DEF FlushFrameQ
    <3> QED
      BY <3>1, <3>2
  <2>2. mainPc' \in {"load", "flush", "recv"}
    BY <1>19 DEF FlushFrameQ
  <2> QED
    BY <1>19, <2>1, <2>2 DEF FlushFrameQ, schedVars, audioVars
<1>20. CASE LeaveStage
  <2>1. stageReq' \in BOOLEAN
    BY <1>20, Zenon DEF LeaveStage, queues, schedVars, mainVars
  <2> QED
    BY <1>20, <2>1 DEF LeaveStage, StayInStage, queues, schedVars, mainVars, audioVars
<1>21. CASE ReceiveFrameRetrace
  BY <1>21 DEF ReceiveFrameRetrace, MayBuild, queues, schedVars, mainVars, audioVars
<1>22. CASE ReceiveFrameDone
  BY <1>22 DEF ReceiveFrameDone, queues, schedVars, mainVars, audioVars
<1>23. CASE FinishFrame
  BY <1>23 DEF FinishFrame, queues, schedVars, mainVars, audioVars
<1>24. CASE SubmitFrame
  BY <1>24 DEF SubmitFrame, OtherGfx, GfxTasks, queues, schedVars, mainVars, audioVars
<1>25. CASE RequestStage
  BY <1>25 DEF RequestStage, queues, schedVars, mainVars, audioVars
<1>26. CASE AddAudioClient
  BY <1>26 DEF AddAudioClient, queues, schedVars, mainVars, audioVars
<1>27. CASE ReceiveAudioRetrace
  BY <1>27 DEF ReceiveAudioRetrace, queues, schedVars, mainVars, audioVars
<1>28. CASE SubmitAudio
  BY <1>28 DEF SubmitAudio, AudioTask, AudioTasks, queues, schedVars, mainVars, audioVars
<1>29. CASE ReceiveReply
  BY <1>29 DEF ReceiveReply, queues, schedVars, mainVars, audioVars
<1>30. CASE UNCHANGED vars
  BY <1>30 DEF vars, queues, schedVars, mainVars, audioVars
<1> QED
  BY <1>1, <1>2, <1>3, <1>4, <1>5, <1>6, <1>7, <1>8, <1>9, <1>10, <1>11, <1>12, <1>13, <1>14, <1>15, <1>16, <1>17, <1>18, <1>19, <1>20, <1>21, <1>22, <1>23, <1>24, <1>25, <1>26, <1>27, <1>28, <1>29, <1>30
     DEF Next, Tick, Sched, Main, Audio

\* A step that leaves the events, the units and the posting alone.
Quiet ==
  /\ UNCHANGED <<interruptQ, tick, curRSPTask, curRDPTask, postStep>>
  /\ \/ UNCHANGED <<schedPc, sp>>
     \/ {schedPc, schedPc'} \cap {"postSP", "postDP"} = {}

Events == {"VIDEO", "RSP_DONE", "RDP_DONE"}

LEMMA QuietStep ==
  ASSUME IInv, Quiet
  PROVE  EventsOwed' /\ RoomKept' /\ UnitsFree'
<1>1. RSPOwed' = RSPOwed /\ RDPOwed' = RDPOwed
  BY DEF Quiet, RSPOwed, RDPOwed
<1>2. EventsOwed'
  BY <1>1 DEF IInv, Quiet, EventsOwed
<1>3. RoomKept'
  BY <1>1 DEF IInv, Quiet, RoomKept, Owed
<1>4. UnitsFree'
  BY DEF IInv, Quiet, UnitsFree
<1> QED
  BY <1>2, <1>3, <1>4

\* Posting the event e of a free unit: there is room, and it is the only one.
LEMMA PostStep ==
  ASSUME IInv, NEW e \in {"RSP_DONE", "RDP_DONE"}, ~Has(interruptQ, e), PostEventForce(e)
  PROVE  /\ interruptQ' = Append(interruptQ, e) /\ postStep' = "send"
         /\ interruptQ \in Seq(Events) /\ Len(interruptQ') = Len(interruptQ) + 1
         /\ Once(interruptQ', "RSP_DONE") /\ Once(interruptQ', "RDP_DONE")
         /\ \A m : Has(interruptQ', m) <=> Has(interruptQ, m) \/ e = m
<1>1. interruptQ \in Seq(Events) /\ Len(interruptQ) \in Nat /\ e \in Events
  BY DEF IInv, TypeOK, Events
<1>2. ~RSPOwed \/ ~RDPOwed
  BY DEF IInv, EventsOwed
<1>3. Owed <= 1
  BY <1>2 DEF Owed
<1>4. Len(interruptQ) < IntQSize
  BY <1>1, <1>3 DEF IInv, RoomKept, Owed
<1>5. interruptQ' = Append(interruptQ, e) /\ postStep' = "send"
  BY <1>1, <1>4 DEF PostEventForce, IInv, UnitsFree
<1>6. Len(interruptQ') = Len(interruptQ) + 1
  BY <1>1, <1>5, AppendTyped
<1>7. Once(interruptQ', "RSP_DONE") /\ Once(interruptQ', "RDP_DONE")
  BY <1>1, <1>5, AppendOnce DEF IInv, EventsOwed
<1>8. \A m : Has(interruptQ', m) <=> Has(interruptQ, m) \/ e = m
  BY <1>1, <1>5, AppendHas
<1> QED
  BY <1>1, <1>5, <1>6, <1>7, <1>8

\* Removing the head e: it is gone when it is a done event, the rest stays.
LEMMA ReceiveStep ==
  ASSUME IInv, interruptQ # <<>>, NEW e \in Events, Head(interruptQ) = e,
         interruptQ' = Tail(interruptQ)
  PROVE  /\ Len(interruptQ) \in Nat /\ Len(interruptQ') = Len(interruptQ) - 1
         /\ Once(interruptQ', "RSP_DONE") /\ Once(interruptQ', "RDP_DONE")
         /\ \A m \in {"RSP_DONE", "RDP_DONE"} :
              Has(interruptQ', m) <=> Has(interruptQ, m) /\ m # e
         /\ Has(interruptQ, e)
<1>1. interruptQ \in Seq(Events) /\ Len(interruptQ) \in Nat /\ Len(interruptQ) > 0
  BY DEF IInv, TypeOK, Events
<1>2. Len(interruptQ') = Len(interruptQ) - 1
  BY <1>1, TailTyped
<1>3. ASSUME NEW m \in {"RSP_DONE", "RDP_DONE"}
      PROVE  /\ Once(interruptQ', m)
             /\ Has(interruptQ', m) <=> Has(interruptQ, m) /\ m # e
  <2>1. Once(interruptQ, m)
    BY <1>3 DEF IInv, EventsOwed
  <2>2. Once(Tail(interruptQ), m) /\ (e = m => ~Has(Tail(interruptQ), m))
    BY <1>1, <2>1, TailOnce
  <2>3. e # m => (Has(Tail(interruptQ), m) <=> Has(interruptQ, m))
    BY <1>1, TailHas
  <2> QED
    BY <2>2, <2>3
<1>4. Has(interruptQ, e)
  BY <1>1 DEF Has
<1> QED
  BY <1>1, <1>2, <1>3, <1>4

LEMMA EventsStep == IInv /\ [Next]_vars => EventsOwed' /\ RoomKept' /\ UnitsFree'
<1> SUFFICES ASSUME IInv, [Next]_vars
             PROVE  EventsOwed' /\ RoomKept' /\ UnitsFree'
  OBVIOUS
<1>1. interruptQ \in Seq(Events) /\ Len(interruptQ) \in Nat
  BY DEF IInv, TypeOK, Events
<1>2. CASE TickChecksRoom
  <2>1. RSPOwed' = RSPOwed /\ RDPOwed' = RDPOwed /\ UNCHANGED interruptQ
    BY <1>2 DEF TickChecksRoom, queues, schedVars, RSPOwed, RDPOwed
  <2>2. RoomKept'
    <3>1. Len(interruptQ) < IntQSize - 2
      BY <1>2 DEF TickChecksRoom, DoneReserve
    <3>2. Owed' >= 0 /\ Owed' \in Int
      BY DEF Owed
    <3> QED
      BY <1>1, <2>1, <3>1, <3>2 DEF RoomKept
  <2>3. UnitsFree'
    BY <1>2 DEF TickChecksRoom, schedVars, IInv, UnitsFree
  <2> QED
    BY <2>1, <2>2, <2>3 DEF IInv, EventsOwed
<1>3. CASE TickPosts
  <2>1. RSPOwed' = RSPOwed /\ RDPOwed' = RDPOwed /\ tick' = "sleep"
    BY <1>3 DEF TickPosts, schedVars, RSPOwed, RDPOwed
  <2>2. Len(interruptQ) <= IntQSize - 3 + Owed /\ Owed \in Int /\ Owed' = Owed
    BY <1>3, <2>1 DEF TickPosts, IInv, RoomKept, Owed
  <2>3. UnitsFree'
    BY <1>3 DEF TickPosts, schedVars, IInv, UnitsFree
  <2>4. CASE interruptQ' = interruptQ
    BY <1>1, <2>1, <2>2, <2>3, <2>4 DEF IInv, EventsOwed, RoomKept
  <2>5. CASE interruptQ' = Append(interruptQ, "VIDEO")
    <3>1. "VIDEO" \in Events
      BY DEF Events
    <3>2. Len(interruptQ') = Len(interruptQ) + 1
      BY <1>1, <2>5, <3>1, AppendTyped
    <3>3. RoomKept'
      BY <1>1, <2>1, <2>2, <3>2 DEF RoomKept
    <3>4. Once(interruptQ', "RSP_DONE") /\ Once(interruptQ', "RDP_DONE")
      BY <1>1, <2>5, <3>1, AppendOnce DEF IInv, EventsOwed
    <3>5. /\ Has(interruptQ', "RSP_DONE") <=> Has(interruptQ, "RSP_DONE")
          /\ Has(interruptQ', "RDP_DONE") <=> Has(interruptQ, "RDP_DONE")
      BY <1>1, <2>5, <3>1, AppendHas
    <3> QED
      BY <2>1, <2>3, <3>3, <3>4, <3>5 DEF IInv, EventsOwed
  <2> QED
    BY <1>3, <2>4, <2>5 DEF TickPosts
<1>4. CASE ReceiveRetrace
  <2>1. RSPOwed' = RSPOwed /\ RDPOwed' = RDPOwed /\ tick' = tick
    BY <1>4 DEF ReceiveRetrace, RSPOwed, RDPOwed
  <2>2. /\ Len(interruptQ') = Len(interruptQ) - 1
        /\ Once(interruptQ', "RSP_DONE") /\ Once(interruptQ', "RDP_DONE")
        /\ Has(interruptQ', "RSP_DONE") <=> Has(interruptQ, "RSP_DONE")
        /\ Has(interruptQ', "RDP_DONE") <=> Has(interruptQ, "RDP_DONE")
    BY <1>4, ReceiveStep DEF ReceiveRetrace, Events
  <2>3. RoomKept'
    BY <1>1, <2>1, <2>2 DEF IInv, RoomKept, Owed
  <2>4. UnitsFree'
    BY <1>4 DEF ReceiveRetrace, IInv, UnitsFree
  <2> QED
    BY <2>1, <2>2, <2>3, <2>4 DEF IInv, EventsOwed
<1>5. CASE ReceiveRSPDone
  <2>1. /\ Len(interruptQ') = Len(interruptQ) - 1
        /\ Once(interruptQ', "RSP_DONE") /\ Once(interruptQ', "RDP_DONE")
        /\ ~Has(interruptQ', "RSP_DONE") /\ Has(interruptQ, "RSP_DONE")
        /\ Has(interruptQ', "RDP_DONE") <=> Has(interruptQ, "RDP_DONE")
    BY <1>5, ReceiveStep DEF ReceiveRSPDone, Events
  <2>2. schedPc' \in {"complete", "schedule"} /\ schedPc = "wait" /\ tick' = tick
    BY <1>5 DEF ReceiveRSPDone, UnitDone
  <2>3. RSPOwed /\ ~RSPOwed' /\ RDPOwed' = RDPOwed
    BY <1>5, <2>1, <2>2 DEF ReceiveRSPDone, IInv, EventsOwed, RSPOwed, RDPOwed
  <2>4. Owed' = Owed - 1 /\ Owed \in Int
    BY <2>3 DEF Owed
  <2>5. RoomKept'
    BY <1>1, <2>1, <2>2, <2>4 DEF IInv, RoomKept
  <2>6. UnitsFree'
    BY <1>5, <2>2 DEF ReceiveRSPDone, IInv, UnitsFree
  <2> QED
    BY <2>1, <2>3, <2>5, <2>6 DEF IInv, EventsOwed
<1>6. CASE ReceiveRDPDone
  <2>1. /\ Len(interruptQ') = Len(interruptQ) - 1
        /\ Once(interruptQ', "RSP_DONE") /\ Once(interruptQ', "RDP_DONE")
        /\ ~Has(interruptQ', "RDP_DONE") /\ Has(interruptQ, "RDP_DONE")
        /\ Has(interruptQ', "RSP_DONE") <=> Has(interruptQ, "RSP_DONE")
    BY <1>6, ReceiveStep DEF ReceiveRDPDone, Events
  <2>2. schedPc' \in {"complete", "schedule", "wait"} /\ schedPc = "wait" /\ tick' = tick
    BY <1>6 DEF ReceiveRDPDone, UnitDone
  <2>3. RDPOwed /\ ~RDPOwed' /\ RSPOwed' = RSPOwed
    BY <1>6, <2>1, <2>2 DEF ReceiveRDPDone, IInv, EventsOwed, RSPOwed, RDPOwed
  <2>4. Owed' = Owed - 1 /\ Owed \in Int
    BY <2>3 DEF Owed
  <2>5. RoomKept'
    BY <1>1, <2>1, <2>2, <2>4 DEF IInv, RoomKept
  <2>6. UnitsFree'
    BY <1>6, <2>2 DEF ReceiveRDPDone, IInv, UnitsFree
  <2> QED
    BY <2>1, <2>3, <2>5, <2>6 DEF IInv, EventsOwed
<1>7. CASE ScheduleAudio \/ ScheduleGfx
  <2>1. /\ UNCHANGED <<interruptQ, tick, curRSPTask, curRDPTask, postStep>>
        /\ schedPc = "schedule" /\ schedPc' = "postSP" /\ curRSPTask = NoTask
    BY <1>7 DEF ScheduleAudio, ScheduleGfx, RSPFree, BothFree, queues
  <2>2. sp' \in Tasks /\ (sp' \in GfxTasks => curRDPTask = NoTask)
    <3>1. CASE ScheduleAudio
      <4>1. sp' = Head(audioList) /\ audioList # <<>> /\ audioList \in Seq(AudioTasks)
        BY <3>1 DEF ScheduleAudio, IInv, Guarded, TypeOK
      <4>2. sp' \in AudioTasks
        BY <4>1, TailTyped
      <4> QED
        BY <4>2 DEF Tasks, AudioTasks, GfxTasks
    <3>2. CASE ScheduleGfx
      <4>1. sp' = Head(gfxList) /\ gfxList # <<>> /\ gfxList \in Seq(GfxTasks)
        BY <3>2 DEF ScheduleGfx, IInv, TypeOK
      <4>2. sp' \in GfxTasks
        BY <4>1, TailTyped
      <4> QED
        BY <3>2, <4>2 DEF ScheduleGfx, BothFree, Tasks
    <3> QED
      BY <1>7, <3>1, <3>2
  <2>3. RSPOwed' = RSPOwed /\ RDPOwed' = RDPOwed
    BY <2>1 DEF RSPOwed, RDPOwed
  <2>4. UnitsFree'
    BY <2>1, <2>2 DEF IInv, UnitsFree
  <2>5. RoomKept'
    BY <2>1, <2>3 DEF IInv, RoomKept, Owed
  <2> QED
    BY <2>1, <2>3, <2>4, <2>5 DEF IInv, EventsOwed
<1>8. CASE PostRSPDone
  <2>1. /\ schedPc = "postSP" /\ PostEventForce("RSP_DONE") /\ tick' = tick
        /\ curRDPTask' = curRDPTask
    BY <1>8 DEF PostRSPDone
  <2>2. /\ curRSPTask = NoTask /\ sp \in Tasks /\ ~RSPOwed
        /\ sp \in GfxTasks => curRDPTask = NoTask
    BY <2>1 DEF IInv, UnitsFree, RSPOwed
  <2>3. ~Has(interruptQ, "RSP_DONE")
    BY <2>2 DEF IInv, EventsOwed
  <2>4. /\ postStep' = "send" /\ Len(interruptQ') = Len(interruptQ) + 1
        /\ Once(interruptQ', "RSP_DONE") /\ Once(interruptQ', "RDP_DONE")
        /\ Has(interruptQ', "RSP_DONE")
        /\ Has(interruptQ', "RDP_DONE") <=> Has(interruptQ, "RDP_DONE")
    BY <2>1, <2>3, PostStep
  <2>5. IF sp \in GfxTasks
        THEN schedPc' = "postDP" /\ sp' = sp /\ curRSPTask' = curRSPTask
        ELSE schedPc' \in {"audioClient", "wait"} /\ curRSPTask' = sp
    BY <1>8, <2>4 DEF PostRSPDone, AfterSchedule
  <2>6. RSPOwed' /\ RDPOwed' = RDPOwed
    BY <2>1, <2>2, <2>5 DEF RSPOwed, RDPOwed, Tasks, GfxTasks, AudioTasks, NoTask
  <2>7. Owed' = Owed + 1 /\ Owed \in Int
    BY <2>2, <2>6 DEF Owed
  <2>8. RoomKept'
    BY <1>1, <2>1, <2>4, <2>7 DEF IInv, RoomKept
  <2>9. UnitsFree'
    BY <2>1, <2>2, <2>4, <2>5 DEF UnitsFree
  <2> QED
    BY <2>4, <2>6, <2>8, <2>9 DEF IInv, EventsOwed
<1>9. CASE PostRDPDone
  <2>1. schedPc = "postDP" /\ PostEventForce("RDP_DONE") /\ tick' = tick
    BY <1>9 DEF PostRDPDone
  <2>2. sp \in GfxTasks /\ RSPOwed /\ ~RDPOwed
    BY <2>1 DEF IInv, UnitsFree, RSPOwed, RDPOwed
  <2>3. ~Has(interruptQ, "RDP_DONE")
    BY <2>2 DEF IInv, EventsOwed
  <2>4. /\ postStep' = "send" /\ Len(interruptQ') = Len(interruptQ) + 1
        /\ Once(interruptQ', "RSP_DONE") /\ Once(interruptQ', "RDP_DONE")
        /\ Has(interruptQ', "RDP_DONE")
        /\ Has(interruptQ', "RSP_DONE") <=> Has(interruptQ, "RSP_DONE")
    BY <2>1, <2>3, PostStep
  <2>5. schedPc' \in {"audioClient", "wait"} /\ curRSPTask' = sp /\ curRDPTask' = sp
    BY <1>9, <2>4 DEF PostRDPDone, AfterSchedule
  <2>6. RSPOwed' /\ RDPOwed'
    BY <2>2, <2>5 DEF RSPOwed, RDPOwed, GfxTasks, NoTask
  <2>7. Owed' = Owed + 1 /\ Owed \in Int
    BY <2>2, <2>6 DEF Owed
  <2>8. RoomKept'
    BY <1>1, <2>1, <2>4, <2>7 DEF IInv, RoomKept
  <2>9. UnitsFree'
    BY <2>4, <2>5 DEF UnitsFree
  <2> QED
    BY <2>2, <2>4, <2>6, <2>8, <2>9 DEF IInv, EventsOwed
<1>10. CASE \/ DrainCommand \/ DrainEnds \/ TellAudioClient \/ TellGfxClient
            \/ ScheduleNothing \/ ReportAudioDone \/ ReportFrameDone \/ SwapFramebuffer
  <2>1. Quiet
    BY <1>10 DEF Quiet, DrainCommand, DrainEnds, TellAudioClient, TellGfxClient,
         ScheduleNothing, AfterSchedule, ReportAudioDone, ReportFrameDone,
         SwapFramebuffer, queues
  <2> QED
    BY <2>1, QuietStep
<1>11. CASE Main \/ RequestStage \/ Audio \/ UNCHANGED vars
  <2>1. UNCHANGED <<interruptQ, tick, curRSPTask, curRDPTask, postStep, schedPc, sp>>
    BY <1>11 DEF Main, LoadStage, FlushFrameQ, LeaveStage, ReceiveFrameRetrace,
         ReceiveFrameDone, FinishFrame, SubmitFrame, RequestStage, Audio, AddAudioClient,
         ReceiveAudioRetrace, SubmitAudio, ReceiveReply, vars, queues, schedVars
  <2>2. Quiet
    BY <2>1 DEF Quiet
  <2> QED
    BY <2>2, QuietStep
<1> QED
  BY <1>2, <1>3, <1>4, <1>5, <1>6, <1>7, <1>8, <1>9, <1>10, <1>11
     DEF Next, Tick, Sched

LEMMA InitIInv == Init => IInv
<1> SUFFICES ASSUME Init PROVE IInv
  OBVIOUS
<1> USE DEF Init
<1>0. {inRetrace, oddFrame, doAudio, stageReq} \subseteq BOOLEAN
  BY Zenon
<1>1. TypeOK
  BY <1>0 DEF TypeOK, Tasks, GfxTasks, AudioTasks, NoTask
<1>2. Len(interruptQ) = 0
  OBVIOUS
<1>3. EventsOwed
  BY <1>2 DEF EventsOwed, Has, Once, RSPOwed, RDPOwed
<1>4. RoomKept
  BY <1>2 DEF RoomKept, Owed, RSPOwed, RDPOwed
<1>5. Guarded /\ UnitsFree
  BY DEF Guarded, UnitsFree
<1> QED
  BY <1>1, <1>3, <1>4, <1>5 DEF IInv

LEMMA IInvAlways == Spec => []IInv
<1>1. IInv /\ [Next]_vars => IInv'
  BY TypeStep, EventsStep DEF IInv
<1> QED
  BY InitIInv, <1>1, PTL DEF Spec

\* Every variable of the scheduler, the main loop and the audio manager keeps its
\* type, and no queue holds more than its slots, whatever the sizes.
THEOREM TypeCorrect == Spec => []TypeOK
<1>1. IInv => TypeOK
  BY DEF IInv
<1> QED
  BY IInvAlways, <1>1, PTL

\* "an SP/DP task done event must NEVER be dropped" (libultra.c, D134), for every
\* size of the interrupt queue of three slots or more and every interleaving of the
\* tick thread with the scheduler.
THEOREM TaskDoneEventsKept == Spec => []TaskDoneNeverLost
<1>1. ASSUME IInv PROVE TaskDoneNeverLost
  <2>1. interruptQ \in Seq(Events)
    BY <1>1 DEF IInv, TypeOK, Events
  <2>2. Cardinality(Positions(interruptQ, "RSP_DONE")) = IF RSPOwed THEN 1 ELSE 0
    BY <1>1, <2>1, OnePosition DEF IInv, EventsOwed
  <2>3. Cardinality(Positions(interruptQ, "RDP_DONE")) = IF RDPOwed THEN 1 ELSE 0
    BY <1>1, <2>1, OnePosition DEF IInv, EventsOwed
  <2> QED
    BY <1>1, <2>2, <2>3 DEF TaskDoneNeverLost, IInv, UnitsFree, RSPOwed, RDPOwed
<1> QED
  BY IInvAlways, <1>1, PTL

-------------------------------------------------------------------------------
(***************************************************************************)
(* The frames: pendingGfx counts what is out, the buffers of the frame     *)
(* being built are free, the two video settings counters stay in step, a   *)
(* submitted frame always finds room, and the whole is a two deep pipeline *)
(* (FramePipeline).                                                        *)
(*                                                                         *)
(* The argument: there are two task structures, the one to use next        *)
(* (gfxInfo) and the Other.  Each is in one place of the scheduler at      *)
(* most, and the frames move through the places in order, so that gfxInfo  *)
(* is held only when Other is, and behind it lies only Other: gfxInfo is   *)
(* the older frame.  Which buffers a frame uses follows from its task      *)
(* structure, because the main loop alternates both together; which        *)
(* settings the scheduler applies next follows from the oldest frame it    *)
(* holds.  The invariant FInv states this next to IInv, which knows that   *)
(* the done events are exact.                                              *)
(***************************************************************************)
\* The task structure used last, and the slot that goes with a structure.
Other == OtherGfx(gfxInfo)
Index(t) == IF t = "gfx0" THEN 0 ELSE 1

\* The task is being started, runs on the RSP or the RDP, or is about to be reported.
OnRCP(t) ==
  \/ schedPc \in {"postSP", "postDP"} /\ sp = t
  \/ schedPc = "complete" /\ doneTask = t
  \/ curRSPTask = t
  \/ curRDPTask = t

IsHeld(t) == Has(cmdQ, t) \/ Has(gfxList, t) \/ OnRCP(t)

\* In the queue q, a never comes after b.
Before(q, a, b) == \A i, j \in 1 .. Len(q) : q[i] = a /\ q[j] = b => i < j

\* A frame is in one place of the scheduler at most, and there once.
OnePlace ==
  \A t \in GfxTasks :
    /\ Once(cmdQ, t) /\ Once(gfxList, t)
    /\ ~(Has(cmdQ, t) /\ Has(gfxList, t))
    /\ OnRCP(t) => ~Has(cmdQ, t) /\ ~Has(gfxList, t)

\* One frame at a time is on the RCP, and the one reported has left both units.
OneOnRCP ==
  /\ curRSPTask \in GfxTasks => curRDPTask \in {curRSPTask, NoTask}
  /\ schedPc = "complete" => doneTask \in Tasks
  /\ schedPc = "complete" /\ doneTask \in GfxTasks =>
       curRSPTask \notin GfxTasks /\ curRDPTask = NoTask
  /\ schedPc = "swap" => doneTask \in GfxTasks

\* A task not yet started needs all its units, a running one those it still has.
Part(unit, cur, t) == IF cur = t THEN {unit} ELSE {}

NeedsRight ==
  /\ \A t \in GfxTasks :
       /\ Has(gfxList, t) \/ (schedPc \in {"postSP", "postDP"} /\ sp = t)
            => needs[t] = {"RSP", "RDP"}
       /\ curRSPTask = t \/ curRDPTask = t
            => needs[t] = Part("RSP", curRSPTask, t) \cup Part("RDP", curRDPTask, t)
  /\ \A t \in AudioTasks :
       Has(audioList, t) \/ (schedPc = "postSP" /\ sp = t) \/ curRSPTask = t
         => needs[t] = {"RSP"}

\* The frames are where they are in the order of submission: when both are held,
\* gfxInfo is the older one and further along.
InOrder ==
  /\ IsHeld(gfxInfo) => IsHeld(Other) /\ ~OnRCP(Other)
  /\ Has(gfxList, Other) => ~Has(cmdQ, gfxInfo)
  /\ Before(gfxList, gfxInfo, Other) /\ Before(cmdQ, gfxInfo, Other)

\* pendingGfx counts the frames held and the reports not yet read.
HeldCount == IF IsHeld(gfxInfo) THEN 2 ELSE IF IsHeld(Other) THEN 1 ELSE 0

Counted ==
  /\ pendingGfx = HeldCount + Cardinality(Positions(gfxFrameMsgQ, "DONE"))
  /\ mainPc \in {"load", "flush"} => pendingGfx = 0

\* The oldest frame held, or the next one to be submitted when none is.
Oldest == IF IsHeld(Other) /\ ~IsHeld(gfxInfo) THEN Other ELSE gfxInfo

\* The slots of video settings and display lists go with the task structures, and
\* the scheduler's counter points to the slot of the oldest frame.
SlotsRight ==
  /\ mainVi = IF mainPc = "submit" THEN 1 - Index(gfxInfo) ELSE Index(gfxInfo)
  /\ \A t \in GfxTasks :
       \/ IsHeld(t)
       \/ schedPc = "swap" /\ doneTask = t
       \/ mainPc = "submit" /\ gfxInfo = t
       => taskVi[t] = Index(t)
  /\ schedPc = "swap" => doneTask # Oldest
  /\ schedVi = IF schedPc = "swap" THEN Index(doneTask) ELSE Index(Oldest)
  /\ IF mainPc = "submit" THEN taskBuf[gfxInfo] # dynBuf
     ELSE IsHeld(Other) => taskBuf[Other] # dynBuf

\* One audio task at most is anywhere between the manager's send and its reply.
AudioIn(q) == \E i \in 1 .. Len(q) : q[i] \in AudioTasks
AudioRunning ==
  \/ schedPc = "postSP" /\ sp \in AudioTasks
  \/ schedPc = "complete" /\ doneTask \in AudioTasks
  \/ curRSPTask \in AudioTasks

OneAudio ==
  /\ \A i, j \in 1 .. Len(cmdQ) : cmdQ[i] \in AudioTasks /\ cmdQ[j] \in AudioTasks => i = j
  /\ Len(audioList) <= 1 /\ Len(replyMessageQueue) <= 1
  /\ schedPc = "complete" /\ doneTask \in AudioTasks => curRSPTask \notin AudioTasks
  /\ AudioIn(cmdQ) => audioList = <<>> /\ replyMessageQueue = <<>> /\ ~AudioRunning
  /\ audioList # <<>> => replyMessageQueue = <<>> /\ ~AudioRunning
  /\ replyMessageQueue # <<>> => ~AudioRunning
  /\ audPc # "reply" =>
       ~AudioIn(cmdQ) /\ audioList = <<>> /\ replyMessageQueue = <<>> /\ ~AudioRunning

FInv == OnePlace /\ OneOnRCP /\ NeedsRight /\ InOrder /\ Counted /\ SlotsRight /\ OneAudio

USE DEF audioQs, retrace, lists, units, job, mainSlots

-------------------------------------------------------------------------------
(* The two task structures, and facts about queues.                        *)

\* The sets of tasks are disjoint, and the two task structures are one another's other.
LEMMA TaskFacts ==
  /\ GfxTasks \cap AudioTasks = {} /\ Tasks = GfxTasks \cup AudioTasks /\ NoTask \notin Tasks
  /\ \A t \in GfxTasks : OtherGfx(t) \in GfxTasks /\ OtherGfx(t) # t
  /\ \A t, u \in GfxTasks : u = t \/ u = OtherGfx(t)
  /\ \A t \in GfxTasks : OtherGfx(OtherGfx(t)) = t /\ Index(OtherGfx(t)) = 1 - Index(t)
  /\ \A t \in GfxTasks : Index(t) \in {0, 1}
BY DEF Tasks, GfxTasks, AudioTasks, NoTask, OtherGfx, Index

\* A message appended comes after the ones that are in the queue.
LEMMA AppendBefore ==
  ASSUME NEW S, NEW q \in Seq(S), NEW e \in S, NEW a, NEW b, a # b,
         Before(q, a, b), e = a => ~Has(q, b)
  PROVE  Before(Append(q, e), a, b)
BY DEF Before, Has

\* Removing the head keeps the order of the others.
LEMMA TailBefore ==
  ASSUME NEW S, NEW q \in Seq(S), q # <<>>, NEW a, NEW b, Before(q, a, b)
  PROVE  Before(Tail(q), a, b)
<1>1. Len(Tail(q)) = Len(q) - 1 /\ Len(q) > 0 /\ Len(q) \in Nat
  OBVIOUS
<1>2. \A i \in 1 .. Len(q) - 1 : Tail(q)[i] = q[i + 1] /\ i + 1 \in 1 .. Len(q)
  OBVIOUS
<1> QED
  BY <1>1, <1>2 DEF Before

\* A message that comes first of the two is not behind the other.
LEMMA HeadBefore ==
  ASSUME NEW S, NEW q \in Seq(S), q # <<>>, NEW a, NEW b, Before(q, a, b), Head(q) = b
  PROVE  ~Has(q, a)
<1>1. Head(q) = q[1] /\ Len(q) \in Nat /\ Len(q) > 0
  OBVIOUS
<1> QED
  BY <1>1 DEF Before, Has

\* Positions are finitely many.
LEMMA PositionsFinite ==
  ASSUME NEW S, NEW q \in Seq(S), NEW m
  PROVE  /\ IsFiniteSet(Positions(q, m)) /\ Cardinality(Positions(q, m)) \in Nat
         /\ Positions(q, m) = {i \in 1 .. Len(q) : q[i] = m}
<1>1. DOMAIN q = 1 .. Len(q) /\ Len(q) \in Nat
  OBVIOUS
<1>2. IsFiniteSet(1 .. Len(q))
  BY <1>1, FS_Interval
<1>3. Positions(q, m) = {i \in 1 .. Len(q) : q[i] = m}
  BY <1>1 DEF Positions
<1>4. IsFiniteSet(Positions(q, m))
  BY <1>2, <1>3, FS_Subset
<1> QED
  BY <1>3, <1>4, FS_CardinalityType

\* A message appended is one more of its kind.
LEMMA CountAppend ==
  ASSUME NEW S, NEW q \in Seq(S), NEW e \in S, NEW m
  PROVE  Cardinality(Positions(Append(q, e), m)) =
           Cardinality(Positions(q, m)) + (IF e = m THEN 1 ELSE 0)
<1>1. Append(q, e) \in Seq(S) /\ Len(Append(q, e)) = Len(q) + 1 /\ Len(q) \in Nat
  OBVIOUS
<1>2. /\ Positions(q, m) = {i \in 1 .. Len(q) : q[i] = m}
      /\ Positions(Append(q, e), m) = {i \in 1 .. Len(q) + 1 : Append(q, e)[i] = m}
      /\ IsFiniteSet(Positions(q, m)) /\ Cardinality(Positions(q, m)) \in Nat
  BY <1>1, PositionsFinite
<1>3. \A i \in 1 .. Len(q) + 1 : Append(q, e)[i] = IF i = Len(q) + 1 THEN e ELSE q[i]
  OBVIOUS
<1>4. CASE e = m
  <2>1. Positions(Append(q, e), m) = Positions(q, m) \cup {Len(q) + 1}
    BY <1>1, <1>2, <1>3, <1>4
  <2>2. Len(q) + 1 \notin Positions(q, m)
    BY <1>1, <1>2
  <2> QED
    BY <1>2, <1>4, <2>1, <2>2, FS_AddElement
<1>5. CASE e # m
  <2>1. Positions(Append(q, e), m) = Positions(q, m)
    BY <1>1, <1>2, <1>3, <1>5
  <2> QED
    BY <1>2, <1>5, <2>1, Cardinality(Positions(q, m)) + 0 = Cardinality(Positions(q, m))
<1> QED
  BY <1>4, <1>5

\* The head removed is one less of its kind.
LEMMA CountTail ==
  ASSUME NEW S, NEW q \in Seq(S), q # <<>>, NEW m
  PROVE  Cardinality(Positions(Tail(q), m)) =
           Cardinality(Positions(q, m)) - (IF Head(q) = m THEN 1 ELSE 0)
<1> DEFINE P == Positions(q, m)
           R == P \ {1}
           T == Positions(Tail(q), m)
<1>1. /\ Tail(q) \in Seq(S) /\ Len(Tail(q)) = Len(q) - 1 /\ Len(q) > 0 /\ Len(q) \in Nat
      /\ Head(q) = q[1]
  OBVIOUS
<1>2. \A i \in 1 .. Len(q) - 1 : Tail(q)[i] = q[i + 1]
  OBVIOUS
<1>3. P = {i \in 1 .. Len(q) : q[i] = m} /\ IsFiniteSet(P) /\ Cardinality(P) \in Nat
  BY PositionsFinite
<1>6. T = {i \in 1 .. Len(q) - 1 : Tail(q)[i] = m}
  <2>1. T = {i \in 1 .. Len(Tail(q)) : Tail(q)[i] = m}
    <3>1. PICK t \in Seq(S) : t = Tail(q)
      BY <1>1
    <3>2. Positions(t, m) = {i \in 1 .. Len(t) : t[i] = m}
      BY PositionsFinite
    <3> QED
      BY <3>1, <3>2
  <2> QED
    BY <1>1, <2>1
<1>4. IsFiniteSet(R) /\ Cardinality(R) = Cardinality(P) - (IF Head(q) = m THEN 1 ELSE 0)
  <2>1. 1 \in P <=> Head(q) = m
    BY <1>1, <1>3
  <2>2. Cardinality(R) = IF 1 \in P THEN Cardinality(P) - 1 ELSE Cardinality(P)
    BY <1>3, FS_RemoveElement
  <2>3. IsFiniteSet(R)
    BY <1>3, FS_RemoveElement
  <2> QED
    BY <1>3, <2>1, <2>2, <2>3
<1>5. ExistsBijection(R, T)
  <2> DEFINE f == [i \in R |-> i - 1]
  <2>1. \A i \in R : i - 1 \in T
    BY <1>1, <1>2, <1>3, <1>6
  <2>2. \A j \in T : j + 1 \in R /\ (j + 1) - 1 = j
    BY <1>1, <1>2, <1>3, <1>6
  <2>3. f \in [R -> T]
    BY <2>1
  <2>4. \A i, j \in R : f[i] = f[j] => i = j
    BY <1>3
  <2>5. \A j \in T : \E i \in R : f[i] = j
    BY <2>2
  <2>6. f \in Bijection(R, T)
    BY <2>3, <2>4, <2>5, Fun_IsBij
  <2> QED
    BY <2>6 DEF ExistsBijection
<1> QED
  BY <1>4, <1>5, FS_Bijection

-------------------------------------------------------------------------------
(* Steps that leave the frames and the audio task where they are.          *)

Kept ==
  /\ UNCHANGED <<cmdQ, gfxList, audioList, replyMessageQueue, needs, curRSPTask, curRDPTask,
                 sp, doneTask, gfxInfo>>
  /\ \/ UNCHANGED schedPc
     \/ {schedPc, schedPc'} \cap {"postSP", "postDP", "complete", "swap"} = {}
  /\ audPc' = "reply" <=> audPc = "reply"

Places == OnePlace /\ OneOnRCP /\ InOrder

\* They keep all that does not depend on the counters and the slots.
LEMMA KeptStep ==
  ASSUME FInv, Kept
  PROVE  /\ Places' /\ NeedsRight' /\ OneAudio'
         /\ \A t : IsHeld(t)' = IsHeld(t)
         /\ HeldCount' = HeldCount /\ Oldest' = Oldest /\ Other' = Other
<1>1. Other' = Other
  BY DEF Kept, Other
<1>2. \A t : OnRCP(t)' = OnRCP(t)
  BY DEF Kept, OnRCP
<1>3. \A t : IsHeld(t)' = IsHeld(t)
  BY <1>2 DEF Kept, IsHeld
<1>4. Places'
  <2>1. OnePlace'
    BY <1>2 DEF Kept, FInv, OnePlace
  <2>2. OneOnRCP'
    BY DEF Kept, FInv, OneOnRCP
  <2>3. InOrder'
    BY <1>1, <1>2, <1>3 DEF Kept, FInv, InOrder
  <2> QED
    BY <2>1, <2>2, <2>3 DEF Places
<1>5. NeedsRight'
  BY DEF Kept, FInv, NeedsRight
<1>6. OneAudio'
  <2>1. AudioRunning' = AudioRunning
    BY DEF Kept, AudioRunning
  <2>2. AudioIn(cmdQ)' = AudioIn(cmdQ)
    BY DEF Kept
  <2> QED
    BY <2>1, <2>2 DEF Kept, FInv, OneAudio
<1>7. HeldCount' = HeldCount /\ Oldest' = Oldest
  BY <1>1, <1>3 DEF Kept, HeldCount, Oldest
<1> QED
  BY <1>1, <1>3, <1>4, <1>5, <1>6, <1>7

\* So do the counters, when the main loop and its messages are left alone, ..
LEMMA CountedKept ==
  ASSUME Counted, HeldCount' = HeldCount, UNCHANGED <<gfxFrameMsgQ, mainPc, pendingGfx>>
  PROVE  Counted'
BY DEF Counted

\* .. and the slots, when no frame is reported or swapped.
LEMMA SlotsKept ==
  ASSUME SlotsRight, \A t \in GfxTasks : IsHeld(t)' = IsHeld(t), Oldest' = Oldest,
         UNCHANGED <<schedVi, mainPc, mainSlots, doneTask>>,
         schedPc' = "swap" <=> schedPc = "swap", gfxInfo \in GfxTasks
  PROVE  SlotsRight'
<1>1. Other' = Other /\ Other \in GfxTasks
  BY TaskFacts DEF Other
<1> QED
  BY <1>1 DEF SlotsRight

\* Steps of the clocks and of the audio manager that move no task.
LEMMA QuietFrames ==
  ASSUME IInv, FInv,
         \/ Tick \/ ReceiveRetrace \/ DrainEnds \/ TellAudioClient \/ ScheduleNothing
         \/ RequestStage \/ AddAudioClient \/ ReceiveAudioRetrace \/ UNCHANGED vars
  PROVE  FInv'
<1>1. Kept /\ UNCHANGED <<gfxFrameMsgQ, mainPc, pendingGfx, schedVi, mainSlots>>
  BY DEF Tick, TickChecksRoom, TickPosts, ReceiveRetrace, DrainEnds, TellAudioClient,
         ScheduleNothing, AfterSchedule, RequestStage, AddAudioClient, ReceiveAudioRetrace,
         vars, queues, schedVars, mainVars, audioVars, Kept
<1>2. /\ Places' /\ NeedsRight' /\ OneAudio'
      /\ \A t : IsHeld(t)' = IsHeld(t)
      /\ HeldCount' = HeldCount /\ Oldest' = Oldest
  BY <1>1, KeptStep
<1>3. Counted'
  BY <1>1, <1>2, CountedKept DEF FInv
<1>4. SlotsRight'
  BY <1>1, <1>2, SlotsKept DEF FInv, Kept, IInv, TypeOK
<1> QED
  BY <1>2, <1>3, <1>4 DEF FInv, Places

-------------------------------------------------------------------------------
(* The main loop.                                                          *)

\* The types that the counting uses.
LEMMA MainMessages == IInv => gfxFrameMsgQ \in Seq({"RETRACE", "DONE"}) /\ pendingGfx \in Int
BY DEF IInv, TypeOK

\* A retrace posted or taken, or a queue emptied of retraces, is not counted.
LEMMA MainStep ==
  ASSUME IInv, FInv,
         \/ TellGfxClient \/ LoadStage \/ FlushFrameQ \/ LeaveStage
         \/ ReceiveFrameRetrace \/ ReceiveFrameDone \/ FinishFrame
  PROVE  FInv'
<1>0. gfxInfo \in GfxTasks /\ Other \in GfxTasks /\ Other # gfxInfo
  BY TaskFacts DEF IInv, TypeOK, Other
<1>1. Kept /\ UNCHANGED schedVi /\ (schedPc' = "swap" <=> schedPc = "swap")
  BY DEF TellGfxClient, LoadStage, FlushFrameQ, LeaveStage, ReceiveFrameRetrace,
         ReceiveFrameDone, FinishFrame, queues, schedVars, audioVars, mainVars, Kept
<1>2. /\ Places' /\ NeedsRight' /\ OneAudio'
      /\ \A t : IsHeld(t)' = IsHeld(t)
      /\ HeldCount' = HeldCount /\ Oldest' = Oldest /\ Other' = Other
  BY <1>1, KeptStep
<1>3. HeldCount \in Nat /\ gfxFrameMsgQ \in Seq({"RETRACE", "DONE"})
      /\ Cardinality(Positions(gfxFrameMsgQ, "DONE")) \in Nat /\ pendingGfx \in Int
  BY MainMessages, PositionsFinite DEF HeldCount
<1>4. Counted'
  <2>1. CASE TellGfxClient
    <3>1. UNCHANGED <<mainPc, pendingGfx>>
      BY <2>1 DEF TellGfxClient, mainVars
    <3>2. CASE gfxFrameMsgQ' = gfxFrameMsgQ
      BY <1>2, <3>1, <3>2, CountedKept DEF FInv
    <3>3. CASE gfxFrameMsgQ' = Append(gfxFrameMsgQ, "RETRACE")
      <4>1. Cardinality(Positions(gfxFrameMsgQ', "DONE")) =
              Cardinality(Positions(gfxFrameMsgQ, "DONE"))
        BY <1>3, <3>3, CountAppend
      <4> QED
        BY <1>2, <3>1, <4>1 DEF FInv, Counted
    <3> QED
      BY <2>1, <3>2, <3>3 DEF TellGfxClient
  <2>2. CASE LoadStage
    BY <1>2, <2>2 DEF LoadStage, queues, FInv, Counted
  <2>3. CASE FlushFrameQ
    <3>1. pendingGfx = 0 /\ mainPc' \in {"flush", "recv"} /\ pendingGfx' = pendingGfx
      BY <2>3 DEF FlushFrameQ, FInv, Counted
    <3>2. Cardinality(Positions(gfxFrameMsgQ, "DONE")) = 0 /\ HeldCount = 0
      BY <1>3, <3>1 DEF FInv, Counted
    <3>3. CASE gfxFrameMsgQ # <<>>
      <4>1. gfxFrameMsgQ' = Tail(gfxFrameMsgQ) /\ gfxFrameMsgQ' \in Seq({"RETRACE", "DONE"})
        BY <1>3, <2>3, <3>3, TailTyped DEF FlushFrameQ
      <4>2. Cardinality(Positions(gfxFrameMsgQ', "DONE")) \in Nat
        BY <4>1, PositionsFinite
      <4>3. Cardinality(Positions(gfxFrameMsgQ', "DONE")) = 0
        BY <1>3, <3>2, <3>3, <4>1, <4>2, CountTail
      <4> QED
        BY <1>2, <3>1, <3>2, <4>3 DEF Counted
    <3>4. CASE gfxFrameMsgQ = <<>>
      BY <1>2, <2>3, <3>1, <3>2, <3>4 DEF FlushFrameQ, Counted
    <3> QED
      BY <3>3, <3>4
  <2>4. CASE LeaveStage
    BY <1>2, <2>4 DEF LeaveStage, StayInStage, queues, IInv, Guarded, FInv, Counted
  <2>5. CASE ReceiveFrameRetrace
    <3>1. /\ gfxFrameMsgQ # <<>> /\ Head(gfxFrameMsgQ) = "RETRACE"
          /\ gfxFrameMsgQ' = Tail(gfxFrameMsgQ) /\ pendingGfx' = pendingGfx
          /\ mainPc' \notin {"load", "flush"}
      BY <2>5 DEF ReceiveFrameRetrace
    <3>2. Cardinality(Positions(gfxFrameMsgQ', "DONE")) =
            Cardinality(Positions(gfxFrameMsgQ, "DONE"))
      BY <1>3, <3>1, CountTail
    <3> QED
      BY <1>2, <3>1, <3>2 DEF FInv, Counted
  <2>6. CASE ReceiveFrameDone
    <3>1. /\ gfxFrameMsgQ # <<>> /\ Head(gfxFrameMsgQ) = "DONE"
          /\ gfxFrameMsgQ' = Tail(gfxFrameMsgQ) /\ pendingGfx' = pendingGfx - 1
          /\ mainPc' = "recv"
      BY <2>6 DEF ReceiveFrameDone
    <3>2. Cardinality(Positions(gfxFrameMsgQ', "DONE")) =
            Cardinality(Positions(gfxFrameMsgQ, "DONE")) - 1
      BY <1>3, <3>1, CountTail
    <3> QED
      BY <1>2, <1>3, <3>1, <3>2 DEF FInv, Counted
  <2>7. CASE FinishFrame
    BY <1>2, <2>7 DEF FinishFrame, queues, FInv, Counted
  <2> QED
    BY <2>1, <2>2, <2>3, <2>4, <2>5, <2>6, <2>7
<1>5. SlotsRight'
  <2>1. CASE TellGfxClient
    BY <1>0, <1>1, <1>2, <2>1, SlotsKept DEF TellGfxClient, mainVars, FInv
  <2>2. CASE FlushFrameQ \/ LeaveStage \/ ReceiveFrameRetrace \/ ReceiveFrameDone
    <3>1. /\ UNCHANGED <<schedVi, schedPc, doneTask, mainSlots>>
          /\ mainPc # "submit" /\ mainPc' # "submit"
      BY <2>2 DEF FlushFrameQ, LeaveStage, ReceiveFrameRetrace, ReceiveFrameDone, schedVars
    <3> QED
      BY <1>0, <1>2, <3>1 DEF FInv, SlotsRight
  <2>3. CASE LoadStage
    <3>1. /\ UNCHANGED <<schedVi, schedPc, doneTask, gfxInfo, mainVi, taskBuf, taskVi>>
          /\ mainPc = "load" /\ mainPc' = "flush" /\ pendingGfx = 0
      BY <2>3 DEF LoadStage, schedVars, FInv, Counted
    <3>2. HeldCount = 0
      BY <1>3, <3>1 DEF FInv, Counted
    <3>3. ~IsHeld(Other)
      BY <3>2 DEF HeldCount
    <3> QED
      BY <1>0, <1>2, <3>1, <3>3 DEF FInv, SlotsRight
  <2>4. CASE FinishFrame
    <3>1. /\ UNCHANGED <<schedVi, schedPc, doneTask, gfxInfo>>
          /\ mainPc = "build" /\ mainPc' = "submit" /\ pendingGfx < 2
          /\ mainVi' = 1 - mainVi /\ dynBuf' = 1 - dynBuf /\ dynBuf \in 0 .. 1
      BY <2>4 DEF FinishFrame, schedVars, IInv, Guarded, TypeOK
    <3>2. taskBuf'[gfxInfo] = dynBuf /\ taskVi'[gfxInfo] = mainVi
          /\ \A t \in GfxTasks \ {gfxInfo} : taskVi'[t] = taskVi[t]
      BY <1>0, <2>4 DEF FinishFrame, IInv, TypeOK
    <3>3. mainVi = Index(gfxInfo)
      BY <3>1 DEF FInv, SlotsRight
    <3>4. \A t \in GfxTasks :
            \/ IsHeld(t)'
            \/ schedPc' = "swap" /\ doneTask' = t
            \/ mainPc' = "submit" /\ gfxInfo' = t
            => taskVi'[t] = Index(t)
      <4> TAKE t \in GfxTasks
      <4>1. CASE t = gfxInfo
        BY <3>2, <3>3, <4>1
      <4>2. CASE t # gfxInfo
        BY <1>2, <3>1, <3>2, <4>2 DEF FInv, SlotsRight
      <4> QED
        BY <4>1, <4>2
    <3>5. taskBuf'[gfxInfo] # dynBuf'
      BY <3>1, <3>2
    <3>6. /\ schedPc' = "swap" => doneTask' # Oldest'
          /\ schedVi' = IF schedPc' = "swap" THEN Index(doneTask') ELSE Index(Oldest')
      BY <1>2, <3>1 DEF FInv, SlotsRight
    <3> QED
      BY <3>1, <3>3, <3>4, <3>5, <3>6 DEF SlotsRight
  <2> QED
    BY <2>1, <2>2, <2>3, <2>4
<1> QED
  BY <1>2, <1>4, <1>5 DEF FInv, Places

-------------------------------------------------------------------------------
(* The scheduler moving a task on.                                         *)

\* As long as no frame is handed in or reported, the counters and slots stay right.
LEMMA SameFrames ==
  ASSUME IInv, FInv, \A t \in GfxTasks : IsHeld(t)' = IsHeld(t),
         UNCHANGED <<gfxFrameMsgQ, schedVi, mainVars>>,
         schedPc # "swap", schedPc' # "swap"
  PROVE  Counted' /\ SlotsRight'
<1>1. gfxInfo \in GfxTasks
  BY DEF IInv, TypeOK
<1>2. gfxInfo' = gfxInfo /\ Other' = Other /\ Other \in GfxTasks
  BY <1>1, TaskFacts DEF Other, mainVars
<1>3. HeldCount' = HeldCount /\ Oldest' = Oldest
  BY <1>1, <1>2 DEF HeldCount, Oldest
<1>4. Counted'
  BY <1>3, CountedKept DEF FInv, mainVars
<1>5. SlotsRight'
  BY <1>1, <1>2, <1>3 DEF FInv, SlotsRight, mainVars
<1> QED
  BY <1>4, <1>5

\* The types that the following steps use.
LEMMA QueueTypes ==
  ASSUME IInv
  PROVE  /\ cmdQ \in Seq(Tasks) /\ gfxList \in Seq(GfxTasks) /\ audioList \in Seq(AudioTasks)
         /\ replyMessageQueue \in Seq(AudioTasks)
         /\ needs \in [Tasks -> SUBSET {"RSP", "RDP"}]
         /\ gfxInfo \in GfxTasks /\ Other \in GfxTasks /\ Other # gfxInfo
         /\ \A t \in GfxTasks : t = gfxInfo \/ t = Other
BY TaskFacts DEF IInv, TypeOK, Other

\* A task taken from the command queue goes to the end of its list.
LEMMA DrainFrames == ASSUME IInv, FInv, DrainCommand PROVE FInv'
<1> DEFINE t == Head(cmdQ)
<1>1. /\ schedPc = "drain" /\ UNCHANGED <<schedPc, sp, doneTask, curRSPTask, curRDPTask>>
      /\ UNCHANGED <<gfxFrameMsgQ, schedVi, mainVars, replyMessageQueue, audPc>>
      /\ cmdQ # <<>> /\ cmdQ' = Tail(cmdQ)
      /\ needs' = [needs EXCEPT ![t] = Flags(t)]
  BY DEF DrainCommand, audioVars
<1>2. t \in Tasks /\ Has(cmdQ, t) /\ gfxInfo' = gfxInfo /\ Other' = Other
  <2>1. cmdQ \in Seq(Tasks)
    BY QueueTypes
  <2>2. t \in Tasks /\ t = cmdQ[1] /\ Len(cmdQ) \in Nat /\ Len(cmdQ) > 0
    BY <1>1, <2>1
  <2> QED
    BY <1>1, <2>2 DEF Has, mainVars, Other
<1>3. \A u : OnRCP(u)' = OnRCP(u)
  BY <1>1 DEF OnRCP
<1>4. CASE t \in GfxTasks
  <2>1. gfxList' = Append(gfxList, t) /\ UNCHANGED audioList
    BY <1>4, TaskFacts DEF DrainCommand, AppendGfx
  <2>2. \A u \in GfxTasks : Has(gfxList', u) <=> Has(gfxList, u) \/ u = t
    BY <1>4, <2>1, QueueTypes, AppendHas
  <2>3. \A u \in Tasks : u # t => (Has(cmdQ', u) <=> Has(cmdQ, u))
    BY <1>1, QueueTypes, TailHas
  <2>4. \A u \in GfxTasks : Once(cmdQ, u) /\ Once(cmdQ', u)
    <3> TAKE u \in GfxTasks
    <3>1. Once(cmdQ, u)
      BY DEF FInv, OnePlace
    <3> QED
      BY <1>1, <3>1, QueueTypes, TailOnce
  <2>5. ~Has(cmdQ', t)
    BY <1>1, <1>4, <2>4, QueueTypes, TailOnce
  <2>6. ~Has(gfxList, t) /\ ~OnRCP(t)
    BY <1>2, <1>4 DEF FInv, OnePlace
  <2>7. \A u \in GfxTasks : Once(gfxList', u)
    <3> TAKE u \in GfxTasks
    <3>1. Once(gfxList, u)
      BY DEF FInv, OnePlace
    <3> QED
      BY <1>4, <2>1, <2>6, <3>1, QueueTypes, AppendOnce
  <2>8. \A u \in GfxTasks : IsHeld(u)' = IsHeld(u)
    BY <1>2, <1>3, <2>2, <2>3, TaskFacts DEF IsHeld
  <2>9. OnePlace'
    BY <1>3, <2>2, <2>3, <2>4, <2>5, <2>6, <2>7, TaskFacts DEF FInv, OnePlace
  <2>10. OneOnRCP'
    BY <1>1 DEF FInv, OneOnRCP
  <2>11. InOrder'
    <3>1. t = Other => ~Has(cmdQ, gfxInfo)
      <4>1. Before(cmdQ, gfxInfo, Other)
        BY DEF FInv, InOrder
      <4> QED
        BY <1>1, <4>1, QueueTypes, HeadBefore
    <3>2. t = gfxInfo => ~Has(gfxList, Other)
      BY <1>2 DEF FInv, InOrder
    <3>3. Has(gfxList', Other) => ~Has(cmdQ', gfxInfo)
      BY <2>2, <2>3, <2>5, <3>1, QueueTypes, TaskFacts DEF FInv, InOrder
    <3>4. Before(gfxList', gfxInfo, Other)
      <4>1. Before(gfxList, gfxInfo, Other)
        BY DEF FInv, InOrder
      <4> QED
        BY <1>4, <2>1, <3>2, <4>1, QueueTypes, AppendBefore
    <3>5. Before(cmdQ', gfxInfo, Other)
      <4>1. Before(cmdQ, gfxInfo, Other)
        BY DEF FInv, InOrder
      <4> QED
        BY <1>1, <4>1, QueueTypes, TailBefore
    <3> QED
      BY <1>2, <1>3, <2>8, <3>3, <3>4, <3>5, QueueTypes DEF FInv, InOrder
  <2>12. NeedsRight'
    <3>1. /\ needs'[t] = {"RSP", "RDP"} /\ curRSPTask # t /\ curRDPTask # t
          /\ \A u \in Tasks \ {t} : needs'[u] = needs[u]
      BY <1>1, <1>2, <1>4, <2>6, QueueTypes DEF Flags, OnRCP
    <3>2. \A u \in GfxTasks :
            /\ Has(gfxList, u)' \/ (schedPc' \in {"postSP", "postDP"} /\ sp' = u)
                 => needs'[u] = {"RSP", "RDP"}
            /\ curRSPTask' = u \/ curRDPTask' = u
                 => needs'[u] = Part("RSP", curRSPTask', u) \cup Part("RDP", curRDPTask', u)
      <4> TAKE u \in GfxTasks
      <4>1. CASE u = t
        BY <1>1, <3>1, <4>1
      <4>2. CASE u # t
        BY <1>1, <2>2, <3>1, <4>2, TaskFacts DEF FInv, NeedsRight
      <4> QED
        BY <4>1, <4>2
    <3>3. \A u \in AudioTasks :
            Has(audioList, u)' \/ (schedPc' = "postSP" /\ sp' = u) \/ curRSPTask' = u
              => needs'[u] = {"RSP"}
      BY <1>1, <1>4, <2>1, <3>1, TaskFacts DEF FInv, NeedsRight
    <3> QED
      BY <3>2, <3>3 DEF NeedsRight
  <2>13. OneAudio'
    <3>1. Len(cmdQ') = Len(cmdQ) - 1 /\ Len(cmdQ) \in Nat
          /\ \A i \in 1 .. Len(cmdQ') : cmdQ'[i] = cmdQ[i + 1] /\ i + 1 \in 1 .. Len(cmdQ)
      BY <1>1, QueueTypes
    <3>2. AudioRunning' = AudioRunning
      BY <1>1 DEF AudioRunning
    <3>3. AudioIn(cmdQ') => AudioIn(cmdQ)
      BY <3>1 DEF AudioIn
    <3>4. \A i, j \in 1 .. Len(cmdQ') :
            cmdQ'[i] \in AudioTasks /\ cmdQ'[j] \in AudioTasks => i = j
      <4> TAKE i, j \in 1 .. Len(cmdQ')
      <4> HAVE cmdQ'[i] \in AudioTasks /\ cmdQ'[j] \in AudioTasks
      <4>1. i + 1 = j + 1
        BY <3>1 DEF FInv, OneAudio
      <4> QED
        BY <4>1
    <3> QED
      BY <1>1, <2>1, <3>2, <3>3, <3>4 DEF FInv, OneAudio
  <2>14. Counted' /\ SlotsRight'
    BY <1>1, <2>8, SameFrames
  <2> QED
    BY <2>9, <2>10, <2>11, <2>12, <2>13, <2>14 DEF FInv
<1>5. CASE t \in AudioTasks
  <2>1. audioList' = Append(audioList, t) /\ UNCHANGED gfxList
    BY <1>5, TaskFacts DEF DrainCommand, AppendAudio
  <2>2. \A u \in GfxTasks : Has(cmdQ', u) <=> Has(cmdQ, u)
    BY <1>1, <1>5, QueueTypes, TaskFacts, TailHas
  <2>3. \A u \in GfxTasks : Once(cmdQ', u)
    <3> TAKE u \in GfxTasks
    <3>1. Once(cmdQ, u)
      BY DEF FInv, OnePlace
    <3> QED
      BY <1>1, <3>1, QueueTypes, TailOnce
  <2>4. \A u \in GfxTasks : IsHeld(u)' = IsHeld(u)
    BY <1>3, <2>1, <2>2 DEF IsHeld
  <2>5. OnePlace' /\ OneOnRCP'
    BY <1>1, <1>3, <2>1, <2>2, <2>3 DEF FInv, OnePlace, OneOnRCP
  <2>6. InOrder'
    <3>1. Before(cmdQ', gfxInfo, Other)
      <4>1. Before(cmdQ, gfxInfo, Other)
        BY DEF FInv, InOrder
      <4> QED
        BY <1>1, <4>1, QueueTypes, TailBefore
    <3> QED
      BY <1>2, <1>3, <2>1, <2>2, <2>4, <3>1, QueueTypes DEF FInv, InOrder
  <2>7. AudioIn(cmdQ)
    BY <1>2, <1>5 DEF AudioIn, Has
  <2>8. ~AudioRunning /\ audioList = <<>> /\ replyMessageQueue = <<>> /\ audPc = "reply"
    BY <2>7 DEF FInv, OneAudio
  <2>9. NeedsRight'
    <3>1. /\ needs'[t] = {"RSP"} /\ \A u \in Tasks \ {t} : needs'[u] = needs[u]
      BY <1>1, <1>2, <1>5, TaskFacts, QueueTypes DEF Flags
    <3>2. \A u \in AudioTasks : Has(audioList', u) <=> u = t
      <4>1. \A u : ~Has(<<>>, u)
        BY DEF Has
      <4> QED
        BY <1>5, <2>1, <2>8, <4>1, QueueTypes, AppendHas
    <3>3. \A u \in AudioTasks : ~(schedPc = "postSP" /\ sp = u) /\ curRSPTask # u
      BY <2>8 DEF AudioRunning
    <3> QED
      BY <1>1, <1>5, <2>1, <3>1, <3>2, <3>3, TaskFacts DEF FInv, NeedsRight
  <2>10. OneAudio'
    <3>1. Len(cmdQ') = Len(cmdQ) - 1 /\ Len(cmdQ) \in Nat /\ Len(cmdQ) > 0 /\ cmdQ[1] = t
          /\ \A i \in 1 .. Len(cmdQ') : cmdQ'[i] = cmdQ[i + 1] /\ i + 1 \in 1 .. Len(cmdQ)
      BY <1>1, QueueTypes
    <3>2. ~AudioIn(cmdQ')
      <4> SUFFICES ASSUME NEW i \in 1 .. Len(cmdQ'), cmdQ'[i] \in AudioTasks PROVE FALSE
        BY DEF AudioIn
      <4>1. i + 1 = 1
        BY <1>5, <3>1 DEF FInv, OneAudio
      <4> QED
        BY <4>1
    <3>3. ~AudioRunning'
      BY <1>1, <2>8 DEF AudioRunning
    <3>4. Len(audioList') = 1
      <4>1. Len(<<>>) = 0 /\ <<>> \in Seq(AudioTasks)
        OBVIOUS
      <4> QED
        BY <1>5, <2>1, <2>8, <4>1, AppendTyped
    <3> QED
      BY <1>1, <1>5, <2>8, <3>2, <3>3, <3>4 DEF FInv, OneAudio, AudioIn
  <2>11. Counted' /\ SlotsRight'
    BY <1>1, <2>4, SameFrames
  <2> QED
    BY <2>5, <2>6, <2>9, <2>10, <2>11 DEF FInv
<1> QED
  BY <1>2, <1>4, <1>5, TaskFacts

\* A step that moves a task from one part of the RCP to another leaves the order of
\* the frames, the counters and the slots right.
LEMMA OnlyUnits ==
  ASSUME IInv, FInv, UNCHANGED <<cmdQ, gfxList, gfxFrameMsgQ, schedVi, mainVars>>,
         \A u \in GfxTasks : OnRCP(u)' = OnRCP(u),
         schedPc # "swap", schedPc' # "swap"
  PROVE  OnePlace' /\ InOrder' /\ Counted' /\ SlotsRight'
<1>1. \A u \in GfxTasks : IsHeld(u)' = IsHeld(u)
  BY DEF IsHeld
<1>2. gfxInfo' = gfxInfo /\ Other' = Other
  BY DEF mainVars, Other
<1>3. OnePlace'
  BY DEF FInv, OnePlace
<1>4. InOrder'
  BY <1>1, <1>2, QueueTypes DEF FInv, InOrder
<1>5. Counted' /\ SlotsRight'
  BY <1>1, SameFrames
<1> QED
  BY <1>3, <1>4, <1>5

\* Starting a task on the RCP.
LEMMA ScheduleAudioFrames == ASSUME IInv, FInv, ScheduleAudio PROVE FInv'
<1>1. /\ schedPc = "schedule" /\ schedPc' = "postSP" /\ curRSPTask = NoTask
      /\ sp' = Head(audioList) /\ audioList' = Tail(audioList) /\ audioList # <<>>
      /\ UNCHANGED <<cmdQ, gfxList, gfxFrameMsgQ, replyMessageQueue, schedVi, mainVars, audPc,
                     curRSPTask, curRDPTask, needs, doneTask>>
  BY DEF ScheduleAudio, RSPFree, queues, audioVars, IInv, Guarded
<1>2. sp' \in AudioTasks /\ Has(audioList, sp') /\ audioList' = <<>>
  <2>1. Len(audioList) = 1 /\ audioList \in Seq(AudioTasks)
    <3>1. audioList \in Seq(AudioTasks) /\ Len(audioList) \in Nat
      BY QueueTypes
    <3>2. PICK n \in Nat : n = Len(audioList)
      BY <3>1
    <3>3. n > 0
      BY <1>1, <3>1, <3>2
    <3>4. n <= 1
      BY <3>2 DEF FInv, OneAudio
    <3> QED
      BY <3>1, <3>2, <3>3, <3>4
  <2>2. Head(audioList) \in AudioTasks /\ Head(audioList) = audioList[1]
    BY <2>1
  <2>3. Tail(audioList) = <<>>
    <3>1. Tail(audioList) \in Seq(AudioTasks) /\ Len(Tail(audioList)) = 0
      BY <2>1
    <3> QED
      BY <3>1, EmptySeq
  <2> QED
    BY <1>1, <2>1, <2>2, <2>3 DEF Has
<1>3. \A u \in GfxTasks : OnRCP(u)' = OnRCP(u)
  BY <1>1, <1>2, TaskFacts DEF OnRCP
<1>4. OnePlace' /\ InOrder' /\ Counted' /\ SlotsRight'
  BY <1>1, <1>3, OnlyUnits
<1>5. OneOnRCP'
  BY <1>1 DEF FInv, OneOnRCP
<1>6. NeedsRight'
  <2>1. \A u \in AudioTasks : ~Has(audioList', u)
    BY <1>2 DEF Has
  <2> QED
    BY <1>1, <1>2, <2>1, TaskFacts DEF FInv, NeedsRight
<1>7. OneAudio'
  BY <1>1, <1>2, TaskFacts DEF FInv, OneAudio, AudioRunning
<1> QED
  BY <1>4, <1>5, <1>6, <1>7 DEF FInv

\* The frame started is the oldest one that is held.
LEMMA ScheduleGfxFrames == ASSUME IInv, FInv, ScheduleGfx PROVE FInv'
<1> DEFINE t == Head(gfxList)
<1>1. /\ schedPc = "schedule" /\ schedPc' = "postSP"
      /\ curRSPTask = NoTask /\ curRDPTask = NoTask
      /\ gfxList # <<>> /\ sp' = t /\ gfxList' = Tail(gfxList)
      /\ UNCHANGED <<cmdQ, audioList, gfxFrameMsgQ, replyMessageQueue, schedVi, mainVars, audPc,
                     curRSPTask, curRDPTask, needs, doneTask>>
  BY DEF ScheduleGfx, BothFree, queues, audioVars
<1>2. t \in GfxTasks /\ Has(gfxList, t) /\ gfxInfo' = gfxInfo /\ Other' = Other
  <2>1. gfxList \in Seq(GfxTasks)
    BY QueueTypes
  <2>2. t \in GfxTasks /\ t = gfxList[1] /\ Len(gfxList) \in Nat /\ Len(gfxList) > 0
    BY <1>1, <2>1
  <2> QED
    BY <1>1, <2>2 DEF Has, mainVars, Other
<1>3. \A u \in GfxTasks : ~OnRCP(u) /\ (OnRCP(u)' <=> u = t)
  BY <1>1, TaskFacts DEF OnRCP
<1>4. \A u \in GfxTasks : u # t => (Has(gfxList', u) <=> Has(gfxList, u))
  BY <1>1, QueueTypes, TailHas
<1>5. \A u \in GfxTasks : Once(gfxList', u) /\ (u = t => ~Has(gfxList', u))
  <2> TAKE u \in GfxTasks
  <2>1. Once(gfxList, u)
    BY DEF FInv, OnePlace
  <2> QED
    BY <1>1, <2>1, QueueTypes, TailOnce
<1>6. \A u \in GfxTasks : IsHeld(u)' = IsHeld(u)
  BY <1>1, <1>2, <1>3, <1>4, <1>5 DEF IsHeld
<1>7. OnePlace'
  BY <1>1, <1>2, <1>3, <1>4, <1>5 DEF FInv, OnePlace
<1>8. OneOnRCP'
  BY <1>1, TaskFacts DEF FInv, OneOnRCP
<1>9. NeedsRight'
  BY <1>1, <1>2, <1>4, <1>5, TaskFacts DEF FInv, NeedsRight
<1>10. InOrder'
  <2>1. Before(gfxList, gfxInfo, Other) /\ Before(cmdQ, gfxInfo, Other)
    BY DEF FInv, InOrder
  <2>2. Before(gfxList', gfxInfo, Other)
    BY <1>1, <2>1, QueueTypes, TailBefore
  <2>3. t = Other => ~Has(gfxList, gfxInfo)
    BY <1>1, <2>1, QueueTypes, HeadBefore
  <2>4. IsHeld(gfxInfo)' => ~OnRCP(Other)'
    BY <1>1, <1>2, <1>3, <1>6, <2>3, QueueTypes DEF FInv, InOrder, IsHeld
  <2>5. Has(gfxList', Other) => ~Has(cmdQ, gfxInfo)
    BY <1>4, <1>5, QueueTypes DEF FInv, InOrder
  <2> QED
    BY <1>1, <1>2, <1>6, <2>1, <2>2, <2>4, <2>5, QueueTypes DEF FInv, InOrder
<1>11. OneAudio'
  <2>1. AudioRunning' = AudioRunning
    BY <1>1, <1>2, TaskFacts DEF AudioRunning
  <2> QED
    BY <1>1, <2>1 DEF FInv, OneAudio
<1>12. Counted' /\ SlotsRight'
  BY <1>1, <1>6, SameFrames
<1> QED
  BY <1>7, <1>8, <1>9, <1>10, <1>11, <1>12 DEF FInv

\* Recording the started task as the one on its units.
LEMMA PostRSPFrames == ASSUME IInv, FInv, PostRSPDone PROVE FInv'
<1>1. /\ schedPc = "postSP" /\ curRSPTask = NoTask /\ sp \in Tasks
      /\ sp \in GfxTasks => curRDPTask = NoTask
  BY DEF PostRSPDone, IInv, UnitsFree
<1>2. postStep' = "send"
  <2>1. ~Has(interruptQ, "RSP_DONE")
    BY <1>1 DEF IInv, EventsOwed, RSPOwed
  <2> QED
    BY <2>1, PostStep DEF PostRSPDone
<1>3. UNCHANGED <<cmdQ, gfxList, audioList, gfxFrameMsgQ, replyMessageQueue, schedVi, mainVars,
                  audPc, curRDPTask, needs, doneTask>>
  BY DEF PostRSPDone, audioVars
<1>4. IF sp \in GfxTasks
      THEN schedPc' = "postDP" /\ sp' = sp /\ curRSPTask' = curRSPTask
      ELSE schedPc' \in {"audioClient", "wait"} /\ curRSPTask' = sp /\ sp' = NoTask
  BY <1>2 DEF PostRSPDone, AfterSchedule
<1>5. \A u \in GfxTasks : OnRCP(u)' = OnRCP(u)
  BY <1>1, <1>3, <1>4, TaskFacts DEF OnRCP
<1>6. OnePlace' /\ InOrder' /\ Counted' /\ SlotsRight'
  BY <1>1, <1>3, <1>4, <1>5, OnlyUnits
<1>7. OneOnRCP'
  BY <1>1, <1>3, <1>4, TaskFacts DEF FInv, OneOnRCP
<1>8. NeedsRight'
  BY <1>1, <1>3, <1>4, TaskFacts DEF FInv, NeedsRight, Part
<1>9. OneAudio'
  <2>1. AudioRunning' <=> AudioRunning
    BY <1>1, <1>3, <1>4, TaskFacts DEF AudioRunning
  <2> QED
    BY <1>1, <1>3, <1>4, <2>1, TaskFacts DEF FInv, OneAudio
<1> QED
  BY <1>6, <1>7, <1>8, <1>9 DEF FInv

\* A frame takes both units.
LEMMA PostRDPFrames == ASSUME IInv, FInv, PostRDPDone PROVE FInv'
<1>1. schedPc = "postDP" /\ curRSPTask = NoTask /\ sp \in GfxTasks /\ curRDPTask = NoTask
  BY DEF PostRDPDone, IInv, UnitsFree
<1>2. postStep' = "send"
  <2>1. ~Has(interruptQ, "RDP_DONE")
    BY <1>1 DEF IInv, EventsOwed, RDPOwed
  <2> QED
    BY <2>1, PostStep DEF PostRDPDone
<1>3. UNCHANGED <<cmdQ, gfxList, audioList, gfxFrameMsgQ, replyMessageQueue, schedVi, mainVars,
                  audPc, needs, doneTask>>
  BY DEF PostRDPDone, audioVars
<1>4. /\ schedPc' \in {"audioClient", "wait"}
      /\ curRSPTask' = sp /\ curRDPTask' = sp /\ sp' = NoTask
  BY <1>2 DEF PostRDPDone, AfterSchedule
<1>5. \A u \in GfxTasks : OnRCP(u)' = OnRCP(u)
  BY <1>1, <1>3, <1>4, TaskFacts DEF OnRCP
<1>6. OnePlace' /\ InOrder' /\ Counted' /\ SlotsRight'
  BY <1>1, <1>3, <1>4, <1>5, OnlyUnits
<1>7. OneOnRCP'
  BY <1>1, <1>3, <1>4 DEF FInv, OneOnRCP
<1>8. NeedsRight'
  <2>1. needs[sp] = {"RSP", "RDP"}
    BY <1>1 DEF FInv, NeedsRight
  <2> QED
    BY <1>1, <1>3, <1>4, <2>1, TaskFacts DEF FInv, NeedsRight, Part
<1>9. OneAudio'
  <2>1. AudioRunning' <=> AudioRunning
    BY <1>1, <1>3, <1>4, TaskFacts DEF AudioRunning
  <2> QED
    BY <1>1, <1>3, <1>4, <2>1, TaskFacts DEF FInv, OneAudio
<1> QED
  BY <1>6, <1>7, <1>8, <1>9 DEF FInv

\* The done event of a unit finds the task that had it, which is complete when it has no
\* other.
LEMMA ReceiveRSPFrames == ASSUME IInv, FInv, ReceiveRSPDone PROVE FInv'
<1> DEFINE t == curRSPTask
<1>1. /\ schedPc = "wait" /\ curRSPTask' = NoTask
      /\ UNCHANGED <<cmdQ, gfxList, audioList, gfxFrameMsgQ, replyMessageQueue, schedVi, mainVars,
                     audPc, curRDPTask, sp>>
  BY DEF ReceiveRSPDone, audioVars
<1>2. t \in Tasks
  <2>1. Has(interruptQ, "RSP_DONE")
    BY ReceiveStep DEF ReceiveRSPDone, Events
  <2> QED
    BY <1>1, <2>1 DEF IInv, EventsOwed, RSPOwed, TypeOK
<1>3. /\ needs'[t] = needs[t] \ {"RSP"} /\ \A u \in Tasks \ {t} : needs'[u] = needs[u]
  BY <1>2, QueueTypes DEF ReceiveRSPDone, UnitDone
<1>4. IF needs[t] \subseteq {"RSP"} THEN schedPc' = "complete" /\ doneTask' = t
                                     ELSE schedPc' = "schedule" /\ doneTask' = doneTask
  BY DEF ReceiveRSPDone, UnitDone
<1>5. CASE t \in AudioTasks
  <2>1. needs[t] = {"RSP"} /\ schedPc' = "complete" /\ doneTask' = t
    BY <1>4, <1>5 DEF FInv, NeedsRight
  <2>2. \A u \in GfxTasks : OnRCP(u)' = OnRCP(u)
    BY <1>1, <1>5, <2>1, TaskFacts DEF OnRCP
  <2>3. OnePlace' /\ InOrder' /\ Counted' /\ SlotsRight'
    BY <1>1, <2>1, <2>2, OnlyUnits
  <2>4. OneOnRCP'
    BY <1>1, <1>2, <1>5, <2>1, TaskFacts DEF FInv, OneOnRCP
  <2>5. AudioRunning /\ AudioRunning'
    BY <1>5, <2>1 DEF AudioRunning
  <2>6. NeedsRight'
    <3>1. \A u : ~Has(audioList', u)
      BY <1>1, <2>5 DEF FInv, OneAudio, Has
    <3> QED
      BY <1>1, <1>2, <1>3, <1>5, <2>1, <3>1, TaskFacts DEF FInv, NeedsRight, Part
  <2>7. OneAudio'
    BY <1>1, <2>5, TaskFacts DEF FInv, OneAudio
  <2> QED
    BY <2>3, <2>4, <2>6, <2>7 DEF FInv
<1>6. CASE t \in GfxTasks
  <2>1. needs[t] = {"RSP"} \cup Part("RDP", curRDPTask, t) /\ curRDPTask \in {t, NoTask}
    BY <1>6 DEF FInv, NeedsRight, OneOnRCP, Part
  <2>2. OnRCP(t) /\ ~Has(gfxList, t)
    BY <1>6 DEF OnRCP, FInv, OnePlace
  <2>3. IF curRDPTask = NoTask THEN schedPc' = "complete" /\ doneTask' = t
                               ELSE schedPc' = "schedule" /\ curRDPTask = t /\ needs'[t] = {"RDP"}
    BY <1>2, <1>3, <1>4, <2>1, TaskFacts DEF Part
  <2>4. \A u \in GfxTasks : OnRCP(u)' = OnRCP(u)
    BY <1>1, <1>6, <2>3, <2>1, TaskFacts DEF OnRCP
  <2>5. OnePlace' /\ InOrder' /\ Counted' /\ SlotsRight'
    BY <1>1, <1>4, <2>4, OnlyUnits
  <2>6. OneOnRCP'
    BY <1>1, <1>2, <2>3, TaskFacts DEF FInv, OneOnRCP
  <2>7. NeedsRight'
    BY <1>1, <1>2, <1>3, <1>4, <1>6, <2>1, <2>2, <2>3, TaskFacts DEF FInv, NeedsRight, Part
  <2>8. ~AudioRunning /\ ~AudioRunning'
    BY <1>1, <1>6, <2>3, TaskFacts DEF AudioRunning
  <2>9. OneAudio'
    BY <1>1, <2>8, TaskFacts DEF FInv, OneAudio
  <2> QED
    BY <2>5, <2>6, <2>7, <2>9 DEF FInv
<1> QED
  BY <1>2, <1>5, <1>6, TaskFacts

\* So does the event of the RDP, which only a frame takes.
LEMMA ReceiveRDPFrames == ASSUME IInv, FInv, ReceiveRDPDone PROVE FInv'
<1> DEFINE t == curRDPTask
<1>1. /\ schedPc = "wait" /\ curRDPTask' = NoTask
      /\ UNCHANGED <<cmdQ, gfxList, audioList, gfxFrameMsgQ, replyMessageQueue, schedVi, mainVars,
                     audPc, curRSPTask, sp>>
  BY DEF ReceiveRDPDone, audioVars
<1>2. t \in GfxTasks /\ t \in Tasks /\ UnitDone(t, "RDP")
  <2>1. Has(interruptQ, "RDP_DONE")
    BY ReceiveStep DEF ReceiveRDPDone, Events
  <2> QED
    BY <2>1, TaskFacts DEF IInv, EventsOwed, RDPOwed, TypeOK, ReceiveRDPDone
<1>3. /\ needs'[t] = needs[t] \ {"RDP"} /\ \A u \in Tasks \ {t} : needs'[u] = needs[u]
  BY <1>2, QueueTypes DEF UnitDone
<1>4. IF needs[t] \subseteq {"RDP"} THEN schedPc' = "complete" /\ doneTask' = t
                                     ELSE schedPc' = "schedule" /\ doneTask' = doneTask
  BY <1>2 DEF UnitDone
<1>5. needs[t] = {"RDP"} \cup Part("RSP", curRSPTask, t)
      /\ (curRSPTask \in GfxTasks => curRSPTask = t)
  BY <1>2, TaskFacts DEF FInv, NeedsRight, OneOnRCP, Part
<1>6. OnRCP(t) /\ ~Has(gfxList, t)
  BY <1>2 DEF OnRCP, FInv, OnePlace
<1>7. IF curRSPTask = t THEN schedPc' = "schedule" /\ needs'[t] = {"RSP"}
                        ELSE schedPc' = "complete" /\ doneTask' = t /\ curRSPTask \notin GfxTasks
  BY <1>3, <1>4, <1>5 DEF Part
<1>8. \A u \in GfxTasks : OnRCP(u)' = OnRCP(u)
  BY <1>1, <1>2, <1>7, TaskFacts DEF OnRCP
<1>9. OnePlace' /\ InOrder' /\ Counted' /\ SlotsRight'
  BY <1>1, <1>4, <1>8, OnlyUnits
<1>10. OneOnRCP'
  BY <1>1, <1>2, <1>7, TaskFacts DEF FInv, OneOnRCP
<1>11. NeedsRight'
  BY <1>1, <1>2, <1>3, <1>4, <1>5, <1>6, <1>7, TaskFacts DEF FInv, NeedsRight, Part
<1>12. AudioRunning' <=> AudioRunning
  BY <1>1, <1>2, <1>7, TaskFacts DEF AudioRunning
<1>13. OneAudio'
  BY <1>1, <1>2, <1>7, <1>12, TaskFacts DEF FInv, OneAudio
<1> QED
  BY <1>9, <1>10, <1>11, <1>13 DEF FInv

-------------------------------------------------------------------------------
(* The scheduler reporting a task.                                         *)

\* The one audio task goes back to the manager.
LEMMA ReportAudioFrames == ASSUME IInv, FInv, ReportAudioDone PROVE FInv'
<1>1. /\ schedPc = "complete" /\ schedPc' = "schedule" /\ doneTask \in AudioTasks
      /\ doneTask' = NoTask /\ replyMessageQueue' = Append(replyMessageQueue, doneTask)
      /\ UNCHANGED <<cmdQ, gfxList, audioList, gfxFrameMsgQ, schedVi, mainVars, audPc,
                     curRSPTask, curRDPTask, needs, sp>>
  BY DEF ReportAudioDone, audioVars
<1>2. AudioRunning /\ ~AudioRunning'
  BY <1>1 DEF AudioRunning, FInv, OneAudio
<1>3. \A u \in GfxTasks : OnRCP(u)' = OnRCP(u)
  BY <1>1, TaskFacts DEF OnRCP
<1>4. OnePlace' /\ InOrder' /\ Counted' /\ SlotsRight'
  BY <1>1, <1>3, OnlyUnits
<1>5. OneOnRCP'
  BY <1>1 DEF FInv, OneOnRCP
<1>6. NeedsRight'
  BY <1>1 DEF FInv, NeedsRight
<1>7. OneAudio'
  <2>1. replyMessageQueue = <<>> /\ audioList = <<>> /\ ~AudioIn(cmdQ) /\ audPc = "reply"
    BY <1>2 DEF FInv, OneAudio
  <2>2. Len(replyMessageQueue') = 1
    <3>1. Len(<<>>) = 0 /\ <<>> \in Seq(AudioTasks)
      OBVIOUS
    <3> QED
      BY <1>1, <2>1, <3>1, AppendTyped
  <2> QED
    BY <1>1, <1>2, <2>1, <2>2 DEF FInv, OneAudio
<1> QED
  BY <1>4, <1>5, <1>6, <1>7 DEF FInv

\* The frame that is reported is the oldest one: one frame fewer is held, and one
\* more report is on its way.
LEMMA ReportFrameFrames == ASSUME IInv, FInv, ReportFrameDone PROVE FInv'
<1> DEFINE d == doneTask
<1>1. /\ schedPc = "complete" /\ schedPc' = "swap" /\ d \in GfxTasks /\ d' = d
      /\ gfxFrameMsgQ' = Append(gfxFrameMsgQ, "DONE")
      /\ UNCHANGED <<cmdQ, gfxList, audioList, replyMessageQueue, schedVi, mainVars, audPc,
                     curRSPTask, curRDPTask, needs, sp>>
  BY DEF ReportFrameDone, audioVars
<1>2. gfxInfo' = gfxInfo /\ Other' = Other
  BY <1>1 DEF mainVars, Other
<1>3. /\ OnRCP(d) /\ \A u \in GfxTasks : (OnRCP(u) <=> u = d) /\ ~OnRCP(u)'
      /\ \A u \in GfxTasks : OnRCP(u) => ~Has(cmdQ, u) /\ ~Has(gfxList, u)
  BY <1>1, TaskFacts DEF OnRCP, FInv, OneOnRCP, OnePlace
<1>4. \A u \in GfxTasks : IsHeld(u)' <=> IsHeld(u) /\ u # d
  BY <1>1, <1>3 DEF IsHeld
<1>5. IsHeld(d) /\ d = Oldest
  BY <1>1, <1>3, QueueTypes DEF IsHeld, Oldest, FInv, InOrder
<1>6. HeldCount' = HeldCount - 1 /\ Oldest' # d
  BY <1>1, <1>2, <1>4, <1>5, QueueTypes DEF HeldCount, Oldest, FInv, InOrder
<1>7. OnePlace' /\ OneOnRCP'
  BY <1>1, <1>3 DEF FInv, OnePlace, OneOnRCP
<1>8. NeedsRight'
  BY <1>1 DEF FInv, NeedsRight
<1>9. InOrder'
  <2>1. IsHeld(gfxInfo)' => IsHeld(Other)'
    BY <1>2, <1>3, <1>4, QueueTypes DEF FInv, InOrder
  <2> QED
    BY <1>1, <1>2, <1>3, <2>1, QueueTypes DEF FInv, InOrder
<1>10. Counted'
  <2>1. Cardinality(Positions(gfxFrameMsgQ', "DONE")) =
          Cardinality(Positions(gfxFrameMsgQ, "DONE")) + 1
        /\ Cardinality(Positions(gfxFrameMsgQ, "DONE")) \in Nat
    BY <1>1, MainMessages, CountAppend, PositionsFinite
  <2>2. HeldCount \in Nat /\ UNCHANGED <<mainPc, pendingGfx>>
    BY <1>1 DEF HeldCount, mainVars
  <2> QED
    BY <1>6, <2>1, <2>2 DEF FInv, Counted
<1>11. SlotsRight'
  BY <1>1, <1>2, <1>4, <1>5, <1>6, QueueTypes DEF FInv, SlotsRight, mainVars
<1>12. OneAudio'
  <2>1. AudioRunning' <=> AudioRunning
    BY <1>1, TaskFacts DEF AudioRunning
  <2> QED
    BY <1>1, <2>1 DEF FInv, OneAudio
<1> QED
  BY <1>7, <1>8, <1>9, <1>10, <1>11, <1>12 DEF FInv

\* The swap moves the counter on to the slot of the next frame.
LEMMA SwapFrames == ASSUME IInv, FInv, SwapFramebuffer PROVE FInv'
<1>1. /\ schedPc = "swap" /\ schedPc' = "schedule" /\ schedVi' = 1 - schedVi
      /\ UNCHANGED <<cmdQ, gfxList, audioList, gfxFrameMsgQ, replyMessageQueue, mainVars, audPc,
                     curRSPTask, curRDPTask, needs, sp>>
  BY DEF SwapFramebuffer, queues, audioVars
<1>2. gfxInfo' = gfxInfo /\ Other' = Other
  BY <1>1 DEF mainVars, Other
<1>3. \A u : OnRCP(u)' = OnRCP(u)
  BY <1>1 DEF OnRCP
<1>4. \A u : IsHeld(u)' = IsHeld(u)
  BY <1>1, <1>3 DEF IsHeld
<1>5. HeldCount' = HeldCount /\ Oldest' = Oldest
  BY <1>2, <1>4 DEF HeldCount, Oldest
<1>6. OnePlace' /\ OneOnRCP' /\ InOrder' /\ NeedsRight'
  BY <1>1, <1>2, <1>3, <1>4 DEF FInv, OnePlace, OneOnRCP, InOrder, NeedsRight
<1>7. Counted'
  BY <1>1, <1>5, CountedKept DEF FInv, mainVars
<1>8. SlotsRight'
  <2>1. doneTask \in GfxTasks /\ Oldest \in GfxTasks /\ doneTask # Oldest
        /\ schedVi = Index(doneTask)
    BY <1>1, QueueTypes DEF FInv, OneOnRCP, SlotsRight, Oldest
  <2>2. schedVi' = Index(Oldest)
    BY <1>1, <2>1 DEF Index, GfxTasks
  <2> QED
    BY <1>1, <1>2, <1>4, <1>5, <2>2 DEF FInv, SlotsRight, mainVars
<1>9. OneAudio'
  <2>1. AudioRunning' <=> AudioRunning
    BY <1>1 DEF AudioRunning
  <2> QED
    BY <1>1, <2>1 DEF FInv, OneAudio
<1> QED
  BY <1>6, <1>7, <1>8, <1>9 DEF FInv

-------------------------------------------------------------------------------
(* The clients handing in a task.                                          *)

\* The frame submitted is not held, because fewer than two are; it is the newest.
LEMMA SubmitFrameFrames == ASSUME IInv, FInv, SubmitFrame PROVE FInv'
<1> DEFINE g == gfxInfo
<1>1. /\ mainPc = "submit" /\ mainPc' = "recv" /\ cmdQ' = Append(cmdQ, g)
      /\ gfxInfo' = OtherGfx(g) /\ pendingGfx' = pendingGfx + 1
      /\ UNCHANGED <<gfxList, audioList, gfxFrameMsgQ, replyMessageQueue, schedVi, schedPc, audPc,
                     curRSPTask, curRDPTask, needs, sp, doneTask, dynBuf, mainVi, taskBuf, taskVi>>
  BY DEF SubmitFrame, audioVars, schedVars
<1>2. g \in GfxTasks /\ g \in Tasks /\ gfxInfo' = Other /\ Other' = g /\ Other # g
  BY <1>1, QueueTypes, TaskFacts DEF Other
<1>3. ~IsHeld(g)
  <2>1. pendingGfx < 2 /\ pendingGfx \in Int
    BY <1>1, MainMessages DEF IInv, Guarded
  <2>2. HeldCount \in Nat /\ Cardinality(Positions(gfxFrameMsgQ, "DONE")) \in Nat
    BY MainMessages, PositionsFinite DEF HeldCount
  <2>3. HeldCount < 2
    BY <2>1, <2>2 DEF FInv, Counted
  <2> QED
    BY <2>3 DEF HeldCount
<1>4. \A u : OnRCP(u)' = OnRCP(u)
  BY <1>1 DEF OnRCP
<1>5. \A u \in Tasks : Has(cmdQ', u) <=> Has(cmdQ, u) \/ u = g
  BY <1>1, <1>2, QueueTypes, AppendHas
<1>6. \A u \in GfxTasks : IsHeld(u)' <=> IsHeld(u) \/ u = g
  BY <1>1, <1>4, <1>5, TaskFacts DEF IsHeld
<1>7. \A u \in GfxTasks : Once(cmdQ', u)
  <2> TAKE u \in GfxTasks
  <2>1. Once(cmdQ, u) /\ ~Has(cmdQ, g)
    BY <1>3 DEF FInv, OnePlace, IsHeld
  <2> QED
    BY <1>1, <1>2, <2>1, QueueTypes, AppendOnce
<1>8. OnePlace' /\ OneOnRCP' /\ NeedsRight'
  BY <1>1, <1>3, <1>4, <1>5, <1>7, TaskFacts DEF FInv, OnePlace, OneOnRCP, NeedsRight, IsHeld
<1>9. InOrder'
  <2>1. ~Has(cmdQ, g) /\ ~Has(gfxList, g) /\ ~OnRCP(g)
    BY <1>3 DEF IsHeld
  <2>2. Before(gfxList, Other, g) /\ Before(cmdQ, Other, g)
    BY <2>1 DEF Before, Has
  <2>3. Before(cmdQ', Other, g)
    BY <1>1, <1>2, <2>2, QueueTypes, AppendBefore
  <2>4. IsHeld(Other)' /\ ~OnRCP(Other)' /\ ~Has(gfxList', gfxInfo)
    BY <1>1, <1>2, <1>4, <1>6, <2>1
  <2> QED
    BY <1>1, <1>2, <2>1, <2>2, <2>3, <2>4 DEF InOrder
<1>10. HeldCount' = HeldCount + 1 /\ Oldest' = Oldest
  BY <1>2, <1>3, <1>6, QueueTypes DEF HeldCount, Oldest
<1>11. Counted'
  <2>1. HeldCount \in Nat /\ Cardinality(Positions(gfxFrameMsgQ, "DONE")) \in Nat
    BY MainMessages, PositionsFinite DEF HeldCount
  <2> QED
    BY <1>1, <1>10, <2>1 DEF FInv, Counted
<1>12. SlotsRight'
  <2>1. mainVi' = Index(gfxInfo')
    BY <1>1, <1>2, TaskFacts DEF FInv, SlotsRight
  <2> QED
    BY <1>1, <1>2, <1>6, <1>10, <2>1 DEF FInv, SlotsRight
<1>13. OneAudio'
  <2>1. /\ Len(cmdQ') = Len(cmdQ) + 1 /\ Len(cmdQ) \in Nat
        /\ \A i \in 1 .. Len(cmdQ') : cmdQ'[i] = IF i = Len(cmdQ) + 1 THEN g ELSE cmdQ[i]
    BY <1>1, <1>2, QueueTypes
  <2>2. \A i \in 1 .. Len(cmdQ') : cmdQ'[i] \in AudioTasks =>
          i \in 1 .. Len(cmdQ) /\ cmdQ[i] \in AudioTasks
    BY <1>2, <2>1, TaskFacts
  <2>3. AudioIn(cmdQ') => AudioIn(cmdQ)
    BY <2>2 DEF AudioIn
  <2>4. \A i, j \in 1 .. Len(cmdQ') : cmdQ'[i] \in AudioTasks /\ cmdQ'[j] \in AudioTasks => i = j
    BY <2>2 DEF FInv, OneAudio
  <2>5. AudioRunning' <=> AudioRunning
    BY <1>1 DEF AudioRunning
  <2> QED
    BY <1>1, <2>3, <2>4, <2>5 DEF FInv, OneAudio
<1> QED
  BY <1>8, <1>9, <1>11, <1>12, <1>13 DEF FInv

\* The manager submits a task only when it has the last one back.
LEMMA SubmitAudioFrames == ASSUME IInv, FInv, SubmitAudio PROVE FInv'
<1>0. PICK a : a = AudioTask[audFrame]
  OBVIOUS
<1>1. /\ audPc = "submit" /\ audPc' = "reply" /\ (cmdQ' = Append(cmdQ, a) \/ cmdQ' = cmdQ)
      /\ UNCHANGED <<gfxList, audioList, gfxFrameMsgQ, replyMessageQueue, schedVi, schedPc,
                     mainVars, curRSPTask, curRDPTask, needs, sp, doneTask>>
  BY <1>0 DEF SubmitAudio, schedVars
<1>2. a \in AudioTasks /\ a \in Tasks
  BY <1>0, SizeAssumption DEF IInv, TypeOK, AudioTask, AudioTasks, Tasks
<1>3. ~AudioIn(cmdQ) /\ audioList = <<>> /\ replyMessageQueue = <<>> /\ ~AudioRunning
  BY <1>1 DEF FInv, OneAudio
<1>4. gfxInfo' = gfxInfo /\ Other' = Other
  BY <1>1 DEF mainVars, Other
<1>5. \A u : OnRCP(u)' = OnRCP(u)
  BY <1>1 DEF OnRCP
<1>6. \A u \in GfxTasks : (Has(cmdQ', u) <=> Has(cmdQ, u)) /\ Once(cmdQ', u)
  <2> TAKE u \in GfxTasks
  <2>1. Once(cmdQ, u) /\ u # a
    BY <1>2, TaskFacts DEF FInv, OnePlace
  <2>2. CASE cmdQ' = cmdQ
    BY <2>1, <2>2
  <2>3. CASE cmdQ' = Append(cmdQ, a)
    <3>1. Has(cmdQ', u) <=> Has(cmdQ, u)
      BY <1>2, <2>1, <2>3, QueueTypes, AppendHas
    <3>2. Once(cmdQ', u)
      BY <1>2, <2>1, <2>3, QueueTypes, AppendOnce
    <3> QED
      BY <3>1, <3>2
  <2> QED
    BY <1>1, <2>2, <2>3
<1>7. \A u \in GfxTasks : IsHeld(u)' = IsHeld(u)
  BY <1>1, <1>5, <1>6 DEF IsHeld
<1>8. OnePlace' /\ OneOnRCP' /\ NeedsRight'
  BY <1>1, <1>5, <1>6 DEF FInv, OnePlace, OneOnRCP, NeedsRight
<1>9. InOrder'
  <2>1. Before(cmdQ, gfxInfo, Other)
    BY DEF FInv, InOrder
  <2>2. Before(cmdQ', gfxInfo, Other)
    <3>1. CASE cmdQ' = cmdQ
      BY <2>1, <3>1
    <3>2. CASE cmdQ' = Append(cmdQ, a)
      <4>1. gfxInfo # a /\ gfxInfo # Other /\ cmdQ \in Seq(Tasks)
        BY <1>2, QueueTypes, TaskFacts
      <4> QED
        BY <1>2, <2>1, <3>2, <4>1, AppendBefore
    <3> QED
      BY <1>1, <3>1, <3>2
  <2> QED
    BY <1>1, <1>4, <1>5, <1>6, <1>7, <2>2, QueueTypes DEF FInv, InOrder
<1>10. HeldCount' = HeldCount /\ Oldest' = Oldest
  BY <1>4, <1>7, QueueTypes DEF HeldCount, Oldest
<1>11. Counted'
  BY <1>1, <1>10, CountedKept DEF FInv, mainVars
<1>12. SlotsRight'
  BY <1>1, <1>7, <1>10, QueueTypes, SlotsKept DEF FInv, mainVars
<1>13. OneAudio'
  <2>1. ~AudioRunning'
    BY <1>1, <1>3 DEF AudioRunning
  <2>2. \A i, j \in 1 .. Len(cmdQ') : cmdQ'[i] \in AudioTasks /\ cmdQ'[j] \in AudioTasks => i = j
    <3>1. CASE cmdQ' = cmdQ
      BY <3>1 DEF FInv, OneAudio
    <3>2. CASE cmdQ' = Append(cmdQ, a)
      <4>1. /\ Len(cmdQ') = Len(cmdQ) + 1 /\ Len(cmdQ) \in Nat
            /\ \A i \in 1 .. Len(cmdQ') : cmdQ'[i] = IF i = Len(cmdQ) + 1 THEN a ELSE cmdQ[i]
        BY <1>2, <3>2, QueueTypes
      <4>2. \A i \in 1 .. Len(cmdQ') : cmdQ'[i] \in AudioTasks => i = Len(cmdQ) + 1
        BY <1>3, <4>1 DEF AudioIn
      <4> QED
        BY <4>2
    <3> QED
      BY <1>1, <3>1, <3>2
  <2> QED
    BY <1>1, <1>3, <2>1, <2>2, Len(<<>>) = 0 DEF FInv, OneAudio
<1> QED
  BY <1>8, <1>9, <1>11, <1>12, <1>13 DEF FInv

\* With its task back, the manager has none in the scheduler.
LEMMA ReceiveReplyFrames == ASSUME IInv, FInv, ReceiveReply PROVE FInv'
<1>1. /\ audPc' = "recv" /\ replyMessageQueue # <<>> /\ replyMessageQueue' = Tail(replyMessageQueue)
      /\ UNCHANGED <<cmdQ, gfxList, audioList, gfxFrameMsgQ, schedVi, schedPc, mainVars,
                     curRSPTask, curRDPTask, needs, sp, doneTask>>
  BY DEF ReceiveReply, schedVars
<1>2. \A u : OnRCP(u)' = OnRCP(u)
  BY <1>1 DEF OnRCP
<1>3. \A u : IsHeld(u)' = IsHeld(u)
  BY <1>1, <1>2 DEF IsHeld
<1>4. gfxInfo' = gfxInfo /\ Other' = Other
  BY <1>1 DEF mainVars, Other
<1>5. OnePlace' /\ OneOnRCP' /\ NeedsRight' /\ InOrder'
  BY <1>1, <1>2, <1>3, <1>4 DEF FInv, OnePlace, OneOnRCP, NeedsRight, InOrder
<1>6. HeldCount' = HeldCount /\ Oldest' = Oldest
  BY <1>3, <1>4 DEF HeldCount, Oldest
<1>7. Counted' /\ SlotsRight'
  BY <1>1, <1>3, <1>6, QueueTypes, CountedKept, SlotsKept DEF FInv, mainVars
<1>8. OneAudio'
  <2>1. ~AudioIn(cmdQ) /\ audioList = <<>> /\ ~AudioRunning
    BY <1>1 DEF FInv, OneAudio
  <2>2. ~AudioRunning'
    BY <1>1, <2>1 DEF AudioRunning
  <2>3. replyMessageQueue' = <<>>
    <3>1. replyMessageQueue \in Seq(AudioTasks) /\ Len(replyMessageQueue) <= 1
      BY QueueTypes DEF FInv, OneAudio
    <3>2. replyMessageQueue' \in Seq(AudioTasks) /\ Len(replyMessageQueue') = 0
      <4>1. Len(Tail(replyMessageQueue)) = Len(replyMessageQueue) - 1
            /\ Len(replyMessageQueue) \in Nat /\ Len(replyMessageQueue) > 0
            /\ Tail(replyMessageQueue) \in Seq(AudioTasks)
        BY <1>1, <3>1, TailTyped
      <4> QED
        BY <1>1, <3>1, <4>1
    <3> QED
      BY <3>2, EmptySeq
  <2> QED
    BY <1>1, <2>1, <2>2, <2>3, Len(<<>>) = 0 DEF FInv, OneAudio
<1> QED
  BY <1>5, <1>7, <1>8 DEF FInv

-------------------------------------------------------------------------------
\* The invariant holds when the game starts, ..
LEMMA InitFInv == Init => FInv
<1> SUFFICES ASSUME Init PROVE FInv
  OBVIOUS
<1>1. /\ cmdQ = <<>> /\ gfxList = <<>> /\ audioList = <<>> /\ replyMessageQueue = <<>>
      /\ gfxFrameMsgQ = <<>> /\ schedPc = "wait" /\ mainPc = "load"
      /\ curRSPTask = NoTask /\ curRDPTask = NoTask /\ gfxInfo = "gfx0"
      /\ pendingGfx = 0 /\ mainVi = 0 /\ schedVi = 0
  BY DEF Init
<1>2. /\ Len(<<>>) = 0 /\ \A m : ~Has(<<>>, m) /\ Once(<<>>, m)
      /\ \A a, b : Before(<<>>, a, b)
  BY DEF Has, Once, Before
<1>3. \A t \in Tasks : ~OnRCP(t)
  BY <1>1, TaskFacts DEF OnRCP
<1>4. \A t \in GfxTasks : ~IsHeld(t)
  BY <1>1, <1>2, <1>3, TaskFacts DEF IsHeld
<1>5. gfxInfo \in GfxTasks /\ Other \in GfxTasks
  BY <1>1, TaskFacts DEF Other, GfxTasks
<1>6. OnePlace /\ OneOnRCP /\ NeedsRight /\ InOrder
  BY <1>1, <1>2, <1>3, <1>4, <1>5, TaskFacts DEF OnePlace, OneOnRCP, NeedsRight, InOrder
<1>7. Counted
  <2>1. Positions(gfxFrameMsgQ, "DONE") = {}
    BY <1>1, DOMAIN <<>> = {} DEF Positions
  <2>2. Cardinality(Positions(gfxFrameMsgQ, "DONE")) = 0
    BY <2>1, FS_EmptySet
  <2> QED
    BY <1>1, <1>4, <1>5, <2>2 DEF Counted, HeldCount
<1>8. SlotsRight
  BY <1>1, <1>4, <1>5 DEF SlotsRight, Oldest, Index
<1>9. OneAudio
  BY <1>1, <1>2, TaskFacts DEF OneAudio, AudioIn, AudioRunning
<1> QED
  BY <1>6, <1>7, <1>8, <1>9 DEF FInv

\* .. and always.
LEMMA FInvAlways == Spec => [](IInv /\ FInv)
<1>1. IInv /\ FInv /\ [Next]_vars => FInv'
  BY QuietFrames, MainStep, DrainFrames, ScheduleAudioFrames, ScheduleGfxFrames,
     PostRSPFrames, PostRDPFrames, ReceiveRSPFrames, ReceiveRDPFrames, ReportAudioFrames,
     ReportFrameFrames, SwapFrames, SubmitFrameFrames, SubmitAudioFrames, ReceiveReplyFrames
  DEF Next, Sched, Main, Audio
<1> QED
  BY IInvAlways, InitFInv, <1>1, PTL DEF Spec

\* Two different things are two.
LEMMA CardinalityPair == ASSUME NEW a, NEW b, a # b PROVE Cardinality({a, b}) = 2
<1>1. IsFiniteSet({a}) /\ Cardinality({a}) = 1
  BY FS_Singleton
<1>2. Cardinality({a} \cup {b}) = Cardinality({a}) + 1
  BY <1>1, FS_AddElement, b \notin {a}
<1>3. {a, b} = {a} \cup {b}
  OBVIOUS
<1> QED
  BY <1>1, <1>2, <1>3

\* What the properties call held is what the invariant calls held.
LEMMA HeldFrames ==
  ASSUME IInv
  PROVE  /\ \A t \in GfxTasks : t \in Active <=> OnRCP(t)
         /\ \A t \in GfxTasks : t \in Held <=> IsHeld(t)
<1>1. /\ \A t \in GfxTasks : t \in Members(cmdQ) <=> Has(cmdQ, t)
      /\ \A t \in GfxTasks : t \in Members(gfxList) <=> Has(gfxList, t)
      /\ \A t \in GfxTasks : t \notin Members(audioList)
  <2>1. /\ DOMAIN cmdQ = 1 .. Len(cmdQ) /\ DOMAIN gfxList = 1 .. Len(gfxList)
        /\ \A i \in DOMAIN audioList : audioList[i] \in AudioTasks
    BY QueueTypes
  <2> QED
    BY <2>1, TaskFacts DEF Members, Has
<1>2. \A t \in GfxTasks : t \in Active <=> OnRCP(t)
  BY TaskFacts DEF Active, OnRCP
<1> QED
  BY <1>1, <1>2 DEF Held, IsHeld

\* pendingGfx counts exactly the frames held and the reports not yet read, whatever
\* the sizes of the queues and however the threads interleave.
THEOREM PendingGfxCounts == Spec => []PendingGfxExact
<1>1. ASSUME IInv, FInv PROVE PendingGfxExact
  <2>1. Held \cap GfxTasks = {t \in {gfxInfo, Other} : IsHeld(t)}
    BY <1>1, HeldFrames, QueueTypes
  <2>2. Cardinality({gfxInfo}) = 1 /\ Cardinality({Other}) = 1
        /\ Cardinality({gfxInfo, Other}) = 2 /\ Cardinality({}) = 0
    BY <1>1, QueueTypes, CardinalityPair, FS_EmptySet, FS_Singleton
  <2>3. Cardinality(Held \cap GfxTasks) = HeldCount
    <3>1. CASE IsHeld(gfxInfo)
      <4>1. Held \cap GfxTasks = {gfxInfo, Other}
        BY <1>1, <2>1, <3>1 DEF FInv, InOrder
      <4> QED
        BY <2>2, <3>1, <4>1 DEF HeldCount
    <3>2. CASE ~IsHeld(gfxInfo) /\ IsHeld(Other)
      <4>1. Held \cap GfxTasks = {Other}
        BY <2>1, <3>2
      <4> QED
        BY <2>2, <3>2, <4>1 DEF HeldCount
    <3>3. CASE ~IsHeld(gfxInfo) /\ ~IsHeld(Other)
      <4>1. Held \cap GfxTasks = {}
        BY <2>1, <3>3
      <4> QED
        BY <2>2, <3>3, <4>1 DEF HeldCount
    <3> QED
      BY <3>1, <3>2, <3>3
  <2> QED
    BY <1>1, <2>3 DEF FInv, Counted, PendingGfxExact
<1> QED
  BY FInvAlways, <1>1, PTL

\* A frame is not held while the main loop builds it.
LEMMA BuiltNotHeld == IInv /\ FInv /\ mainPc \in {"build", "submit"} => ~IsHeld(gfxInfo)
<1> SUFFICES ASSUME IInv, FInv, mainPc \in {"build", "submit"} PROVE ~IsHeld(gfxInfo)
  OBVIOUS
<1>1. pendingGfx < 2 /\ pendingGfx \in Int
  BY MainMessages DEF IInv, Guarded
<1>2. HeldCount \in Nat /\ Cardinality(Positions(gfxFrameMsgQ, "DONE")) \in Nat
  BY MainMessages, PositionsFinite DEF HeldCount
<1>3. HeldCount < 2
  BY <1>1, <1>2 DEF FInv, Counted
<1> QED
  BY <1>3 DEF HeldCount

\* The display list, the task structure and the video settings the main loop writes
\* are read by no frame the scheduler holds.
THEOREM BuildsInFreeBuffers == Spec => []FrameBeingBuiltIsFree
<1>1. ASSUME IInv, FInv PROVE FrameBeingBuiltIsFree
  <2>1. ASSUME mainPc \in {"build", "submit"} PROVE gfxInfo \notin Held
    BY <1>1, <2>1, BuiltNotHeld, HeldFrames, QueueTypes
  <2>2. ASSUME mainPc = "build", NEW t \in Held \cap GfxTasks
        PROVE  taskBuf[t] # dynBuf /\ taskVi[t] # mainVi
    <3>1. t = Other /\ IsHeld(Other)
      BY <1>1, <2>2, BuiltNotHeld, HeldFrames, QueueTypes
    <3>2. taskBuf[Other] # dynBuf /\ taskVi[Other] = Index(Other) /\ mainVi = Index(gfxInfo)
      BY <1>1, <2>2, <3>1, QueueTypes DEF FInv, SlotsRight
    <3>3. Index(Other) # Index(gfxInfo)
      BY <1>1, QueueTypes DEF Index, GfxTasks
    <3> QED
      BY <3>1, <3>2, <3>3
  <2> QED
    BY <2>1, <2>2 DEF FrameBeingBuiltIsFree
<1> QED
  BY FInvAlways, <1>1, PTL

\* The scheduler applies the video settings recorded for the frame it completes: the
\* two counters of the two threads stay in step.
THEOREM ViIndexStaysInStep == Spec => []ViIndexCorrelates
<1>1. FInv => ViIndexCorrelates
  BY DEF FInv, OneOnRCP, SlotsRight, ViIndexCorrelates
<1> QED
  BY FInvAlways, <1>1, PTL

\* The blocking send of a frame always finds room in the command queue: two frames
\* and one audio task are all that can be in it, and the one being sent is not.
THEOREM SubmitFindsRoom == Spec => []SubmitNeverWaits
<1>1. ASSUME IInv, FInv, mainPc = "submit" PROVE Len(cmdQ) < CmdQSize
  <2>1. ~Has(cmdQ, gfxInfo)
    BY <1>1, BuiltNotHeld DEF IsHeld
  <2>2. \A i \in 1 .. Len(cmdQ) : cmdQ[i] = Other \/ cmdQ[i] \in AudioTasks
    <3> TAKE i \in 1 .. Len(cmdQ)
    <3>1. cmdQ[i] \in Tasks /\ cmdQ[i] # gfxInfo
      BY <1>1, <2>1, QueueTypes DEF Has
    <3> QED
      BY <1>1, <3>1, QueueTypes, TaskFacts
  <2>3. \A i, j \in 1 .. Len(cmdQ) : cmdQ[i] = Other /\ cmdQ[j] = Other => i = j
    BY <1>1, QueueTypes DEF FInv, OnePlace, Once
  <2>4. \A i, j \in 1 .. Len(cmdQ) : cmdQ[i] \in AudioTasks /\ cmdQ[j] \in AudioTasks => i = j
    BY <1>1 DEF FInv, OneAudio
  <2>5. ~(Len(cmdQ) >= 3)
    <3> SUFFICES ASSUME Len(cmdQ) >= 3 PROVE FALSE
      OBVIOUS
    <3>1. 1 \in 1 .. Len(cmdQ) /\ 2 \in 1 .. Len(cmdQ) /\ 3 \in 1 .. Len(cmdQ)
      BY <1>1, QueueTypes
    <3> QED
      BY <2>2, <2>3, <2>4, <3>1, 1 # 2 /\ 1 # 3 /\ 2 # 3
  <2>6. Len(cmdQ) \in Nat
    BY <1>1, QueueTypes
  <2> QED
    BY <2>5, <2>6, SizeAssumption
<1>2. IInv /\ FInv => SubmitNeverWaits
  BY <1>1 DEF SubmitNeverWaits
<1> QED
  BY FInvAlways, <1>2, PTL

-------------------------------------------------------------------------------
(* The scheduler implements FramePipeline.                                 *)

\* The frames of a queue that holds none, one or two of them.
LEMMA FramesOfFew ==
  ASSUME NEW q \in Seq(Tasks)
  PROVE  /\ (\A i \in 1 .. Len(q) : q[i] \notin GfxTasks) => FramesOf(q) = <<>>
         /\ \A i \in 1 .. Len(q) :
              {k \in 1 .. Len(q) : q[k] \in GfxTasks} = {i} => FramesOf(q) = <<q[i]>>
         /\ \A i, j \in 1 .. Len(q) :
              i < j /\ {k \in 1 .. Len(q) : q[k] \in GfxTasks} = {i, j}
                => FramesOf(q) = <<q[i], q[j]>>
<1> DEFINE P == {k \in 1 .. Len(q) : q[k] \in GfxTasks}
           UpTo(i) == {j \in P : j <= i}
           F == [k \in 1 .. Cardinality(P) |-> q[CHOOSE i \in P : Cardinality(UpTo(i)) = k]]
<1>1. FramesOf(q) = F
  <2>1. DOMAIN q = 1 .. Len(q)
    OBVIOUS
  <2> QED
    BY <2>1 DEF FramesOf
<1>2. ASSUME \A i \in 1 .. Len(q) : q[i] \notin GfxTasks PROVE FramesOf(q) = <<>>
  <2>1. P = {}
    BY <1>2
  <2>2. Cardinality(P) = 0
    BY <2>1, FS_EmptySet
  <2>3. F = [k \in 1 .. 0 |-> q[CHOOSE i \in P : Cardinality(UpTo(i)) = k]]
    BY <2>2
  <2> HIDE DEF P, UpTo
  <2>4. F = <<>>
    BY <2>3
  <2> QED
    BY <1>1, <2>4
<1>3. ASSUME NEW i \in 1 .. Len(q), P = {i} PROVE FramesOf(q) = <<q[i]>>
  <2>0. P = {i} /\ UpTo(i) = {i}
    BY <1>3
  <2>1. Cardinality(P) = 1 /\ Cardinality(UpTo(i)) = 1
    BY <2>0, FS_Singleton
  <2>2. (CHOOSE m \in P : Cardinality(UpTo(m)) = 1) = i
    BY <1>3, <2>1
  <2> HIDE DEF P, UpTo
  <2>3. F = [k \in 1 .. 1 |-> q[i]]
    <3>1. F = [k \in 1 .. 1 |-> q[CHOOSE m \in P : Cardinality(UpTo(m)) = k]]
      BY <2>1
    <3>2. \A k \in 1 .. 1 : k = 1
      OBVIOUS
    <3> DEFINE pick(k) == CHOOSE m \in P : Cardinality(UpTo(m)) = k
    <3>3. pick(1) = i
      BY <2>2
    <3>4. F = [k \in 1 .. 1 |-> q[pick(k)]]
      BY <3>1
    <3> HIDE DEF pick, F
    <3> QED
      BY <3>2, <3>3, <3>4
  <2>4. [k \in 1 .. 1 |-> q[i]] = <<q[i]>>
    OBVIOUS
  <2> QED
    BY <1>1, <2>3, <2>4
<1>4. ASSUME NEW i \in 1 .. Len(q), NEW j \in 1 .. Len(q), i < j, P = {i, j}
      PROVE  FramesOf(q) = <<q[i], q[j]>>
  <2>1. UpTo(i) = {i} /\ UpTo(j) = {i, j}
    BY <1>4
  <2>2. {i, j} = {i} \cup {j} /\ i # j
    BY <1>4
  <2>3. Cardinality({i}) = 1 /\ Cardinality({i, j}) = 2
    BY <2>2, CardinalityPair, FS_Singleton
  <2>4. Cardinality(P) = 2 /\ Cardinality(UpTo(i)) = 1 /\ Cardinality(UpTo(j)) = 2
    BY <1>4, <2>1, <2>3
  <2> HIDE DEF P, UpTo
  <2>5. (CHOOSE m \in P : Cardinality(UpTo(m)) = 1) = i
    BY <1>4, <2>4
  <2>6. (CHOOSE m \in P : Cardinality(UpTo(m)) = 2) = j
    BY <1>4, <2>4
  <2>7. F = [k \in 1 .. 2 |-> IF k = 1 THEN q[i] ELSE q[j]]
    <3>1. F = [k \in 1 .. 2 |-> q[CHOOSE m \in P : Cardinality(UpTo(m)) = k]]
      BY <2>4
    <3>2. \A k \in 1 .. 2 : k = 1 \/ k = 2
      OBVIOUS
    <3> DEFINE pick(k) == CHOOSE m \in P : Cardinality(UpTo(m)) = k
    <3>3. pick(1) = i /\ pick(2) = j
      BY <2>5, <2>6
    <3>4. F = [k \in 1 .. 2 |-> q[pick(k)]]
      BY <3>1
    <3> HIDE DEF pick, F
    <3> QED
      BY <3>2, <3>3, <3>4
  <2>8. [k \in 1 .. 2 |-> IF k = 1 THEN q[i] ELSE q[j]] = <<q[i], q[j]>>
    OBVIOUS
  <2> QED
    BY <1>1, <2>7, <2>8
<1> QED
  BY <1>2, <1>3, <1>4

\* The sequence of the two tasks, in their order, that it holds.
Form(hasFirst, hasSecond) ==
  IF hasFirst THEN IF hasSecond THEN <<gfxInfo, Other>> ELSE <<gfxInfo>>
              ELSE IF hasSecond THEN <<Other>> ELSE <<>>

\* A list of frames in order is what it holds.
LEMMA ListForm ==
  ASSUME IInv, FInv
  PROVE  gfxList = Form(Has(gfxList, gfxInfo), Has(gfxList, Other))
<1> DEFINE q == gfxList
<1>1. q \in Seq(GfxTasks) /\ Len(q) \in Nat /\ DOMAIN q = 1 .. Len(q)
      /\ \A i \in 1 .. Len(q) : q[i] = gfxInfo \/ q[i] = Other
  BY QueueTypes
<1>2. /\ Once(q, gfxInfo) /\ Once(q, Other) /\ Before(q, gfxInfo, Other)
      /\ gfxInfo # Other
  BY QueueTypes DEF FInv, OnePlace, InOrder
<1> HIDE DEF q
<1>3. Len(q) = 0 \/ Len(q) = 1 \/ Len(q) = 2
  <2> SUFFICES ASSUME Len(q) >= 3 PROVE FALSE
    BY <1>1
  <2>1. 1 \in 1 .. Len(q) /\ 2 \in 1 .. Len(q) /\ 3 \in 1 .. Len(q)
    BY <1>1
  <2> QED
    BY <1>1, <1>2, <2>1, 1 # 2 /\ 1 # 3 /\ 2 # 3 DEF Once
<1>4. CASE Len(q) = 0
  <2>1. q = <<>> /\ ~Has(q, gfxInfo) /\ ~Has(q, Other)
    BY <1>1, <1>4, EmptySeq DEF Has
  <2> QED
    BY <2>1 DEF Form, q
<1>5. CASE Len(q) = 1
  <2>1. q = <<q[1]>>
    BY <1>1, <1>5
  <2>2. /\ q[1] = gfxInfo \/ q[1] = Other
        /\ \A u : Has(q, u) <=> q[1] = u
    BY <1>1, <1>5 DEF Has
  <2> QED
    BY <1>2, <2>1, <2>2 DEF Form, q
<1>6. CASE Len(q) = 2
  <2>1. q = <<q[1], q[2]>>
    BY <1>1, <1>6
  <2>2. 1 \in 1 .. Len(q) /\ 2 \in 1 .. Len(q) /\ 1 # 2 /\ ~(2 < 1)
    BY <1>6
  <2>3. q[1] = gfxInfo /\ q[2] = Other
    BY <1>1, <1>2, <2>2 DEF Once, Before
  <2>4. Has(q, gfxInfo) /\ Has(q, Other)
    BY <2>2, <2>3 DEF Has
  <2> QED
    BY <2>1, <2>3, <2>4 DEF Form, q
<1> QED
  BY <1>3, <1>4, <1>5, <1>6

\* So are the frames of the command queue.
LEMMA CommandForm ==
  ASSUME IInv, FInv
  PROVE  FramesOf(cmdQ) = Form(Has(cmdQ, gfxInfo), Has(cmdQ, Other))
<1> DEFINE P == {k \in 1 .. Len(cmdQ) : cmdQ[k] \in GfxTasks}
<1>1. /\ cmdQ \in Seq(Tasks) /\ gfxInfo # Other /\ gfxInfo \in GfxTasks /\ Other \in GfxTasks
      /\ Once(cmdQ, gfxInfo) /\ Once(cmdQ, Other) /\ Before(cmdQ, gfxInfo, Other)
      /\ \A k \in 1 .. Len(cmdQ) : cmdQ[k] \in GfxTasks <=> cmdQ[k] = gfxInfo \/ cmdQ[k] = Other
  BY QueueTypes DEF FInv, OnePlace, InOrder
<1>2. CASE ~Has(cmdQ, gfxInfo) /\ ~Has(cmdQ, Other)
  <2>1. \A k \in 1 .. Len(cmdQ) : cmdQ[k] \notin GfxTasks
    BY <1>1, <1>2 DEF Has
  <2> QED
    BY <1>1, <1>2, <2>1, FramesOfFew DEF Form
<1>3. CASE Has(cmdQ, gfxInfo) /\ ~Has(cmdQ, Other)
  <2>1. PICK i \in 1 .. Len(cmdQ) : cmdQ[i] = gfxInfo
    BY <1>3 DEF Has
  <2>2. P = {i}
    BY <1>1, <1>3, <2>1 DEF Has, Once
  <2> QED
    BY <1>1, <1>3, <2>1, <2>2, FramesOfFew DEF Form
<1>4. CASE ~Has(cmdQ, gfxInfo) /\ Has(cmdQ, Other)
  <2>1. PICK i \in 1 .. Len(cmdQ) : cmdQ[i] = Other
    BY <1>4 DEF Has
  <2>2. P = {i}
    BY <1>1, <1>4, <2>1 DEF Has, Once
  <2> QED
    BY <1>1, <1>4, <2>1, <2>2, FramesOfFew DEF Form
<1>5. CASE Has(cmdQ, gfxInfo) /\ Has(cmdQ, Other)
  <2>1. PICK i \in 1 .. Len(cmdQ) : cmdQ[i] = gfxInfo
    BY <1>5 DEF Has
  <2>2. PICK j \in 1 .. Len(cmdQ) : cmdQ[j] = Other
    BY <1>5 DEF Has
  <2>3. i < j /\ P = {i, j}
    BY <1>1, <2>1, <2>2 DEF Once, Before
  <2> QED
    BY <1>1, <1>5, <2>1, <2>2, <2>3, FramesOfFew DEF Form
<1> QED
  BY <1>2, <1>3, <1>4, <1>5

InFlight == ActiveFrame \o gfxList \o FramesOf(cmdQ)

\* What is in flight is what is held: the frame built before the last one, then the
\* last one.
LEMMA InFlightForm == ASSUME IInv, FInv PROVE InFlight = Form(IsHeld(gfxInfo), IsHeld(Other))
<1>1. /\ gfxInfo \in GfxTasks /\ Other \in GfxTasks /\ gfxInfo # Other
      /\ \A t \in GfxTasks : t = gfxInfo \/ t = Other
  BY QueueTypes
<1>2. ActiveFrame = Form(OnRCP(gfxInfo), OnRCP(Other)) /\ ~(OnRCP(gfxInfo) /\ OnRCP(Other))
  <2>1. ~(OnRCP(gfxInfo) /\ OnRCP(Other))
    BY DEF FInv, InOrder, IsHeld
  <2>2. CASE OnRCP(gfxInfo)
    <3>1. (CHOOSE t \in GfxTasks : t \in Active) = gfxInfo /\ \E t \in GfxTasks : t \in Active
      BY <1>1, <2>1, <2>2, HeldFrames
    <3> QED
      BY <2>1, <2>2, <3>1 DEF ActiveFrame, Form
  <2>3. CASE OnRCP(Other)
    <3>1. (CHOOSE t \in GfxTasks : t \in Active) = Other /\ \E t \in GfxTasks : t \in Active
      BY <1>1, <2>1, <2>3, HeldFrames
    <3> QED
      BY <2>1, <2>3, <3>1 DEF ActiveFrame, Form
  <2>4. CASE ~OnRCP(gfxInfo) /\ ~OnRCP(Other)
    <3>1. ~\E t \in GfxTasks : t \in Active
      BY <1>1, <2>4, HeldFrames
    <3> QED
      BY <2>4, <3>1 DEF ActiveFrame, Form
  <2> QED
    BY <2>1, <2>2, <2>3, <2>4
<1>3. /\ \A a, b \in GfxTasks : <<a>> \o <<b>> = <<a, b>>
      /\ \A a \in GfxTasks : <<a>> \o <<>> = <<a>> /\ <<>> \o <<a>> = <<a>>
      /\ \A a, b \in GfxTasks : <<a, b>> \o <<>> = <<a, b>> /\ <<>> \o <<a, b>> = <<a, b>>
      /\ <<>> \o <<>> = <<>>
  <2>1. ASSUME NEW a \in GfxTasks, NEW b \in GfxTasks PROVE <<a>> \o <<b>> = <<a, b>>
    <3>1. <<a>> \in Seq(GfxTasks) /\ <<b>> \in Seq(GfxTasks) /\ <<a, b>> \in Seq(GfxTasks)
          /\ Len(<<a>>) = 1 /\ Len(<<b>>) = 1 /\ Len(<<a, b>>) = 2
          /\ <<a>>[1] = a /\ <<b>>[1] = b /\ <<a, b>>[1] = a /\ <<a, b>>[2] = b
      OBVIOUS
    <3> DEFINE u == <<a>>
               v == <<b>>
               w == <<a, b>>
    <3> HIDE DEF u, v, w
    <3>2. u \in Seq(GfxTasks) /\ v \in Seq(GfxTasks) /\ w \in Seq(GfxTasks)
          /\ Len(u) = 1 /\ Len(v) = 1 /\ Len(w) = 2
          /\ u[1] = a /\ v[1] = b /\ w[1] = a /\ w[2] = b
      BY <3>1 DEF u, v, w
    <3>3. /\ u \o v \in Seq(GfxTasks) /\ Len(u \o v) = Len(u) + Len(v)
          /\ \A i \in 1 .. Len(u) + Len(v) : (u \o v)[i] =
               IF i <= Len(u) THEN u[i] ELSE v[i - Len(u)]
      BY <3>2, ConcatProperties
    <3>4. Len(u \o v) = 2 /\ (u \o v)[1] = w[1] /\ (u \o v)[2] = w[2]
      BY <3>2, <3>3
    <3>5. \A i \in 1 .. Len(u \o v) : (u \o v)[i] = w[i]
      BY <3>4
    <3>6. u \o v = w
      BY <3>2, <3>3, <3>4, <3>5, SeqEqual
    <3> QED
      BY <3>6 DEF u, v, w
  <2>2. \A q \in Seq(GfxTasks) : q \o <<>> = q /\ <<>> \o q = q
    BY ConcatEmptySeq
  <2>3. /\ <<>> \in Seq(GfxTasks)
        /\ \A a, b \in GfxTasks : <<a>> \in Seq(GfxTasks) /\ <<a, b>> \in Seq(GfxTasks)
    OBVIOUS
  <2> QED
    BY <2>1, <2>2, <2>3
<1>4. InFlight = Form(OnRCP(gfxInfo), OnRCP(Other))
                   \o Form(Has(gfxList, gfxInfo), Has(gfxList, Other))
                   \o Form(Has(cmdQ, gfxInfo), Has(cmdQ, Other))
  BY <1>2, ListForm, CommandForm DEF InFlight
<1>5. CASE IsHeld(gfxInfo)
  <2>1. IsHeld(Other) /\ ~OnRCP(Other)
    BY <1>5 DEF FInv, InOrder
  <2>2. CASE OnRCP(gfxInfo)
    BY <1>1, <1>3, <1>4, <1>5, <2>1, <2>2 DEF Form, IsHeld, FInv, OnePlace
  <2>3. CASE Has(gfxList, gfxInfo)
    BY <1>1, <1>3, <1>4, <1>5, <2>1, <2>3 DEF Form, IsHeld, FInv, OnePlace
  <2>4. CASE Has(cmdQ, gfxInfo)
    BY <1>1, <1>3, <1>4, <1>5, <2>1, <2>4 DEF Form, IsHeld, FInv, OnePlace, InOrder
  <2> QED
    BY <1>5, <2>2, <2>3, <2>4 DEF IsHeld
<1>6. CASE ~IsHeld(gfxInfo) /\ IsHeld(Other)
  BY <1>1, <1>3, <1>4, <1>6 DEF Form, IsHeld, FInv, OnePlace
<1>7. CASE ~IsHeld(gfxInfo) /\ ~IsHeld(Other)
  BY <1>3, <1>4, <1>7 DEF Form, IsHeld
<1> QED
  BY <1>5, <1>6, <1>7

\* The reports the main loop has yet to read.
Reports == Cardinality(Positions(gfxFrameMsgQ, "DONE"))

\* What the pipeline says on those two.
LEMMA PipelineActions ==
  /\ Pipeline!Init <=> InFlight = <<>> /\ Reports = 0
  /\ Pipeline!vars = <<InFlight, Reports>> /\ Pipeline!vars' = <<InFlight', Reports'>>
  /\ \A f : Pipeline!Submit(f) <=>
       /\ Len(InFlight) + Reports < 2
       /\ \A i \in DOMAIN InFlight : InFlight[i] # f
       /\ InFlight' = Append(InFlight, f) /\ Reports' = Reports
  /\ Pipeline!Complete <=>
       InFlight # <<>> /\ InFlight' = Tail(InFlight) /\ Reports' = Reports + 1
  /\ Pipeline!Acknowledge <=>
       Reports > 0 /\ Reports' = Reports - 1 /\ InFlight' = InFlight
  /\ Pipeline!Next <=>
       (\E f \in GfxTasks : Pipeline!Submit(f)) \/ Pipeline!Complete \/ Pipeline!Acknowledge
BY DEF Pipeline!Init, Pipeline!vars, Pipeline!Submit, Pipeline!Complete, Pipeline!Acknowledge,
       Pipeline!Next, InFlight, Reports

\* What is in flight follows from which structure is next and from the count of
\* frames held.
InFlightOf(count) ==
  IF count = 2 THEN <<gfxInfo, Other>> ELSE IF count = 1 THEN <<Other>> ELSE <<>>

CountForm ==
  /\ InFlight = InFlightOf(HeldCount) /\ HeldCount \in {0, 1, 2}
  /\ Reports \in Nat /\ pendingGfx = HeldCount + Reports

\* The count of frames held decides what is in flight.
LEMMA InFlightCounted == IInv /\ FInv => CountForm
<1> SUFFICES ASSUME IInv, FInv PROVE CountForm
  OBVIOUS
<1>1. IsHeld(gfxInfo) => IsHeld(Other)
  BY DEF FInv, InOrder
<1>2. Reports \in Nat
  BY MainMessages, PositionsFinite DEF Reports
<1>3. pendingGfx = HeldCount + Reports
  BY DEF FInv, Counted, Reports
<1> QED
  BY <1>1, <1>2, <1>3, InFlightForm DEF InFlightOf, HeldCount, Form, CountForm

\* A step that leaves the three counts and the next structure alone is no step of
\* the pipeline.
LEMMA PipelineStutters ==
  ASSUME CountForm, CountForm', gfxInfo' = gfxInfo,
         pendingGfx' = pendingGfx, Reports' = Reports
  PROVE  InFlight' = InFlight
<1>1. HeldCount' = HeldCount
  <2>1. PICK h \in Nat, k \in Nat, r \in Nat :
          h = HeldCount /\ k = HeldCount' /\ r = Reports
    BY DEF CountForm
  <2>2. h + r = k + r
    BY <2>1 DEF CountForm
  <2>3. h = k
    BY <2>2
  <2> QED
    BY <2>1, <2>3
<1>2. InFlightOf(HeldCount)' = InFlightOf(HeldCount)
  BY <1>1 DEF InFlightOf, Other
<1> QED
  BY <1>2 DEF CountForm

\* A sequence of two, built by appending.
LEMMA AppendPair ==
  ASSUME NEW S, NEW a \in S, NEW b \in S
  PROVE  Append(<<a>>, b) = <<a, b>>
<1>1. <<a>> \in Seq(S) /\ Len(<<a>>) = 1 /\ <<a>>[1] = a
  OBVIOUS
<1>2. <<a, b>> \in Seq(S) /\ Len(<<a, b>>) = 2 /\ <<a, b>>[1] = a /\ <<a, b>>[2] = b
  OBVIOUS
<1>3. PICK u \in Seq(S), w \in Seq(S) : u = <<a>> /\ w = <<a, b>>
  BY <1>1, <1>2
<1>4. Append(u, b) \in Seq(S) /\ Len(Append(u, b)) = Len(u) + 1
  BY AppendTyped
<1>5. Len(u) = 1 /\ u[1] = a /\ Len(w) = 2 /\ w[1] = a /\ w[2] = b
  BY <1>1, <1>2, <1>3
<1>6. \A i \in 1 .. 2 : w[i] = Append(u, b)[i]
  <2>1. \A i \in 1 .. Len(u) + 1 : Append(u, b)[i] = IF i = Len(u) + 1 THEN b ELSE u[i]
    OBVIOUS
  <2>2. \A i \in 1 .. 2 : Append(u, b)[i] = IF i = 2 THEN b ELSE u[i]
    BY <1>5, <2>1
  <2>3. Append(u, b)[1] = u[1] /\ Append(u, b)[2] = b
    BY <2>2, 1 \in 1 .. 2, 2 \in 1 .. 2, 1 # 2
  <2> QED
    BY <1>5, <2>3, \A i \in 1 .. 2 : i = 1 \/ i = 2
<1>7. w = Append(u, b)
  BY <1>4, <1>5, <1>6, SeqEqual
<1> QED
  BY <1>3, <1>7

\* A step of the main loop or the scheduler submits, completes or acknowledges a
\* frame, or is none of the pipeline's business.
LEMMA PipelineStep ==
  ASSUME IInv, FInv, CountForm, CountForm', [Next]_vars
  PROVE  [Pipeline!Next]_(Pipeline!vars)
<1>0. /\ gfxInfo \in GfxTasks /\ Other \in GfxTasks /\ Other # gfxInfo
      /\ HeldCount \in {0, 1, 2} /\ HeldCount' \in {0, 1, 2} /\ Reports \in Nat /\ Reports' \in Nat
      /\ pendingGfx = HeldCount + Reports /\ pendingGfx' = HeldCount' + Reports'
      /\ InFlight = InFlightOf(HeldCount) /\ InFlight' = InFlightOf(HeldCount)'
      /\ gfxFrameMsgQ \in Seq({"RETRACE", "DONE"})
  BY QueueTypes, MainMessages DEF CountForm
<1>c. PICK h \in Nat, k \in Nat, r \in Nat, s \in Nat :
        /\ h = HeldCount /\ k = HeldCount' /\ r = Reports /\ s = Reports'
        /\ pendingGfx = h + r /\ pendingGfx' = k + s
  BY <1>0
<1>a. ASSUME gfxInfo' = gfxInfo, pendingGfx' = pendingGfx, Reports' = Reports
      PROVE  [Pipeline!Next]_(Pipeline!vars)
  BY <1>a, PipelineStutters, PipelineActions
<1>1. CASE \/ Tick \/ ReceiveRetrace \/ ReceiveRSPDone \/ ReceiveRDPDone
           \/ DrainCommand \/ DrainEnds \/ TellAudioClient
           \/ ScheduleAudio \/ ScheduleGfx \/ ScheduleNothing
           \/ PostRSPDone \/ PostRDPDone \/ ReportAudioDone \/ SwapFramebuffer
           \/ LeaveStage \/ FinishFrame \/ RequestStage \/ Audio \/ UNCHANGED vars
  <2>1. UNCHANGED <<gfxInfo, pendingGfx, gfxFrameMsgQ>>
    BY <1>1 DEF Tick, TickChecksRoom, TickPosts, ReceiveRetrace, ReceiveRSPDone, ReceiveRDPDone,
         DrainCommand, DrainEnds, TellAudioClient, ScheduleAudio, ScheduleGfx, ScheduleNothing,
         PostRSPDone, PostRDPDone, ReportAudioDone, SwapFramebuffer, LeaveStage, FinishFrame,
         RequestStage, Audio, AddAudioClient, ReceiveAudioRetrace, SubmitAudio, ReceiveReply,
         vars, queues, mainVars
  <2> QED
    BY <1>a, <2>1 DEF Reports
<1>2. CASE TellGfxClient
  <2>1. UNCHANGED <<gfxInfo, pendingGfx>>
    BY <1>2 DEF TellGfxClient, mainVars
  <2>2. CASE gfxFrameMsgQ' = gfxFrameMsgQ
    BY <1>a, <2>1, <2>2 DEF Reports
  <2>3. CASE gfxFrameMsgQ' = Append(gfxFrameMsgQ, "RETRACE")
    <3>1. Reports' = Reports
      BY <1>0, <2>3, CountAppend DEF Reports
    <3> QED
      BY <1>a, <2>1, <3>1
  <2> QED
    BY <1>2, <2>2, <2>3 DEF TellGfxClient
<1>3. CASE ReceiveFrameRetrace
  <2>1. /\ UNCHANGED <<gfxInfo, pendingGfx>>
        /\ gfxFrameMsgQ # <<>> /\ Head(gfxFrameMsgQ) = "RETRACE"
        /\ gfxFrameMsgQ' = Tail(gfxFrameMsgQ)
    BY <1>3 DEF ReceiveFrameRetrace
  <2>2. Reports' = Reports
    BY <1>0, <2>1, CountTail DEF Reports
  <2> QED
    BY <1>a, <2>1, <2>2
<1>4. CASE LoadStage
  <2>1. gfxInfo' = gfxInfo /\ pendingGfx' = 0 /\ pendingGfx = 0 /\ gfxFrameMsgQ' = gfxFrameMsgQ
    BY <1>4 DEF LoadStage, queues, FInv, Counted
  <2> QED
    BY <1>a, <2>1 DEF Reports
<1>5. CASE FlushFrameQ
  <2>1. gfxInfo' = gfxInfo /\ pendingGfx' = 0 /\ pendingGfx = 0
    BY <1>5 DEF FlushFrameQ, FInv, Counted
  <2>2. r = 0 /\ s = 0
    <3>1. h + r = 0 /\ k + s = 0
      BY <1>c, <2>1
    <3> QED
      BY <3>1
  <2> QED
    BY <1>a, <1>c, <2>1, <2>2
<1>6. CASE ReceiveFrameDone
  <2>1. /\ gfxInfo' = gfxInfo /\ pendingGfx' = pendingGfx - 1
        /\ gfxFrameMsgQ # <<>> /\ Head(gfxFrameMsgQ) = "DONE"
        /\ gfxFrameMsgQ' = Tail(gfxFrameMsgQ)
    BY <1>6 DEF ReceiveFrameDone
  <2>2. Reports' = Reports - 1
    BY <1>0, <2>1, CountTail DEF Reports
  <2>3. s = r - 1 /\ k + s = (h + r) - 1
    <3>1. s = r - 1
      BY <1>c, <2>2
    <3>2. k + s = (h + r) - 1
      BY <1>c, <2>1
    <3> QED
      BY <3>1, <3>2
  <2>4. h = k /\ r > 0
    BY <2>3
  <2>5. HeldCount' = HeldCount /\ Reports > 0
    BY <1>c, <2>4
  <2>6. InFlight' = InFlight
    BY <1>0, <2>1, <2>5 DEF InFlightOf, Other
  <2> QED
    BY <2>2, <2>5, <2>6, PipelineActions
<1>7. CASE ReportFrameDone
  <2>1. /\ gfxInfo' = gfxInfo /\ pendingGfx' = pendingGfx
        /\ gfxFrameMsgQ' = Append(gfxFrameMsgQ, "DONE")
    BY <1>7 DEF ReportFrameDone, mainVars
  <2>2. Reports' = Reports + 1
    BY <1>0, <2>1, CountAppend DEF Reports
  <2>3. s = r + 1 /\ k + s = h + r
    BY <1>c, <2>1, <2>2
  <2>5. k = h - 1 /\ h > 0
    BY <2>3
  <2>4. InFlight # <<>> /\ InFlight' = Tail(InFlight)
    <3>1. Other' = Other
      BY <2>1 DEF Other
    <3>2. CASE HeldCount = 2
      <4>1. InFlight = <<gfxInfo, Other>> /\ InFlight' = <<Other>>
        BY <1>0, <1>c, <2>1, <2>5, <3>1, <3>2 DEF InFlightOf
      <4> QED
        BY <4>1
    <3>3. CASE HeldCount = 1
      <4>1. InFlight = <<Other>> /\ InFlight' = <<>>
        BY <1>0, <1>c, <2>1, <2>5, <3>1, <3>3 DEF InFlightOf
      <4> QED
        BY <4>1
    <3> QED
      BY <1>0, <1>c, <2>5, <3>2, <3>3
  <2> QED
    BY <2>2, <2>4, PipelineActions
<1>8. CASE SubmitFrame
  <2>1. /\ gfxInfo' = Other /\ pendingGfx' = pendingGfx + 1 /\ pendingGfx < 2
        /\ gfxFrameMsgQ' = gfxFrameMsgQ
    BY <1>8 DEF SubmitFrame, Other, IInv, Guarded
  <2>2. Reports' = Reports
    BY <2>1 DEF Reports
  <2>3. Other' = gfxInfo
    BY <1>0, <2>1, TaskFacts DEF Other
  <2>4. k = h + 1 /\ h < 2 /\ h + r < 2
    <3>1. s = r /\ k + s = h + r + 1 /\ h + r < 2
      BY <1>c, <2>1, <2>2
    <3> QED
      BY <3>1
  <2>5. /\ InFlight' = Append(InFlight, gfxInfo) /\ Len(InFlight) = HeldCount
        /\ \A i \in DOMAIN InFlight : InFlight[i] # gfxInfo
    <3>1. CASE HeldCount = 0
      <4>1. InFlight = <<>> /\ InFlight' = <<gfxInfo>>
        BY <1>0, <1>c, <2>3, <2>4, <3>1 DEF InFlightOf
      <4> QED
        BY <3>1, <4>1
    <3>2. CASE HeldCount = 1
      <4>1. InFlight = <<Other>> /\ InFlight' = <<Other, gfxInfo>>
        BY <1>0, <1>c, <2>1, <2>3, <2>4, <3>2 DEF InFlightOf
      <4>2. Append(<<Other>>, gfxInfo) = <<Other, gfxInfo>> /\ Len(<<Other>>) = 1
        BY <1>0, AppendPair
      <4>3. DOMAIN <<Other>> = {1} /\ <<Other>>[1] = Other
        OBVIOUS
      <4> QED
        BY <1>0, <3>2, <4>1, <4>2, <4>3
    <3> QED
      BY <1>0, <1>c, <2>4, <3>1, <3>2
  <2>6. Pipeline!Submit(gfxInfo)
    <3>1. Len(InFlight) + Reports < 2
      BY <1>c, <2>4, <2>5
    <3> QED
      BY <2>2, <2>5, <3>1, PipelineActions
  <2> QED
    BY <1>0, <2>6, PipelineActions
<1> QED
  BY <1>1, <1>2, <1>3, <1>4, <1>5, <1>6, <1>7, <1>8 DEF Next, Sched, Main

\* The scheduler and its clients implement the two deep pipeline: frames come back in
\* the order they were submitted, each once, each reported once, never more than two
\* on their way, whatever the sizes of the queues.
THEOREM SchedulerImplementsPipeline == Spec => ImplementsPipeline
<1>1. ASSUME Init PROVE Pipeline!Init
  <2>1. IInv /\ FInv
    BY <1>1, InitIInv, InitFInv
  <2>2. pendingGfx = 0
    BY <1>1 DEF Init
  <2>3. HeldCount = 0 /\ Reports = 0 /\ InFlight = InFlightOf(HeldCount)
    BY <2>1, <2>2, InFlightCounted DEF CountForm
  <2> QED
    BY <2>3, PipelineActions DEF InFlightOf
<1>2. IInv /\ FInv /\ CountForm /\ CountForm' /\ [Next]_vars => [Pipeline!Next]_(Pipeline!vars)
  BY PipelineStep
<1>3. Spec => []CountForm
  BY FInvAlways, InFlightCounted, PTL
<1> QED
  BY FInvAlways, <1>1, <1>2, <1>3, PTL DEF Spec, ImplementsPipeline, Pipeline!Spec
===============================================================================
