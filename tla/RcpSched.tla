------------------------------- MODULE RcpSched -------------------------------
(***************************************************************************)
(* The RCP scheduler of the game (src/sched.c) with everything that talks  *)
(* to it, each on a pthread of its own in the port:                        *)
(*   - the tick thread of port/src/libultra.c, which posts the retraces;   *)
(*   - the scheduler thread, which also runs every RSP task to completion  *)
(*     inside osSpTaskStartGo and posts the "task done" events to itself;  *)
(*   - the main loop (src/boss.c) with its display list double buffer      *)
(*     (src/game/dyn.c) and its task structures (src/game/rsp.c);          *)
(*   - the audio manager thread (src/audi.c).                              *)
(*                                                                         *)
(* A step of a thread ends at an operation on a shared queue: what the     *)
(* thread computes on its own data in between is part of the step.  Queues *)
(* are the bounded FIFO channels of module MesgChannel, which module       *)
(* PortQueue shows the pthread implementation to be.                       *)
(*                                                                         *)
(* Left out: PRE_NMI (nothing posts it in the port), the video mode values *)
(* themselves, joyPoll and musicFadeTick, which __scHandleRetrace calls    *)
(* and which touch none of this state.                                     *)
(***************************************************************************)
EXTENDS Integers, Sequences, FiniteSets

CONSTANTS
  IntQSize,      \* slots of sc->interruptQ (8)
  CmdQSize,      \* slots of sc->cmdQ (8)
  FrameQSize,    \* slots of gfxFrameMsgQ (32)
  AudioQSize,    \* slots of the audio frameMessageQueue (8)
  AudioInfos     \* entries of audioInfo[] (3)

\* Two slots of the interrupt queue are reserved, two frames and one audio
\* task can be in the command queue at once.
ASSUME SizeAssumption ==
  /\ IntQSize \in Nat /\ IntQSize >= 3
  /\ CmdQSize \in Nat /\ CmdQSize >= 3
  /\ FrameQSize \in Nat \ {0}
  /\ AudioQSize \in Nat \ {0}
  /\ AudioInfos \in 1 .. 3

GfxTasks == {"gfx0", "gfx1"}              \* g_gfxTaskSettings[0..1].task
AudioTasks == {"aud0", "aud1", "aud2"}    \* audioInfo[0..2]->task
AudioTask == [i \in 0 .. 2 |-> CASE i = 0 -> "aud0" [] i = 1 -> "aud1" [] OTHER -> "aud2"]
Tasks == GfxTasks \cup AudioTasks
NoTask == "none"

VARIABLES
  (* shared queues *)
  interruptQ,          \* "VIDEO", "RSP_DONE" and "RDP_DONE" events
  cmdQ,                \* tasks submitted to the scheduler
  gfxFrameMsgQ,        \* "RETRACE" and "DONE" messages to the main loop
  frameMessageQueue,   \* how many retraces wait for the audio manager
  replyMessageQueue,   \* completed audio tasks, to the audio manager
  (* tick thread *)
  tick,                \* "sleep", or "post": past the room check of portPostVIEvent
  (* scheduler thread *)
  schedPc,             \* where the scheduler is
  inRetrace,           \* inside __scHandleRetrace (its clients are still to be told)
  oddFrame,            \* sc->frameCount & 1
  gfxList, audioList,  \* the two task lists of OSSched
  doAudio,             \* sc->doAudio
  curRSPTask, curRDPTask,
  needs,               \* t->state & OS_SC_RCP_MASK, per task
  sp,                  \* the task __scExec runs, a local: none outside of it
  doneTask,            \* the task __scTaskComplete reports, a parameter
  postStep,            \* progress of portPostEventForce: "send", "drop", "resend"
  schedVi,             \* g_schedViCurrentFrameBuffer
  (* main thread *)
  mainPc,              \* where bossMainloop is
  pendingGfx,          \* frames submitted and not yet seen done
  stageReq,            \* g_MainStageNum >= 0: a stage change was asked for
  gfxInfo,             \* g_gfxTaskSettingsList, the task structure to use next
  dynBuf,              \* g_GfxActiveBufferIndex, the display list being written
  mainVi,              \* D_800232C0, the video settings slot written next
  taskBuf,             \* the display list buffer each gfx task points to
  taskVi,              \* the video settings slot written for each gfx task's frame
  (* audio manager thread *)
  audPc,               \* where amMain is
  audFrame             \* g_AudioFrameCount % AudioInfos, the entry used next

audioQs == <<frameMessageQueue, replyMessageQueue>>
queues == <<interruptQ, cmdQ, gfxFrameMsgQ, audioQs>>
retrace == <<inRetrace, oddFrame>>
lists == <<gfxList, audioList, doAudio>>
units == <<curRSPTask, curRDPTask, needs>>
job == <<sp, doneTask, postStep>>
schedVars == <<schedPc, retrace, lists, units, job, schedVi>>
mainSlots == <<gfxInfo, dynBuf, mainVi, taskBuf, taskVi>>
mainVars == <<mainPc, pendingGfx, stageReq, mainSlots>>
audioVars == <<audPc, audFrame>>
vars == <<queues, tick, schedVars, mainVars, audioVars>>

Init ==
  /\ interruptQ = <<>> /\ cmdQ = <<>> /\ gfxFrameMsgQ = <<>>
  /\ frameMessageQueue = 0 /\ replyMessageQueue = <<>>
  /\ tick = "sleep"
  /\ schedPc = "wait" /\ inRetrace = FALSE /\ oddFrame = FALSE
  /\ gfxList = <<>> /\ audioList = <<>> /\ doAudio = FALSE
  /\ curRSPTask = NoTask /\ curRDPTask = NoTask
  /\ needs = [t \in Tasks |-> {}]
  /\ sp = NoTask /\ doneTask = NoTask /\ postStep = "send" /\ schedVi = 0
  /\ mainPc = "load" /\ pendingGfx = 0 /\ stageReq = FALSE
  /\ gfxInfo = "gfx0" /\ dynBuf = 0 /\ mainVi = 0
  /\ taskBuf = [t \in GfxTasks |-> 0] /\ taskVi = [t \in GfxTasks |-> 0]
  /\ audPc = "start" /\ audFrame = 0

-------------------------------------------------------------------------------
(* The tick thread: portTickThread and portPostVIEvent.  validCount is     *)
(* read without the queue's lock, so the room check and the send are two   *)
(* steps between which the scheduler may post or receive.                  *)

\* (faulty variant: the room check before the reserve of two slots existed)
NoReserve == 0

\* "keep two slots free for the SP/DP done events"
DoneReserve == 2

TickChecksRoom ==
  /\ tick = "sleep"
  /\ Len(interruptQ) < IntQSize - DoneReserve
  /\ tick' = "post"
  /\ UNCHANGED <<queues, schedVars, mainVars, audioVars>>

TickPosts ==
  /\ tick = "post"
  /\ tick' = "sleep"
  /\ interruptQ' = IF Len(interruptQ) < IntQSize THEN Append(interruptQ, "VIDEO")
                                                 ELSE interruptQ
  /\ UNCHANGED <<cmdQ, gfxFrameMsgQ, audioQs, schedVars, mainVars, audioVars>>

-------------------------------------------------------------------------------
(* The scheduler thread, __scMain.                                         *)

ReceiveRetrace ==
  /\ schedPc = "wait"
  /\ interruptQ # <<>> /\ Head(interruptQ) = "VIDEO"
  /\ interruptQ' = Tail(interruptQ)
  /\ oddFrame' = ~oddFrame
  /\ inRetrace' = TRUE
  /\ schedPc' = "drain"
  /\ UNCHANGED <<cmdQ, gfxFrameMsgQ, audioQs, tick, lists, units, job, schedVi,
                 mainVars, audioVars>>

\* The part t of the RCP is done with task t; t is complete when it needs no other.
UnitDone(t, unit) ==
  /\ needs' = [needs EXCEPT ![t] = @ \ {unit}]
  /\ IF needs[t] \subseteq {unit}
     THEN schedPc' = "complete" /\ doneTask' = t
     ELSE schedPc' = "schedule" /\ UNCHANGED doneTask

\* __scHandleRSP.  osSpTaskYielded is always 0 in the port: no task ever yields.
ReceiveRSPDone ==
  /\ schedPc = "wait"
  /\ interruptQ # <<>> /\ Head(interruptQ) = "RSP_DONE"
  /\ interruptQ' = Tail(interruptQ)
  /\ curRSPTask' = NoTask
  /\ UnitDone(curRSPTask, "RSP")
  /\ UNCHANGED <<cmdQ, gfxFrameMsgQ, audioQs, tick, retrace, lists, curRDPTask, sp,
                 postStep, schedVi, mainVars, audioVars>>

\* __scHandleRDP, which does nothing when no task has the RDP
ReceiveRDPDone ==
  /\ schedPc = "wait"
  /\ interruptQ # <<>> /\ Head(interruptQ) = "RDP_DONE"
  /\ interruptQ' = Tail(interruptQ)
  /\ curRDPTask' = NoTask
  /\ IF curRDPTask # NoTask THEN UnitDone(curRDPTask, "RDP")
                            ELSE UNCHANGED <<needs, schedPc, doneTask>>
  /\ UNCHANGED <<cmdQ, gfxFrameMsgQ, audioQs, tick, retrace, lists, curRSPTask, sp,
                 postStep, schedVi, mainVars, audioVars>>

-------------------------------------------------------------------------------
(* __scHandleRetrace: empty cmdQ into the task lists, schedule, tell the   *)
(* clients.                                                                *)

\* (faulty variant of AppendGfx: the newest frame goes first)
PrependGfx(t) ==
  /\ gfxList' = <<t>> \o gfxList
  /\ UNCHANGED <<audioList, doAudio>>

AppendGfx(t) ==
  /\ gfxList' = Append(gfxList, t)
  /\ UNCHANGED <<audioList, doAudio>>

\* (faulty variant of AppendAudio: forgets to raise doAudio)
AppendAudioQuietly(t) ==
  /\ audioList' = Append(audioList, t)
  /\ UNCHANGED <<gfxList, doAudio>>

AppendAudio(t) ==
  /\ audioList' = Append(audioList, t)
  /\ doAudio' = TRUE
  /\ UNCHANGED gfxList

Flags(t) == IF t \in GfxTasks THEN {"RSP", "RDP"} ELSE {"RSP"}

\* osRecvMesg(&sc->cmdQ, .., OS_MESG_NOBLOCK) and __scAppendList
DrainCommand ==
  /\ schedPc = "drain"
  /\ cmdQ # <<>>
  /\ cmdQ' = Tail(cmdQ)
  /\ needs' = [needs EXCEPT ![Head(cmdQ)] = Flags(Head(cmdQ))]
  /\ \/ Head(cmdQ) \in AudioTasks /\ AppendAudio(Head(cmdQ))
     \/ Head(cmdQ) \in GfxTasks /\ AppendGfx(Head(cmdQ))
  /\ UNCHANGED <<interruptQ, gfxFrameMsgQ, audioQs, tick, schedPc, retrace,
                 curRSPTask, curRDPTask, job, schedVi, mainVars, audioVars>>

\* cmdQ is empty: ask the running task to yield (which the port ignores), or
\* schedule
DrainEnds ==
  /\ schedPc = "drain"
  /\ cmdQ = <<>>
  /\ schedPc' = IF doAudio /\ curRSPTask # NoTask THEN "audioClient" ELSE "schedule"
  /\ UNCHANGED <<queues, tick, retrace, lists, units, job, schedVi, mainVars,
                 audioVars>>

\* The audio client is told every second retrace, once amMain has registered it.
TellAudioClient ==
  /\ schedPc = "audioClient"
  /\ schedPc' = "gfxClient"
  /\ frameMessageQueue' =
       IF audPc # "start" /\ ~oddFrame /\ frameMessageQueue < AudioQSize
       THEN frameMessageQueue + 1 ELSE frameMessageQueue
  /\ UNCHANGED <<interruptQ, cmdQ, gfxFrameMsgQ, replyMessageQueue, tick, retrace,
                 lists, units, job, schedVi, mainVars, audioVars>>

TellGfxClient ==
  /\ schedPc = "gfxClient"
  /\ schedPc' = "wait"
  /\ inRetrace' = FALSE
  /\ gfxFrameMsgQ' = IF Len(gfxFrameMsgQ) < FrameQSize
                     THEN Append(gfxFrameMsgQ, "RETRACE") ELSE gfxFrameMsgQ
  /\ UNCHANGED <<interruptQ, cmdQ, audioQs, tick, oddFrame, lists, units, job,
                 schedVi, mainVars, audioVars>>

-------------------------------------------------------------------------------
(* __scSchedule and __scExec.  The game submits only audio tasks, which    *)
(* need the RSP, and XBUS graphics tasks, which take the RSP and the RDP   *)
(* together: whichever __scSchedule picks first leaves nothing for its     *)
(* recursive call to pick.                                                 *)

\* Where the scheduler goes once it has scheduled: back to the rest of
\* __scHandleRetrace or to its queue.
AfterSchedule == IF inRetrace THEN "audioClient" ELSE "wait"

\* (faulty variant of BothFree: starts a frame while the RDP is still busy)
RSPFree == curRSPTask = NoTask
BothFree == curRSPTask = NoTask /\ curRDPTask = NoTask

ScheduleAudio ==
  /\ schedPc = "schedule"
  /\ doAudio /\ RSPFree
  /\ sp' = Head(audioList)
  /\ audioList' = Tail(audioList)
  /\ doAudio' = FALSE
  /\ schedPc' = "postSP"
  /\ UNCHANGED <<queues, tick, retrace, gfxList, units, doneTask, postStep, schedVi,
                 mainVars, audioVars>>

ScheduleGfx ==
  /\ schedPc = "schedule"
  /\ ~(doAudio /\ RSPFree)
  /\ gfxList # <<>> /\ BothFree
  /\ sp' = Head(gfxList)
  /\ gfxList' = Tail(gfxList)
  /\ schedPc' = "postSP"
  /\ UNCHANGED <<queues, tick, retrace, audioList, doAudio, units, doneTask, postStep,
                 schedVi, mainVars, audioVars>>

ScheduleNothing ==
  /\ schedPc = "schedule"
  /\ ~(doAudio /\ RSPFree)
  /\ gfxList = <<>> \/ ~BothFree
  /\ schedPc' = AfterSchedule
  /\ UNCHANGED <<queues, tick, retrace, lists, units, job, schedVi, mainVars,
                 audioVars>>

\* One step of portPostEventForce(e): a NOBLOCK send; when that fails, drop the
\* oldest message and send again.  Each is a queue operation of its own, so the
\* tick thread may take the slot just freed.  It returns when postStep' = "send".
PostEventForce(e) ==
  \/ /\ postStep \in {"send", "resend"}
     /\ Len(interruptQ) < IntQSize
     /\ interruptQ' = Append(interruptQ, e)
     /\ postStep' = "send"
  \/ /\ postStep = "send"
     /\ Len(interruptQ) >= IntQSize
     /\ postStep' = "drop"
     /\ UNCHANGED interruptQ
  \/ /\ postStep = "drop"
     /\ interruptQ' = Tail(interruptQ)
     /\ postStep' = "resend"
  \/ /\ postStep = "resend"
     /\ Len(interruptQ) >= IntQSize
     /\ postStep' = "send"          \* "task-done event lost"
     /\ UNCHANGED interruptQ

\* osSpTaskStartGo: the task has run to completion on this thread and its RSP
\* event is posted; __scExec then records the task as current.
PostRSPDone ==
  /\ schedPc = "postSP"
  /\ PostEventForce("RSP_DONE")
  /\ IF postStep' # "send"
     THEN UNCHANGED <<schedPc, sp, curRSPTask>>
     ELSE IF sp \in GfxTasks
     THEN schedPc' = "postDP" /\ UNCHANGED <<sp, curRSPTask>>
     ELSE schedPc' = AfterSchedule /\ curRSPTask' = sp /\ sp' = NoTask
  /\ UNCHANGED <<cmdQ, gfxFrameMsgQ, audioQs, tick, retrace, lists, curRDPTask, needs,
                 doneTask, schedVi, mainVars, audioVars>>

\* The RDP event of a graphics task, which is its own RDP task (sp == dp).
PostRDPDone ==
  /\ schedPc = "postDP"
  /\ PostEventForce("RDP_DONE")
  /\ IF postStep' # "send"
     THEN UNCHANGED <<schedPc, sp, curRSPTask, curRDPTask>>
     ELSE /\ schedPc' = AfterSchedule
          /\ curRSPTask' = sp /\ curRDPTask' = sp /\ sp' = NoTask
  /\ UNCHANGED <<cmdQ, gfxFrameMsgQ, audioQs, tick, retrace, lists, needs, doneTask,
                 schedVi, mainVars, audioVars>>

-------------------------------------------------------------------------------
(* __scTaskComplete: a blocking send of the task's message to whoever      *)
(* submitted it and, for a frame, the framebuffer swap, which comes after  *)
(* the send.                                                               *)

ReportAudioDone ==
  /\ schedPc = "complete"
  /\ doneTask \in AudioTasks
  /\ replyMessageQueue' = Append(replyMessageQueue, doneTask)
  /\ schedPc' = "schedule"
  /\ doneTask' = NoTask
  /\ UNCHANGED <<interruptQ, cmdQ, gfxFrameMsgQ, frameMessageQueue, tick, retrace,
                 lists, units, sp, postStep, schedVi, mainVars, audioVars>>

ReportFrameDone ==
  /\ schedPc = "complete"
  /\ doneTask \in GfxTasks
  /\ Len(gfxFrameMsgQ) < FrameQSize
  /\ gfxFrameMsgQ' = Append(gfxFrameMsgQ, "DONE")
  /\ schedPc' = "swap"
  /\ UNCHANGED <<interruptQ, cmdQ, audioQs, tick, retrace, lists, units, job, schedVi,
                 mainVars, audioVars>>

SwapFramebuffer ==
  /\ schedPc = "swap"
  /\ schedVi' = 1 - schedVi
  /\ schedPc' = "schedule"
  /\ doneTask' = NoTask
  /\ UNCHANGED <<queues, tick, retrace, lists, units, sp, postStep, mainVars,
                 audioVars>>

-------------------------------------------------------------------------------
(* The main thread, bossMainloop.                                          *)

\* the head of the stage loop: pendingGfx = 0, dynInitMemory, lvlStageLoad
LoadStage ==
  /\ mainPc = "load"
  /\ pendingGfx' = 0
  /\ dynBuf' = 0
  /\ mainPc' = "flush"
  /\ UNCHANGED <<queues, tick, schedVars, stageReq, gfxInfo, mainVi, taskBuf, taskVi,
                 audioVars>>

\* while (osRecvMesg(&gfxFrameMsgQ, .., OS_MESG_NOBLOCK) == 0)
FlushFrameQ ==
  /\ mainPc = "flush"
  /\ IF gfxFrameMsgQ # <<>>
     THEN gfxFrameMsgQ' = Tail(gfxFrameMsgQ) /\ UNCHANGED mainPc
     ELSE mainPc' = "recv" /\ UNCHANGED gfxFrameMsgQ
  /\ UNCHANGED <<interruptQ, cmdQ, audioQs, tick, schedVars, pendingGfx, stageReq,
                 mainSlots, audioVars>>

\* (faulty variants of StayInStage: leave with frames still in the pipeline)
LeaveAtOnce == ~stageReq
StayInStage == ~stageReq \/ pendingGfx # 0

LeaveStage ==
  /\ mainPc = "recv"
  /\ ~StayInStage
  /\ stageReq' = FALSE
  /\ mainPc' = "load"
  /\ UNCHANGED <<queues, tick, schedVars, pendingGfx, mainSlots, audioVars>>

\* (faulty variant of MayBuild: a third frame before the first is done)
MayBuildThird == ~stageReq /\ pendingGfx < 3
MayBuild == ~stageReq /\ pendingGfx < 2

\* A retrace starts a frame, or is ignored: because the frame interval has not
\* elapsed, or because no frame may be built.
ReceiveFrameRetrace ==
  /\ mainPc = "recv" /\ StayInStage
  /\ gfxFrameMsgQ # <<>> /\ Head(gfxFrameMsgQ) = "RETRACE"
  /\ gfxFrameMsgQ' = Tail(gfxFrameMsgQ)
  /\ \/ MayBuild /\ mainPc' = "build"
     \/ UNCHANGED mainPc
  /\ UNCHANGED <<interruptQ, cmdQ, audioQs, tick, schedVars, pendingGfx, stageReq,
                 mainSlots, audioVars>>

ReceiveFrameDone ==
  /\ mainPc = "recv" /\ StayInStage
  /\ gfxFrameMsgQ # <<>> /\ Head(gfxFrameMsgQ) = "DONE"
  /\ gfxFrameMsgQ' = Tail(gfxFrameMsgQ)
  /\ pendingGfx' = pendingGfx - 1
  /\ UNCHANGED <<interruptQ, cmdQ, audioQs, tick, schedVars, mainPc, stageReq,
                 mainSlots, audioVars>>

\* the game code of a frame asks for another stage (bossSetLoadedStage)
RequestStage ==
  /\ mainPc = "build"
  /\ stageReq' = TRUE
  /\ UNCHANGED <<queues, tick, schedVars, mainPc, pendingGfx, mainSlots, audioVars>>

\* The display list is complete: dynSwapBuffers, then video_related_8 records the
\* video settings of the frame.
FinishFrame ==
  /\ mainPc = "build"
  /\ taskBuf' = [taskBuf EXCEPT ![gfxInfo] = dynBuf]
  /\ dynBuf' = 1 - dynBuf
  /\ taskVi' = [taskVi EXCEPT ![gfxInfo] = mainVi]
  /\ mainVi' = 1 - mainVi
  /\ mainPc' = "submit"
  /\ UNCHANGED <<queues, tick, schedVars, pendingGfx, stageReq, gfxInfo, audioVars>>

OtherGfx(t) == IF t = "gfx0" THEN "gfx1" ELSE "gfx0"

\* rspGfxTaskStart: a blocking send to cmdQ, then the other task structure
SubmitFrame ==
  /\ mainPc = "submit"
  /\ Len(cmdQ) < CmdQSize
  /\ cmdQ' = Append(cmdQ, gfxInfo)
  /\ gfxInfo' = OtherGfx(gfxInfo)
  /\ pendingGfx' = pendingGfx + 1
  /\ mainPc' = "recv"
  /\ UNCHANGED <<interruptQ, gfxFrameMsgQ, audioQs, tick, schedVars, stageReq, dynBuf,
                 mainVi, taskBuf, taskVi, audioVars>>

-------------------------------------------------------------------------------
(* The audio manager thread, amMain.                                       *)

AddAudioClient ==
  /\ audPc = "start"
  /\ audPc' = "recv"
  /\ UNCHANGED <<queues, tick, schedVars, mainVars, audFrame>>

ReceiveAudioRetrace ==
  /\ audPc = "recv"
  /\ frameMessageQueue > 0
  /\ frameMessageQueue' = frameMessageQueue - 1
  /\ audPc' = "submit"
  /\ UNCHANGED <<interruptQ, cmdQ, gfxFrameMsgQ, replyMessageQueue, tick, schedVars,
                 mainVars, audFrame>>

\* amHandleFrameMessage: amClearDmaBuffers counts the frame, then a NOBLOCK send,
\* whose failure goes unnoticed
SubmitAudio ==
  /\ audPc = "submit"
  /\ audFrame' = (audFrame + 1) % AudioInfos
  /\ cmdQ' = IF Len(cmdQ) < CmdQSize THEN Append(cmdQ, AudioTask[audFrame]) ELSE cmdQ
  /\ audPc' = "reply"
  /\ UNCHANGED <<interruptQ, gfxFrameMsgQ, audioQs, tick, schedVars, mainVars>>

ReceiveReply ==
  /\ audPc = "reply"
  /\ replyMessageQueue # <<>>
  /\ replyMessageQueue' = Tail(replyMessageQueue)
  /\ audPc' = "recv"
  /\ UNCHANGED <<interruptQ, cmdQ, gfxFrameMsgQ, frameMessageQueue, tick, schedVars,
                 mainVars, audFrame>>

-------------------------------------------------------------------------------
Tick == TickChecksRoom \/ TickPosts

Sched ==
  \/ ReceiveRetrace \/ ReceiveRSPDone \/ ReceiveRDPDone
  \/ DrainCommand \/ DrainEnds \/ TellAudioClient \/ TellGfxClient
  \/ ScheduleAudio \/ ScheduleGfx \/ ScheduleNothing
  \/ PostRSPDone \/ PostRDPDone
  \/ ReportAudioDone \/ ReportFrameDone \/ SwapFramebuffer

Main ==
  \/ LoadStage \/ FlushFrameQ \/ LeaveStage
  \/ ReceiveFrameRetrace \/ ReceiveFrameDone
  \/ FinishFrame \/ SubmitFrame

Audio == AddAudioClient \/ ReceiveAudioRetrace \/ SubmitAudio \/ ReceiveReply

Next == Tick \/ Sched \/ Main \/ RequestStage \/ Audio

\* Every thread is an operating system thread that runs for ever; what the game
\* decides to do in a frame (RequestStage) is not owed.
Fairness == WF_vars(Tick) /\ WF_vars(Sched) /\ WF_vars(Main) /\ WF_vars(Audio)

Spec == Init /\ [][Next]_vars
FairSpec == Spec /\ Fairness

-------------------------------------------------------------------------------
(* Properties.                                                             *)

Members(q) == {q[i] : i \in DOMAIN q}
Positions(q, m) == {i \in DOMAIN q : q[i] = m}

\* The task __scExec has started, or __scTaskComplete is reporting.
Active ==
  (IF schedPc \in {"postSP", "postDP"} THEN {sp} ELSE {}) \cup
  (IF schedPc = "complete" THEN {doneTask} ELSE {}) \cup
  ({curRSPTask, curRDPTask} \ {NoTask})

\* Every task handed to the scheduler and not yet reported by it.
Held == Members(cmdQ) \cup Members(gfxList) \cup Members(audioList) \cup Active

\* Every variable has the values of its C counterpart: the fixed queues hold no
\* more than their slots and pendingGfx never passes the two frames that exist.
TypeOK ==
  /\ interruptQ \in Seq({"VIDEO", "RSP_DONE", "RDP_DONE"}) /\ Len(interruptQ) <= IntQSize
  /\ cmdQ \in Seq(Tasks) /\ Len(cmdQ) <= CmdQSize
  /\ gfxFrameMsgQ \in Seq({"RETRACE", "DONE"}) /\ Len(gfxFrameMsgQ) <= FrameQSize
  /\ frameMessageQueue \in 0 .. AudioQSize
  /\ replyMessageQueue \in Seq(AudioTasks)
  /\ tick \in {"sleep", "post"}
  /\ schedPc \in {"wait", "drain", "schedule", "audioClient", "gfxClient", "postSP",
                  "postDP", "complete", "swap"}
  /\ inRetrace \in BOOLEAN /\ oddFrame \in BOOLEAN /\ doAudio \in BOOLEAN
  /\ gfxList \in Seq(GfxTasks) /\ audioList \in Seq(AudioTasks)
  /\ curRSPTask \in Tasks \cup {NoTask} /\ curRDPTask \in GfxTasks \cup {NoTask}
  /\ needs \in [Tasks -> SUBSET {"RSP", "RDP"}]
  /\ sp \in Tasks \cup {NoTask} /\ doneTask \in Tasks \cup {NoTask}
  /\ postStep \in {"send", "drop", "resend"}
  /\ schedVi \in 0 .. 1
  /\ mainPc \in {"load", "flush", "recv", "build", "submit"}
  /\ pendingGfx \in Int /\ pendingGfx <= 2 /\ stageReq \in BOOLEAN
  /\ gfxInfo \in GfxTasks /\ dynBuf \in 0 .. 1 /\ mainVi \in 0 .. 1
  /\ taskBuf \in [GfxTasks -> 0 .. 1] /\ taskVi \in [GfxTasks -> 0 .. 1]
  /\ audPc \in {"start", "recv", "submit", "reply"} /\ audFrame \in 0 .. AudioInfos - 1

\* "an SP/DP task done event must NEVER be dropped" (libultra.c, D134): the task on
\* the RSP, and the one on the RDP, has its done event in the interrupt queue,
\* exactly once, and no event is there without its task.  So __scHandleRSP always
\* finds a task, and the fallback of portPostEventForce is never needed.
TaskDoneNeverLost ==
  /\ Cardinality(Positions(interruptQ, "RSP_DONE")) =
       IF curRSPTask # NoTask \/ schedPc = "postDP" THEN 1 ELSE 0
  /\ Cardinality(Positions(interruptQ, "RDP_DONE")) = IF curRDPTask # NoTask THEN 1 ELSE 0
  /\ postStep = "send"

\* pendingGfx counts exactly the frames the scheduler still holds and the ones whose
\* DONE message the main loop has not read, across stage changes too: the counter
\* that decides when a buffer may be rewritten, and a stage unloaded, never drifts.
PendingGfxExact ==
  pendingGfx = Cardinality(Held \cap GfxTasks) + Cardinality(Positions(gfxFrameMsgQ, "DONE"))

\* While the game writes a display list, and until it is submitted, no frame of the
\* scheduler reads the same buffer, the same task structure or the same slot of
\* video settings.
FrameBeingBuiltIsFree ==
  /\ mainPc \in {"build", "submit"} => gfxInfo \notin Held
  /\ mainPc = "build" =>
       \A t \in Held \cap GfxTasks : taskBuf[t] # dynBuf /\ taskVi[t] # mainVi

\* When the frame on the RCP is complete the scheduler applies the video settings
\* recorded for that frame: g_schedViCurrentFrameBuffer and D_800232C0 are two
\* counters of two threads that "should correlate" (fr.c) and are never compared.
ViIndexCorrelates == schedPc = "swap" => schedVi = taskVi[doneTask]

\* rspGfxTaskStart always finds room in cmdQ, whatever the audio manager sends: its
\* blocking send never makes the main loop wait for the scheduler, which may itself
\* be waiting in __scTaskComplete for the main loop to make room in gfxFrameMsgQ.
SubmitNeverWaits == mainPc = "submit" => Len(cmdQ) < CmdQSize

\* The main loop is never left with both frames out: one of them comes back.
FrameComesBack == (pendingGfx = 2) ~> (pendingGfx < 2)

\* The audio manager always gets its task back.
AudioReplyArrives == (audPc = "reply") ~> (audPc = "recv")

\* A stage change that was asked for is made: the frames in flight drain.
StageChanges == stageReq ~> (mainPc = "load")

\* The scheduler and its clients implement the two deep pipeline of frames: what is
\* in flight, oldest first, is the frame on the RCP, the frames in the list and the
\* frames in the command queue (SelectSeq without its recursion, which the proof of
\* the implementation could not unfold: the k-th frame is the one with k frames up to
\* and including its position).
FramesOf(q) ==
  LET P == {i \in DOMAIN q : q[i] \in GfxTasks}
  IN  [k \in 1 .. Cardinality(P) |-> q[CHOOSE i \in P : Cardinality({j \in P : j <= i}) = k]]
ActiveFrame ==
  IF \E t \in GfxTasks : t \in Active
  THEN <<CHOOSE t \in GfxTasks : t \in Active>> ELSE <<>>
Pipeline == INSTANCE FramePipeline WITH
  Frame <- GfxTasks, Depth <- 2,
  inFlight <- ActiveFrame \o gfxList \o FramesOf(cmdQ),
  reports <- Cardinality(Positions(gfxFrameMsgQ, "DONE"))
ImplementsPipeline == Pipeline!Spec
==============================================================================
