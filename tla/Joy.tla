---------------------------------- MODULE Joy ----------------------------------
(***************************************************************************)
(* Controller input, src/joy.c: the scheduler thread polls the serial      *)
(* interface at every retrace and puts what it reads into a ring of        *)
(* samples, the main thread takes the samples out once per frame without   *)
(* any lock, and asks the scheduler over four one-slot queues to stop      *)
(* polling whenever it needs the serial interface itself (controller       *)
(* status, EEPROM).                                                        *)
(*                                                                         *)
(* The port's serial interface answers at once (osContStartReadData and    *)
(* osContStartQuery of libultra.c take a snapshot and post the message).   *)
(* One button of one controller stands for the pads.  Queues are modelled  *)
(* by their lengths: what is in a message is never looked at.              *)
(***************************************************************************)
EXTENDS Integers

CONSTANTS
  SampleLen,  \* CONTSAMPLE_LEN, the slots of the ring (20)
  InputSize   \* CONT_INPUT_BUFFER_LEN (10)

ASSUME JoyAssumption == SampleLen \in Nat \ {0, 1} /\ InputSize \in Nat \ {0}

Slots == 0 .. (SampleLen - 1)

VARIABLES
  \* shared by the two threads
  disReq, disRep,   \* g_ContDisablePoll{Send,Receive}MessageQueue
  enReq, enRep,     \* g_ContEnablePoll{Send,Receive}MessageQueue
  input,            \* g_ContInputMessageQueue
  pad,              \* the snapshot in libultra.c, g_contPad
  initDone,         \* g_ContInitDone = ~g_ContNeedsInit
  samples, nextlast,          \* g_ContData[0], written by the scheduler
  curstart, curlast,          \* .. by the main thread
  \* the scheduler's
  sched, busy, disableCount,  \* where it is in joyPoll, g_ContBusy, g_ContPollDisableCount
  index, checks,              \* the slot joyPoll chose, the joyCheckStatus calls to make
  \* the main thread's
  main, at, pressed,          \* where it is, samplenum, buttonspressed
  \* no variables of the code
  edge,       \* the button went down in a sample published since the last consume
  due,        \* edge, when that consume began
  squeezed    \* a sample was written over another because the ring was full

requests == <<disReq, disRep, enReq, enRep>>
si == <<input, pad>>
window == <<curstart, curlast>>
consuming == <<at, pressed, due>>
polling == <<sched, busy, disableCount, index, checks>>
vars == <<requests, si, initDone, samples, nextlast, window, polling, main,
          consuming, edge, squeezed>>

\* joyInit
Init ==
  /\ disReq = 0 /\ disRep = 0 /\ enReq = 0 /\ enRep = 0 /\ input = 0
  /\ pad = FALSE /\ initDone = FALSE
  /\ samples = [i \in Slots |-> FALSE]
  /\ nextlast = 0 /\ curstart = 0 /\ curlast = 0
  /\ sched = "idle" /\ busy = FALSE /\ disableCount = 0 /\ index = 0 /\ checks = 0
  /\ main = "game" /\ at = 0 /\ pressed = FALSE
  /\ edge = FALSE /\ due = FALSE /\ squeezed = FALSE

\* osSendMesg(.., OS_MESG_NOBLOCK): a full queue drops the message
Posted(length, size) == IF length < size THEN length + 1 ELSE length

Reply(length) == Posted(length, 1)

\* osContStartReadData, osContStartQuery
StartSI == pad' \in BOOLEAN /\ input' = Posted(input, InputSize)

-------------------------------------------------------------------------------
(* joyPoll, in the scheduler, at every retrace.                            *)

\* (faulty variants of DrainInput: the message of the read that is under way is
\* left in the queue; it is waited for even if no read is under way)
LeaveInput == UNCHANGED <<input, busy>>
DrainAlways == input > 0 /\ input' = input - 1 /\ busy' = FALSE

\* The read that is under way is waited for, under OS_MESG_BLOCK.
DrainInput ==
  \/ busy /\ input > 0 /\ input' = input - 1 /\ busy' = FALSE
  \/ ~busy /\ UNCHANGED <<input, busy>>

PollDisable ==
  /\ sched = "idle" /\ disReq > 0
  /\ disReq' = disReq - 1
  /\ DrainInput
  /\ disRep' = Reply(disRep)
  /\ disableCount' = disableCount + 1
  /\ UNCHANGED <<enReq, enRep, pad, initDone, samples, nextlast, window, sched, index,
                 checks, main, consuming, edge, squeezed>>

\* (faulty variant of RestartOnEnable: the read cycle is not set going again)
NoRestart == UNCHANGED <<si, busy>>
RestartOnEnable == StartSI /\ busy' = TRUE

PollEnable ==
  /\ sched = "idle" /\ disReq = 0 /\ enReq > 0
  /\ enReq' = enReq - 1
  /\ RestartOnEnable
  /\ enRep' = Reply(enRep)
  /\ disableCount' = disableCount - 1
  /\ UNCHANGED <<disReq, disRep, initDone, samples, nextlast, window, sched, index,
                 checks, main, consuming, edge, squeezed>>

\* (faulty variant of PollingOn: the count of disables is ignored)
PollingAlways == TRUE
PollingOn == disableCount = 0

\* (faulty variants of NextSlot: without the test for a full ring; without the wrap)
NextSlotUnchecked == (nextlast + 1) % SampleLen
NextSlotUnwrapped == IF nextlast + 1 = curstart THEN nextlast ELSE nextlast + 1

\* In a full ring the newest sample is written over.
NextSlot ==
  LET i == (nextlast + 1) % SampleLen IN IF i = curstart THEN nextlast ELSE i

\* The read has been answered: the slot is chosen ..
PollRead ==
  /\ sched = "idle" /\ disReq = 0 /\ enReq = 0
  /\ PollingOn /\ initDone /\ input > 0
  /\ input' = input - 1
  /\ busy' = FALSE
  /\ index' = NextSlot
  /\ sched' = "store"
  /\ UNCHANGED <<requests, pad, initDone, samples, nextlast, window, disableCount,
                 checks, main, consuming, edge, squeezed>>

\* .. osContGetReadData fills it ..
PollStore ==
  /\ sched = "store"
  /\ samples' = [samples EXCEPT ![index] = pad]
  /\ squeezed' = (squeezed \/ index = nextlast)
  /\ sched' = "publish"
  /\ UNCHANGED <<requests, si, initDone, nextlast, window, busy, disableCount, index,
                 checks, main, consuming, edge>>

\* .. nextlast makes it known.  Every 120th time joyCheckStatus follows, and it follows
\* when a controller came or went.
PollPublish ==
  /\ sched = "publish"
  /\ nextlast' = index
  /\ edge' = (edge \/ (samples[index] /\ ~samples[nextlast]))
  /\ checks' \in 0 .. 2
  /\ sched' = "check"
  /\ UNCHANGED <<requests, si, initDone, samples, window, busy, disableCount, index,
                 main, consuming, squeezed>>

\* joyCheckStatus in the scheduler: the query ..
PollQuery ==
  /\ sched = "check" /\ checks > 0
  /\ StartSI
  /\ sched' = "answer"
  /\ UNCHANGED <<requests, initDone, samples, nextlast, window, busy, disableCount,
                 index, checks, main, consuming, edge, squeezed>>

\* .. and its answer, under OS_MESG_BLOCK.
PollAnswer ==
  /\ sched = "answer" /\ input > 0
  /\ input' = input - 1
  /\ checks' = checks - 1
  /\ sched' = "check"
  /\ UNCHANGED <<requests, pad, initDone, samples, nextlast, window, busy,
                 disableCount, index, main, consuming, edge, squeezed>>

\* The next read is started.
PollRestart ==
  /\ sched = "check" /\ checks = 0
  /\ StartSI
  /\ busy' = TRUE
  /\ sched' = "idle"
  /\ UNCHANGED <<requests, initDone, samples, nextlast, window, disableCount, index,
                 checks, main, consuming, edge, squeezed>>

Poll ==
  \/ PollDisable \/ PollEnable
  \/ PollRead \/ PollStore \/ PollPublish \/ PollQuery \/ PollAnswer \/ PollRestart

-------------------------------------------------------------------------------
(* The main thread.                                                        *)

\* joyDisablePoll: the request, posted without waiting, ..
Disable ==
  /\ main = "game"
  /\ disReq' = Posted(disReq, 1)
  /\ main' = "waitOff"
  /\ UNCHANGED <<disRep, enReq, enRep, si, initDone, samples, nextlast, window, polling,
                 consuming, edge, squeezed>>

\* .. and its answer, waited for.
DisableReturns ==
  /\ main = "waitOff" /\ disRep > 0
  /\ disRep' = disRep - 1
  /\ main' = "off"
  /\ UNCHANGED <<disReq, enReq, enRep, si, initDone, samples, nextlast, window, polling,
                 consuming, edge, squeezed>>

\* The first joyCheckStatus is osContInit.
FirstCheck ==
  /\ main = "off" /\ ~initDone
  /\ initDone' = TRUE
  /\ main' = "done"
  /\ UNCHANGED <<requests, si, samples, nextlast, window, polling, consuming, edge,
                 squeezed>>

\* The later ones query the controllers ..
Query ==
  /\ main = "off" /\ initDone
  /\ StartSI
  /\ main' = "query"
  /\ UNCHANGED <<requests, initDone, samples, nextlast, window, polling, consuming,
                 edge, squeezed>>

\* .. and wait for the answer.
QueryReturns ==
  /\ main = "query" /\ input > 0
  /\ input' = input - 1
  /\ main' = "done"
  /\ UNCHANGED <<requests, pad, initDone, samples, nextlast, window, polling,
                 consuming, edge, squeezed>>

\* joyEnablePoll, after the status or (from "off") after an EEPROM operation
Enable ==
  /\ main \in {"off", "done"} /\ initDone
  /\ enReq' = Posted(enReq, 1)
  /\ main' = "waitOn"
  /\ UNCHANGED <<disReq, disRep, enRep, si, initDone, samples, nextlast, window, polling,
                 consuming, edge, squeezed>>

EnableReturns ==
  /\ main = "waitOn" /\ enRep > 0
  /\ enRep' = enRep - 1
  /\ main' = "game"
  /\ UNCHANGED <<disReq, disRep, enReq, si, initDone, samples, nextlast, window, polling,
                 consuming, edge, squeezed>>

\* joyConsumeSamples, once per frame and with no lock: the window moves up to what
\* was read last, ..
Consume ==
  /\ main = "game" /\ initDone
  /\ curstart' = curlast
  /\ main' = "take"
  /\ UNCHANGED <<requests, si, initDone, samples, nextlast, curlast, polling,
                 consuming, edge, squeezed>>

\* (faulty variant of FirstNew: the sample before it is looked at again)
FirstSeen == curstart
FirstNew == (curstart + 1) % SampleLen

\* .. then forward to the newest sample, ..
Take ==
  /\ main = "take"
  /\ curlast' = nextlast
  /\ pressed' = FALSE
  /\ at' = FirstNew
  /\ main' = IF nextlast = curstart THEN "game" ELSE "scan"
  /\ due' = edge /\ edge' = FALSE
  /\ UNCHANGED <<requests, si, initDone, samples, nextlast, curstart, polling, squeezed>>

\* .. and each sample in it is compared with the one before.
Scan ==
  /\ main = "scan"
  /\ pressed' = (pressed \/ (samples[at] /\ ~samples[(at + SampleLen - 1) % SampleLen]))
  /\ IF at = curlast THEN main' = "game" /\ at' = at
     ELSE main' = "scan" /\ at' = (at + 1) % SampleLen
  /\ UNCHANGED <<requests, si, initDone, samples, nextlast, window, polling, due, edge,
                 squeezed>>

Requests ==
  \/ Disable \/ DisableReturns \/ FirstCheck \/ Query \/ QueryReturns
  \/ Enable \/ EnableReturns
Game == Requests \/ Consume \/ Take \/ Scan

Next == Poll \/ Game

\* Retraces keep coming and the scheduler handles them; the main thread goes on with
\* what it has begun; and it does not ask for the serial interface so often that no
\* retrace finds it unasked for.
Fairness ==
  /\ WF_vars(Poll) /\ SF_vars(PollRead)
  /\ WF_vars(DisableReturns \/ FirstCheck \/ QueryReturns \/ Enable \/ EnableReturns)

Spec == Init /\ [][Next]_vars
FairSpec == Spec /\ Fairness

-------------------------------------------------------------------------------
(* Properties.                                                             *)

\* Each queue holds no more than its slots, each index is a slot of the ring, and
\* polling is switched off at most once.
TypeOK ==
  /\ disReq \in 0 .. 1 /\ disRep \in 0 .. 1 /\ enReq \in 0 .. 1 /\ enRep \in 0 .. 1
  /\ input \in 0 .. InputSize
  /\ pad \in BOOLEAN /\ initDone \in BOOLEAN
  /\ samples \in [Slots -> BOOLEAN]
  /\ nextlast \in Slots /\ curstart \in Slots /\ curlast \in Slots
  /\ sched \in {"idle", "store", "publish", "check", "answer"}
  /\ busy \in BOOLEAN /\ disableCount \in 0 .. 1 /\ index \in Slots /\ checks \in 0 .. 2
  /\ main \in {"game", "waitOff", "off", "query", "done", "waitOn", "take", "scan"}
  /\ at \in Slots /\ pressed \in BOOLEAN
  /\ edge \in BOOLEAN /\ due \in BOOLEAN /\ squeezed \in BOOLEAN

\* From the return of joyDisablePoll to the call of joyEnablePoll the serial interface
\* is the main thread's: the scheduler is not in a poll, and the only message in the
\* input queue is the answer to the main thread's own query.
SerialInterfaceIsMains ==
  main \in {"off", "query", "done"} =>
    /\ sched = "idle" /\ disableCount = 1
    /\ input = IF main = "query" THEN 1 ELSE 0

\* g_ContBusy is what joyPoll trusts when it decides to block for the read that is
\* under way: between two polls it says exactly whether the answer is in the queue.
BusyMeansAnswered ==
  sched = "idle" /\ main # "query" => input = IF busy THEN 1 ELSE 0

\* No answer is left over for a request that is yet to come, and none is lost.
OneAnswerPerRequest ==
  /\ disReq + disRep = IF main = "waitOff" THEN 1 ELSE 0
  /\ enReq + enRep = IF main = "waitOn" THEN 1 ELSE 0

Ahead(a, b) == (b - a + SampleLen) % SampleLen

\* A new sample never goes to a slot of the window the main thread is reading, however
\* the two threads interleave, unless the ring was full.
WindowUntouched ==
  sched = "store" /\ index # nextlast =>
    Ahead(curstart, index) > Ahead(curstart, curlast)

\* As long as the ring was never full, each press is reported by the consume that
\* follows it, once: none is missed between two windows, and none is seen in two.
PressReportedOnce == main = "game" /\ ~squeezed => pressed = due

\* A request is answered at a later retrace: the scheduler never blocks in joyPoll.
RequestAnswered == main \in {"waitOff", "query", "waitOn"} ~> main \in {"game", "off", "done"}

\* However often polling was switched off, it comes back.
PollingGoesOn == [](initDone => <>(sched = "store"))
===============================================================================
