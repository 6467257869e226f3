# A TLA+ model of the GoldenEye 007 port

The program is the decompiled N64 game (`src/`) on a port layer (`port/`) that
replaces the console's operating system: every N64 thread is a pthread, every
message queue a mutex and a condition variable, the RSP and the RDP a function that
the scheduler thread calls. On the console threads had priorities and interrupts
could be masked; here they run in parallel. These modules model the parts in which
that matters: the threads, the queues between them, the one lock, and the
protocols the threads follow; and besides them the parts of the game whose state
outlives a frame and has rules of its own: what is saved, what is unlocked, the
memory of the level and the sounds that play.

Paths below are relative to the repository's root.

## 1. Inventory

| Part | State | Operations | Interacts with |
|---|---|---|---|
| Message queues, `port/src/libultra.c:475-644` | ring `msg`, `first`, `validCount`; one mutex and one condition variable | `osSendMesg`, `osRecvMesg` (blocking or not), `osEnqueueMesg`, `osDequeueMesg` | every thread |
| Pacemaker and events, `libultra.c:247-278, 667-732, 1186-1213` | next tick, the registered retrace queue | `portPostVIEvent`, `portPostEventForce`, `osSpTaskStartGo` | posts to the scheduler's `interruptQ` |
| RCP scheduler, `src/sched.c` | `interruptQ`, `cmdQ`, two task lists, `doAudio`, `curRSPTask`, `curRDPTask`, `frameCount`, client list | `__scMain` and its three handlers, `__scSchedule`, `__scExec`, `__scTaskComplete` | tasks from main loop and audio manager, messages back to them, `joyPoll`, `musicFadeTick` |
| Main loop, `src/boss.c`, with `src/game/rsp.c`, `src/game/dyn.c`, `src/fr.c` | `pendingGfx`, `g_MainStageNum`, the double buffered display list, task structure and video settings | build and submit a frame, acknowledge, change stage | `gfxFrameMsgQ`, `cmdQ`, `joyConsumeSamples` |
| Audio manager, `src/audi.c` | two queues, three `audioInfo`, DMA buffer cache | `amMain`, `amHandleFrameMessage`, `amDmaCallback`, `amClearDmaBuffers` | scheduler, audio library |
| Interrupt mask, `libultra.c:1374-1515` | `s_imHeld`, `s_imOwner`, `s_imDepth` | `imAcquire`, `imRelease`, `imThreadExitRelease` | audio library, `snd.c`, `sched.c` |
| Controllers, `src/joy.c` | sample ring, window, `g_ContBusy`, `g_ContPollDisableCount`, five queues | `joyPoll`, `joyConsumeSamples`, `joyCheckStatus`, enable and disable | scheduler (polls), main thread (consumes, EEPROM) |
| Event queue, `src/libultra/audio/event.c` | delta time list, free list | `alEvtqPostEvent`, `alEvtqNextEvent`, `alEvtqFlush`, `alEvtqFlushType` | `snd.c`, `music.c`, audio manager, under the interrupt mask |
| Sound effects and music, `src/snd.c`, `src/music.c` | lists of free and used sound states, voices, fades | `sndPlaySfx`, `sndDeactivate`, the walks over all sounds, `sndHandleEvent` | main thread, audio manager, scheduler (`musicFadeTick`) |
| Save slots, `src/game/file2.c`, EEPROM file `libultra.c:1107-1180` | `saves[]`, flags, checksums; `ge007.eep` | `fileValidateSaves`, `fileOverwriteSaveSlotWithNewSave`, `fileDeleteSaveForFolder`, `fileCopyFolderToFirstFree`, `geEepromStore` | file select menu, end of a mission |
| Front end, `src/game/front.c`, and the loop over stages, `src/boss.c` | current, next and previous menu; chosen folder, mode, mission, difficulty; `g_StageNum`, `g_MainStageNum` | `menu_init`, the menus, `bossReturnTitleStage`, `end_of_mission_briefing` | save slots (best times), demos, cheats |
| Campaign progress, `src/game/file2.c` | best times of a folder | `fileIsStageUnlockedAtDifficulty`, `fileIs007ModeUnlocked` | front end |
| Rooms of a level, `src/game/bg.c` | `g_BgRoomInfo` | load, measure, age, delete | `src/mema.c` |
| Timers, `libultra.c:1275-1372` | table of timers without a lock | `osSetTimer`, `osStopTimer`, `portServiceTimers` | main thread, tick thread |
| Memory, `src/memp.c`, `src/mema.c` | banks, table of free spaces | allocate, grow, free, merge, `memaSingleDefragPass` | main thread |
| Demos, `src/ramrom.c`, `src/game/ramromreplay.c` | block buffers, checksum | record, play back | `joyConsumeSamples` |
| Game rules: inventory, objectives, guns, characters, AI | linked lists and numbers | per frame | main thread only |
| Renderer (`port/fast3d`), ROM data, video, audio output, files | - | run to completion | called by the above |

**What is hard.** Interleavings nobody wrote a test for: the pacemaker's unlocked room
check against the scheduler's posts, two threads toggling two halves of a double
buffer, one condition variable for two kinds of waiters, a lock that is taken away
from its owner, a ring read and written with no lock. Loss: most sends do not wait,
and what does not fit is dropped. Blocking: the scheduler waits for its clients
in `__scTaskComplete` and they for it. Sequences: a stage change resets counters
while frames may be in flight. Crashes: the save file is rewritten in place. Stale choices: every stage ends in the
same function, which saves with the page, folder and difficulty some menu has set.
Unmasked lists: the audio manager relinks sounds that the main thread walks. The
hazards are listed, each at its line, in `PROJECT.json`.

**What makes each part correct.**
Queue: bounded FIFO, no lost wakeup. Scheduler: no task-done event lost, each task
reported once and in order. Main loop: never writes what a frame in flight reads,
never loses count of the frames. Audio manager: always gets its task back.
Interrupt mask: excludes, nests, heals. Controllers: one user of the serial
interface at a time, each press reported once. Event queue: every event delivered
once and in time. Sounds: each state on one list, each sound ended in the end, voices
counted right. Saves: after a crash each folder has the old or the new save, and there
is always a slot for the next one. Front end: only what is unlocked is played, only a
mission writes progress, progress has no gaps. Memory: blocks disjoint, nothing leaked
by merging.

## 2. Modules

| Module | Models | Status |
|---|---|---|
| `MesgChannel` | what a queue promises: a bounded FIFO channel | abstract |
| `PortQueue` | `osSendMesg`, `osRecvMesg`, `osEnqueueMesg`, `osDequeueMesg`; implements `MesgChannel` | checked, proved |
| `FramePipeline` | what the scheduler promises the main loop: two frames deep, in order, each reported once | abstract |
| `RcpSched` | tick thread, scheduler, main loop and audio manager over `MesgChannel`-like queues; implements `FramePipeline` | checked; all safety and the refinement proved |
| `IntMask` | `osSetIntMask` | checked, all safety proved |
| `Joy` | polling, handshake and sample ring of `joy.c` | checked, all safety proved |
| `SaveStore` | what the save slots promise the player over crashes | abstract |
| `SaveFile` | the slots of `file2.c` and the EEPROM's file; implements `SaveStore` | checked; all safety and the refinement proved |
| `Progress` | operators: which missions a set of best times completes, unlocks and offers | used by `Front` |
| `Front` | the menus, the stages between them and what is written to the best times | checked, all proved |
| `MemaHeap` | operators: the table of free spaces of `mema.c` | used by `Rooms` |
| `Rooms` | the rooms of a level in that heap | checked; blocks disjoint and giving up proved |
| `EventSchedule` | what the event queue promises: an agenda in order of time | abstract |
| `SndPlayer` | the event queue, the sound states and the two threads that use them; implements `EventSchedule` | checked; all safety and the refinement proved |
| `*_proofs` | the theorems about the module of that name | |
| `MC*` | the instances for TLC | |

**Composition.** `RcpSched` composes four threads and five queues. It uses each queue as
one atomic bounded FIFO (`Append`, `Head`, `Tail`): `PortQueue` shows that the pthread
implementation is just that. `Joy` is the scheduler's `joyPoll` against the main
thread; it shares no variable with `RcpSched`, only the thread, which is why it is a
module of its own: `joyPoll` never blocks (`BusyMeansAnswered`), so it delays a retrace
and changes nothing else in it.

`Front` extends `Progress`: one folder's save is its set of completed pairs of mission and
difficulty, and `times` stands for what `SaveFile` stores, whose refinement `SaveStore` is
what lets `Front` write it in one step. `Rooms` extends `MemaHeap`: the allocator's
operations run to their end on the main thread, so they are operators from a table to a
table and the steps are those of its client. `SndPlayer` is two threads over the event
queue; the interrupt mask it uses is the one of `IntMask`, taken here as excluding.

**Correspondence.** Variables have the names of the code; the comment beside each
declaration says which variable it is. An action is what a thread does between two
operations on something shared. In `PortQueue` that is one critical section; in
`RcpSched` one queue operation with the thread-local work before it; in `IntMask` one
section of the bookkeeping mutex; in `Joy` one access to the ring indices or one queue
operation; in `SaveFile` one write of a slot, with opening and closing the file as two
steps; in `Front` one call of a menu's function or the end or the load of a stage; in
`Rooms` one call of `bg.c` in a frame; in `SndPlayer` one section under the interrupt
mask, or one change of the sound lists without it. `PROJECT.json` maps each definition to its lines. A definition introduced as
a faulty variant is not part of the model: it is the change of the code with which
a property is shown to be able to fail.

Modelling decisions worth knowing:

- *Yields and the PARALLEL, DRAM and SP-only task kinds of `__scSchedule` are absent.* The
  port's `osSpTaskYielded` is constant 0, the game submits only XBUS graphics tasks with
  `OS_SC_NEEDS_RSP | OS_SC_NEEDS_RDP` and audio tasks with `OS_SC_NEEDS_RSP`.
  `__scTaskReady` compares two calls that both return the same dummy framebuffer.
- *The RSP is instantaneous to the scheduler.* `osSpTaskStartGo` renders the frame on
  the scheduler thread; the tick thread runs meanwhile, which `schedPc = "postSP"` allows.
- *Which retraces start a frame* is a choice in `ReceiveFrameRetrace`: the interval test
  is wall clock time.
- *`portPostEventForce`* is three queue operations, with the tick thread between them.
- *`Leak`* stands for a section left without its restore. The comment in
  `libultra.c:1391-1396` says libaudio has such paths; no call site in the repository
  was found to be unbalanced, so a leak is an assumption about the environment, bounded
  by `MaxLeaks`, and every exclusion property is stated for `leaks = 0`.
- *Time in `IntMask`* is counted in the 100 ms periods of the waiter's loop. A section
  that is not leaked takes microseconds (`libultra.c:1397`), so no period passes in it.
- *One button of one controller* stands for the pads in `Joy`; `edge`, `due` and `squeezed`
  record history for the properties and influence nothing.
- *`SaveFile`* has a write of a slot change memory and image at once and then open the
  file, which empties it (`fopen` with `"wb"`), and close it, which fills it. A crash in
  between leaves the first blocks of the image. An operation of `file2.c` is the list of its
  writes, since nothing it reads changes while they are made.
- *`Front`* leaves out cursors and timers: where they point is a choice. A key may be
  pressed in any frame. A demo's page is what `set_solo_and_ptr_briefing` finds for its stage,
  which the instance gives as right, missing or wrong, so that nothing rests on it.
  Missions' objectives may be completed and fail again at any time.
- *`Rooms`* has one size per room in 16-byte units and fails a load as a whole.
- *`SndPlayer`* has the audio library's voice allocation succeed or fail, and durations
  in units of a millisecond. After the first sound that is disposed of in the middle of a
  start or a walk (`overlapped`), or the first event that does not fit (`dropped`), the game
  begins nothing new: what the lists look like after that is not explored. Both are
  found, and the properties are stated for the time before; `WalkIsAtomic` is about the walk
  itself. Events are kept from the main thread's walk by the mask, changes of
  the two lists of sounds are not, as in the code.

## 3. Runs

| Run | Instance | What it shows |
|---|---|---|
| `port_queue` | 1 blocking sender, 1 blocking receiver, non-blocking calls, 3 slots, 2 messages | no lost wakeup, FIFO, every waiter is served |
| `rcp_safety` | `interruptQ` 4, `cmdQ` 3, `gfxFrameMsgQ` 2, audio queue 1, 3 audio infos | nothing lost, counters exact, buffers in flight untouched, implements the pipeline |
| `rcp_liveness` | 3, 3, 1, 1, 1 | frames and audio tasks return, stage changes happen |
| `int_mask` | 3 threads, one transient, nesting 2, stuck after 2 periods, 1 leak | exclusion, nesting, healing, progress |
| `int_mask_steal` | 3 threads, 1 leak | finding: see below |
| `joy` | ring of 4, input queue 2 | handshake, ring, progress |
| `save_file` | 2 folders in 3 slots, best times none or some, 2 other contents, one failing `fopen` | slots stay sound over crashes, saves count once written, implements the store |
| `campaign` | 2 main and 2 bonus missions in 2 rows, 1 folder, 3 demos | only what is unlocked runs, no gaps, what is reported is saved, pages valid, only missions write |
| `rooms` | 3 rooms, heap of 11 units, 3 slots for free spaces | blocks disjoint, nothing lost, spaces given up only when stuck, rooms fit when measured |
| `rooms_longest` | as `rooms` | finding: see below |
| `snd_player` | 2 sound states, 3 events, 1 voice; a sound of one part and one of two, the first looped | lists and voices accounted for, each sound has its event, implements the schedule |
| `snd_walk` | as `snd_player` | finding: see below |

**Why the bounds are enough.** No real queue has two threads blocked on the same side
(`PortQueue` names who waits where; it is an assumption of the module, and the reason a
single signal suffices). Three slots make both ring indices wrap. In `RcpSched` the sizes
matter only relative to the reserve of two slots and the three tasks that can be out
at once: 4 and 3 are the reserve plus a slot or two, the client queues are so short
that they overflow and that the blocking send in `__scTaskComplete` does wait. The real
sizes (8, 8, 32, 8) are covered by the theorems, for the invariants that are proved.
The liveness run has the smallest sizes the assumption allows, where waiting is most
likely. Three threads contend for the interrupt mask in the program (main,
scheduler, audio manager). Four samples are the least that hold a window of two, a
free slot and a wrap. Two folders are the least in which a slot
can be taken by the wrong folder, and with three slots two of one folder leave no free
one; generations wrap at four whatever the bounds. Four missions in two rows have each
kind once: a first one, a last main one with the ending behind it, both bonus ones, a
row to leave. The mission numbers are not bounded by the actions, only the set is smaller.
With two folders the instance is too large to finish for two main missions; for one main
mission (3.1 million states) all properties hold as well. Three slots of free spaces fill
up with three rooms of two blocks each, so that spaces are merged and given up; the heap
is one unit too small for all rooms, so that allocation fails. Two sound states and one
voice have a sound wait for a voice and be cut off; three events fill the queue. Type
invariants of `PortQueue`, `SaveFile`, `Front`, `Rooms` and `SndPlayer` were checked with these
instances and are not part of the runs; all are proved.

**Fairness.** Each is a thread of the host, so a step that stays possible is taken (`WF`).
`RcpSched`: one `WF` per thread and none on what the game decides (`RequestStage`);
`PortQueue`: `WF` per critical section of a thread inside a call, none on entering one. Two
strong assumptions are needed and justified by timing. `IntMask`: time goes on
(`SF` on `Period`), a nested section is left in the end, and a waiter, woken by each
release and every 100 ms, does not lose every race. `Joy`: `SF_vars(PollRead)`, the
main thread asks for the serial interface about once per stage or save, so some of
the sixty retraces per second find no request.

The four modules on saves, front end, rooms and sounds state no fairness: nothing in
the code promises that a player presses a key, and the audio manager's loop may spin.

**Deadlock** is checked in every run: no state without a successor is reachable.

**Findings.** `StolenOnlyWhenStuck` is what the D152 comment promises: a section is stolen
from who has held it for two seconds. The code measures how long the *waiter* has
waited. With two waiters behind one leaked section the second steals from the
first, which has just entered and leaked nothing: exclusion is broken once more than the
leak alone requires. `libultra.c:1433-1439` against `libultra.c:1397-1399`.

`LongestIsLongest` is the comment of `memaGetLongestFree` (`mema.c:518-519`). It calls
`memaDefrag`, which repeats a pass as long as the pass merged something. A pass that only
swapped spaces into order ends the loop just when there is something to merge. The
first room that is measured already leaves such a table. The effect is a room that is
loaded into less memory than there is, or not at all; `memaSingleDefragPass`, once a frame,
puts it right in time.

`WalkIsAtomic` is the comment in `sndSetSfxSlotVolume` (`snd.c:1136-1139`). The mask does not
keep the audio manager from disposing of sounds, since `sndUnlinkClearSound` does not take
it. The walk then follows the link of a free state to the other free states, posts
events for those and misses the rest of the sounds in use.

**Observations** made while modelling, that no comment or test of the repository
contradicts:

- With cheats on and nothing completed in the first row of the mission menu, the cursor
  moves past the row's end and rests on the first mission of the second row, locked or
  not; the difficulty menu then offers Agent (`front.c:3227-3265`). `NoGaps` holds because with
  cheats on nothing is written, and `RunsWhatIsUnlocked` is about games without them.
- What is saved at the end of a stage depends on the live objectives, and not on
  `g_isBondKIA`; the report uses both. So more may be saved than is reported, never less
  (`CompletedIsSaved`).
- `file2.c:673` says that a completed bonus stage cannot lie below its difficulty; codes and
  Aztec on Agent make it so.
- A sound state whose last use was cut off while another thread takes it keeps its PLAYING
  flag until it is filled (`snd.c:321`); a state is free before its events are removed
  (`snd.c:534`), so a sound started in between loses its play event and is in use for ever.
- `fopen` failing in `geEepromStore` is only logged; the next write makes up for it.

## 4. Proofs

TLAPS proves, for all values of the constants:

- **PortQueue**, from `MsgCountAssumption` and `OneOfEach`: types; `NoLostWakeup`; the
  refinement `ImplementsChannel`. The inductive invariant adds to `NoLostWakeup` that a
  sleeper is in the call it sleeps in. If a receiver and a sender slept together
  the queue would be both empty and full, impossible with at least one slot: so all
  sleepers are of one kind, there is at most one, and a single signal reaches it. The
  refinement rests on lemmas of ring arithmetic (the slot written is none of the
  occupied ones; contents after a store and a removal are `Append` and `Tail`).
- **RcpSched**, from `SizeAssumption`: types; `TaskDoneNeverLost`. The argument: a retrace is
  posted only below `IntQSize - 2` messages and at most one is past that check, so at
  most `IntQSize - 2` messages are retraces, one fewer while the tick thread is past the
  check. At most one RSP and one RDP event exist, each posted only while its unit is free.
  Hence each post finds a slot and `portPostEventForce` never reaches its fallback,
  whatever the order of the unlocked read and the posts.
- **IntMask**, from `IntMaskAssumption`: types; `MutualExclusion`; `OwnerKeepsOuterSection`;
  `NoOrphan`; `VictimReleasesNothing`. `MutualExclusion` is not inductive: `IInv` adds
  that without leaks the lock's depth is the nesting of its owner, so that no waiter gets
  any older and nothing is stolen (`Balanced`), and that a waiter is not nested as deep as
  the bound allows (`WaiterNests`).
- **RcpSched**, its frames, from `SizeAssumption`: `PendingGfxExact`,
  `FrameBeingBuiltIsFree`, `ViIndexCorrelates`, `SubmitNeverWaits` and the refinement
  `ImplementsPipeline`. None of them is inductive. What they need is that every
  task is in exactly one place: in `cmdQ`, on a list of the scheduler, on one of the two
  units, between completion and its message, or on its way back in a client's queue. From
  it `pendingGfx` counts the places that hold a frame, at most two frames are out, they
  alternate between the halves of the double buffer, and the order in which they are
  met on the way is the order in which they were submitted. `FramePipeline`'s `outstanding` is read off
  those places; a step of the scheduler moves a frame from one to the next and leaves the
  sequence alone, which is a stutter.
- **Joy**, from `JoyAssumption`: types; `SerialInterfaceIsMains`; `BusyMeansAnswered`;
  `OneAnswerPerRequest`; `WindowUntouched`; `PressReportedOnce`. `IInv` ties every main
  thread position to the contents of the four
  request queues and the disable count (`Handshake`), and the input queue's length to
  the one read or query under way (`OneMessage`). For the ring, `RingOrdered` says that the
  window ends at or before the newest sample and that the slot being written is the one
  after it, which is outside the window unless the ring is full, when nothing is
  written. For the presses, `PressesCounted` says that what is pressed and not reported yet
  is either collected in `pressed` or is a rising edge between two samples still to be scanned.
- **SaveFile**, from `SaveFileAssumption`: types; `OneSlotEach`; `SavedOnceWritten`; the
  refinement `ImplementsStore`, crashes included. The invariant `SInv` says that the slots are settled, or that the
  writes still to be made are those of a deletion, or those of a save: first the
  new slot, of the next generation, then the old one given up. So at any crash a folder has
  at most two valid slots, and if two, the later generation (of four, with the wrap) is the
  new one and the validation at the next start keeps it. That there is always a third slot
  is a pigeonhole argument on `N + 1` slots. `Kept`, a recursive
  function on sets of slots, is shown to exist by induction over the size of the set.
- **Front**, with its operators from `Progress`, from the assumptions of both: types; `RunsWhatIsUnlocked`; `NoGaps`;
  `CompletedIsSaved`; `BriefingPageValid`; `OnlyMissionsWriteProgress`. The invariant `FInv` states, for each
  menu, what has been chosen by the time it is shown (`InMenus`) and, for a stage, that page,
  mission and difficulty belong together (`InStage`). `NoGaps` follows from what
  `Progress` unlocks: a mission is open at a difficulty only if all before it are
  completed there or above, so that completing it leaves no gap.
- **Rooms**, with its operators from `MemaHeap`, from the assumptions of both and the
  hypothesis `[]MeasuredRoomFits`: types; `BlocksDisjoint`; `NothingLost`; `GivesUpOnlyWhenStuck`. The hypothesis is
  there because `bgLoadRoomModelData` does not look whether its block grew: a room measured
  in a space shorter than its size would own more than it was given. The run `rooms`
  checks it as an invariant. The invariant `RoomsInv` lists what is handed out by room and kind
  (`Claims`: two blocks of one room, or of two, are different claims even when
  their numbers agree), says that these are apart, that the table is one of those
  possible meanwhile (`Tables`), and what a room's record says of its blocks. Each operation on
  the table is a fold; what its step keeps, the fold keeps (`FoldStays`), or it
  goes from one set of values to the next (`FoldClimbs`), both by least counterexample
  over the number of elements. For `NothingLost`, the invariant also says that the spaces of the
  table hold exactly what the rooms do not own and the search did not give up (`Spare`). The sums
  are folds over sets whose order of addition is a `CHOOSE`; that one changes by an element
  when the set does is shown by induction over the size of the set, so every operation
  is judged by the one or two entries it changes, and merging by what it moves from one to
  the other. For giving up, `Sorting` is the invariant of a bubble
  sort: after `p` rounds the last `p` entries are the greatest, in order. In the last
  round nothing is swapped any more, so each space has been compared with the next in
  order of address, and only that one could follow it.
- **SndPlayer**, from `SndAssumption`: types; `SoundsAccounted`; `SoundHasEvent`; the refinement
  `ImplementsSchedule`. What `sndHandleEvent` still has to do is always one of a few plans (`todo`), and
  handling an event is one of a few reactions that leave one; each is a lemma. Neither property is
  inductive. `Inv` adds, for the time before a sound is disposed of in the middle of a
  start or a walk (`overlapped`): the lists of free and used states are disjoint, without cycles, and hold
  exactly the states that are to be on them (`Lists`); what the main thread found to be free
  is still the head of the list, and no sound until it is filled (`Starts`); the
  voices counted are those held by live sounds (`Accounts`); and an END event is only for a
  live sound, or for one whose events are about to be removed, so that no state is freed
  twice (`Ends`). As long as no event was refused either, `HasEvent` says which events each state of
  playing needs, and that one of them is in the queue, in the plan, or in hand; it is
  stronger than `SoundHasEvent`, because an event of the wrong kind would not lead on.
  TLC checked `Inv` on the instance of `snd_player` first. The refinement needs only the types: posting
  and removing are recursions over the list of differences, which are shown to keep the time at
  which every other event falls due, so a post inserts into the agenda in order of time and
  a removal keeps a part of it in its order. Recursive functions on lists and on the links of the states
  are shown to exist by least counterexample.

Only model-checked: all liveness, since it needs fairness and `ENABLED`; and that a room fits
when it is measured. `MeasuredRoomFits` has no proof from the sizes alone: the
merging it relies on stops early (`LongestIsLongest`), and whether what was merged is
enough depends on the sizes of the rooms measured before.
`LongestIsLongest`, `WalkIsAtomic` and `StolenOnlyWhenStuck` are false, see the findings.

## 5. Plan

1. `PortQueue`, `MesgChannel`: done.
2. `RcpSched`, `FramePipeline`: done, safety proved.
3. `IntMask`: done, safety proved.
4. `Joy`: done, safety proved.
5. `SaveFile`, `SaveStore`: done, safety proved.
6. `Progress`, `Front`: done, proved.
7. `MemaHeap`, `Rooms`: done, proved.
8. `EventSchedule`, `SndPlayer`: done, safety proved.
9. `AudioDma`: the buffer cache of `audi.c`; a buffer in use by a task is not given out.
10. `Timers`: the table shared by two threads without a lock.
11. `RamromReplay`, then `BondInv`.

**Not modelled and not planned**: the renderer, level geometry, characters and AI
(floating point and level data), the synthesis part of the audio library, ROM
conversion at load time, the SDL layer, debugging aids, build files and tools. They are
most of the repository's lines, and hardly any of its protocols.
