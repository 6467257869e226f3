-------------------------------- MODULE IntMask --------------------------------
(***************************************************************************)
(* osSetIntMask of port/src/libultra.c: "interrupts off" as one process    *)
(* wide recursive critical section, which the audio library, the sound     *)
(* effects and the scheduler use as their only mutual exclusion.  It heals *)
(* itself (D152): a waiter blocked for two seconds steals the section, and *)
(* a thread that exits inside of it releases it.                           *)
(*                                                                         *)
(* imAcquire, imRelease and imThreadExitRelease work under the bookkeeping *)
(* mutex s_imMx, so each is a step; a waiter gives s_imMx up while it      *)
(* sleeps.  Time is counted in the waiter's own periods of 100 ms.         *)
(***************************************************************************)
EXTENDS Integers, FiniteSets

CONSTANTS
  Threads,    \* pthread ids; the id of a thread that exits is given out again
  Transient,  \* the ids of threads that may exit
  Stuck,      \* OS_IM_STUCK_NS, in periods (20)
  MaxNest,    \* bound: how deep sections nest
  MaxLeaks,   \* bound: how many sections are left without the paired restore
  Nobody      \* the owner when there is none

ASSUME IntMaskAssumption ==
  /\ Transient \subseteq Threads /\ Nobody \notin Threads
  /\ Stuck \in Nat \ {0} /\ MaxNest \in Nat \ {0} /\ MaxLeaks \in Nat

VARIABLES
  owner,    \* s_imOwner; Nobody stands for s_imHeld = 0
  depth,    \* s_imDepth
  pc,       \* of each thread: "run", "wait" (in the loop of imAcquire), "gone"
  nest,     \* how many sections the code of each thread is in
  waited,   \* how long each waiter has been in the loop
  leaks,    \* how many sections were leaked
  heldFor   \* how long the owner has had the section (no variable of the code)

vars == <<owner, depth, pc, nest, waited, leaks, heldFor>>

Init ==
  /\ owner = Nobody /\ depth = 0
  /\ pc = [t \in Threads |-> "run"]
  /\ nest = [t \in Threads |-> 0]
  /\ waited = [t \in Threads |-> 0]
  /\ leaks = 0 /\ heldFor = 0

-------------------------------------------------------------------------------
Free == owner = Nobody

\* The section becomes t's, whoever had it.
TakeOver(t) ==
  /\ owner' = t /\ depth' = 1 /\ heldFor' = 0
  /\ nest' = [nest EXCEPT ![t] = @ + 1]

GiveUp == owner' = Nobody /\ depth' = 0 /\ heldFor' = 0

\* osSetIntMask(OS_IM_NONE): the section is free or already the caller's
Acquire(t) ==
  /\ pc[t] = "run" /\ nest[t] < MaxNest
  /\ \/ Free /\ TakeOver(t)
     \/ /\ owner = t
        /\ depth' = depth + 1
        /\ nest' = [nest EXCEPT ![t] = @ + 1]
        /\ UNCHANGED <<owner, heldFor>>
  /\ UNCHANGED <<pc, waited, leaks>>

\* .. or another thread's
AcquireWaits(t) ==
  /\ pc[t] = "run" /\ nest[t] < MaxNest
  /\ ~Free /\ owner # t
  /\ pc' = [pc EXCEPT ![t] = "wait"]
  /\ waited' = [waited EXCEPT ![t] = 0]
  /\ UNCHANGED <<owner, depth, nest, leaks, heldFor>>

\* The loop ends: s_imHeld is 0
WaitEnds(t) ==
  /\ pc[t] = "wait" /\ Free
  /\ TakeOver(t)
  /\ pc' = [pc EXCEPT ![t] = "run"]
  /\ UNCHANGED <<waited, leaks>>

\* (faulty variant of MaySteal: the lock before D152)
NeverSteal(t) == FALSE
MaySteal(t) == waited[t] >= Stuck

\* The loop is left with the section still held
Steal(t) ==
  /\ pc[t] = "wait" /\ ~Free
  /\ MaySteal(t)
  /\ TakeOver(t)
  /\ pc' = [pc EXCEPT ![t] = "run"]
  /\ UNCHANGED <<waited, leaks>>

\* (faulty variants of Release: not recursive; not looking at the owner; comparing
\* the depth with < instead of <=)
ReleaseAll(t) == IF owner = t THEN GiveUp ELSE UNCHANGED <<owner, depth, heldFor>>
ReleaseAnyone(t) ==
  IF depth <= 1 THEN GiveUp ELSE depth' = depth - 1 /\ UNCHANGED <<owner, heldFor>>

ReleaseLate(t) ==
  IF owner # t THEN UNCHANGED <<owner, depth, heldFor>>
  ELSE IF depth < 1 THEN GiveUp
  ELSE depth' = depth - 1 /\ UNCHANGED <<owner, heldFor>>

\* imRelease, which does nothing in a thread whose section was stolen
Release(t) ==
  IF owner # t THEN UNCHANGED <<owner, depth, heldFor>>
  ELSE IF depth <= 1 THEN GiveUp
  ELSE depth' = depth - 1 /\ UNCHANGED <<owner, heldFor>>

\* osSetIntMask(OS_IM_ALL)
Restore(t) ==
  /\ pc[t] = "run" /\ nest[t] > 0
  /\ Release(t)
  /\ nest' = [nest EXCEPT ![t] = @ - 1]
  /\ UNCHANGED <<pc, waited, leaks>>

\* The code leaves a section by a path that forgets the paired restore.
Leak(t) ==
  /\ pc[t] = "run" /\ nest[t] > 0 /\ leaks < MaxLeaks
  /\ nest' = [nest EXCEPT ![t] = @ - 1]
  /\ leaks' = leaks + 1
  /\ UNCHANGED <<owner, depth, pc, waited, heldFor>>

\* imThreadExitRelease
ExitRelease(t) == IF owner = t THEN GiveUp ELSE UNCHANGED <<owner, depth, heldFor>>

\* A thread returns from its entry function, and a new thread gets its id.
Exit(t) ==
  /\ t \in Transient
  /\ pc[t] = "run" /\ nest[t] = 0
  /\ pc' = [pc EXCEPT ![t] = "gone"]
  /\ ExitRelease(t)
  /\ UNCHANGED <<nest, waited, leaks>>

Start(t) ==
  /\ pc[t] = "gone"
  /\ pc' = [pc EXCEPT ![t] = "run"]
  /\ UNCHANGED <<owner, depth, nest, waited, leaks, heldFor>>

\* A period passes.  Real sections last microseconds: none passes while the owner is
\* in its section or the section is free, and a waiter looks at the deadline in
\* every period.
Period ==
  /\ ~Free /\ nest[owner] = 0
  /\ \A t \in Threads : pc[t] = "wait" => waited[t] < Stuck
  /\ \E t \in Threads : pc[t] = "wait"
  /\ waited' = [t \in Threads |-> IF pc[t] = "wait" THEN waited[t] + 1 ELSE 0]
  /\ heldFor' = IF heldFor < Stuck THEN heldFor + 1 ELSE heldFor
  /\ UNCHANGED <<owner, depth, pc, nest, leaks>>

Next ==
  \/ \E t \in Threads :
       \/ Acquire(t) \/ AcquireWaits(t) \/ WaitEnds(t) \/ Steal(t)
       \/ Restore(t) \/ Leak(t) \/ Exit(t) \/ Start(t)
  \/ Period

\* Time passes, however often the owner of a leaked section enters it again in
\* between; a thread restores what it is in and, nesting or not, comes out of its
\* outermost section in the end; and a waiter, signalled at every release and awake
\* in every period, does not lose every race for the section.
Fairness ==
  /\ SF_vars(Period)
  /\ \A t \in Threads : /\ WF_vars(Restore(t))
                       /\ SF_vars(nest[t] = 1 /\ Restore(t))
                       /\ SF_vars(WaitEnds(t) \/ Steal(t))

Spec == Init /\ [][Next]_vars
FairSpec == Spec /\ Fairness

-------------------------------------------------------------------------------
(* Properties.                                                             *)

\* The lock's own variables agree with one another and the counters are in range.
TypeOK ==
  /\ owner \in Threads \cup {Nobody}
  /\ depth \in Nat /\ (depth = 0 <=> Free)
  /\ pc \in [Threads -> {"run", "wait", "gone"}]
  /\ nest \in [Threads -> 0 .. MaxNest]
  /\ waited \in [Threads -> 0 .. Stuck]
  /\ leaks \in 0 .. MaxLeaks /\ heldFor \in 0 .. Stuck

\* As long as every section is restored, two threads are never in a section at the
\* same time, the one thing a no-op osSetIntMask did not give (D147).
MutualExclusion ==
  leaks = 0 => Cardinality({t \in Threads : nest[t] > 0}) <= 1

\* A section is released only with its outermost restore: the owner that is in a
\* nested section still has the lock when it comes out of the inner one.
OwnerKeepsOuterSection ==
  leaks = 0 => \A t \in Threads : nest[t] > 0 => owner = t /\ depth = nest[t]

\* A thread whose section was stolen comes back and restores: that takes nothing
\* from the thread that has the section now.
VictimReleasesNothing ==
  [][\A t \in Threads : nest'[t] < nest[t] /\ owner # t
       => UNCHANGED <<owner, depth>>]_vars

\* A thread that has exited owns nothing, so that a thread that is given its id is
\* not mistaken for a recursive owner (imThreadExitRelease).
NoOrphan == \A t \in Threads : pc[t] = "gone" => owner # t

\* A section left without its restore wedges nobody for ever (D152).
EveryWaiterEnters == \A t \in Threads : (pc[t] = "wait") ~> (pc[t] = "run")

\* "anything holding for OS_IM_STUCK_NS is leaked, so a waiter that has blocked that
\* long STEALS the section": a section is stolen only from an owner that has held it
\* for that long.  The code measures how long the waiter has waited, which spans the
\* owners that came and went meanwhile.
StolenOnlyWhenStuck ==
  [][~Free /\ owner' \in Threads /\ owner' # owner => heldFor >= Stuck]_vars
===============================================================================
