---------------------------- MODULE IntMask_proofs -----------------------------
(***************************************************************************)
(* What TLAPS proves of IntMask, for every set of threads, deadline,       *)
(* nesting depth and number of leaked sections.                            *)
(***************************************************************************)
EXTENDS IntMask, FiniteSetTheorems, TLAPS

\* While nothing is leaked the owner is in as many sections as the lock counts, so
\* that no period passes behind an owner, no waiter reaches the deadline and nothing
\* is stolen: that is why two threads are never inside together.
Balanced ==
  leaks = 0 => /\ ~Free => nest[owner] = depth
               /\ \A t \in Threads : waited[t] = 0

\* A waiter waits to enter one section more (and sections nest MaxNest deep).
WaiterNests == \A t \in Threads : pc[t] = "wait" => nest[t] < MaxNest

IInv == TypeOK /\ NoOrphan /\ OwnerKeepsOuterSection /\ Balanced /\ WaiterNests

\* The initial states satisfy the invariant.
LEMMA InitIInv == Init => IInv
BY IntMaskAssumption
   DEF Init, IInv, TypeOK, NoOrphan, OwnerKeepsOuterSection, Balanced, WaiterNests, Free

-------------------------------------------------------------------------------
\* Entering a section: the lock is free, the caller's own, or another thread's.
LEMMA AcquireStep ==
  ASSUME IInv, NEW t \in Threads, Acquire(t) \/ AcquireWaits(t) PROVE IInv'
<1> USE IntMaskAssumption
        DEF IInv, TypeOK, NoOrphan, OwnerKeepsOuterSection, Balanced, WaiterNests, Free
<1>1. CASE Free /\ Acquire(t)
  BY <1>1 DEF Acquire, TakeOver
<1>2. CASE owner = t /\ Acquire(t)
  BY <1>2 DEF Acquire, TakeOver
<1>3. CASE AcquireWaits(t)
  BY <1>3 DEF AcquireWaits
<1> QED BY <1>1, <1>2, <1>3 DEF Acquire

\* The loop of imAcquire ends; while nothing is leaked, never by a theft.
LEMMA WaitEndsStep ==
  ASSUME IInv, NEW t \in Threads, WaitEnds(t) \/ Steal(t) PROVE IInv'
<1> USE IntMaskAssumption
        DEF IInv, TypeOK, NoOrphan, OwnerKeepsOuterSection, Balanced, WaiterNests, Free
<1>1. CASE WaitEnds(t)
  BY <1>1 DEF WaitEnds, TakeOver
<1>2. CASE Steal(t)
  <2>1. leaks # 0
    BY <1>2 DEF Steal, MaySteal
  <2> QED BY <1>2, <2>1 DEF Steal, TakeOver
<1> QED BY <1>1, <1>2

\* Leaving a section, with the restore or without it.
LEMMA RestoreStep ==
  ASSUME IInv, NEW t \in Threads, Restore(t) \/ Leak(t) PROVE IInv'
<1> USE IntMaskAssumption
        DEF IInv, TypeOK, NoOrphan, OwnerKeepsOuterSection, Balanced, WaiterNests, Free
<1>1. CASE Restore(t) /\ owner # t
  BY <1>1 DEF Restore, Release
<1>2. CASE Restore(t) /\ owner = t /\ depth <= 1
  BY <1>2 DEF Restore, Release, GiveUp
<1>3. CASE Restore(t) /\ owner = t /\ ~(depth <= 1)
  BY <1>3 DEF Restore, Release
<1>4. CASE Leak(t)
  BY <1>4 DEF Leak
<1> QED BY <1>1, <1>2, <1>3, <1>4

\* A thread ends, and its id is given out again.
LEMMA ExitStep ==
  ASSUME IInv, NEW t \in Threads, Exit(t) \/ Start(t) PROVE IInv'
<1> USE IntMaskAssumption
        DEF IInv, TypeOK, NoOrphan, OwnerKeepsOuterSection, Balanced, WaiterNests, Free
<1>1. CASE Exit(t)
  BY <1>1 DEF Exit, ExitRelease, GiveUp
<1>2. CASE Start(t)
  BY <1>2 DEF Start
<1> QED BY <1>1, <1>2

\* Time passes, which while nothing is leaked happens behind no owner.
LEMMA PeriodStep ==
  ASSUME IInv, Period PROVE IInv'
<1> USE IntMaskAssumption
        DEF IInv, TypeOK, NoOrphan, OwnerKeepsOuterSection, Balanced, WaiterNests, Free
<1>1. leaks # 0
  BY DEF Period
<1> QED BY <1>1 DEF Period

\* Every step keeps the invariant.
LEMMA NextIInv == IInv /\ [Next]_vars => IInv'
<1> SUFFICES ASSUME IInv, [Next]_vars PROVE IInv'
  OBVIOUS
<1>1. CASE UNCHANGED vars
  BY <1>1 DEF vars, IInv, TypeOK, NoOrphan, OwnerKeepsOuterSection, Balanced,
              WaiterNests, Free
<1>2. CASE Next
  BY <1>2, AcquireStep, WaitEndsStep, RestoreStep, ExitStep, PeriodStep DEF Next
<1> QED BY <1>1, <1>2

LEMMA Invariance == Spec => []IInv
BY InitIInv, NextIInv, PTL DEF Spec

-------------------------------------------------------------------------------
\* s_imOwner and s_imDepth agree: the lock has a depth exactly while it has an owner.
THEOREM TypeCorrect == Spec => []TypeOK
<1>1. IInv => TypeOK
  BY DEF IInv
<1> QED BY Invariance, <1>1, PTL

\* Until a section is left without its restore, no two threads are inside at once:
\* recursion, waiting, the two second deadline and threads that end included.
THEOREM SectionsExclude == Spec => []MutualExclusion
<1>1. IInv => MutualExclusion
  <2> SUFFICES ASSUME IInv, leaks = 0
               PROVE  Cardinality({t \in Threads : nest[t] > 0}) <= 1
    BY DEF MutualExclusion
  <2> DEFINE In == {t \in Threads : nest[t] > 0}
  <2>1. In \subseteq {owner}
    BY DEF IInv, OwnerKeepsOuterSection
  <2>2. IsFiniteSet({owner}) /\ Cardinality({owner}) = 1
    BY FS_Singleton
  <2>3. IsFiniteSet(In) /\ Cardinality(In) <= 1
    BY <2>1, <2>2, FS_Subset
  <2> QED BY <2>3
<1> QED BY Invariance, <1>1, PTL

\* The owner of a section stays its owner until its outermost restore.
THEOREM OuterSectionKept == Spec => []OwnerKeepsOuterSection
<1>1. IInv => OwnerKeepsOuterSection
  BY DEF IInv
<1> QED BY Invariance, <1>1, PTL

\* With leaks and thefts too, a thread that ends leaves no section behind.
THEOREM ExitLeavesNoOrphan == Spec => []NoOrphan
<1>1. IInv => NoOrphan
  BY DEF IInv
<1> QED BY Invariance, <1>1, PTL

\* Whatever was stolen from it, a thread that restores late never releases, nor
\* unnests, the section of the thread that has it now.
THEOREM LateRestoreIsHarmless == Spec => VictimReleasesNothing
<1>1. ASSUME IInv, [Next]_vars
      PROVE  [\A t \in Threads : nest'[t] < nest[t] /\ owner # t
                => UNCHANGED <<owner, depth>>]_vars
  <2> SUFFICES ASSUME Next, NEW t \in Threads, nest'[t] < nest[t], owner # t
               PROVE  UNCHANGED <<owner, depth>>
    BY <1>1
  <2>1. nest \in [Threads -> 0 .. MaxNest]
    BY <1>1 DEF IInv, TypeOK
  <2> USE IntMaskAssumption, <2>1
  <2>2. ~Period
    BY DEF Period
  <2>3. PICK u \in Threads :
          \/ Acquire(u) \/ AcquireWaits(u) \/ WaitEnds(u) \/ Steal(u)
          \/ Restore(u) \/ Leak(u) \/ Exit(u) \/ Start(u)
    BY <2>2 DEF Next
  <2>4. ~Acquire(u) /\ ~AcquireWaits(u) /\ ~WaitEnds(u) /\ ~Steal(u)
    BY DEF Acquire, AcquireWaits, WaitEnds, Steal, TakeOver
  <2>5. ~Exit(u) /\ ~Start(u)
    BY DEF Exit, Start
  <2>6. CASE Restore(u)
    BY <2>6 DEF Restore, Release
  <2>7. CASE Leak(u)
    BY <2>7 DEF Leak
  <2> QED BY <2>3, <2>4, <2>5, <2>6, <2>7
<1> QED BY Invariance, <1>1, PTL DEF Spec, VictimReleasesNothing
===============================================================================
