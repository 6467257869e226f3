----------------------------- MODULE Front_proofs -----------------------------
(***************************************************************************)
(* Proofs about the front end, for every number of missions, folders and   *)
(* every set of demos.                                                     *)
(*                                                                         *)
(* First come lemmas about the operators of Progress: which difficulty is  *)
(* the highest unlocked one, that more best times unlock no less, that     *)
(* completing what may be played (or what a code applies to) leaves no gap *)
(* in the campaign, and that the cursor ends up on a mission.              *)
(*                                                                         *)
(* The invariant FInv says of the title what has been chosen by the time a *)
(* menu is shown, and of a stage that the menu asked for fits what is      *)
(* played: the page, the difficulty and the folder are set in one menu and *)
(* used, unchecked, in others, so each of the menus in between has to      *)
(* carry them.  The menu meant is the one to come (Target), not the one    *)
(* shown: a change of menus takes up to three steps.                       *)
(***************************************************************************)
EXTENDS Front, FiniteSetTheorems, WellFoundedInduction, TLAPS

-------------------------------------------------------------------------------
(* Sets of naturals.                                                       *)

\* A set of naturals with an element has a least one.
LEMMA LeastNatural ==
  ASSUME NEW T, T \subseteq Nat, T # {}
  PROVE  \E x \in T : \A y \in T : x <= y
<1> DEFINE R == OpToRel(<, Nat)
<1>1. \A x \in Nat, y \in Nat : x < y => <<x, y>> \in R
  BY DEF OpToRel
<1>2. IsWellFoundedOn(R, Nat)
  BY NatLessThanWellFounded
<1> HIDE DEF R
<1>3. PICK x \in T : \A y \in T : ~(<<y, x>> \in R)
  BY <1>2, WFMin
<1>4. \A y \in T : ~(y < x)
  BY <1>1, <1>3
<1>5. x \in Nat /\ \A y \in T : y \in Nat
  BY <1>3
<1>6. \A y \in T : x <= y
  BY <1>4, <1>5
<1> QED BY <1>3, <1>6

\* A bounded one has a greatest one.
LEMMA GreatestNatural ==
  ASSUME NEW b \in Nat, NEW T, T \subseteq 0 .. b, T # {}
  PROVE  \E x \in T : \A y \in T : y <= x
<1> DEFINE D == {b - y : y \in T}
<1>1. D \subseteq Nat /\ D # {}
  <2>1. \A y \in T : b - y \in Nat
    OBVIOUS
  <2> QED BY <2>1
<1>2. PICK d \in D : \A e \in D : d <= e
  BY <1>1, LeastNatural
<1>3. PICK x \in T : d = b - x
  BY <1>2
<1>4. ASSUME NEW y \in T PROVE y <= x
  <2>1. d <= b - y
    BY <1>2
  <2>2. x \in 0 .. b /\ y \in 0 .. b
    OBVIOUS
  <2> QED BY <1>3, <2>1, <2>2
<1> QED BY <1>4

-------------------------------------------------------------------------------
(* The best times.                                                         *)

\* What NoGaps says of one folder.
GapFree(s) ==
  \A p \in s :
    /\ \A e \in AGENT .. p[2] : <<p[1], e>> \in s
    /\ \A n \in DAM .. (p[1] - 1) : n < AZTEC => <<n, AGENT>> \in s

\* The difficulties on which a mission may be played.
Open(s, m, c) ==
  {d \in AGENT .. (IF Is007ModeUnlocked(s) THEN OO7 ELSE OO) :
     IF c THEN Completed(s, m, d) ELSE Unlocked(s, m, d)}

\* The highest unlocked difficulty is -1 or one of the four, and a difficulty is
\* not above it when one at least as hard is open.
LEMMA HighestIs ==
  ASSUME NEW s, NEW m, NEW c
  PROVE  /\ HighestUnlocked(s, m, c) \in -1 .. OO7
         /\ \A d \in Difficulty : d <= HighestUnlocked(s, m, c) <=> \E e \in Open(s, m, c) : d <= e
<1> DEFINE open == Open(s, m, c)
           high == HighestUnlocked(s, m, c)
<1>1. high = IF open = {} THEN -1 ELSE CHOOSE d \in open : \A e \in open : e <= d
  BY DEF HighestUnlocked, Open
<1>2. open \subseteq 0 .. 3
  BY DEF Open, AGENT, OO, OO7
<1> HIDE DEF open, high
<1>3. CASE open = {}
  <2>1. high = -1
    BY <1>1, <1>3
  <2> QED BY <1>3, <2>1 DEF open, high, OO7, Difficulty, AGENT
<1>4. CASE open # {}
  <2>1. \E d \in open : \A e \in open : e <= d
    BY <1>2, <1>4, GreatestNatural
  <2>2. high \in open /\ \A e \in open : e <= high
    BY <1>1, <1>4, <2>1
  <2>3. high \in 0 .. 3
    BY <1>2, <2>2
  <2>4. \A d \in 0 .. 3 : d <= high <=> \E e \in open : d <= e
    BY <1>2, <2>2, <2>3
  <2> QED BY <2>3, <2>4 DEF open, high, OO7, Difficulty, AGENT
<1> QED BY <1>3, <1>4

\* More best times complete no less.
LEMMA MoreCompleted ==
  ASSUME NEW s, NEW t, s \subseteq t, NEW m, NEW d, Completed(s, m, d)
  PROVE  Completed(t, m, d)
BY DEF Completed, Is007ModeUnlocked

\* More best times unlock no less.
LEMMA MoreUnlocked ==
  ASSUME NEW s, NEW t, s \subseteq t, NEW m, NEW d, Unlocked(s, m, d)
  PROVE  Unlocked(t, m, d)
<1>1. \A n, e : Completed(s, n, e) => Completed(t, n, e)
  BY MoreCompleted
<1>2. AllBefore(s, m, d) => AllBefore(t, m, d)
  BY <1>1 DEF AllBefore
<1>3. JustBefore(s, m, d) => JustBefore(t, m, d)
  BY <1>1 DEF JustBefore
<1>4. OneHarder(s, m, d) => OneHarder(t, m, d)
  BY <1>1 DEF OneHarder
<1> QED BY <1>1, <1>2, <1>3, <1>4 DEF Unlocked

\* More best times lower no highest difficulty.
LEMMA HighestGrows ==
  ASSUME NEW s, NEW t, s \subseteq t, NEW m, NEW c, NEW d \in Difficulty,
         d <= HighestUnlocked(s, m, c)
  PROVE  d <= HighestUnlocked(t, m, c)
<1>1. PICK e \in Open(s, m, c) : d <= e
  BY HighestIs
<1>2. e \in Open(t, m, c)
  <2>1. Is007ModeUnlocked(s) => Is007ModeUnlocked(t)
    BY DEF Is007ModeUnlocked
  <2>2. Completed(s, m, e) => Completed(t, m, e)
    BY MoreCompleted
  <2>3. Unlocked(s, m, e) => Unlocked(t, m, e)
    BY MoreUnlocked
  <2>4. e \in AGENT .. (IF Is007ModeUnlocked(t) THEN OO7 ELSE OO)
    BY <2>1 DEF Open, AGENT, OO, OO7
  <2> QED BY <2>2, <2>3, <2>4 DEF Open
<1> QED BY <1>1, <1>2, HighestIs

\* The first mission can always be played, when no cheats are on.
LEMMA FirstIsUnlocked ==
  ASSUME NEW s
  PROVE  AGENT <= HighestUnlocked(s, DAM, FALSE)
<1>1. ~BelowItsDifficulty(DAM, AGENT)
  BY ProgressAssumption DEF BelowItsDifficulty, DAM, AZTEC, EGYPT
<1>2. AGENT \in Open(s, DAM, FALSE)
  BY <1>1 DEF Open, Unlocked, AGENT, OO, OO7
<1>3. AGENT \in Difficulty /\ AGENT <= AGENT
  BY DEF AGENT, Difficulty, OO7
<1> QED BY <1>2, <1>3, HighestIs

\* A mission completed on some difficulty is completed on the lowest.
LEMMA CompletedOnAgent ==
  ASSUME NEW s \in Save, GapFree(s), NEW n \in Mission, NEW e \in Difficulty, Completed(s, n, e)
  PROVE  <<n, AGENT>> \in s
<1>1. PICK d \in Timed : <<n, d>> \in s
  BY DEF Completed, Is007ModeUnlocked, Difficulty, Timed, AGENT, OO, OO7
<1>2. <<n, d>>[1] = n /\ <<n, d>>[2] = d /\ AGENT \in AGENT .. d
  BY DEF Timed, AGENT, OO
<1> QED BY <1>1, <1>2 DEF GapFree

\* One more mission, ahead of which no main one is missing, leaves no gap.
LEMMA CompletingKeepsGapFree ==
  ASSUME NEW s \in Save, GapFree(s), NEW m \in Mission, NEW d \in Timed,
         \A n \in DAM .. (m - 1) : n < AZTEC => <<n, AGENT>> \in s
  PROVE  WithCompleted(s, m, d) \in Save /\ GapFree(WithCompleted(s, m, d))
<1> DEFINE t == WithCompleted(s, m, d)
<1>1. t = s \cup {<<m, e>> : e \in AGENT .. d}
  BY DEF WithCompleted
<1>2. \A e \in AGENT .. d : e \in Timed /\ AGENT .. e \subseteq AGENT .. d
  BY DEF Timed, AGENT, OO
<1>3. t \in Save
  BY <1>1, <1>2 DEF Save
<1>4. ASSUME NEW p \in t
      PROVE  /\ \A e \in AGENT .. p[2] : <<p[1], e>> \in t
             /\ \A n \in DAM .. (p[1] - 1) : n < AZTEC => <<n, AGENT>> \in t
  <2>1. CASE p \in s
    BY <1>1, <2>1 DEF GapFree
  <2>2. CASE p \notin s
    <3>1. PICK e \in AGENT .. d : p = <<m, e>>
      BY <1>1, <2>2
    <3> QED BY <1>1, <1>2, <3>1
  <2> QED BY <2>1, <2>2
<1> QED BY <1>3, <1>4 DEF GapFree

\* What may be played may be completed: no main mission is missing ahead of one
\* that is unlocked on some difficulty, in whichever of the ways.
LEMMA UnlockedHasNoGap ==
  ASSUME NEW s \in Save, GapFree(s), NEW m \in Mission, NEW d \in Difficulty, Unlocked(s, m, d),
         NEW n \in DAM .. (m - 1), n < AZTEC
  PROVE  <<n, AGENT>> \in s
<1>1. n \in Mission /\ m \in Nat /\ NumMain \in Nat
  BY ProgressAssumption DEF Mission, EGYPT, DAM
<1>2. CASE Completed(s, m, d)
  <2>1. <<m, AGENT>> \in s
    BY <1>2, CompletedOnAgent
  <2> QED BY <2>1 DEF GapFree
<1>3. CASE AllBefore(s, m, d)
  <2>1. PICK e \in d .. OO7 : Completed(s, n, e)
    BY <1>3 DEF AllBefore
  <2>2. e \in Difficulty
    BY DEF Difficulty, AGENT, OO7
  <2> QED BY <1>1, <2>1, <2>2, CompletedOnAgent
<1>4. CASE JustBefore(s, m, d)
  <2>1. PICK e \in d .. OO7 : Completed(s, m - 1, e)
    BY <1>4 DEF JustBefore
  <2>2. e \in Difficulty /\ m - 1 \in Mission
    BY <1>1 DEF Difficulty, AGENT, OO7, Mission, DAM, EGYPT
  <2>3. <<m - 1, AGENT>> \in s
    BY <2>1, <2>2, CompletedOnAgent
  <2>4. n = m - 1 \/ n \in DAM .. ((m - 1) - 1)
    BY <1>1 DEF DAM
  <2> QED BY <2>3, <2>4 DEF GapFree
<1>5. CASE OneHarder(s, m, d)
  <2>1. n \in DAM .. CRADLE /\ AGENT \in Difficulty
    BY <1>1 DEF DAM, CRADLE, AZTEC, Difficulty, AGENT, OO7
  <2> QED BY <1>1, <1>5, <2>1, CompletedOnAgent DEF OneHarder
<1>6. CASE m = DAM
  BY <1>6 DEF DAM
<1> QED BY <1>2, <1>3, <1>4, <1>5, <1>6 DEF Unlocked

\* So the end of a mission on a difficulty that is not above the highest unlocked
\* one leaves no gap.
LEMMA EndOfMissionKeepsGapFree ==
  ASSUME NEW s \in Save, GapFree(s), NEW m \in Mission, NEW d \in Timed,
         d <= HighestUnlocked(s, m, FALSE)
  PROVE  WithCompleted(s, m, d) \in Save /\ GapFree(WithCompleted(s, m, d))
<1>1. d \in Difficulty
  BY DEF Timed, Difficulty, AGENT, OO, OO7
<1>2. PICK e \in Open(s, m, FALSE) : d <= e
  BY <1>1, HighestIs
<1>3. e \in Difficulty /\ Unlocked(s, m, e)
  BY DEF Open, Difficulty, AGENT, OO, OO7
<1>4. \A n \in DAM .. (m - 1) : n < AZTEC => <<n, AGENT>> \in s
  BY <1>3, UnlockedHasNoGap
<1> QED BY <1>4, CompletingKeepsGapFree

\* A code applies to a mission only when none before the one it completes is missing.
LEMMA CodeKeepsGapFree ==
  ASSUME NEW s \in Save, GapFree(s), NEW k \in Mission, CodeApplies(s, k)
  PROVE  WithCompleted(s, k - 1, AGENT) \in Save /\ GapFree(WithCompleted(s, k - 1, AGENT))
<1> DEFINE A == {n \in DAM .. (k - 1) : Completed(s, n, AGENT)}
<1>1. k \in Nat /\ NumMain \in Nat /\ k <= NumMain + 1
  BY ProgressAssumption DEF Mission, DAM, EGYPT
<1>2. Cardinality(A) = k - 1
  BY DEF CodeApplies
<1>3. A = {n \in DAM .. (k - 1) : <<n, AGENT>> \in s}
  BY DEF Completed, AGENT, OO7
<1>4. k # 0
  <2>1. SUFFICES ASSUME k = 0 PROVE FALSE
    OBVIOUS
  <2>2. A = {}
    BY <2>1 DEF DAM
  <2> QED BY <1>2, <2>1, <2>2, FS_EmptySet
<1>5. k - 1 \in Mission /\ AGENT \in Timed
  BY <1>1, <1>4 DEF Mission, DAM, EGYPT, Timed, AGENT, OO
<1>6. \A n \in DAM .. ((k - 1) - 1) : n < AZTEC => <<n, AGENT>> \in s
  <2>1. CASE k - 1 \in A
    <3>1. <<k - 1, AGENT>> \in s
      BY <1>3, <2>1
    <3> QED BY <3>1 DEF GapFree
  <2>2. CASE k - 1 \notin A
    <3> DEFINE B == DAM .. ((k - 1) - 1)
    <3>1. IsFiniteSet(B) /\ Cardinality(B) = k - 1
      <4>1. DAM \in Int /\ (k - 1) - 1 \in Int
        BY <1>1 DEF DAM
      <4>2. Cardinality(B) = IF DAM > (k - 1) - 1 THEN 0 ELSE ((k - 1) - 1) - DAM + 1
        BY <4>1, FS_Interval
      <4>3. (IF DAM > (k - 1) - 1 THEN 0 ELSE ((k - 1) - 1) - DAM + 1) = k - 1
        BY <1>1, <1>4 DEF DAM
      <4> QED BY <4>1, <4>2, <4>3, FS_Interval
    <3>2. A \subseteq B
      BY <1>1, <2>2 DEF DAM
    <3>3. A = B
      BY <1>2, <3>1, <3>2, FS_Subset
    <3> QED BY <1>3, <3>3
  <2> QED BY <2>1, <2>2
<1> QED BY <1>5, <1>6, CompletingKeepsGapFree

\* The mission under the cursor is one of the missions, though nothing stops the
\* search for it at the end of a row, and it may be played when no cheats are on.
LEMMA HighlightedIs ==
  ASSUME NEW s, NEW c \in BOOLEAN, NEW row \in 0 .. (Rows - 1), NEW column \in 0 .. (RowLength - 1)
  PROVE  /\ Highlighted(s, c, row, column) \in Mission
         /\ ~c => AGENT <= HighestUnlocked(s, Highlighted(s, c, row, column), FALSE)
<1>1. /\ RowLength \in Nat \ {0} /\ NumMain \in Nat \ {0} /\ Rows \in Nat
      /\ Rows * RowLength = NumMain + 2 /\ RowLength < NumMain + 2
  BY ProgressAssumption DEF Rows
<1> DEFINE r == CursorRow(s, c, row)
           rows == {0} \cup {i \in 1 .. row : Playable(s, c, i) # {}}
           playable == Playable(s, c, r)
           left == {i \in playable : i <= column}
           col == IF left # {} THEN CHOOSE i \in left : \A j \in left : j <= i
                  ELSE IF playable # {} THEN CHOOSE i \in playable : \A j \in playable : i <= j
                  ELSE RowLength
<1>2. r \in rows
  <2>1. rows \subseteq 0 .. row /\ rows # {} /\ row \in Nat
    BY <1>1
  <2>2. \E i \in rows : \A j \in rows : j <= i
    BY <2>1, GreatestNatural
  <2> QED BY <2>2 DEF CursorRow
<1>3. r \in 0 .. (Rows - 1)
  BY <1>1, <1>2
<1>4. playable \subseteq 0 .. (RowLength - 1)
  BY DEF Playable
<1>5. Highlighted(s, c, row, column) = r * RowLength + col
  BY DEF Highlighted
<1>6. playable # {} => col \in playable
  <2>1. CASE left # {}
    <3>1. \E i \in left : \A j \in left : j <= i
      <4>1. left \subseteq 0 .. (RowLength - 1) /\ RowLength - 1 \in Nat
        BY <1>1, <1>4
      <4> QED BY <2>1, <4>1, GreatestNatural
    <3>2. col = CHOOSE i \in left : \A j \in left : j <= i
      BY <2>1
    <3> QED BY <3>1, <3>2
  <2>2. CASE left = {} /\ playable # {}
    <3>1. \E i \in playable : \A j \in playable : i <= j
      <4>1. playable \subseteq Nat
        BY <1>4
      <4> QED BY <2>2, <4>1, LeastNatural
    <3>2. col = CHOOSE i \in playable : \A j \in playable : i <= j
      BY <2>2
    <3> QED BY <3>1, <3>2
  <2> QED BY <2>1, <2>2
<1>7. playable = {} => r = 0 /\ col = RowLength
  BY <1>2
<1>8. col \in Playable(s, c, r) => 0 <= HighestUnlocked(s, r * RowLength + col, c)
  BY DEF Playable
<1> HIDE DEF r, rows, playable, left, col
<1>9. CASE playable # {}
  <2>1. r * RowLength + col \in 0 .. (NumMain + 1)
    <3>1. col \in 0 .. (RowLength - 1)
      BY <1>4, <1>6, <1>9
    <3>2. r * RowLength <= (Rows - 1) * RowLength /\ r * RowLength \in Nat
      BY <1>1, <1>3
    <3>3. (Rows - 1) * RowLength = NumMain + 2 - RowLength
      BY <1>1
    <3> QED BY <1>1, <3>1, <3>2, <3>3
  <2>2. r * RowLength + col \in Mission
    BY <2>1 DEF Mission, DAM, EGYPT
  <2>3. 0 <= HighestUnlocked(s, r * RowLength + col, c)
    BY <1>6, <1>8, <1>9 DEF playable
  <2> QED BY <1>5, <2>2, <2>3 DEF AGENT
<1>10. CASE playable = {}
  <2>1. r * RowLength + col = RowLength
    BY <1>1, <1>7, <1>10
  <2>2. RowLength \in Mission
    BY <1>1 DEF Mission, DAM, EGYPT
  <2>3. c
    <3>1. SUFFICES ASSUME ~c PROVE 0 \in playable
      BY <1>10
    <3>2. 0 * RowLength + 0 = DAM /\ 0 \in 0 .. (RowLength - 1)
      BY <1>1 DEF DAM
    <3>3. HighestUnlocked(s, DAM, c) >= 0
      BY <3>1, FirstIsUnlocked, HighestIs DEF AGENT, OO7
    <3>4. 0 \in Playable(s, c, 0)
      BY <3>2, <3>3 DEF Playable
    <3> QED BY <1>7, <1>10, <3>4 DEF playable
  <2> QED BY <1>5, <2>1, <2>2, <2>3
<1> QED BY <1>9, <1>10
-------------------------------------------------------------------------------
(* The types.                                                              *)

\* The highlighted mission is one that the page and the stage can be.
LEMMA MissionSelectType == ASSUME TypeOK, MissionSelect PROVE TypeOK'
<1>1. UNCHANGED <<gamemode, selected_folder_num, selected_difficulty, cheats, intro, boss,
                  outcome, times, current_menu, menu_update>>
  BY DEF MissionSelect, Go
<1>2. maybe_prev_menu' \in Menu
  BY DEF MissionSelect, Go, Menu
<1>3. selected_stage' \in Stages /\ briefingpage' \in Mission \cup {NoPage}
  <2>1. CASE UNCHANGED <<selected_stage, briefingpage>>
    BY <2>1 DEF TypeOK
  <2>2. ASSUME NEW row \in 0 .. (Rows - 1), NEW column \in 0 .. (RowLength - 1),
               briefingpage' = Highlighted(selected, g_AppendCheatSinglePlayer, row, column),
               selected_stage' = briefingpage'
        PROVE  selected_stage' \in Stages /\ briefingpage' \in Mission \cup {NoPage}
    <3>1. g_AppendCheatSinglePlayer \in BOOLEAN
      BY DEF TypeOK
    <3>2. Highlighted(selected, g_AppendCheatSinglePlayer, row, column) \in Mission
      BY <3>1, HighlightedIs
    <3> QED BY <2>2, <3>2 DEF Stages
  <2> QED BY <2>1, <2>2 DEF MissionSelect
<1> QED BY <1>1, <1>2, <1>3 DEF TypeOK, cheats, intro, boss, outcome

\* A code completes a mission there is.
LEMMA CheatCodeType == ASSUME TypeOK, CheatCode PROVE TypeOK'
<1>1. UNCHANGED <<menus, chosen, cheats, intro, boss, outcome>>
  BY DEF CheatCode
<1>2. PICK k \in Mission :
        /\ CodeApplies(times[selected_folder_num], k)
        /\ times' = [times EXCEPT ![selected_folder_num] = WithCompleted(@, k - 1, AGENT)]
  BY DEF CheatCode
<1>3. times \in [Folder -> Save] /\ selected_folder_num \in Folder
  BY DEF TypeOK, CheatCode
<1>4. k - 1 \in Mission
  <2>1. k \in Nat /\ k <= NumMain + 1 /\ NumMain \in Nat
    BY ProgressAssumption DEF Mission, DAM, EGYPT
  <2>2. k # 0
    <3>1. SUFFICES ASSUME k = 0 PROVE FALSE
      OBVIOUS
    <3>2. {n \in DAM .. (k - 1) : Completed(times[selected_folder_num], n, AGENT)} = {}
      BY <3>1 DEF DAM
    <3> QED BY <1>2, <3>1, <3>2, FS_EmptySet DEF CodeApplies
  <2> QED BY <2>1, <2>2 DEF Mission, DAM, EGYPT
<1>5. WithCompleted(times[selected_folder_num], k - 1, AGENT) \in Save
  <2>1. \A e \in AGENT .. AGENT : e \in Timed
    BY DEF Timed, AGENT, OO
  <2> QED BY <1>3, <1>4, <2>1 DEF WithCompleted, Save
<1>6. times' \in [Folder -> Save]
  BY <1>2, <1>3, <1>5
<1> QED BY <1>1, <1>6 DEF TypeOK, menus, chosen, cheats, intro, boss, outcome

\* The end of a stage completes a mission or none.
LEMMA EndLevelType == ASSUME TypeOK, EndLevel PROVE TypeOK'
<1>1. UNCHANGED <<menus, chosen, cheats, intro, outcome>> /\ UNCHANGED g_StageNum
      /\ UNCHANGED <<g_ramromPlayBackFlag, is_ramrom_flag>>
  BY DEF EndLevel, RunTitle
<1>2. g_MainStageNum' \in Stages
  BY DEF EndLevel, RunTitle, Stages
<1>3. times' \in [Folder -> Save]
  <2>1. CASE ~WritesProgress
    BY <2>1 DEF EndLevel, TypeOK
  <2>2. CASE WritesProgress
    <3>1. /\ selected_folder_num \in Folder /\ times \in [Folder -> Save]
          /\ briefingpage \in Mission
          /\ \A e \in AGENT .. selected_difficulty : e \in Timed
      BY <2>2 DEF WritesProgress, TypeOK, Timed, Difficulty, AGENT, OO, OO7, NoDifficulty
    <3>2. WithCompleted(times[selected_folder_num], briefingpage, selected_difficulty) \in Save
      BY <3>1 DEF WithCompleted, Save
    <3> QED BY <2>2, <3>1, <3>2 DEF EndLevel
  <2> QED BY <2>1, <2>2
<1> QED BY <1>1, <1>2, <1>3 DEF TypeOK, menus, chosen, cheats, intro, outcome

\* A folder that is deleted or copied holds a save.
LEMMA ChangeFolderType == ASSUME TypeOK, ChangeFolder PROVE TypeOK'
<1>1. UNCHANGED <<menus, chosen, cheats, intro, boss, outcome>>
  BY DEF ChangeFolder
<1>2. times \in [Folder -> Save] /\ {} \in Save
  BY DEF TypeOK, Save
<1>3. times' \in [Folder -> Save]
  BY <1>2 DEF ChangeFolder
<1> QED BY <1>1, <1>3 DEF TypeOK, menus, chosen, cheats, intro, boss, outcome


\* The folders' menu puts a folder away.
LEMMA EnterFileSelectType == ASSUME TypeOK, EnterFileSelect PROVE TypeOK'
BY DEF EnterFileSelect, Enter, TypeOK, Menu, NoFolder, boss, outcome

\* The cast chooses a demo.
LEMMA CastType == ASSUME TypeOK, Cast PROVE TypeOK'
<1>1. UNCHANGED <<cheats, g_StageNum, g_MainStageNum, is_ramrom_flag, outcome, times,
                  selected_folder_num, current_menu, maybe_prev_menu, prev_keypresses, first_time>>
  BY DEF Cast, Reload, chosen, intro
<1>2. menu_update' \in Menu
  BY DEF Cast, Reload, Menu
<1>3. {full_actor_intro, g_ramromPlayBackFlag}' \subseteq BOOLEAN
  BY DEF Cast, TypeOK, intro
<1>4. selected_stage' \in Stages /\ briefingpage' \in Mission \cup {NoPage}
  <2>1. CASE UNCHANGED chosen
    BY <2>1 DEF TypeOK, chosen
  <2>2. ASSUME NEW m \in DemoMission, selected_stage' = m, briefingpage' = DemoPage[m]
        PROVE  selected_stage' \in Stages /\ briefingpage' \in Mission \cup {NoPage}
    BY <2>2, FrontAssumption DEF Stages
  <2> QED BY <2>1, <2>2 DEF Cast
<1>5. gamemode' \in {"INTRO", "SOLO", "MULTI", "CHEATS"}
      /\ selected_difficulty' \in Difficulty \cup {NoDifficulty}
  BY DEF Cast, TypeOK, chosen, Timed, Difficulty, AGENT, OO, OO7
<1> QED BY <1>1, <1>2, <1>3, <1>4, <1>5 DEF TypeOK, cheats, outcome

\* The difficulty menu chooses a difficulty.
LEMMA DifficultyMenuType == ASSUME TypeOK, DifficultyMenu PROVE TypeOK'
<1>1. UNCHANGED <<gamemode, selected_folder_num, selected_stage, briefingpage,
                  cheats, intro, boss, outcome, times, current_menu, menu_update>>
  BY DEF DifficultyMenu, Go
<1>2. maybe_prev_menu' \in Menu
  BY DEF DifficultyMenu, Go, Menu
<1>3. selected_difficulty' \in Difficulty \cup {NoDifficulty}
  BY DEF DifficultyMenu, Offered, Difficulty, AGENT, OO7, TypeOK
<1> QED BY <1>1, <1>2, <1>3 DEF TypeOK, cheats, intro, boss, outcome

\* The mission after one of the main ones is a mission.
LEMMA MissionCompleteType == ASSUME TypeOK, MissionComplete PROVE TypeOK'
<1>1. UNCHANGED <<gamemode, selected_folder_num, selected_difficulty,
                  cheats, intro, boss, outcome, times, current_menu>>
  BY DEF MissionComplete, Proceed, ToMissions, Go, Reload
<1>2. maybe_prev_menu' \in Menu \cup {INVALID} /\ menu_update' \in Menu \cup {INVALID}
  BY DEF MissionComplete, Proceed, ToMissions, Go, Reload, Menu, TypeOK
<1>3. selected_stage' \in Stages /\ briefingpage' \in Mission \cup {NoPage}
  BY ProgressAssumption
  DEF MissionComplete, Proceed, ToMissions, NextMission, Stages, TypeOK, Mission, DAM, EGYPT, AZTEC,
      CRADLE, NoPage
<1> QED BY <1>1, <1>2, <1>3 DEF TypeOK, cheats, intro, boss, outcome

\* A stage that is loaded is one of the stages.
LEMMA LoadStageType == ASSUME TypeOK, LoadStage PROVE TypeOK'
<1>1. UNCHANGED <<menus, gamemode, selected_stage, briefingpage, selected_difficulty, cheats,
                  intro, times>>
  BY DEF LoadStage
<1>2. selected_folder_num' \in Folder \cup {NoFolder, RamromFolder}
  BY DEF LoadStage, TypeOK
<1>3. g_StageNum' \in Stages /\ g_MainStageNum' \in Stages
  BY DEF LoadStage, TypeOK, Stages
<1>4. {g_ramromPlayBackFlag, is_ramrom_flag, mission_failed_or_aborted, g_isBondKIA}'
        \subseteq BOOLEAN
  BY DEF LoadStage, TypeOK
<1>5. objectives' \in BOOLEAN
  <2>1. objectives' = (g_MainStageNum \in {CUBA, MATCH})
    BY DEF LoadStage
  <2> QED BY <2>1
<1> QED BY <1>1, <1>2, <1>3, <1>4, <1>5 DEF TypeOK, menus, cheats, intro

\* The end of a demo asks for the title.
LEMMA EndOfDemoType == ASSUME TypeOK, EndOfDemo PROVE TypeOK'
<1>1. UNCHANGED <<menus, chosen, cheats, g_StageNum, g_ramromPlayBackFlag, is_ramrom_flag,
                  first_time, full_actor_intro, outcome, times>>
  BY DEF EndOfDemo, RunTitle
<1>2. g_MainStageNum' \in Stages
  BY DEF EndOfDemo, RunTitle, Stages
<1>3. prev_keypresses' \in BOOLEAN
  BY Zenon DEF EndOfDemo, TypeOK
<1> QED BY <1>1, <1>2, <1>3 DEF TypeOK, menus, chosen, cheats, outcome

\* Every step keeps the types.
LEMMA TypeStep == ASSUME TypeOK, [Next]_vars PROVE TypeOK'
<1> USE DEF TypeOK
<1>1. CASE LeaveForReload
  BY <1>1 DEF LeaveForReload, Leaving, Menu, SWITCH, chosen, boss, outcome
<1>2. CASE SwitchScreens
  BY <1>2 DEF SwitchScreens, Menu, INVALID, chosen, cheats, intro, boss, outcome
<1>3. CASE EnterFileSelect
  BY <1>3, EnterFileSelectType
<1>4. CASE \E m \in Menu : EnterMenu(m)
  BY <1>4 DEF EnterMenu, Enter, Leaving, InitMissionSelect, INVALID, Stages, NoPage, NoDifficulty,
              boss, outcome
<1>5. CASE EnterRunStage
  BY <1>5 DEF EnterRunStage, AfterStage, Menu, Intro, Reports, INVALID, chosen, cheats, outcome
<1>6. CASE IntroPasses
  BY <1>6 DEF IntroPasses, Reload, AfterIntro, Menu, Intro, chosen, cheats, boss, outcome
<1>7. CASE IntroKey
  BY <1>7 DEF IntroKey, Reload, AfterIntro, Menu, Intro, chosen, cheats, boss, outcome
<1>8. CASE Cast
  BY <1>8, CastType
<1>9. CASE ChooseFolder
  BY <1>9 DEF ChooseFolder, Go, Reload, Menu, Intro, cheats, intro, boss, outcome
<1>10. CASE ChangeFolder
  BY <1>10, ChangeFolderType
<1>11. CASE ModeSelect
  BY <1>11 DEF ModeSelect, Go, Menu, cheats, intro, boss, outcome
<1>12. CASE CheatMenu
  BY <1>12 DEF CheatMenu, Go, Menu, menus, chosen, intro, boss, outcome
<1>13. CASE CheatCode
  BY <1>13, CheatCodeType
<1>14. CASE MpOptions
  BY <1>14 DEF MpOptions, Go, Reload, Menu, MatchPage, Stages, chosen, cheats, intro, boss, outcome
<1>15. CASE MissionSelect
  BY <1>15, MissionSelectType
<1>16. CASE DifficultyMenu
  BY <1>16, DifficultyMenuType
<1>17. CASE Options007
  BY <1>17 DEF Options007, Go, Reload, Menu, chosen, cheats, intro, boss, outcome
<1>18. CASE Briefing
  BY <1>18 DEF Briefing, Go, Reload, Menu, chosen, cheats, intro, boss, outcome
<1>19. CASE MissionFailed
  BY <1>19 DEF MissionFailed, Go, Menu, Reports, chosen, cheats, intro, boss, outcome
<1>20. CASE MissionComplete
  BY <1>20, MissionCompleteType
<1>21. CASE LoadTitle
  BY <1>21 DEF LoadTitle, Menu, Stages, chosen, cheats, intro, outcome
<1>22. CASE LoadStage
  BY <1>22, LoadStageType
<1>23. CASE ObjectivesChange
  BY <1>23 DEF ObjectivesChange, menus, chosen, cheats, intro, boss
<1>24. CASE Killed
  BY <1>24 DEF Killed, menus, chosen, cheats, intro, boss
<1>25. CASE EndLevel
  BY <1>25, EndLevelType
<1>26. CASE EndOfDeath
  BY <1>26 DEF EndOfDeath, RunTitle, Stages, menus, chosen, cheats, intro, outcome
<1>27. CASE EndOfDemo
  BY <1>27, EndOfDemoType
<1>28. CASE Abort
  BY <1>28 DEF Abort, RunTitle, Stages, menus, chosen, cheats, intro
<1>29. CASE UNCHANGED vars
  BY <1>29 DEF vars, menus, chosen, cheats, intro, boss, outcome
<1> QED BY <1>1, <1>2, <1>3, <1>4, <1>5, <1>6, <1>7, <1>8, <1>9, <1>10, <1>11, <1>12, <1>13,
           <1>14, <1>15, <1>16, <1>17, <1>18, <1>19, <1>20, <1>21, <1>22, <1>23, <1>24, <1>25,
           <1>26, <1>27, <1>28, <1>29 DEF Next

\* The first state has them.
LEMMA InitType == Init => TypeOK
BY DEF Init, TypeOK, Menu, Intro, INVALID, Stages, NoPage, NoDifficulty, Save

\* Every variable keeps its type.
THEOREM TypeCorrect == Spec => []TypeOK
<1>1. Init => TypeOK
  BY InitType
<1>2. TypeOK /\ [Next]_vars => TypeOK'
  BY TypeStep
<1> QED BY <1>1, <1>2, PTL DEF Spec

-------------------------------------------------------------------------------
(* The invariant.                                                          *)

\* The menu that is shown, or the one that was asked for and will be.
Target ==
  IF maybe_prev_menu # INVALID THEN maybe_prev_menu
  ELSE IF menu_update # INVALID THEN menu_update ELSE current_menu

PageMenus == {"DIFFICULTY", "007_OPTIONS", "BRIEFING"} \cup Reports
ReadyMenus == {"007_OPTIONS", "BRIEFING"} \cup Reports
FolderMenus == {"MODE_SELECT", "CHEAT", "MP_OPTIONS"}

\* A solo game in a folder; the page and the stage of a mission; a difficulty that
\* is unlocked for it.
SoloSetup == gamemode = "SOLO" /\ selected_folder_num \in Folder
PageSet == briefingpage \in Mission /\ selected_stage = briefingpage
DifficultySet ==
  /\ selected_difficulty \in Difficulty
  /\ ~g_AppendCheatSinglePlayer => selected_difficulty <= Highest(briefingpage)

\* What can be run: a mission, the ending, a match.
SoloRun == SoloSetup /\ PageSet /\ DifficultySet
CubaRun == SoloSetup /\ selected_stage = CUBA
MatchRun ==
  /\ gamemode = "MULTI" /\ selected_folder_num \in Folder
  /\ selected_stage = MATCH /\ briefingpage = NoPage

Saved ==
  Success /\ ~g_AppendCheatSinglePlayer /\ selected_difficulty # OO7
  => <<briefingpage, selected_difficulty>> \in selected

\* In the title, what is chosen fits the menu that comes next.
InMenus ==
  /\ ~is_ramrom_flag
  /\ maybe_prev_menu # INVALID => menu_update = INVALID
  /\ current_menu = "CHEAT" => Target \in {"CHEAT", "MODE_SELECT"} /\ menu_update = INVALID
  /\ g_ramromPlayBackFlag => Target = "RUN_STAGE"
  /\ Target = "RUN_STAGE" =>
       IF g_ramromPlayBackFlag THEN selected_stage \in Mission
                               ELSE SoloRun \/ CubaRun \/ MatchRun
  /\ Target \in FolderMenus => selected_folder_num \in Folder
  /\ Target = "MP_OPTIONS" => gamemode = "MULTI"
  /\ Target = "MISSION_SELECT" => SoloSetup
  /\ Target \in PageMenus => SoloSetup /\ PageSet
  /\ Target = "DIFFICULTY" /\ ~g_AppendCheatSinglePlayer => Highest(briefingpage) >= AGENT
  /\ Target \in ReadyMenus => DifficultySet
  /\ Target \in Reports => Saved
  /\ Target = "DISPLAY_CAST" /\ full_actor_intro => SoloSetup

\* Out of the title, the menu to come fits the stage that runs.
Pending == g_StageNum = TITLE /\ g_MainStageNum # NONE
InStage ==
  /\ current_menu = "RUN_STAGE" /\ maybe_prev_menu = INVALID
  /\ selected_stage \notin {NONE, TITLE}
  /\ IF Pending THEN g_MainStageNum = selected_stage
                ELSE g_StageNum = selected_stage /\ g_MainStageNum \in {NONE, TITLE}
  /\ \/ /\ menu_update = "LEGAL_SCREEN"
        /\ IF Pending THEN g_ramromPlayBackFlag /\ ~is_ramrom_flag
           ELSE ~g_ramromPlayBackFlag /\ is_ramrom_flag /\ selected_folder_num = RamromFolder
     \/ /\ ~g_ramromPlayBackFlag /\ ~is_ramrom_flag
        /\ \/ menu_update = "MP_OPTIONS" /\ MatchRun
           \/ menu_update = "DISPLAY_CAST" /\ CubaRun
           \/ /\ menu_update = "MISSION_FAILED" /\ SoloRun
              /\ g_MainStageNum = TITLE => Saved

FInv ==
  /\ TypeOK /\ NoGaps
  /\ IF InTitle THEN InMenus ELSE InStage
-------------------------------------------------------------------------------
(* The gaps.                                                               *)

\* NoGaps, folder by folder.
LEMMA NoGapsIs == NoGaps <=> \A f \in Folder : GapFree(times[f])
BY DEF NoGaps, GapFree

\* Only a mission that ends, a code and the folders' menu change the times.
LEMMA TimesKept ==
  ASSUME [Next]_vars, ~ChangeFolder, ~CheatCode, ~EndLevel
  PROVE  times' = times
BY DEF Next, vars, menus, chosen, cheats, intro, boss, outcome, LeaveForReload, SwitchScreens,
       EnterFileSelect, EnterMenu, EnterRunStage, IntroPasses, IntroKey, Cast, ChooseFolder,
       ModeSelect, CheatMenu, MpOptions, MissionSelect, DifficultyMenu, Options007, Briefing,
       MissionFailed, MissionComplete, LoadTitle, LoadStage, ObjectivesChange, Killed,
       EndOfDeath, EndOfDemo, Abort

\* A stage that ends writes only when it was a mission of a folder, on one of the
\* three difficulties with times and with no cheats: the difficulty that was
\* unlocked when it was chosen still is.
LEMMA WriterIs ==
  ASSUME TypeOK, InStage, Playing, WritesProgress
  PROVE  /\ SoloRun /\ ~is_ramrom_flag /\ ~g_AppendCheatSinglePlayer
         /\ g_StageNum = briefingpage
         /\ selected_difficulty \in Timed
         /\ selected_difficulty <= HighestUnlocked(selected, briefingpage, FALSE)
<1>1. g_StageNum = selected_stage /\ selected_folder_num # RamromFolder
  BY FrontAssumption DEF InStage, Pending, Playing, WritesProgress, RamromFolder
<1>2. SoloRun /\ ~is_ramrom_flag
  BY <1>1 DEF InStage, Pending, Playing, WritesProgress, CubaRun, MatchRun, NONE
<1>3. g_AppendCheatSinglePlayer = FALSE
  BY DEF WritesProgress, TypeOK
<1>4. selected_difficulty \in Timed
  BY <1>2 DEF WritesProgress, SoloRun, DifficultySet, Difficulty, Timed, AGENT, OO, OO7
<1>5. selected_difficulty <= HighestUnlocked(selected, briefingpage, FALSE)
  BY <1>2, <1>3 DEF SoloRun, DifficultySet, Highest
<1> QED BY <1>1, <1>2, <1>3, <1>4, <1>5 DEF SoloRun, PageSet

\* A code opens no gap.
LEMMA CheatCodeGaps == ASSUME TypeOK, NoGaps, CheatCode PROVE NoGaps'
<1>1. PICK k \in Mission :
        /\ CodeApplies(times[selected_folder_num], k)
        /\ times' = [times EXCEPT ![selected_folder_num] = WithCompleted(@, k - 1, AGENT)]
  BY DEF CheatCode
<1>2. times \in [Folder -> Save] /\ selected_folder_num \in Folder
  BY DEF TypeOK, CheatCode
<1>3. GapFree(WithCompleted(times[selected_folder_num], k - 1, AGENT))
  BY <1>1, <1>2, NoGapsIs, CodeKeepsGapFree
<1>4. \A f \in Folder : GapFree(times'[f])
  BY <1>1, <1>2, <1>3, NoGapsIs
<1> QED BY <1>4 DEF NoGaps, GapFree

\* Nor does a folder that is deleted or copied.
LEMMA ChangeFolderGaps == ASSUME TypeOK, NoGaps, ChangeFolder PROVE NoGaps'
<1>1. times \in [Folder -> Save]
  BY DEF TypeOK
<1>2. \A f \in Folder : times'[f] = {} \/ \E g \in Folder : times'[f] = times[g]
  BY <1>1 DEF ChangeFolder
<1>3. GapFree({})
  BY DEF GapFree
<1>4. \A f \in Folder : GapFree(times'[f])
  BY <1>2, <1>3, NoGapsIs
<1> QED BY <1>4 DEF NoGaps, GapFree

\* Nor does the end of a stage.
LEMMA EndLevelGaps == ASSUME TypeOK, NoGaps, InStage, EndLevel PROVE NoGaps'
<1>1. CASE ~WritesProgress
  BY <1>1 DEF EndLevel, NoGaps
<1>2. CASE WritesProgress
  <2>1. times \in [Folder -> Save] /\ selected_folder_num \in Folder /\ Playing
    BY <1>2 DEF TypeOK, WritesProgress, EndLevel
  <2>2. /\ briefingpage \in Mission /\ selected_difficulty \in Timed
        /\ selected_difficulty <= HighestUnlocked(times[selected_folder_num], briefingpage, FALSE)
    BY <1>2, <2>1, WriterIs DEF SoloRun, PageSet, selected
  <2>3. GapFree(WithCompleted(times[selected_folder_num], briefingpage, selected_difficulty))
    BY <2>1, <2>2, NoGapsIs, EndOfMissionKeepsGapFree
  <2>4. times' = [times EXCEPT ![selected_folder_num] =
                    WithCompleted(@, briefingpage, selected_difficulty)]
    BY <1>2 DEF EndLevel
  <2>5. \A f \in Folder : GapFree(times'[f])
    BY <2>1, <2>3, <2>4, NoGapsIs
  <2> QED BY <2>5 DEF NoGaps, GapFree
<1> QED BY <1>1, <1>2

-------------------------------------------------------------------------------
(* The menus.                                                              *)

\* Missions are naturals: no mission is one of the other stages, or no page.
LEMMA MissionNumbers == Mission \subseteq Nat
BY ProgressAssumption DEF Mission, DAM, EGYPT

\* A stage that was completed unlocks the next one on its difficulty.
LEMMA NextIsUnlocked ==
  ASSUME NEW s, NEW m \in Mission, m < CRADLE, NEW d \in Difficulty, Completed(s, m, d)
  PROVE  m + 1 \in Mission /\ d <= HighestUnlocked(s, m + 1, FALSE)
<1>1. m \in Nat /\ NumMain \in Nat /\ m + 1 <= NumMain - 1
  BY ProgressAssumption DEF Mission, DAM, EGYPT, CRADLE
<1>2. m + 1 \in Mission /\ m + 1 < AZTEC /\ m + 1 # EGYPT
  BY <1>1 DEF Mission, DAM, EGYPT, AZTEC
<1>3. d \in Open(s, m + 1, FALSE)
  <2>1. CASE d = OO7
    BY <1>2, <2>1 DEF Open, Completed, Unlocked, AGENT, OO7
  <2>2. CASE d # OO7
    <3>1. d < OO7 /\ d \in d .. OO7 /\ d \in AGENT .. OO
      BY <2>2 DEF Difficulty, AGENT, OO, OO7
    <3>2. JustBefore(s, m + 1, d)
      <4>1. (m + 1) - 1 = m
        BY <1>1
      <4> QED BY <1>2, <3>1, <4>1 DEF JustBefore
    <3>3. ~BelowItsDifficulty(m + 1, d)
      BY <1>1, <1>2 DEF BelowItsDifficulty, AZTEC
    <3> QED BY <3>1, <3>2, <3>3 DEF Open, Unlocked, AGENT, OO, OO7
  <2> QED BY <2>1, <2>2
<1>4. d <= d
  BY DEF Difficulty, AGENT, OO7
<1> QED BY <1>2, <1>3, <1>4, HighestIs

\* What is highest is open to someone: 007 only once there is such a difficulty.
LEMMA HighestOO7 ==
  ASSUME NEW s, NEW m, NEW c, OO7 <= HighestUnlocked(s, m, c)
  PROVE  Is007ModeUnlocked(s)
<1>1. OO7 \in Difficulty
  BY DEF Difficulty, AGENT, OO7
<1>2. PICK e \in Open(s, m, c) : OO7 <= e
  BY <1>1, HighestIs
<1> QED BY <1>2 DEF Open, AGENT, OO, OO7

\* The mission menu's choice.
LEMMA MissionSelectMenus ==
  ASSUME TypeOK, TypeOK', InTitle, InMenus, MissionSelect
  PROVE  InTitle' /\ InMenus'
<1>1. /\ Shown("MISSION_SELECT") /\ Target = "MISSION_SELECT" /\ SoloSetup
      /\ ~g_ramromPlayBackFlag
  BY DEF MissionSelect, Shown, InMenus, Target, INVALID
<1>2. UNCHANGED <<gamemode, selected_folder_num, selected_difficulty, cheats, intro, boss,
                  outcome, times, current_menu, menu_update>>
  BY DEF MissionSelect, Go
<1>3. InTitle'
  BY <1>2 DEF InTitle, boss
<1>4. CASE Go("MODE_SELECT")
  BY <1>1, <1>2, <1>3, <1>4
  DEF Shown, Go, InMenus, Target, INVALID, SoloSetup, PageMenus, ReadyMenus, FolderMenus, Reports,
      boss, intro
<1>5. ASSUME NEW row \in 0 .. (Rows - 1), NEW column \in 0 .. (RowLength - 1),
             briefingpage' = Highlighted(selected, g_AppendCheatSinglePlayer, row, column),
             selected_stage' = briefingpage', Go("DIFFICULTY")
      PROVE  InMenus'
  <2>1. /\ briefingpage' \in Mission
        /\ ~g_AppendCheatSinglePlayer => AGENT <= HighestUnlocked(selected, briefingpage', FALSE)
    <3>1. g_AppendCheatSinglePlayer \in BOOLEAN
      BY DEF TypeOK
    <3> QED BY <1>5, <3>1, HighlightedIs
  <2>2. ~g_AppendCheatSinglePlayer => HighestUnlocked(selected, briefingpage', FALSE) =
          HighestUnlocked(selected, briefingpage', g_AppendCheatSinglePlayer)
    BY DEF TypeOK
  <2>3. selected' = selected /\ g_AppendCheatSinglePlayer' = g_AppendCheatSinglePlayer
    BY <1>2 DEF selected, cheats
  <2>4. Target' = "DIFFICULTY" /\ SoloSetup' /\ PageSet'
    BY <1>1, <1>2, <1>5, <2>1 DEF Go, Target, INVALID, SoloSetup, PageSet
  <2>5. ~g_AppendCheatSinglePlayer' => (Highest(briefingpage) >= AGENT)'
    <3>1. HighestUnlocked(selected, briefingpage', g_AppendCheatSinglePlayer) \in -1 .. OO7
      BY HighestIs
    <3> QED BY <2>1, <2>2, <2>3, <3>1 DEF Highest, AGENT, OO7
  <2> QED BY <1>1, <1>2, <1>5, <2>4, <2>5
      DEF InMenus, Shown, Go, INVALID, PageMenus, ReadyMenus, FolderMenus, Reports, boss
<1> QED BY <1>3, <1>4, <1>5 DEF MissionSelect

\* The difficulty menu offers what is unlocked, and the lowest one to be safe.
LEMMA DifficultyMenuMenus ==
  ASSUME TypeOK, TypeOK', InTitle, InMenus, DifficultyMenu
  PROVE  InTitle' /\ InMenus'
<1>1. /\ Shown("DIFFICULTY") /\ Target = "DIFFICULTY" /\ SoloSetup /\ PageSet
      /\ ~g_ramromPlayBackFlag
      /\ ~g_AppendCheatSinglePlayer => Highest(briefingpage) >= AGENT
  BY DEF DifficultyMenu, Shown, InMenus, Target, INVALID, PageMenus
<1>2. UNCHANGED <<gamemode, selected_folder_num, selected_stage, briefingpage, cheats, intro,
                  boss, outcome, times, current_menu, menu_update>>
  BY DEF DifficultyMenu, Go
<1>3. InTitle' /\ SoloSetup' /\ PageSet' /\ ~g_ramromPlayBackFlag' /\ ~is_ramrom_flag'
  BY <1>1, <1>2 DEF InTitle, SoloSetup, PageSet, boss, InMenus
<1>4. CASE Go("MISSION_SELECT")
  <2>1. Target' = "MISSION_SELECT"
    BY <1>4 DEF Go, Target, INVALID
  <2> QED BY <1>1, <1>2, <1>3, <1>4, <2>1
      DEF InMenus, Shown, Go, INVALID, PageMenus, ReadyMenus, FolderMenus, Reports
<1>5. CASE /\ selected_difficulty' \in Offered(briefingpage)
           /\ Go(IF selected_difficulty' = OO7 THEN "007_OPTIONS" ELSE "BRIEFING")
  <2>1. Target' \in {"007_OPTIONS", "BRIEFING"}
    BY <1>5 DEF Go, Target, INVALID
  <2>2. (Highest(briefingpage))' = Highest(briefingpage) /\ Highest(briefingpage) \in -1 .. OO7
    BY <1>2, HighestIs DEF Highest, selected, cheats
  <2>3. DifficultySet'
    <3>1. selected_difficulty' \in Difficulty
      BY <1>5 DEF Offered, Difficulty, AGENT, OO7
    <3>2. ~g_AppendCheatSinglePlayer => selected_difficulty' <= Highest(briefingpage)
      BY <1>1, <1>5, <2>2 DEF Offered, AGENT, OO7
    <3> QED BY <1>2, <2>2, <3>1, <3>2 DEF DifficultySet, cheats
  <2> QED BY <1>1, <1>2, <1>3, <1>5, <2>1, <2>3
      DEF InMenus, Shown, Go, INVALID, PageMenus, ReadyMenus, FolderMenus, Reports
<1> QED BY <1>3, <1>4, <1>5 DEF DifficultyMenu

\* The report goes on to the next mission without asking whether it is unlocked.
LEMMA MissionCompleteMenus ==
  ASSUME TypeOK, TypeOK', InTitle, InMenus, MissionComplete
  PROVE  InTitle' /\ InMenus'
<1>1. /\ Shown("MISSION_COMPLETE") /\ Target = "MISSION_COMPLETE"
      /\ SoloSetup /\ PageSet /\ DifficultySet /\ Saved /\ ~g_ramromPlayBackFlag
  BY DEF MissionComplete, Shown, InMenus, Target, INVALID, PageMenus, ReadyMenus, Reports
<1>2. UNCHANGED <<gamemode, selected_folder_num, selected_difficulty, cheats, intro, boss,
                  outcome, times, current_menu>>
  BY DEF MissionComplete, Proceed, ToMissions, Go, Reload
<1>3. InTitle' /\ SoloSetup' /\ ~g_ramromPlayBackFlag' /\ ~is_ramrom_flag'
  BY <1>1, <1>2 DEF InTitle, SoloSetup, boss, InMenus
<1>4. CASE ToMissions
  <2>1. Target' = "MISSION_SELECT"
    BY <1>4 DEF ToMissions, Go, Target, INVALID
  <2> QED BY <1>1, <1>2, <1>3, <1>4, <2>1
      DEF InMenus, ToMissions, Shown, Go, INVALID, PageMenus, ReadyMenus, FolderMenus, Reports
<1>5. CASE Reload("RUN_STAGE") /\ selected_stage' = CUBA
  <2>1. Target' = "RUN_STAGE"
    BY <1>1, <1>5 DEF Shown, Reload, Target, INVALID
  <2>2. CubaRun'
    BY <1>3, <1>5 DEF CubaRun, SoloSetup
  <2> QED BY <1>1, <1>2, <1>3, <1>5, <2>1, <2>2
      DEF InMenus, Shown, Reload, INVALID, PageMenus, ReadyMenus, FolderMenus, Reports
<1>6. CASE Go("BRIEFING") /\ PageSet' /\ DifficultySet'
  <2>1. Target' = "BRIEFING"
    BY <1>6 DEF Go, Target, INVALID
  <2> QED BY <1>1, <1>2, <1>3, <1>6, <2>1
      DEF InMenus, Shown, Go, INVALID, PageMenus, ReadyMenus, FolderMenus, Reports
<1>7. ASSUME Success, ~g_AppendCheatSinglePlayer, briefingpage < CRADLE,
             briefingpage' = NextMission, selected_stage' = NextMission
      PROVE  PageSet' /\ DifficultySet'
  <2>1. briefingpage \in Mission /\ selected_difficulty \in Difficulty
        /\ selected_difficulty <= HighestUnlocked(selected, briefingpage, g_AppendCheatSinglePlayer)
    BY <1>1, <1>7 DEF PageSet, DifficultySet, Highest
  <2>2. Completed(selected, briefingpage, selected_difficulty)
    <3>1. CASE selected_difficulty = OO7
      <4>1. Is007ModeUnlocked(selected)
        BY <2>1, <3>1, HighestOO7
      <4> QED BY <2>1, <3>1, <4>1 DEF Completed
    <3>2. CASE selected_difficulty # OO7
      BY <1>1, <1>7, <3>2 DEF Saved, Completed
    <3> QED BY <3>1, <3>2
  <2>3. NextMission = briefingpage + 1
    BY <1>7, <2>1, MissionNumbers, ProgressAssumption DEF NextMission, CRADLE, AZTEC
  <2>4. /\ briefingpage + 1 \in Mission
        /\ selected_difficulty <= HighestUnlocked(selected, briefingpage + 1, FALSE)
    BY <1>7, <2>1, <2>2, NextIsUnlocked
  <2>5. g_AppendCheatSinglePlayer' = FALSE /\ selected' = selected
    BY <1>2, <1>7 DEF TypeOK, selected, cheats
  <2>6. (Highest(briefingpage))' = HighestUnlocked(selected, briefingpage + 1, FALSE)
    BY <1>7, <2>3, <2>5 DEF Highest
  <2> QED BY <1>2, <1>7, <2>1, <2>3, <2>4, <2>6 DEF PageSet, DifficultySet
<1>8. ASSUME UNCHANGED <<selected_stage, briefingpage>>
      PROVE  PageSet' /\ DifficultySet'
  BY <1>1, <1>2, <1>8 DEF PageSet, DifficultySet, Highest, selected, cheats
<1> QED BY <1>3, <1>4, <1>5, <1>6, <1>7, <1>8 DEF MissionComplete, Proceed

\* More times in a folder take nothing back.
LEMMA SetupKept ==
  ASSUME TypeOK, UNCHANGED <<chosen, cheats, outcome>>,
         \A f \in Folder : times[f] \subseteq times'[f], SoloSetup
  PROVE  /\ SoloSetup'
         /\ PageSet => PageSet'
         /\ DifficultySet => DifficultySet'
         /\ Saved => Saved'
         /\ Highest(briefingpage) >= AGENT => (Highest(briefingpage) >= AGENT)'
<1>1. selected \subseteq selected' /\ UNCHANGED <<gamemode, selected_folder_num, selected_stage,
        briefingpage, selected_difficulty, g_AppendCheatSinglePlayer, mission_failed_or_aborted,
        g_isBondKIA, objectives>>
  BY DEF SoloSetup, selected, chosen, cheats, outcome
<1>2. \A d \in Difficulty :
        d <= Highest(briefingpage) =>
          d <= HighestUnlocked(selected', briefingpage, g_AppendCheatSinglePlayer)
  BY <1>1, HighestGrows DEF Highest
<1>3. (Highest(briefingpage))' = HighestUnlocked(selected', briefingpage, g_AppendCheatSinglePlayer)
  BY <1>1 DEF Highest
<1>4. Highest(briefingpage) \in -1 .. OO7 /\ (Highest(briefingpage))' \in -1 .. OO7
  BY <1>3, HighestIs DEF Highest
<1>5. DifficultySet => DifficultySet'
  BY <1>1, <1>2, <1>3 DEF DifficultySet
<1>6. AGENT \in Difficulty
  BY DEF AGENT, Difficulty, OO7
<1>7. Highest(briefingpage) >= AGENT => (Highest(briefingpage) >= AGENT)'
  <2>1. AGENT \in Int /\ OO7 \in Int
    BY DEF AGENT, OO7
  <2> QED BY <1>2, <1>3, <1>4, <1>6, <2>1
<1> QED BY <1>1, <1>5, <1>7 DEF SoloSetup, PageSet, Saved, Success

\* A code that is entered in a menu.
LEMMA CheatCodeMenus ==
  ASSUME TypeOK, TypeOK', InTitle, InMenus, CheatCode
  PROVE  InTitle' /\ InMenus'
<1>1. UNCHANGED <<menus, chosen, cheats, intro, boss, outcome>>
  BY DEF CheatCode
<1>2. \A f \in Folder : times[f] \subseteq times'[f]
  BY DEF CheatCode, WithCompleted, TypeOK
<1>3. InTitle' /\ Target' = Target
  BY <1>1 DEF InTitle, Target, menus, boss
<1>4. ASSUME SoloSetup
      PROVE  /\ SoloSetup' /\ (PageSet => PageSet') /\ (DifficultySet => DifficultySet')
             /\ (Saved => Saved')
             /\ (Highest(briefingpage) >= AGENT => (Highest(briefingpage) >= AGENT)')
  BY <1>1, <1>2, <1>4, SetupKept
<1>5. MatchRun => MatchRun'
  BY <1>1 DEF MatchRun, chosen
<1>6. SoloRun \/ CubaRun \/ MatchRun => SoloRun' \/ CubaRun' \/ MatchRun'
  BY <1>1, <1>4, <1>5 DEF SoloRun, CubaRun, chosen
<1>7. ReadyMenus \subseteq PageMenus /\ Reports \subseteq PageMenus
  BY DEF PageMenus, ReadyMenus
<1>8. UNCHANGED <<current_menu, menu_update, maybe_prev_menu, is_ramrom_flag, gamemode,
        selected_stage, selected_folder_num, g_ramromPlayBackFlag, g_AppendCheatSinglePlayer,
        full_actor_intro>>
  BY <1>1 DEF menus, chosen, cheats, intro, boss
<1> QED BY <1>3, <1>4, <1>6, <1>7, <1>8 DEF InMenus, PageMenus, ReadyMenus, FolderMenus, Reports

\* The cast leads to the missions after the ending, and to a demo in the intro.
LEMMA CastMenus ==
  ASSUME TypeOK, TypeOK', InTitle, InMenus, Cast
  PROVE  InTitle' /\ InMenus'
<1>1. /\ Shown("DISPLAY_CAST") /\ Target = "DISPLAY_CAST" /\ ~g_ramromPlayBackFlag
      /\ full_actor_intro => SoloSetup
  BY DEF Cast, Shown, InMenus, Target, INVALID
<1>2. UNCHANGED <<selected_folder_num, cheats, g_StageNum, g_MainStageNum, is_ramrom_flag,
                  outcome, times, current_menu, maybe_prev_menu>>
  BY DEF Cast, Reload, chosen
<1>3. InTitle' /\ ~is_ramrom_flag'
  BY <1>2 DEF InTitle, InMenus
<1>4. Target' = menu_update'
  <2>1. menu_update' # INVALID
    BY DEF Cast, Reload, INVALID
  <2> QED BY <1>1, <1>2, <2>1 DEF Shown, Target
<1>5. CASE /\ menu_update' \in {"DISPLAY_CAST", "FILE_SELECT"}
           /\ UNCHANGED <<chosen, intro, g_ramromPlayBackFlag>>
  BY <1>1, <1>2, <1>3, <1>4, <1>5
  DEF InMenus, Shown, INVALID, PageMenus, ReadyMenus, FolderMenus, Reports, SoloSetup, chosen, intro
<1>6. CASE full_actor_intro /\ menu_update' = "MISSION_SELECT" /\ UNCHANGED chosen
           /\ UNCHANGED g_ramromPlayBackFlag
  BY <1>1, <1>2, <1>3, <1>4, <1>6
  DEF InMenus, Shown, INVALID, PageMenus, ReadyMenus, FolderMenus, Reports, SoloSetup, chosen
<1>7. CASE menu_update' = "RUN_STAGE" /\ g_ramromPlayBackFlag' /\ selected_stage' \in DemoMission
  BY <1>1, <1>2, <1>3, <1>4, <1>7, FrontAssumption
  DEF InMenus, Shown, INVALID, PageMenus, ReadyMenus, FolderMenus, Reports
<1> QED BY <1>3, <1>5, <1>6, <1>7 DEF Cast, Reload


\* The options of 007 lead to the mission, its briefing or back.
LEMMA Options007Menus ==
  ASSUME TypeOK, TypeOK', InTitle, InMenus, Options007
  PROVE  InTitle' /\ InMenus'
<1>1. /\ Shown("007_OPTIONS") /\ Target = "007_OPTIONS" /\ ~g_ramromPlayBackFlag
      /\ SoloSetup /\ PageSet /\ DifficultySet
  BY DEF Options007, Shown, InMenus, Target, INVALID, PageMenus, ReadyMenus
<1>2. UNCHANGED <<chosen, cheats, intro, boss, outcome, times, current_menu>>
  BY DEF Options007, Go, Reload
<1>3. InTitle' /\ ~g_ramromPlayBackFlag' /\ ~is_ramrom_flag'
  BY <1>1, <1>2 DEF InTitle, boss, InMenus
<1>4. SoloSetup' /\ PageSet' /\ DifficultySet'
      /\ ((~g_AppendCheatSinglePlayer => Highest(briefingpage) >= AGENT))'
  <2>1. Highest(briefingpage) \in -1 .. OO7 /\ (Highest(briefingpage))' = Highest(briefingpage)
    BY <1>2, HighestIs DEF Highest, selected, chosen, cheats
  <2> QED BY <1>1, <1>2, <2>1
      DEF SoloSetup, PageSet, DifficultySet, Difficulty, AGENT, OO7, chosen, cheats
<1>5. CASE Reload("RUN_STAGE")
  <2>1. Target' = "RUN_STAGE"
    BY <1>1, <1>5 DEF Shown, Reload, Target, INVALID
  <2> QED BY <1>1, <1>2, <1>3, <1>4, <1>5, <2>1
      DEF InMenus, Shown, Reload, INVALID, PageMenus, ReadyMenus, FolderMenus, Reports, SoloRun
<1>6. CASE Go("BRIEFING") \/ Go("DIFFICULTY")
  <2>1. Target' \in {"BRIEFING", "DIFFICULTY"}
    BY <1>6 DEF Go, Target, INVALID
  <2> QED BY <1>1, <1>2, <1>3, <1>4, <1>6, <2>1
      DEF InMenus, Shown, Go, INVALID, PageMenus, ReadyMenus, FolderMenus, Reports
<1> QED BY <1>5, <1>6 DEF Options007

\* A step of the menus that stays in them.
MenuAction ==
  \/ LeaveForReload \/ SwitchScreens \/ EnterFileSelect \/ \E m \in Menu : EnterMenu(m)
  \/ IntroPasses \/ IntroKey \/ Cast \/ ChooseFolder \/ ChangeFolder
  \/ ModeSelect \/ CheatMenu \/ CheatCode \/ MpOptions
  \/ MissionSelect \/ DifficultyMenu \/ Options007 \/ Briefing \/ MissionFailed \/ MissionComplete

\* After it, what is chosen fits the menu that comes next.
LEMMA MenusStep ==
  ASSUME TypeOK, TypeOK', InMenus, InTitle, MenuAction
  PROVE  InTitle' /\ InMenus'
<1> USE DEF TypeOK, InTitle, InMenus, Target, INVALID, Menu, Intro, Reports, PageMenus, ReadyMenus,
            FolderMenus, SoloSetup, PageSet, DifficultySet, SoloRun, CubaRun, MatchRun, Saved,
            Success, Highest, selected, boss
<1>1. CASE LeaveForReload
  BY <1>1 DEF LeaveForReload, Leaving, SWITCH, chosen, outcome
<1>2. CASE SwitchScreens
  BY <1>2 DEF SwitchScreens, SWITCH, chosen, cheats, intro, outcome
<1>3. CASE EnterFileSelect
  BY <1>3 DEF EnterFileSelect, Enter
<1>4. CASE \E m \in Menu : EnterMenu(m)
  BY <1>4 DEF EnterMenu, Enter, Leaving, InitMissionSelect, outcome
<1>5. CASE IntroPasses
  BY <1>5 DEF IntroPasses, Shown, Reload, AfterIntro, chosen, cheats, outcome
<1>6. CASE IntroKey
  BY <1>6 DEF IntroKey, Shown, Reload, AfterIntro, chosen, cheats, outcome
<1>7. CASE Cast
  BY <1>7, CastMenus
<1>8. CASE ChooseFolder
  BY <1>8 DEF ChooseFolder, Shown, Go, Reload, cheats, intro, outcome
<1>9. CASE ChangeFolder
  BY <1>9 DEF ChangeFolder, Shown, menus, chosen, cheats, intro, outcome
<1>10. CASE ModeSelect
  BY <1>10 DEF ModeSelect, Shown, Go, cheats, intro, outcome
<1>11. CASE CheatMenu
  BY <1>11 DEF CheatMenu, Shown, Go, menus, chosen, intro, outcome
<1>12. CASE CheatCode
  BY <1>12, CheatCodeMenus
<1>13. CASE MpOptions
  BY <1>13 DEF MpOptions, MatchPage, Shown, Go, Reload, chosen, cheats, intro, outcome
<1>14. CASE MissionSelect
  BY <1>14, MissionSelectMenus
<1>15. CASE DifficultyMenu
  BY <1>15, DifficultyMenuMenus
<1>16. CASE Options007
  BY <1>16, Options007Menus
<1>17. CASE Briefing
  BY <1>17 DEF Briefing, Shown, Go, Reload, chosen, cheats, intro, outcome
<1>18. CASE MissionFailed
  BY <1>18 DEF MissionFailed, Shown, Go, chosen, cheats, intro, outcome
<1>19. CASE MissionComplete
  BY <1>19, MissionCompleteMenus
<1> QED BY <1>1, <1>2, <1>3, <1>4, <1>5, <1>6, <1>7, <1>8, <1>9, <1>10, <1>11, <1>12, <1>13,
           <1>14, <1>15, <1>16, <1>17, <1>18, <1>19 DEF MenuAction

-------------------------------------------------------------------------------
(* The stages.                                                             *)

\* The stage that is asked for is the chosen one, and what is shown after it fits it.
LEMMA EnterRunStageRuns ==
  ASSUME TypeOK, InTitle, InMenus, EnterRunStage
  PROVE  ~InTitle' /\ InStage'
BY MissionNumbers
DEF EnterRunStage, TypeOK, InTitle, InMenus, InStage, Pending, Target, AfterStage, INVALID, Reports,
    PageMenus, FolderMenus, NONE, TITLE, CUBA, MATCH, SoloSetup, PageSet, DifficultySet, SoloRun,
    CubaRun, MatchRun, Highest, selected, chosen, cheats, outcome

\* The times of the mission that ends are written when it will be reported as completed.
LEMMA EndLevelRuns ==
  ASSUME TypeOK, TypeOK', ~InTitle, InStage, EndLevel
  PROVE  ~InTitle' /\ InStage'
<1>1. /\ Playing /\ ~Pending /\ g_MainStageNum' = TITLE
      /\ UNCHANGED <<menus, chosen, cheats, intro, outcome, g_StageNum, g_ramromPlayBackFlag,
                     is_ramrom_flag>>
  BY DEF EndLevel, RunTitle, Playing, Pending
<1>2. ~InTitle' /\ ~Pending' /\ g_StageNum' # TITLE
  BY <1>1 DEF Playing, InTitle, Pending
<1>3. \A f \in Folder : times[f] \subseteq times'[f]
  BY DEF EndLevel, WithCompleted, TypeOK
<1>4. UNCHANGED <<current_menu, maybe_prev_menu, menu_update, selected_stage, selected_folder_num>>
  BY <1>1 DEF menus, chosen
<1>5. MatchRun => MatchRun'
  BY <1>1 DEF MatchRun, chosen
<1>6. CubaRun => CubaRun'
  BY <1>1 DEF CubaRun, SoloSetup, chosen
<1>7. ASSUME SoloRun, menu_update = "MISSION_FAILED"
      PROVE  SoloRun' /\ Saved'
  <2>1. SoloRun'
    BY <1>1, <1>3, <1>7, SetupKept DEF SoloRun
  <2>2. ASSUME Success', ~g_AppendCheatSinglePlayer', (selected_difficulty # OO7)'
        PROVE  (<<briefingpage, selected_difficulty>> \in selected)'
    <3>1. WritesProgress
      <4>1. objectives /\ ~g_AppendCheatSinglePlayer /\ selected_difficulty # OO7
        BY <1>1, <2>2 DEF Success, outcome, cheats, chosen
      <4>2. selected_folder_num \in Folder /\ briefingpage \in Mission
            /\ g_StageNum = briefingpage
        BY <1>1, <1>7 DEF SoloRun, SoloSetup, PageSet, InStage, Pending, Playing
      <4> QED BY <4>1, <4>2, MissionNumbers DEF WritesProgress, CUBA, NoPage
    <3>2. <<briefingpage, selected_difficulty>> \in times'[selected_folder_num]
      <4>1. selected_difficulty \in AGENT .. selected_difficulty
        BY <1>7 DEF SoloRun, DifficultySet, Difficulty, AGENT, OO7
      <4>2. times'[selected_folder_num] =
              WithCompleted(times[selected_folder_num], briefingpage, selected_difficulty)
        BY <3>1 DEF EndLevel, TypeOK, WritesProgress
      <4> QED BY <4>1, <4>2 DEF WithCompleted
    <3> QED BY <1>1, <3>2 DEF selected, chosen
  <2> QED BY <2>1, <2>2 DEF Saved
<1>8. InStage'
  BY <1>1, <1>2, <1>4, <1>5, <1>6, <1>7 DEF InStage, Pending, Playing
<1> QED BY <1>2, <1>8

\* A step out of the title.
StageAction ==
  \/ LoadTitle \/ LoadStage
  \/ ObjectivesChange \/ Killed \/ EndLevel \/ EndOfDeath \/ EndOfDemo \/ Abort

\* After it, the menu to come fits the stage that runs.
LEMMA StageStep ==
  ASSUME TypeOK, TypeOK', ~InTitle, InStage, StageAction
  PROVE  IF InTitle' THEN InMenus' ELSE InStage'
<1> USE DEF TypeOK, InTitle, InStage, Pending, Reports, SoloSetup, PageSet, DifficultySet, SoloRun,
            CubaRun, MatchRun, Saved, Success, Highest, selected, NONE, TITLE
<1>1. CASE LoadTitle
  BY <1>1 DEF LoadTitle, InMenus, Target, INVALID, PageMenus, ReadyMenus, FolderMenus, chosen,
              cheats, intro, outcome
<1>2. CASE LoadStage
  BY <1>2, FrontAssumption DEF LoadStage, menus, cheats, intro
<1>3. CASE ObjectivesChange
  BY <1>3 DEF ObjectivesChange, Playing, menus, chosen, cheats, intro, boss
<1>4. CASE Killed
  BY <1>4 DEF Killed, Playing, menus, chosen, cheats, intro, boss
<1>5. CASE EndLevel
  BY <1>5, EndLevelRuns
<1>6. CASE EndOfDeath
  BY <1>6 DEF EndOfDeath, RunTitle, Playing, menus, chosen, cheats, intro, outcome
<1>7. CASE EndOfDemo
  BY <1>7 DEF EndOfDemo, RunTitle, Playing, menus, chosen, cheats, outcome
<1>8. CASE Abort
  BY <1>8 DEF Abort, RunTitle, Playing, menus, chosen, cheats, intro
<1> QED BY <1>1, <1>2, <1>3, <1>4, <1>5, <1>6, <1>7, <1>8 DEF StageAction

-------------------------------------------------------------------------------
(* The theorems.                                                           *)

\* The invariant holds in every reachable state.
LEMMA FInvHolds == Spec => []FInv
<1>1. Init => FInv
  <2> SUFFICES ASSUME Init PROVE FInv
    OBVIOUS
  <2>1. TypeOK
    BY InitType
  <2>2. NoGaps
    BY DEF Init, NoGaps
  <2>3. InTitle /\ Target = "LEGAL_SCREEN"
    BY DEF Init, InTitle, Target, INVALID
  <2>4. InMenus
    BY <2>3 DEF Init, InMenus, INVALID, PageMenus, ReadyMenus, FolderMenus, Reports
  <2> QED BY <2>1, <2>2, <2>3, <2>4 DEF FInv
<1>2. FInv /\ [Next]_vars => FInv'
  <2> SUFFICES ASSUME FInv, [Next]_vars PROVE FInv'
    OBVIOUS
  <2>1. TypeOK /\ TypeOK' /\ NoGaps
    BY TypeStep DEF FInv
  <2>2. ASSUME EndLevel PROVE ~InTitle
    BY <2>2 DEF EndLevel, Playing, InTitle
  <2>3. NoGaps'
    <3>1. CASE ChangeFolder
      BY <2>1, <3>1, ChangeFolderGaps
    <3>2. CASE CheatCode
      BY <2>1, <3>2, CheatCodeGaps
    <3>3. CASE EndLevel
      BY <2>1, <2>2, <3>3, EndLevelGaps DEF FInv
    <3>4. CASE ~ChangeFolder /\ ~CheatCode /\ ~EndLevel
      BY <2>1, <3>4, TimesKept DEF NoGaps
    <3> QED BY <3>1, <3>2, <3>3, <3>4
  <2>4. IF InTitle' THEN InMenus' ELSE InStage'
    <3>1. CASE MenuAction
      <4>1. InTitle
        BY <3>1 DEF MenuAction, LeaveForReload, SwitchScreens, EnterFileSelect, EnterMenu, Enter,
             IntroPasses, IntroKey, Cast, ChooseFolder, ChangeFolder, ModeSelect, CheatMenu,
             CheatCode, MpOptions, MissionSelect, DifficultyMenu, Options007, Briefing,
             MissionFailed, MissionComplete, Shown
      <4> QED BY <2>1, <3>1, <4>1, MenusStep DEF FInv
    <3>2. CASE EnterRunStage
      BY <2>1, <3>2, EnterRunStageRuns DEF FInv, EnterRunStage
    <3>3. CASE StageAction
      <4>1. Playing \/ g_MainStageNum = TITLE \/ g_MainStageNum # NONE
        BY <3>3 DEF StageAction, LoadTitle, LoadStage, ObjectivesChange, Killed, EndLevel,
             EndOfDeath, EndOfDemo, Abort
      <4>2. ~InTitle
        BY <4>1 DEF Playing, InTitle, NONE, TITLE
      <4> QED BY <2>1, <3>3, <4>2, StageStep DEF FInv
    <3>4. CASE UNCHANGED vars
      BY <3>4
      DEF FInv, InTitle, InMenus, InStage, Pending, Target, SoloSetup, PageSet, DifficultySet,
          SoloRun, CubaRun, MatchRun, Saved, Success, Highest, selected, PageMenus, ReadyMenus,
          FolderMenus, Reports, vars, menus, chosen, cheats, intro, boss, outcome
    <3> QED BY <3>1, <3>2, <3>3, <3>4 DEF Next, MenuAction, StageAction
  <2> QED BY <2>1, <2>3, <2>4 DEF FInv
<1> QED BY <1>1, <1>2, PTL DEF Spec

\* The menus that index the mission table with the page find a mission there.
THEOREM PageIsValid == Spec => []BriefingPageValid
<1>1. FInv => BriefingPageValid
  BY DEF FInv, InMenus, BriefingPageValid, Shown, Target, INVALID, PageMenus, Reports, PageSet
<1> QED BY <1>1, FInvHolds, PTL

\* A solo game is played on a difficulty that is unlocked for its mission.
THEOREM RunsUnlocked == Spec => []RunsWhatIsUnlocked
<1>1. FInv => RunsWhatIsUnlocked
  <2> SUFFICES ASSUME FInv, Playing, InMission, ~is_ramrom_flag, ~g_AppendCheatSinglePlayer
               PROVE  selected_difficulty \in AGENT .. Highest(briefingpage)
    BY DEF RunsWhatIsUnlocked
  <2>1. InStage /\ g_StageNum = selected_stage /\ selected_stage \in Mission
    BY DEF FInv, Playing, InMission, InTitle, InStage, Pending
  <2>2. SoloRun
    BY <2>1, MissionNumbers DEF InStage, Pending, Playing, CubaRun, MatchRun, CUBA, MATCH
  <2>3. Highest(briefingpage) \in -1 .. OO7
    BY HighestIs DEF Highest
  <2> QED BY <2>2, <2>3 DEF SoloRun, DifficultySet, Difficulty, AGENT, OO7
<1> QED BY <1>1, FInvHolds, PTL

\* Progress has no gaps.
THEOREM ProgressHasNoGaps == Spec => []NoGaps
<1>1. FInv => NoGaps
  BY DEF FInv
<1> QED BY <1>1, FInvHolds, PTL

\* What the report calls completed is completed in the folder.
THEOREM ReportIsSaved == Spec => []CompletedIsSaved
<1>1. FInv => CompletedIsSaved
  BY DEF FInv, InMenus, CompletedIsSaved, Shown, Target, INVALID, Reports, Saved
<1> QED BY <1>1, FInvHolds, PTL

\* The end of a stage writes only the mission that was played, without cheats.
THEOREM EndWritesItsMission == Spec => OnlyMissionsWriteProgress
<1> DEFINE Writes == Playing /\ g_MainStageNum' = TITLE /\ times' # times
           Its == /\ InMission /\ gamemode = "SOLO" /\ ~is_ramrom_flag
                  /\ ~g_AppendCheatSinglePlayer
                  /\ \A f \in Folder : \A p \in times'[f] \ times[f] :
                       f = selected_folder_num /\ p[1] = g_StageNum
<1>1. FInv /\ [Next]_vars => [Writes => Its]_vars
  <2> SUFFICES ASSUME FInv, [Next]_vars, Writes PROVE Its
    OBVIOUS
  <2>1. TypeOK /\ ~InTitle /\ InStage
    BY DEF FInv, Playing, InTitle
  <2>2. EndLevel /\ WritesProgress
    <3>1. ~ChangeFolder /\ ~CheatCode
      BY <2>1 DEF ChangeFolder, CheatCode, Shown
    <3> QED BY <3>1, TimesKept DEF EndLevel
  <2>3. /\ SoloRun /\ ~is_ramrom_flag /\ ~g_AppendCheatSinglePlayer
        /\ g_StageNum = briefingpage
    BY <2>1, <2>2, WriterIs
  <2>4. ASSUME NEW f \in Folder, NEW p \in times'[f] \ times[f]
        PROVE  f = selected_folder_num /\ p[1] = g_StageNum
    <3>1. times' = [times EXCEPT ![selected_folder_num] =
                      WithCompleted(@, briefingpage, selected_difficulty)]
      BY <2>2 DEF EndLevel
    <3>2. f = selected_folder_num
      BY <2>1, <3>1 DEF TypeOK
    <3>3. p \in {<<briefingpage, e>> : e \in AGENT .. selected_difficulty}
      BY <2>1, <3>1, <3>2 DEF TypeOK, WithCompleted
    <3> QED BY <2>3, <3>2, <3>3
  <2> QED BY <2>3, <2>4 DEF SoloRun, SoloSetup, PageSet, InMission
<1> QED BY <1>1, FInvHolds, PTL DEF Spec, OnlyMissionsWriteProgress
===============================================================================
