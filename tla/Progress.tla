-------------------------------- MODULE Progress --------------------------------
(***************************************************************************)
(* What a folder's best times say about the campaign: which missions are   *)
(* completed and unlocked on which difficulty, src/game/file2.c, and which *)
(* of them the mission menu of src/game/front.c offers.                    *)
(*                                                                         *)
(* A save is the set of the pairs <<mission, difficulty>> for which a best *)
(* time is stored; the times themselves are left out, and so are the flag  *)
(* that unlocks the last difficulty (nothing sets it) and the debug flags. *)
(***************************************************************************)
EXTENDS Integers, FiniteSets

CONSTANTS
  NumMain,    \* SP_LEVEL_AZTEC (18): the missions ahead of the two bonus ones
  RowLength   \* missions in a row of the mission menu (5)

ASSUME ProgressAssumption ==
  /\ NumMain \in Nat \ {0}
  /\ RowLength \in Nat \ {0} /\ (NumMain + 2) % RowLength = 0
  /\ RowLength < NumMain + 2   \* the cursor may leave the first row at its end

DAM == 0
CRADLE == NumMain - 1
AZTEC == NumMain
EGYPT == NumMain + 1
Mission == DAM .. EGYPT
Rows == (NumMain + 2) \div RowLength

AGENT == 0
SECRET == 1
OO == 2
OO7 == 3
Timed == AGENT .. OO         \* the difficulties with best times
Difficulty == AGENT .. OO7

Save == SUBSET (Mission \X Timed)

\* fileIs007ModeUnlocked
Is007ModeUnlocked(save) == \A m \in Mission : <<m, OO>> \in save

\* fileGetSaveStageCompletedForDifficulty: on 007 every mission counts as
\* completed as soon as there is such a difficulty.
Completed(save, m, d) ==
  IF d = OO7 THEN m \in Mission /\ Is007ModeUnlocked(save) ELSE <<m, d>> \in save

\* fileCheckSaveStageDifficultyTime, for a difficulty and the ones below it
\* (faulty variant of WithCompleted: the ones below are left alone)
WithOnly(save, m, d) == save \cup {<<m, d>>}
WithCompleted(save, m, d) == save \cup {<<m, e>> : e \in AGENT .. d}

\* The three ways in which fileIsStageUnlockedAtDifficulty finds a mission
\* unlocked: every mission before it is completed, the one before it is, or all
\* the main ones are and it is itself completed on the difficulties below.
AllBefore(save, m, d) == \E e \in d .. OO7 : \A n \in DAM .. (m - 1) : Completed(save, n, e)

JustBefore(save, m, d) ==
  d < OO7 /\ m < AZTEC /\ \E e \in d .. OO7 : Completed(save, m - 1, e)

OneHarder(save, m, d) ==
  /\ d < OO7
  /\ \A n \in DAM .. CRADLE : Completed(save, n, AGENT)
  /\ \A e \in AGENT .. (d - 1) : Completed(save, m, e)

BelowItsDifficulty(m, d) == (m = AZTEC /\ d < SECRET) \/ (m = EGYPT /\ d < OO)

Unlocked(save, m, d) ==
  \/ Completed(save, m, d)
  \/ /\ ~BelowItsDifficulty(m, d)
     /\ \/ AllBefore(save, m, d)
        \/ JustBefore(save, m, d)
        \/ OneHarder(save, m, d)
        \/ m = DAM

\* get_highest_unlocked_difficulty_for_level: -1 for none.  With cheats switched
\* on only what is completed may be played.
HighestUnlocked(save, m, cheats) ==
  LET top == IF Is007ModeUnlocked(save) THEN OO7 ELSE OO
      open == {d \in AGENT .. top :
                 IF cheats THEN Completed(save, m, d) ELSE Unlocked(save, m, d)}
  IN IF open = {} THEN -1 ELSE CHOOSE d \in open : \A e \in open : e <= d

\* The columns of a row with a mission that can be played.
Playable(save, cheats, r) ==
  {c \in 0 .. (RowLength - 1) : HighestUnlocked(save, r * RowLength + c, cheats) >= 0}

\* The cursor is moved up to a row with such a mission, or the first row.
CursorRow(save, cheats, row) ==
  LET rows == {0} \cup {r \in 1 .. row : Playable(save, cheats, r) # {}}
  IN CHOOSE i \in rows : \A j \in rows : j <= i

\* The mission under the cursor: in its row the cursor is moved to the left to a
\* mission that can be played, or else to the right, where nothing stops it at
\* the end of the row.
Highlighted(save, cheats, row, column) ==
  LET r == CursorRow(save, cheats, row)
      playable == Playable(save, cheats, r)
      left == {c \in playable : c <= column}
      c == IF left # {} THEN CHOOSE i \in left : \A j \in left : j <= i
           ELSE IF playable # {} THEN CHOOSE i \in playable : \A j \in playable : i <= j
           ELSE RowLength
  IN r * RowLength + c

\* The cheat code of mission k completes the mission before it on AGENT, if all
\* but one of the missions before k are completed there.
CodeApplies(save, k) ==
  Cardinality({n \in DAM .. (k - 1) : Completed(save, n, AGENT)}) = k - 1
===============================================================================
