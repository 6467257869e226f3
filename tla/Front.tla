--------------------------------- MODULE Front ---------------------------------
(***************************************************************************)
(* The front end, src/game/front.c, and how it runs the stages: from the   *)
(* menus through a mission, a match of several players or a recorded demo, *)
(* and back to the menu that reports it, with what is thereby written to   *)
(* the best times of a folder (src/game/file.c, src/boss.c).               *)
(*                                                                         *)
(* One call of menu_init leaves a menu, enters the next one and runs it.   *)
(* All three happen on the main thread, so they are steps of their own;    *)
(* a frame in which a menu does nothing is a stutter.  Cursors, timers and *)
(* the menus below the one of the multi player options are left out.       *)
(***************************************************************************)
EXTENDS Progress

CONSTANTS
  Folder,      \* FOLDER1 .. FOLDER4
  DemoMission, \* missions there are demos of
  DemoPage     \* the mission whose page set_solo_and_ptr_briefing then selects

NoFolder == -1
RamromFolder == 100      \* RAMROM_FOLDERNUM
NoPage == -1             \* BRIEFING_INVALID
NoDifficulty == -1       \* DIFFICULTY_MULTI

\* Stages: that of a mission goes by the mission's number.
NONE == -1
TITLE == -2
CUBA == -3
MATCH == -4              \* any of the stages of a match
Stages == Mission \cup {NONE, TITLE, CUBA, MATCH}

ASSUME FrontAssumption ==
  /\ Folder \subseteq 0 .. 3 /\ Folder # {}
  /\ DemoMission \subseteq Mission
  /\ DemoPage \in [DemoMission -> Mission \cup {NoPage}]

INVALID == "MENU_INVALID"
SWITCH == "MENU_SWITCH_SCREENS"
Intro == {"LEGAL_SCREEN", "NINTENDO_LOGO", "RAREWARE_LOGO", "EYE_INTRO", "GOLDENEYE_LOGO"}
Reports == {"MISSION_FAILED", "MISSION_COMPLETE"}
Menu == Intro \cup Reports \cup
  {"FILE_SELECT", "MODE_SELECT", "MISSION_SELECT", "DIFFICULTY", "007_OPTIONS", "BRIEFING",
   "RUN_STAGE", "MP_OPTIONS", "CHEAT", "DISPLAY_CAST"}

VARIABLES
  current_menu, menu_update, maybe_prev_menu,
  gamemode, selected_folder_num, selected_stage, briefingpage, selected_difficulty,
  g_CheatActivated,            \* some cheat is switched on
  g_AppendCheatSinglePlayer,
  prev_keypresses,             \* a key ended a demo or an intro
  first_time,                  \* is_first_time_on_main_menu
  full_actor_intro,
  g_StageNum, g_MainStageNum,
  g_ramromPlayBackFlag, is_ramrom_flag,
  mission_failed_or_aborted, g_isBondKIA,
  objectives,                  \* objectiveIsAllComplete
  times                        \* the save of each folder

menus == <<current_menu, menu_update, maybe_prev_menu>>
chosen == <<gamemode, selected_folder_num, selected_stage, briefingpage, selected_difficulty>>
cheats == <<g_CheatActivated, g_AppendCheatSinglePlayer>>
intro == <<prev_keypresses, first_time, full_actor_intro>>
boss == <<g_StageNum, g_MainStageNum, g_ramromPlayBackFlag, is_ramrom_flag>>
outcome == <<mission_failed_or_aborted, g_isBondKIA, objectives>>
vars == <<menus, chosen, cheats, intro, boss, outcome, times>>

TypeOK ==
  /\ current_menu \in Menu \cup {INVALID, SWITCH}
  /\ menu_update \in Menu \cup {INVALID} /\ maybe_prev_menu \in Menu \cup {INVALID}
  /\ gamemode \in {"INTRO", "SOLO", "MULTI", "CHEATS"}
  /\ selected_folder_num \in Folder \cup {NoFolder, RamromFolder}
  /\ selected_stage \in Stages /\ briefingpage \in Mission \cup {NoPage}
  /\ selected_difficulty \in Difficulty \cup {NoDifficulty}
  /\ g_StageNum \in Stages /\ g_MainStageNum \in Stages
  /\ times \in [Folder -> Save]
  /\ {g_CheatActivated, g_AppendCheatSinglePlayer, prev_keypresses, first_time,
      full_actor_intro, g_ramromPlayBackFlag, is_ramrom_flag, mission_failed_or_aborted,
      g_isBondKIA, objectives} \subseteq BOOLEAN

\* initGameData and init_menus_or_reset; the folders are empty.
Init ==
  /\ current_menu = INVALID /\ menu_update = "LEGAL_SCREEN" /\ maybe_prev_menu = INVALID
  /\ gamemode = "INTRO" /\ selected_folder_num \in Folder
  /\ selected_stage = NONE /\ briefingpage = NoPage /\ selected_difficulty = NoDifficulty
  /\ g_CheatActivated = FALSE /\ g_AppendCheatSinglePlayer = FALSE
  /\ prev_keypresses = FALSE /\ first_time = TRUE /\ full_actor_intro = FALSE
  /\ g_StageNum = TITLE /\ g_MainStageNum = NONE
  /\ g_ramromPlayBackFlag = FALSE /\ is_ramrom_flag = FALSE
  /\ mission_failed_or_aborted = FALSE /\ g_isBondKIA = FALSE /\ objectives = FALSE
  /\ times = [f \in Folder |-> {}]

-------------------------------------------------------------------------------
(* menu_init: the change from one menu to the next.                        *)

InTitle == g_StageNum = TITLE /\ g_MainStageNum = NONE

\* frontChangeMenu, with and without reload
Reload(m) == menu_update' = m /\ UNCHANGED <<current_menu, maybe_prev_menu>>
Go(m) == maybe_prev_menu' = m /\ UNCHANGED <<current_menu, menu_update>>

\* The exit handlers: leaving the cheat menu notes whether a cheat is on, and
\* leaving the logo that it has been seen.
Leaving ==
  /\ g_AppendCheatSinglePlayer' =
       IF current_menu = "CHEAT" THEN g_CheatActivated ELSE g_AppendCheatSinglePlayer
  /\ first_time' = (first_time /\ current_menu # "GOLDENEYE_LOGO")
  /\ UNCHANGED <<g_CheatActivated, full_actor_intro>>

LeaveForReload ==
  /\ InTitle /\ current_menu # SWITCH /\ menu_update # INVALID /\ maybe_prev_menu = INVALID
  /\ Leaving
  /\ current_menu' = SWITCH
  /\ UNCHANGED <<menu_update, maybe_prev_menu, chosen, prev_keypresses, boss, outcome, times>>

\* interface_menu17_switchscreens, when its timer has run out
SwitchScreens ==
  /\ InTitle /\ current_menu = SWITCH /\ menu_update # INVALID
  /\ maybe_prev_menu' = menu_update /\ menu_update' = INVALID
  /\ UNCHANGED <<current_menu, chosen, cheats, intro, boss, outcome, times>>

Enter(m) ==
  /\ InTitle /\ maybe_prev_menu = m /\ m # "RUN_STAGE"
  /\ current_menu' = m /\ maybe_prev_menu' = INVALID /\ UNCHANGED menu_update

\* init_menu05_fileselect, and the folder put away by the first frame
EnterFileSelect ==
  /\ Enter("FILE_SELECT")
  /\ selected_folder_num' = NoFolder
  /\ g_CheatActivated' = FALSE /\ g_AppendCheatSinglePlayer' = FALSE
  /\ prev_keypresses' = FALSE
  /\ first_time' = (first_time /\ current_menu # "GOLDENEYE_LOGO")
  /\ UNCHANGED <<gamemode, selected_stage, briefingpage, selected_difficulty,
                 full_actor_intro, boss, outcome, times>>

\* init_menu07_missionselect
InitMissionSelect == selected_stage' = NONE /\ briefingpage' = NoPage

EnterMenu(m) ==
  /\ Enter(m) /\ m # "FILE_SELECT"
  /\ Leaving
  /\ gamemode' = IF m = "MODE_SELECT" THEN "INTRO" ELSE gamemode
  /\ IF m = "MISSION_SELECT" THEN InitMissionSelect
     ELSE UNCHANGED <<selected_stage, briefingpage>>
  /\ selected_difficulty' = IF m = "DIFFICULTY" THEN NoDifficulty ELSE selected_difficulty
  /\ UNCHANGED <<selected_folder_num, prev_keypresses, boss, outcome, times>>

-------------------------------------------------------------------------------
(* The intro, the attract mode and the folders.                            *)

Shown(m) ==
  InTitle /\ current_menu = m /\ menu_update = INVALID /\ maybe_prev_menu = INVALID

AfterIntro ==
  [LEGAL_SCREEN |-> "NINTENDO_LOGO", NINTENDO_LOGO |-> "RAREWARE_LOGO",
   RAREWARE_LOGO |-> "EYE_INTRO", EYE_INTRO |-> "GOLDENEYE_LOGO",
   GOLDENEYE_LOGO |-> IF prev_keypresses THEN "FILE_SELECT" ELSE "DISPLAY_CAST"]

IntroPasses ==
  \E m \in Intro :
    /\ Shown(m) /\ Reload(AfterIntro[m])
    /\ full_actor_intro' = (full_actor_intro /\ AfterIntro[m] # "DISPLAY_CAST")
    /\ UNCHANGED <<chosen, cheats, prev_keypresses, first_time, boss, outcome, times>>

\* A key leads to the folders, the first time only past the next screen.
IntroKey ==
  \E m \in Intro :
    /\ Shown(m)
    /\ IF ~first_time \/ m = "GOLDENEYE_LOGO"
       THEN Reload("FILE_SELECT") /\ UNCHANGED prev_keypresses
       ELSE Reload(AfterIntro[m]) /\ prev_keypresses' = (prev_keypresses \/ m # "LEGAL_SCREEN")
    /\ UNCHANGED <<chosen, cheats, first_time, full_actor_intro, boss, outcome, times>>

\* interface_menu18_displaycast: one more actor, a key, or the end: back to the
\* missions, or on to a demo (replay_recorded_ramrom_at_address)
Cast ==
  /\ Shown("DISPLAY_CAST")
  /\ \/ Reload("DISPLAY_CAST") /\ UNCHANGED <<chosen, intro, g_ramromPlayBackFlag>>
     \/ /\ ~full_actor_intro /\ Reload("FILE_SELECT")
        /\ UNCHANGED <<chosen, intro, g_ramromPlayBackFlag>>
     \/ /\ full_actor_intro /\ full_actor_intro' = FALSE /\ Reload("MISSION_SELECT")
        /\ UNCHANGED <<chosen, prev_keypresses, first_time, g_ramromPlayBackFlag>>
     \/ /\ ~full_actor_intro /\ Reload("RUN_STAGE")
        /\ g_ramromPlayBackFlag' = TRUE /\ gamemode' = "SOLO"
        /\ \E m \in DemoMission :
             selected_stage' = m /\ briefingpage' = DemoPage[m]
        /\ selected_difficulty' \in Timed
        /\ UNCHANGED <<selected_folder_num, intro>>
  /\ UNCHANGED <<cheats, g_StageNum, g_MainStageNum, is_ramrom_flag, outcome, times>>

ChooseFolder ==
  /\ Shown("FILE_SELECT")
  /\ \/ Go("MODE_SELECT") /\ selected_folder_num' \in Folder
     \/ Reload("LEGAL_SCREEN") /\ UNCHANGED selected_folder_num
  /\ UNCHANGED <<gamemode, selected_stage, briefingpage, selected_difficulty,
                 cheats, intro, boss, outcome, times>>

\* fileDeleteSaveForFolder and fileCopyFolderToFirstFree
FirstEmpty == {f \in Folder : times[f] = {} /\ \A g \in Folder : times[g] = {} => f <= g}

ChangeFolder ==
  /\ Shown("FILE_SELECT")
  /\ \E f \in Folder :
       \/ times' = [times EXCEPT ![f] = {}]
       \/ times' = [g \in Folder |-> IF g \in FirstEmpty THEN times[f] ELSE times[g]]
  /\ UNCHANGED <<menus, chosen, cheats, intro, boss, outcome>>

ModeSelect ==
  /\ Shown("MODE_SELECT")
  /\ \/ gamemode' = "SOLO" /\ Go("MISSION_SELECT")
     \/ gamemode' = "MULTI" /\ Go("MP_OPTIONS")
     \/ gamemode' = "CHEATS" /\ Go("CHEAT")
     \/ gamemode' = gamemode /\ Go("FILE_SELECT")
  /\ UNCHANGED <<selected_folder_num, selected_stage, briefingpage, selected_difficulty,
                 cheats, intro, boss, outcome, times>>

CheatMenu ==
  /\ Shown("CHEAT")
  /\ \/ g_CheatActivated' \in BOOLEAN /\ UNCHANGED menus
     \/ Go("MODE_SELECT") /\ UNCHANGED g_CheatActivated
  /\ UNCHANGED <<g_AppendCheatSinglePlayer, chosen, intro, boss, outcome, times>>

\* The code of a mission is entered in any menu (cheatButton...).
CheatCode ==
  /\ InTitle /\ selected_folder_num \in Folder
  /\ \E k \in Mission :
       /\ CodeApplies(times[selected_folder_num], k)
       /\ times' = [times EXCEPT ![selected_folder_num] = WithCompleted(@, k - 1, AGENT)]
  /\ UNCHANGED <<menus, chosen, cheats, intro, boss, outcome>>

\* A match has no page: it is not a mission.
\* (faulty variant of MatchPage: the page of the last mission is kept)
OldPage == briefingpage
MatchPage == NoPage

\* Fewer than two controllers lead back to the modes.  Assumed: a controller does
\* not drop out in the very frame in which the start button is pressed; the code
\* goes on after the change of menu and would ask for the match as well.
MpOptions ==
  /\ Shown("MP_OPTIONS")
  /\ \/ Go("MODE_SELECT") /\ UNCHANGED chosen
     \/ /\ Reload("RUN_STAGE") /\ selected_stage' = MATCH /\ briefingpage' = MatchPage
        /\ UNCHANGED <<gamemode, selected_folder_num, selected_difficulty>>
  /\ UNCHANGED <<cheats, intro, boss, outcome, times>>

-------------------------------------------------------------------------------
(* The menus of a solo game.                                               *)

selected == times[selected_folder_num]
Highest(m) == HighestUnlocked(selected, m, g_AppendCheatSinglePlayer)

ToMissions == Go("MISSION_SELECT") /\ UNCHANGED <<selected_stage, briefingpage>>

MissionSelect ==
  /\ Shown("MISSION_SELECT")
  /\ \/ \E row \in 0 .. (Rows - 1), column \in 0 .. (RowLength - 1) :
          LET m == Highlighted(selected, g_AppendCheatSinglePlayer, row, column)
          IN briefingpage' = m /\ selected_stage' = m /\ Go("DIFFICULTY")
     \/ Go("MODE_SELECT") /\ UNCHANGED <<selected_stage, briefingpage>>
  /\ UNCHANGED <<gamemode, selected_folder_num, selected_difficulty,
                 cheats, intro, boss, outcome, times>>

\* (faulty variant of Offered: the difficulties above the highest unlocked one)
OfferedAll(m) == Timed
Offered(m) == {AGENT} \cup {d \in Difficulty : d <= Highest(m)}

DifficultyMenu ==
  /\ Shown("DIFFICULTY")
  /\ \/ /\ selected_difficulty' \in Offered(briefingpage)
        /\ Go(IF selected_difficulty' = OO7 THEN "007_OPTIONS" ELSE "BRIEFING")
     \/ Go("MISSION_SELECT") /\ UNCHANGED selected_difficulty
  /\ UNCHANGED <<gamemode, selected_folder_num, selected_stage, briefingpage,
                 cheats, intro, boss, outcome, times>>

Options007 ==
  /\ Shown("007_OPTIONS")
  /\ Reload("RUN_STAGE") \/ Go("BRIEFING") \/ Go("DIFFICULTY")
  /\ UNCHANGED <<chosen, cheats, intro, boss, outcome, times>>

Briefing ==
  /\ Shown("BRIEFING")
  /\ Reload("RUN_STAGE") \/ Go("MISSION_SELECT")
  /\ UNCHANGED <<chosen, cheats, intro, boss, outcome, times>>

MissionFailed ==
  /\ Shown("MISSION_FAILED")
  /\ Go("MISSION_COMPLETE") \/ Go("MISSION_SELECT")
  /\ UNCHANGED <<chosen, cheats, intro, boss, outcome, times>>

\* frontCompleteAllObjectivesAliveSuccess
\* (faulty variant: it forgets that a mission can be aborted)
SuccessIfAlive == ~g_isBondKIA /\ objectives
Success == ~mission_failed_or_aborted /\ ~g_isBondKIA /\ objectives

NextMission == IF briefingpage >= AZTEC THEN briefingpage ELSE briefingpage + 1

\* What follows a mission: the ending after the last of the main ones, the
\* missions after a bonus one, the briefing of the next one, or of the same
\* one when it was not completed or completed with cheats.
Proceed ==
  IF Success /\ ~g_AppendCheatSinglePlayer
  THEN \/ /\ briefingpage = CRADLE
          /\ Reload("RUN_STAGE") /\ selected_stage' = CUBA /\ UNCHANGED briefingpage
       \/ briefingpage >= AZTEC /\ ToMissions
       \/ /\ briefingpage < CRADLE /\ Go("BRIEFING")
          /\ briefingpage' = NextMission /\ selected_stage' = NextMission
  ELSE Go("BRIEFING") /\ UNCHANGED <<selected_stage, briefingpage>>

MissionComplete ==
  /\ Shown("MISSION_COMPLETE")
  /\ Proceed \/ ToMissions
  /\ UNCHANGED <<gamemode, selected_folder_num, selected_difficulty,
                 cheats, intro, boss, outcome, times>>

\* init_menu0B_runstage and the case of this menu in menu_init: the stage is
\* asked for, and what to show when it is over.
\* (faulty variant of AfterStage: a match gets a report, too)
AfterSoloStage ==
  IF g_ramromPlayBackFlag THEN "LEGAL_SCREEN"
  ELSE IF selected_stage = CUBA THEN "DISPLAY_CAST" ELSE "MISSION_FAILED"
AfterStage ==
  IF g_ramromPlayBackFlag THEN "LEGAL_SCREEN"
  ELSE IF gamemode = "MULTI" THEN "MP_OPTIONS"
  ELSE IF selected_stage = CUBA THEN "DISPLAY_CAST" ELSE "MISSION_FAILED"

EnterRunStage ==
  /\ InTitle /\ maybe_prev_menu = "RUN_STAGE"
  /\ current_menu' = "RUN_STAGE" /\ maybe_prev_menu' = INVALID /\ menu_update' = AfterStage
  /\ full_actor_intro' = (full_actor_intro \/ AfterStage = "DISPLAY_CAST")
  /\ g_MainStageNum' = selected_stage
  /\ UNCHANGED <<chosen, cheats, prev_keypresses, first_time, g_StageNum,
                 g_ramromPlayBackFlag, is_ramrom_flag, outcome, times>>

-------------------------------------------------------------------------------
(* The loop of bossMainloop over the stages.                               *)

\* The title: init_menus_or_reset puts the menus back to what was asked for
\* when they were left, unless a key ended a demo.
LoadTitle ==
  /\ g_MainStageNum = TITLE
  /\ g_StageNum' = TITLE /\ g_MainStageNum' = NONE /\ is_ramrom_flag' = FALSE
  /\ current_menu' = INVALID /\ maybe_prev_menu' = INVALID
  /\ menu_update' = IF prev_keypresses \/ menu_update = INVALID
                    THEN "FILE_SELECT" ELSE menu_update
  /\ UNCHANGED <<chosen, cheats, intro, g_ramromPlayBackFlag, outcome, times>>

\* A stage: test_if_recording_demos_this_stage_load starts a demo, the watch and
\* the player are set up anew.  Only a mission has objectives to complete.
LoadStage ==
  /\ g_MainStageNum \notin {NONE, TITLE}
  /\ g_StageNum' = g_MainStageNum /\ g_MainStageNum' = NONE
  /\ is_ramrom_flag' = g_ramromPlayBackFlag /\ g_ramromPlayBackFlag' = FALSE
  /\ selected_folder_num' = IF g_ramromPlayBackFlag THEN RamromFolder ELSE selected_folder_num
  /\ mission_failed_or_aborted' = FALSE /\ g_isBondKIA' = FALSE
  /\ objectives' = (g_MainStageNum \in {CUBA, MATCH})
  /\ UNCHANGED <<menus, gamemode, selected_stage, briefingpage, selected_difficulty,
                 cheats, intro, times>>

-------------------------------------------------------------------------------
(* What ends a stage.                                                      *)

Playing == g_StageNum # TITLE /\ g_MainStageNum = NONE
InMission == g_StageNum \in Mission

\* The objectives of a mission are completed, or one fails again.
ObjectivesChange ==
  /\ Playing /\ InMission
  /\ objectives' = ~objectives
  /\ UNCHANGED <<menus, chosen, cheats, intro, boss, mission_failed_or_aborted, g_isBondKIA,
                 times>>

\* bondviewKillCurrentPlayer and AI_BondKilledInAction
Killed ==
  /\ Playing /\ ~g_isBondKIA
  /\ g_isBondKIA' = TRUE
  /\ UNCHANGED <<menus, chosen, cheats, intro, boss, mission_failed_or_aborted, objectives,
                 times>>

RunTitle ==
  /\ g_MainStageNum' = TITLE
  /\ UNCHANGED <<menus, chosen, cheats, g_StageNum, g_ramromPlayBackFlag, is_ramrom_flag>>

\* The guards of bossReturnTitleStage and end_of_mission_briefing; the demo's
\* folder is none of the saved ones.
WritesProgress ==
  /\ g_StageNum # CUBA /\ objectives
  /\ briefingpage # NoPage /\ selected_difficulty # OO7 /\ ~g_AppendCheatSinglePlayer
  /\ selected_folder_num \in Folder

\* bossReturnTitleStage
EndLevel ==
  /\ Playing
  /\ times' = IF WritesProgress
              THEN [times EXCEPT ![selected_folder_num] =
                      WithCompleted(@, briefingpage, selected_difficulty)]
              ELSE times
  /\ RunTitle
  /\ UNCHANGED <<intro, outcome>>

\* The end of a dead player's cameras
EndOfDeath ==
  /\ Playing /\ g_isBondKIA
  /\ RunTitle
  /\ UNCHANGED <<intro, outcome, times>>

\* A demo has run out or a key was pressed (ramrom_replay_handler): the stage
\* fades to the title.
EndOfDemo ==
  /\ Playing /\ is_ramrom_flag
  /\ prev_keypresses' \in {prev_keypresses, TRUE}
  /\ RunTitle
  /\ UNCHANGED <<first_time, full_actor_intro, outcome, times>>

\* The watch of a solo player: the mission is aborted.
Abort ==
  /\ Playing /\ gamemode # "MULTI" /\ ~is_ramrom_flag
  /\ mission_failed_or_aborted' = TRUE
  /\ RunTitle
  /\ UNCHANGED <<intro, g_isBondKIA, objectives, times>>

-------------------------------------------------------------------------------
Next ==
  \/ LeaveForReload \/ SwitchScreens
  \/ EnterFileSelect \/ \E m \in Menu : EnterMenu(m)
  \/ EnterRunStage
  \/ IntroPasses \/ IntroKey \/ Cast \/ ChooseFolder \/ ChangeFolder
  \/ ModeSelect \/ CheatMenu \/ CheatCode \/ MpOptions
  \/ MissionSelect \/ DifficultyMenu \/ Options007 \/ Briefing
  \/ MissionFailed \/ MissionComplete
  \/ LoadTitle \/ LoadStage
  \/ ObjectivesChange \/ Killed \/ EndLevel \/ EndOfDeath \/ EndOfDemo \/ Abort

Spec == Init /\ [][Next]_vars

-------------------------------------------------------------------------------
(* Properties.                                                             *)

\* The menus that index mission_folder_setup_entries with the page find a
\* mission there, the one whose stage was or will be played: the page is set in
\* four places (the mission menu, the report, a match, a demo) and neither of
\* the menus checks it.
BriefingPageValid ==
  \A m \in {"DIFFICULTY", "007_OPTIONS", "BRIEFING"} \cup Reports :
    Shown(m) => briefingpage \in Mission /\ selected_stage = briefingpage

\* A solo game without cheats is played on a difficulty that the folder's times
\* have unlocked for the mission: the menus after the difficulty menu (the next
\* mission of the report above all) do not ask again.
RunsWhatIsUnlocked ==
  /\ Playing /\ InMission /\ ~is_ramrom_flag /\ ~g_AppendCheatSinglePlayer
  => selected_difficulty \in AGENT .. Highest(briefingpage)

\* Progress has no gaps, whatever mix of missions, codes, bonus missions and
\* cheats has led there: what is completed on a difficulty is completed on the
\* ones below, and a mission is never completed before the main ones ahead of it
\* in the campaign, though the report goes on without asking what is unlocked, the
\* cursor may come to rest on a locked mission and codes skip missions.
NoGaps ==
  \A f \in Folder : \A p \in times[f] :
    /\ \A e \in AGENT .. p[2] : <<p[1], e>> \in times[f]
    /\ \A n \in DAM .. (p[1] - 1) : n < AZTEC => <<n, AGENT>> \in times[f]

\* A stage that ends writes to the times of the chosen folder, and only the
\* mission that was played in it, without cheats: not a demo, a match or the
\* ending, though all four end in the same function with the page, folder and
\* difficulty of some earlier choice.
OnlyMissionsWriteProgress ==
  [][/\ Playing /\ g_MainStageNum' = TITLE /\ times' # times
     => /\ InMission /\ gamemode = "SOLO" /\ ~is_ramrom_flag /\ ~g_AppendCheatSinglePlayer
        /\ \A f \in Folder : \A p \in times'[f] \ times[f] :
             f = selected_folder_num /\ p[1] = g_StageNum]_vars

\* What the report calls completed is completed in the folder: the report reads
\* the objectives and flags that are left after the stage, the save was made
\* from others at its end.
CompletedIsSaved ==
  /\ \E m \in Reports : Shown(m)
  /\ Success /\ ~g_AppendCheatSinglePlayer /\ selected_difficulty # OO7
  => <<briefingpage, selected_difficulty>> \in selected
===============================================================================
