------------------------------- MODULE SaveStore -------------------------------
(***************************************************************************)
(* What the save slots of src/game/file2.c promise the player.  When the   *)
(* program dies, each folder comes back with what it held when the device  *)
(* was last written, or with what has been put into it since, and never    *)
(* with anything older.  If it dies while the device is being rewritten, a *)
(* folder may also come back empty, or with a content whose replacement    *)
(* had not been brought to its end.                                        *)
(***************************************************************************)
CONSTANTS Folder, Body, Fresh

VARIABLES
  current,    \* the content of each folder
  outcomes,   \* the contents a restart may find
  remains,    \* those it may find if a rewrite of the device is interrupted
  rewriting   \* the device is being rewritten

vars == <<current, outcomes, remains, rewriting>>

Init ==
  /\ current \in [Folder -> Body]
  /\ outcomes \in [Folder -> SUBSET Body]
  /\ remains \in [Folder -> SUBSET Body]
  /\ rewriting \in BOOLEAN

\* The game changes one folder, which from now on may come back with that.
Play(f, b) ==
  /\ ~rewriting
  /\ current' = [current EXCEPT ![f] = b]
  /\ \A g \in Folder :
       LET new == IF g = f THEN {b} ELSE {}
       IN outcomes'[g] \subseteq outcomes[g] \cup new /\ remains'[g] \subseteq remains[g] \cup new
  /\ UNCHANGED rewriting

\* The device is rewritten: with each write less may come back.
Rewrite ==
  /\ \A f \in Folder : outcomes'[f] \subseteq outcomes[f] /\ remains'[f] \subseteq remains[f]
  /\ UNCHANGED current
  /\ rewriting' \in BOOLEAN

Restart ==
  /\ \A f \in Folder :
       /\ current'[f] \in IF rewriting THEN remains[f] ELSE outcomes[f]
       /\ outcomes'[f] = {current'[f]}
       /\ remains'[f] \subseteq remains[f]
  /\ ~rewriting'

Next == (\E f \in Folder, b \in Body : Play(f, b)) \/ Rewrite \/ Restart

Spec == Init /\ [][Next]_vars
===============================================================================
