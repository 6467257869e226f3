-------------------------------- MODULE SaveFile --------------------------------
(***************************************************************************)
(* The save slots, src/game/file2.c, and the file that stands for the      *)
(* EEPROM, port/src/libultra.c.                                            *)
(*                                                                         *)
(* There is one slot more than there are folders.  A folder is saved into  *)
(* the free slot, under the next generation (a two bit number), and then   *)
(* the slot it was in is given up.  Each write of a slot rewrites the file *)
(* of the whole device: opening it empties it, closing it fills it.  The   *)
(* process may die anywhere; what it finds at the next start is put right  *)
(* by fileValidateSaves.                                                   *)
(*                                                                         *)
(* An operation of file2.c is decided by the slots in memory alone, so it  *)
(* is modelled by the list of the writes it makes, which are then made one *)
(* by one; fileValidateSaves makes one repair after the other.  A checksum *)
(* is good if and only if the block was written whole.                     *)
(***************************************************************************)
EXTENDS Integers, Sequences, FiniteSets

CONSTANTS
  NumFolders,   \* MAX_FOLDER_COUNT (4)
  MaxDone,      \* bound: the contents of the best times, 0 for none at all
  Rest,         \* contents of the cheats, the options, the volumes and the bond
  FreshRest,    \* those of BLANKSAVEDATA
  MaxFails      \* bound: how often fopen fails

ASSUME SaveFileAssumption ==
  NumFolders \in Nat \ {0} /\ MaxDone \in Nat /\ FreshRest \in Rest /\ MaxFails \in Nat

Folder == 1 .. NumFolders        \* FOLDER1 .. FOLDER4
Slot == 1 .. (NumFolders + 1)    \* SAVESLOT1 .. the one before SAVESLOTRAMROM
Block == {0} \cup Slot           \* block 0 is the smallSave ahead of the slots

Body == [done : 0 .. MaxDone, rest : Rest]
Fresh == [done |-> 0, rest |-> FreshRest]

Live(f, g, b) == [kind |-> "live", folder |-> f, gen |-> g, body |-> b]
Blank == [kind |-> "free"]       \* BLANKSAVEDATA: SAVEFLAG_DORESET
Bad == [kind |-> "bad"]          \* the checksum is wrong
Small == [kind |-> "small"]

Save == {Blank, Bad, Small} \cup
        [kind : {"live"}, folder : Folder, gen : 0 .. 3, body : Body]

VARIABLES
  saves,    \* saves[]
  eeprom,   \* s_eeprom
  file,     \* ge007.eep, as the last store that was finished left it
  store,    \* "closed", "open" (geEepromStore has emptied the file), or "off"
  todo,     \* the writes the operation under way has yet to make
  checking, \* fileValidateSaves is under way
  \* no variables of the code
  failed,   \* the latest fopen of a store failed
  fails     \* how often one has failed so far

vars == <<saves, eeprom, file, store, todo, checking, failed, fails>>

Image == [Block -> Save]
Write(i, v) == [block |-> i, value |-> v]

TypeOK ==
  /\ saves \in Image /\ eeprom \in Image /\ file \in Image
  /\ store \in {"closed", "open", "off"}
  /\ todo \in Seq([block : Block, value : Save])
  /\ checking \in BOOLEAN
  /\ failed \in BOOLEAN /\ fails \in 0 .. MaxFails

\* There is no file yet, and no process.
Init ==
  /\ file = [i \in Block |-> Bad] /\ eeprom = file /\ saves = file
  /\ store = "off" /\ todo = <<>> /\ checking = FALSE /\ failed = FALSE /\ fails = 0

-------------------------------------------------------------------------------
(* What the operations look up.                                            *)

First(S) == CHOOSE i \in S : \A j \in S : i <= j

IsLiveOf(image, i, f) == image[i].kind = "live" /\ image[i].folder = f
SlotsOf(image, f) == {i \in Slot : IsLiveOf(image, i, f)}
FreeSlots(image) == {i \in Slot : image[i].kind = "free"}

\* fileGetSaveForFoldernum; 0 for NULL
SlotOf(image, f) == IF SlotsOf(image, f) = {} THEN 0 ELSE First(SlotsOf(image, f))

\* The image after the first n of a list of writes.
After(image, writes, n) ==
  LET a[k \in 0 .. n] ==
        IF k = 0 THEN image ELSE [a[k - 1] EXCEPT ![writes[k].block] = writes[k].value]
  IN a[n]

-------------------------------------------------------------------------------
(* fileValidateSaves                                                       *)

\* (faulty variant of Newer: without the wrap of the generation)
NewerUnwrapped(gen, than) == gen = than + 1
Newer(gen, than) == gen = (than + 1) % 4

\* Of the first two slots S of one folder the second wins if its generation
\* comes just after.
Loser(image, S) ==
  LET a == First(S)
      b == First(S \ {a})
  IN IF Newer(image[b].gen, image[a].gen) THEN a ELSE b

\* The slot that is left when all the others have lost.
Kept(image, f) ==
  LET k[S \in SUBSET Slot] == IF Cardinality(S) < 2 THEN S ELSE k[S \ {Loser(image, S)}]
  IN k[SlotsOf(image, f)]

BadSlots(image) == {i \in Slot : image[i] = Bad}
Doubled(image) == {f \in Folder : Cardinality(SlotsOf(image, f)) > 1}

\* (faulty variant of Missing: a folder without a slot is left without one)
NoneMissing(image) == {}
Missing(image) ==
  {f \in Folder : SlotsOf(image, f) = {} /\ FreeSlots(image) # {}}

Sound(image) ==
  image[0] = Small /\ BadSlots(image) = {} /\ Doubled(image) \cup Missing(image) = {}

\* The next repair: the smallSave is written anew, slots with a wrong checksum
\* are blanked, and then, folder by folder, a slot too many is blanked, and a
\* folder without any is given one (fileBuildWriteNewSave).
NextRepair(image) ==
  IF image[0] # Small THEN Write(0, Small)
  ELSE IF BadSlots(image) # {} THEN Write(First(BadSlots(image)), Blank)
  ELSE LET f == First(Doubled(image) \cup Missing(image))
       IN IF f \in Doubled(image) THEN Write(Loser(image, SlotsOf(image, f)), Blank)
          ELSE Write(First(FreeSlots(image)), Live(f, 0, Fresh))

\* The content that all the repairs together leave each folder of an image.
Recovered(image) ==
  [f \in Folder |-> IF Kept(image, f) = {} THEN Fresh ELSE image[First(Kept(image, f))].body]

-------------------------------------------------------------------------------
(* Writes: fileWriteSave, geEepromRW and geEepromStore.                    *)

\* (faulty variant of Store: the file is not written)
StoreNothing == UNCHANGED <<file, store, failed, fails>>

\* fopen either empties the file, or fails, which is only logged.
Store ==
  \/ store' = "open" /\ failed' = FALSE /\ UNCHANGED <<file, fails>>
  \/ failed' = TRUE /\ fails < MaxFails /\ fails' = fails + 1 /\ UNCHANGED <<file, store>>

\* fileWriteSave: the block is put into memory and into the image, and the file
\* is opened.
WriteBlock(w) ==
  /\ store = "closed"
  /\ saves' = [saves EXCEPT ![w.block] = w.value]
  /\ eeprom' = [eeprom EXCEPT ![w.block] = w.value]
  /\ Store

WriteNext ==
  /\ todo # <<>>
  /\ WriteBlock(Head(todo))
  /\ todo' = Tail(todo)
  /\ UNCHANGED checking

WriteRepair ==
  /\ checking /\ ~Sound(saves)
  /\ WriteBlock(NextRepair(saves))
  /\ UNCHANGED <<todo, checking>>

EndCheck ==
  /\ checking /\ Sound(saves) /\ store = "closed"
  /\ checking' = FALSE
  /\ UNCHANGED <<saves, eeprom, file, store, todo, failed, fails>>

CloseFile ==
  /\ store = "open"
  /\ file' = eeprom /\ store' = "closed"
  /\ UNCHANGED <<saves, eeprom, todo, checking, failed, fails>>

Idle == store = "closed" /\ todo = <<>> /\ ~checking

\* What is left of an image when the file ends after its first n blocks.
Torn(image, n) == [i \in Block |-> IF i < n THEN image[i] ELSE Bad]

\* The process dies; a file that was open has been written up to some block.
Crash ==
  /\ store # "off" /\ store' = "off"
  /\ \/ store = "closed" /\ UNCHANGED file
     \/ store = "open" /\ \E n \in 0 .. NumFolders + 2 : file' = Torn(eeprom, n)
  /\ todo' = <<>> /\ checking' = FALSE
  /\ saves' = file' /\ eeprom' = file' /\ failed' = FALSE
  /\ UNCHANGED fails

\* The process starts: geEepromLoad, then fileValidateSaves.
Boot ==
  /\ store = "off" /\ store' = "closed"
  /\ eeprom' = file /\ saves' = file
  /\ checking' = TRUE
  /\ UNCHANGED <<file, todo, failed, fails>>

\* fileValidateSaves again, when the legal screen comes up.
Validate ==
  /\ Idle
  /\ saves' = eeprom
  /\ checking' = TRUE
  /\ UNCHANGED <<eeprom, file, store, todo, failed, fails>>

-------------------------------------------------------------------------------
(* The operations of the game.                                             *)

\* (faulty variant of Overwrite: the old slot is given up first)
OverwriteInPlace(f, old, b) ==
  <<Write(old, Blank), Write(First(FreeSlots(saves)), Live(f, (saves[old].gen + 1) % 4, b))>>

\* fileOverwriteSaveSlotWithNewSave
Overwrite(f, old, b) ==
  IF FreeSlots(saves) = {} THEN <<>>
  ELSE LET gen == IF old = 0 THEN 0 ELSE (saves[old].gen + 1) % 4
       IN <<Write(First(FreeSlots(saves)), Live(f, gen, b))>>
            \o (IF old = 0 THEN <<>> ELSE <<Write(old, Blank)>>)

BodyOf(f) == IF SlotOf(saves, f) = 0 THEN Fresh ELSE saves[SlotOf(saves, f)].body

Start(writes) ==
  /\ Idle
  /\ todo' = writes
  /\ UNCHANGED <<saves, eeprom, file, store, checking, failed, fails>>

\* A stage is completed; end_of_mission_briefing calls this and then, for a
\* target time that was met, UnlockCheat.
CompleteStage(f) ==
  \E d \in BodyOf(f).done .. MaxDone :
    /\ d > 0
    /\ Start(Overwrite(f, SlotOf(saves, f), [BodyOf(f) EXCEPT !.done = d]))

ChangeRest(f) ==
  \E r \in Rest \ {BodyOf(f).rest} :
    Start(Overwrite(f, SlotOf(saves, f), [BodyOf(f) EXCEPT !.rest = r]))

\* Each of these writes only if it changes something.
UnlockCheat(f) == ChangeRest(f)
SaveSettings(f) == ChangeRest(f)    \* fileClearSavefileForFolder, in spite of its name
SelectBond(f) == ChangeRest(f)

\* Only a folder with a stage completed is deleted, and in place.
DeleteFolder(f) ==
  /\ BodyOf(f).done > 0
  /\ Start(<<Write(SlotOf(saves, f), Live(f, 0, Fresh))>>)

\* To the first folder without a completed stage, whatever else that holds.
CopyFolder(f) ==
  LET empty == {g \in Folder : BodyOf(g).done = 0}
  IN /\ BodyOf(f).done > 0 /\ empty # {}
     /\ Start(Overwrite(First(empty), SlotOf(saves, First(empty)), BodyOf(f)))

Next ==
  \/ WriteNext \/ WriteRepair \/ EndCheck \/ CloseFile
  \/ Crash \/ Boot \/ Validate
  \/ \E f \in Folder :
       \/ CompleteStage(f) \/ UnlockCheat(f) \/ SaveSettings(f) \/ SelectBond(f)
       \/ DeleteFolder(f) \/ CopyFolder(f)

Spec == Init /\ [][Next]_vars

-------------------------------------------------------------------------------
(* Properties                                                              *)

\* Between operations each folder has exactly one slot and one slot is left
\* over, whatever crashes, torn files and failed writes came before: so no later
\* save is skipped for want of a free slot, and no folder has two histories.
OneSlotEach ==
  Idle => /\ \A f \in Folder : Cardinality(SlotsOf(saves, f)) = 1
          /\ Cardinality(FreeSlots(saves)) = 1
          /\ saves[0] = Small

\* From the moment the new slot is on the file, and not only when the old one is
\* given up, a restart finds just what the game has now, whichever of the two
\* comes first and however often the generation has wrapped; a write that was
\* skipped because fopen failed is made up for by the next.
SavedOnceWritten ==
  /\ store = "closed" /\ ~failed /\ ~checking
  /\ \A k \in 1 .. Len(todo) : todo[k].value = Blank
  => Recovered(file) = Recovered(After(saves, todo, Len(todo)))

\* Each image the device may be found with whole, as the program goes on from here.
Candidates == {file} \cup {After(eeprom, todo, n) : n \in 0 .. Len(todo)}

Abs == INSTANCE SaveStore WITH
  current <- Recovered(After(eeprom, todo, Len(todo))),
  outcomes <- [f \in Folder |-> {Recovered(c)[f] : c \in Candidates}],
  remains <- [f \in Folder |->
                {Fresh} \cup UNION {{c[i].body : i \in SlotsOf(c, f)} : c \in Candidates}],
  rewriting <- (store = "open")

\* A crash between any two writes costs a folder nothing but the change being
\* made and never brings back what was replaced; one inside a rewrite of the
\* file may blank the folder or undo the latest change, and nothing worse.
ImplementsStore == Abs!Spec
===============================================================================
