---------------------------- MODULE SaveFile_proofs ----------------------------
(***************************************************************************)
(* Proofs about the save slots (SaveFile), for any number of folders and   *)
(* any contents: between operations each folder has exactly one slot and   *)
(* one is left over, a restart finds a folder as soon as its new slot is   *)
(* written, and the whole keeps what SaveStore promises, with crashes and  *)
(* failed writes at any point.                                             *)
(*                                                                         *)
(* The invariant (SInv) says where in an operation the program is: the     *)
(* slots are settled, or the writes yet to be made are those of a deletion *)
(* or a save, or the new slot is written and the old one is to be given    *)
(* up.  While a check is under way it says no more of the slots than that  *)
(* no folder has more than two: that much survives a torn file, and from   *)
(* that much the repairs come back to a settled image.                     *)
(***************************************************************************)
EXTENDS SaveFile, FiniteSetTheorems, SequenceTheorems, WellFoundedInduction, TLAPS

-------------------------------------------------------------------------------
(* Sets of naturals and of slots.                                          *)

\* A set of naturals with an element has a least one.
LEMMA LeastNatural ==
  ASSUME NEW T, T \subseteq Nat, T # {}
  PROVE  \E x \in T : \A y \in T : x <= y
<1> DEFINE R == OpToRel(<, Nat)
<1>1. \A x \in Nat, y \in Nat : x < y => <<x, y>> \in R
  BY DEF OpToRel
<1>2. IsWellFoundedOn(R, Nat)
  BY NatLessThanWellFounded
<1> HIDE DEF R
<1>3. PICK x \in T : \A y \in T : ~(<<y, x>> \in R)
  BY <1>2, WFMin
<1>4. \A y \in T : ~(y < x)
  BY <1>1, <1>3
<1>5. x \in Nat /\ \A y \in T : y \in Nat
  BY <1>3
<1>6. \A y \in T : x <= y
  BY <1>4, <1>5
<1> QED BY <1>3, <1>6

\* First finds it.
LEMMA FirstIs ==
  ASSUME NEW T, T \subseteq Nat, T # {}
  PROVE  First(T) \in T /\ \A y \in T : First(T) <= y
BY LeastNatural DEF First

\* The slots and the folders are finite sets of naturals.
LEMMA Slots ==
  /\ Slot \subseteq Nat /\ Folder \subseteq Nat /\ Slot \subseteq Block
  /\ 0 \notin Slot /\ 0 \in Block
  /\ IsFiniteSet(Slot) /\ Cardinality(Slot) = NumFolders + 1
  /\ IsFiniteSet(Folder) /\ Cardinality(Folder) = NumFolders
<1>1. NumFolders \in Nat \ {0}
  BY SaveFileAssumption
<1>2. IsFiniteSet(Slot) /\ Cardinality(Slot) = NumFolders + 1
  <2>1. Cardinality(Slot) = IF 1 > NumFolders + 1 THEN 0 ELSE (NumFolders + 1) - 1 + 1
    BY <1>1, FS_Interval DEF Slot
  <2> QED BY <1>1, <2>1, FS_Interval DEF Slot
<1>3. IsFiniteSet(Folder) /\ Cardinality(Folder) = NumFolders
  <2>1. Cardinality(Folder) = IF 1 > NumFolders THEN 0 ELSE NumFolders - 1 + 1
    BY <1>1, FS_Interval DEF Folder
  <2> QED BY <1>1, <2>1, FS_Interval DEF Folder
<1> QED BY <1>1, <1>2, <1>3 DEF Slot, Folder, Block

\* What is in a block is told by its kind.
LEMMA Kinds ==
  /\ Blank.kind = "free" /\ Bad.kind = "bad" /\ Small.kind = "small"
  /\ Blank \in Save /\ Bad \in Save /\ Small \in Save
  /\ \A f \in Folder, g \in 0 .. 3, b \in Body :
       /\ Live(f, g, b) \in Save /\ Live(f, g, b).kind = "live" /\ Live(f, g, b).folder = f
       /\ Live(f, g, b).gen = g /\ Live(f, g, b).body = b
  /\ \A v \in Save :
       /\ v.kind \in {"live", "free", "bad", "small"}
       /\ v.kind = "free" => v = Blank
       /\ v.kind = "bad" => v = Bad
       /\ v.kind = "small" => v = Small
       /\ v.kind = "live" => v.folder \in Folder /\ v.gen \in 0 .. 3 /\ v.body \in Body
BY DEF Blank, Bad, Small, Live, Save

\* The image new is what the write of a value to a slot makes of another.
Written(new, image, i, v) ==
  /\ image \in Image /\ new \in Image
  /\ new[i] = v
  /\ \A j \in Block : j # i => new[j] = image[j]

\* Writes do that, and leave block 0 alone.
LEMMA WriteWrites ==
  ASSUME NEW image \in Image, NEW i \in Slot, NEW v \in Save
  PROVE  Written([image EXCEPT ![i] = v], image, i, v)
BY Slots DEF Image, Written

\* A write to a slot changes neither block 0 nor any other slot.
LEMMA WrittenElsewhere ==
  ASSUME NEW new, NEW image, NEW i \in Slot, NEW v, Written(new, image, i, v)
  PROVE  new[0] = image[0] /\ \A j \in Slot : j # i => new[j] = image[j]
BY Slots DEF Written

-------------------------------------------------------------------------------
(* Which of its slots a folder keeps.                                      *)

Survivor(image, g) ==
  [S \in SUBSET Slot |-> IF Cardinality(S) < 2 THEN S ELSE g[S \ {Loser(image, S)}]]

\* Of two slots or more one of them loses.
LEMMA LoserIsOne ==
  ASSUME NEW image, NEW S \in SUBSET Slot, ~(Cardinality(S) < 2)
  PROVE  Loser(image, S) \in S
<1>1. IsFiniteSet(S) /\ Cardinality(S) \in Nat /\ S \subseteq Nat
  BY Slots, FS_Subset, FS_CardinalityType
<1>2. S # {}
  BY <1>1, FS_EmptySet
<1>3. First(S) \in S
  BY <1>1, <1>2, FirstIs
<1>4. S \ {First(S)} # {}
  <2>1. Cardinality(S \ {First(S)}) = Cardinality(S) - 1
    BY <1>1, <1>3, FS_RemoveElement
  <2> QED BY <1>1, <2>1, FS_EmptySet
<1>5. First(S \ {First(S)}) \in S
  <2>1. S \ {First(S)} \subseteq Nat
    BY <1>1
  <2> QED BY <1>4, <2>1, FirstIs
<1> QED BY <1>3, <1>5 DEF Loser

\* There is such a function: each round leaves fewer slots.
LEMMA SurvivorExists ==
  ASSUME NEW image
  PROVE  \E g : g = Survivor(image, g)
<1> DEFINE Upto(n) == {S \in SUBSET Slot : Cardinality(S) <= n}
           Step(n, g) == [S \in Upto(n) |-> IF Cardinality(S) < 2 THEN S
                                             ELSE g[S \ {Loser(image, S)}]]
           P(n) == \E g : g = Step(n, g)
<1>1. \A S \in SUBSET Slot : Cardinality(S) \in Nat
  BY Slots, FS_Subset, FS_CardinalityType
<1>2. P(0)
  <2>1. Step(0, <<>>) = Step(0, Step(0, <<>>))
    BY <1>1
  <2> QED BY <2>1
<1>3. ASSUME NEW n \in Nat, P(n) PROVE P(n + 1)
  <2>1. PICK g : g = Step(n, g)
    BY <1>3
  <2> DEFINE h == Step(n + 1, g)
  <2>2. \A S \in Upto(n) : h[S] = g[S]
    <3>1. \A S \in Upto(n) : S \in Upto(n + 1)
      BY <1>1
    <3>2. \A S \in Upto(n) : g[S] = IF Cardinality(S) < 2 THEN S ELSE g[S \ {Loser(image, S)}]
      <4>1. \A S \in Upto(n) :
              Step(n, g)[S] = IF Cardinality(S) < 2 THEN S ELSE g[S \ {Loser(image, S)}]
        OBVIOUS
      <4> QED BY <2>1, <4>1, Zenon
    <3> QED BY <3>1, <3>2
  <2>3. \A S \in Upto(n + 1) : ~(Cardinality(S) < 2) => S \ {Loser(image, S)} \in Upto(n)
    <3> TAKE S \in Upto(n + 1)
    <3> HAVE ~(Cardinality(S) < 2)
    <3>1. IsFiniteSet(S) /\ Loser(image, S) \in S
      BY Slots, FS_Subset, LoserIsOne
    <3>2. Cardinality(S \ {Loser(image, S)}) = Cardinality(S) - 1
      BY <3>1, FS_RemoveElement
    <3> QED BY <1>1, <3>2
  <2> HIDE DEF Upto
  <2>4. \A S \in Upto(n + 1) : (IF Cardinality(S) < 2 THEN S ELSE g[S \ {Loser(image, S)}])
                             = (IF Cardinality(S) < 2 THEN S ELSE h[S \ {Loser(image, S)}])
    BY <2>2, <2>3
  <2> HIDE DEF h
  <2>5. Step(n + 1, g) = Step(n + 1, h)
    BY <2>4
  <2> QED BY <2>5 DEF h
<1>4. \A n \in Nat : P(n)
  <2> DEFINE T == {n \in Nat : ~P(n)}
  <2> HIDE DEF P
  <2>1. SUFFICES T = {}
    OBVIOUS
  <2>2. SUFFICES ASSUME T # {} PROVE FALSE
    OBVIOUS
  <2>3. PICK n \in T : \A m \in T : n <= m
    BY <2>2, LeastNatural
  <2>4. n # 0 /\ n - 1 \in Nat
    BY <1>2, <2>3
  <2>5. P(n - 1)
    BY <2>3, <2>4
  <2>6. P((n - 1) + 1)
    BY <1>3, <2>4, <2>5
  <2>7. (n - 1) + 1 = n
    BY <2>3
  <2> QED BY <2>3, <2>6, <2>7
<1>5. PICK g : g = Step(NumFolders + 1, g)
  <2>1. NumFolders + 1 \in Nat
    BY SaveFileAssumption
  <2>2. P(NumFolders + 1)
    BY <1>4, <2>1
  <2> QED BY <2>2
<1>6. Upto(NumFolders + 1) = SUBSET Slot
  BY Slots, FS_Subset
<1>7. Step(NumFolders + 1, g) = Survivor(image, g)
  BY <1>6 DEF Survivor
<1> QED BY <1>5, <1>7

\* A single slot is kept, and of two the one that does not lose.
LEMMA KeptIs ==
  ASSUME NEW image, NEW f
  PROVE  /\ Cardinality(SlotsOf(image, f)) < 2 => Kept(image, f) = SlotsOf(image, f)
         /\ Cardinality(SlotsOf(image, f)) = 2 =>
              Kept(image, f) = SlotsOf(image, f) \ {Loser(image, SlotsOf(image, f))}
<1> DEFINE S == SlotsOf(image, f)
           k == CHOOSE g : g = Survivor(image, g)
<1>1. k = Survivor(image, k)
  BY SurvivorExists
<1>2. Kept(image, f) = k[S]
  BY DEF Kept, Survivor
<1> HIDE DEF k
<1>3. \A R \in SUBSET Slot :
        k[R] = IF Cardinality(R) < 2 THEN R ELSE k[R \ {Loser(image, R)}]
  <2>1. \A R \in SUBSET Slot :
          Survivor(image, k)[R] = IF Cardinality(R) < 2 THEN R ELSE k[R \ {Loser(image, R)}]
    BY DEF Survivor
  <2> QED BY <1>1, <2>1, Zenon
<1>4. S \in SUBSET Slot /\ IsFiniteSet(S) /\ Cardinality(S) \in Nat
  BY Slots, FS_Subset, FS_CardinalityType DEF SlotsOf
<1>5. ASSUME Cardinality(S) < 2 PROVE k[S] = S
  BY <1>3, <1>4, <1>5
<1>6. ASSUME Cardinality(S) = 2 PROVE k[S] = S \ {Loser(image, S)}
  <2>1. ~(Cardinality(S) < 2)
    BY <1>6
  <2>2. Loser(image, S) \in S
    BY <1>4, <2>1, LoserIsOne
  <2>3. Cardinality(S \ {Loser(image, S)}) = Cardinality(S) - 1
    BY <1>4, <2>2, FS_RemoveElement
  <2>4. S \ {Loser(image, S)} \in SUBSET Slot /\ Cardinality(S \ {Loser(image, S)}) < 2
    BY <1>4, <1>6, <2>3
  <2>5. k[S \ {Loser(image, S)}] = S \ {Loser(image, S)}
    BY <1>3, <2>4
  <2> QED BY <1>3, <1>4, <2>1, <2>5
<1> QED BY <1>2, <1>5, <1>6

\* A folder without a slot keeps none, one with a single slot keeps that.
LEMMA KeptNoneOrOne ==
  ASSUME NEW image, NEW f
  PROVE  /\ SlotsOf(image, f) = {} => Kept(image, f) = {}
         /\ \A i : SlotsOf(image, f) = {i} => Kept(image, f) = {i}
<1>1. Cardinality(SlotsOf(image, f)) < 2 => Kept(image, f) = SlotsOf(image, f)
  BY KeptIs
<1>2. ASSUME SlotsOf(image, f) = {} PROVE Cardinality(SlotsOf(image, f)) < 2
  BY <1>2, FS_EmptySet
<1>3. ASSUME NEW i, SlotsOf(image, f) = {i} PROVE Cardinality(SlotsOf(image, f)) < 2
  BY <1>3, FS_Singleton
<1> QED BY <1>1, <1>2, <1>3

\* A folder is in two slots, of which n has the later generation.
InTwo(image, f, o, n) ==
  /\ o # n /\ SlotsOf(image, f) = {o, n}
  /\ image[o].gen \in 0 .. 3 /\ image[n].gen = (image[o].gen + 1) % 4

\* Of two slots of a folder that with the later generation wins, also when the
\* two bits have wrapped, and whichever of the two comes first.
LEMMA LaterWins ==
  ASSUME NEW image, NEW f, NEW o \in Slot, NEW n \in Slot, InTwo(image, f, o, n)
  PROVE  Loser(image, {o, n}) = o /\ Kept(image, f) = {n}
<1> USE DEF InTwo
<1>1. Loser(image, {o, n}) = o
  <2>1. ~Newer(image[o].gen, image[n].gen) /\ Newer(image[n].gen, image[o].gen)
    <3> DEFINE g == image[o].gen
    <3>1. g = 0 \/ g = 1 \/ g = 2 \/ g = 3
      OBVIOUS
    <3> QED BY <3>1 DEF Newer
  <2>2. {o, n} \subseteq Nat
    BY Slots
  <2>3. First({o, n}) \in {o, n}
    BY <2>2, FirstIs
  <2>4. CASE First({o, n}) = o
    <3>1. {o, n} \ {o} = {n}
      OBVIOUS
    <3>2. First({n}) = n
      BY <2>2, FirstIs
    <3> QED BY <2>1, <2>4, <3>1, <3>2 DEF Loser
  <2>5. CASE First({o, n}) = n
    <3>1. {o, n} \ {n} = {o}
      OBVIOUS
    <3>2. First({o}) = o
      BY <2>2, FirstIs
    <3> QED BY <2>1, <2>5, <3>1, <3>2 DEF Loser
  <2> QED BY <2>3, <2>4, <2>5
<1>2. Cardinality({o, n}) = 2
  <2>1. {o, n} = {o} \cup {n}
    OBVIOUS
  <2>2. IsFiniteSet({o}) /\ Cardinality({o}) = 1 /\ n \notin {o}
    BY FS_Singleton
  <2>3. Cardinality({o} \cup {n}) = 2
    BY <2>2, FS_AddElement
  <2> QED BY <2>1, <2>3, Zenon
<1>3. Cardinality(SlotsOf(image, f)) = 2
  BY <1>2, Zenon
<1>4. Kept(image, f) = SlotsOf(image, f) \ {Loser(image, SlotsOf(image, f))}
  BY <1>3, KeptIs, Zenon
<1>5. Kept(image, f) = {o, n} \ {o}
  BY <1>1, <1>4, Zenon
<1> QED BY <1>1, <1>5

-------------------------------------------------------------------------------
(* The invariant.                                                          *)

NoSmall(image) == \A i \in Slot : image[i].kind # "small"
TwoAtMost(image) == \A f \in Folder : Cardinality(SlotsOf(image, f)) <= 2

\* The slots hold a save or none.
Clean(image) == image[0] = Small /\ \A i \in Slot : image[i].kind \in {"live", "free"}
HasOne(image, f) == \E i \in Slot : SlotsOf(image, f) = {i}

\* Between operations.
Settled(image) ==
  /\ Clean(image) /\ \A f \in Folder : HasOne(image, f)
  /\ \E i \in Slot : FreeSlots(image) = {i}

\* A folder has been saved into the slot that was free; the old one is still there.
Moved(image, f, o, n) ==
  /\ Clean(image) /\ \A g \in Folder \ {f} : HasOne(image, g)
  /\ o # n /\ SlotsOf(image, f) = {o, n} /\ image[n].gen = (image[o].gen + 1) % 4
  /\ FreeSlots(image) = {}

\* The writes of an operation that are yet to be made to an image: a folder is to
\* be emptied in place; saved anew, and its old slot given up; only the latter.
Deletes(image, writes, f, i) ==
  /\ Settled(image) /\ SlotsOf(image, f) = {i}
  /\ writes = <<Write(i, Live(f, 0, Fresh))>>
SavesAnew(image, writes, f, o, n, b) ==
  /\ Settled(image) /\ SlotsOf(image, f) = {o} /\ FreeSlots(image) = {n}
  /\ writes = <<Write(n, Live(f, (image[o].gen + 1) % 4, b)), Write(o, Blank)>>
GivesUp(image, writes, f, o, n) == Moved(image, f, o, n) /\ writes = <<Write(o, Blank)>>

Planned(image, writes) ==
  \/ writes = <<>> /\ Settled(image)
  \/ \E f \in Folder, i \in Slot : Deletes(image, writes, f, i)
  \/ \E f \in Folder, o, n \in Slot, b \in Body : SavesAnew(image, writes, f, o, n, b)
  \/ \E f \in Folder, o, n \in Slot : GivesUp(image, writes, f, o, n)

SInv ==
  /\ TypeOK
  /\ eeprom = saves
  /\ NoSmall(saves) /\ TwoAtMost(saves) /\ NoSmall(file) /\ TwoAtMost(file)
  /\ store = "closed" /\ ~failed => file = saves
  /\ checking => todo = <<>>
  /\ store = "off" => file = saves /\ ~failed /\ todo = <<>> /\ ~checking
  /\ store # "off" /\ ~checking => Planned(saves, todo)

-------------------------------------------------------------------------------
(* Settling.                                                               *)

\* Images without a fault are settled: there is one slot more than folders, so
\* one is left over when no folder has two, and no folder has none.
LEMMA SoundIsSettled ==
  ASSUME NEW image \in Image, NoSmall(image), Sound(image)
  PROVE  Settled(image)
<1>1. image[0] = Small /\ BadSlots(image) = {} /\ Doubled(image) = {} /\ Missing(image) = {}
  BY DEF Sound
<1>2. \A i \in Slot : image[i] \in Save
  BY Slots DEF Image
<1>3. Clean(image)
  BY <1>1, <1>2, Kinds DEF Clean, NoSmall, BadSlots
<1>4. \A f \in Folder : \A i, j \in SlotsOf(image, f) : i = j
  <2> TAKE f \in Folder
  <2>1. IsFiniteSet(SlotsOf(image, f)) /\ ~(Cardinality(SlotsOf(image, f)) > 1)
    BY <1>1, Slots, FS_Subset DEF SlotsOf, Doubled
  <2>2. Cardinality(SlotsOf(image, f)) \in Nat
    BY <2>1, FS_CardinalityType
  <2>3. Cardinality(SlotsOf(image, f)) = 0 \/ Cardinality(SlotsOf(image, f)) = 1
    BY <2>1, <2>2
  <2> QED BY <2>1, <2>3, FS_EmptySet, FS_Singleton
<1>5. \A i \in Slot : image[i].kind = "live" =>
        image[i].folder \in Folder /\ i \in SlotsOf(image, image[i].folder)
  BY <1>2, Kinds DEF SlotsOf, IsLiveOf
<1>6. FreeSlots(image) # {}
  <2>1. SUFFICES ASSUME \A i \in Slot : image[i].kind = "live" PROVE FALSE
    BY <1>3 DEF Clean, FreeSlots
  <2> DEFINE h == [i \in Slot |-> image[i].folder]
  <2>2. h \in [Slot -> Folder]
    BY <1>5, <2>1
  <2>3. PICK i, j \in Slot : i # j /\ h[i] = h[j]
    <3>1. NumFolders < NumFolders + 1
      BY SaveFileAssumption
    <3> HIDE DEF h
    <3>2. Cardinality(Folder) < Cardinality(Slot)
      BY Slots, <3>1
    <3> QED BY Slots, <2>2, <3>2, FS_PigeonHole
  <2>4. image[i].folder = image[j].folder
    BY <2>3
  <2> QED BY <1>4, <1>5, <2>1, <2>3, <2>4
<1>7. \A f \in Folder : SlotsOf(image, f) # {}
  BY <1>1, <1>6 DEF Missing
<1>8. \A f \in Folder : HasOne(image, f)
  <2> TAKE f \in Folder
  <2>1. PICK i : i \in SlotsOf(image, f)
    BY <1>7
  <2>2. i \in Slot /\ SlotsOf(image, f) = {i}
    BY <1>4, <2>1 DEF SlotsOf
  <2> QED BY <2>2 DEF HasOne
<1>9. PICK a \in Slot : a \in FreeSlots(image)
  BY <1>6 DEF FreeSlots
<1>10. ASSUME NEW b \in FreeSlots(image), b # a PROVE FALSE
  <2> DEFINE Used == Slot \ {a, b}
             s == [f \in Folder |-> CHOOSE i \in Slot : SlotsOf(image, f) = {i}]
  <2>1. \A f \in Folder : s[f] \in Slot /\ SlotsOf(image, f) = {s[f]}
    BY <1>8 DEF HasOne
  <2> HIDE DEF s
  <2>2. \A f \in Folder : s[f] \in Used /\ image[s[f]].folder = f
    <3> TAKE f \in Folder
    <3>1. s[f] \in SlotsOf(image, f)
      BY <2>1
    <3>2. image[s[f]].kind = "live" /\ image[s[f]].folder = f
      BY <3>1 DEF SlotsOf, IsLiveOf
    <3>3. image[a].kind = "free" /\ image[b].kind = "free"
      BY <1>9 DEF FreeSlots
    <3> QED BY <2>1, <3>2, <3>3
  <2>3. IsFiniteSet(Used) /\ Cardinality(Used) = NumFolders - 1
    <3>1. Used = (Slot \ {a}) \ {b} /\ b \in Slot \ {a}
      BY <1>10 DEF FreeSlots
    <3>2. IsFiniteSet(Slot \ {a}) /\ Cardinality(Slot \ {a}) = Cardinality(Slot) - 1
      BY Slots, FS_RemoveElement
    <3>3. IsFiniteSet(Used) /\ Cardinality(Used) = (Cardinality(Slot) - 1) - 1
      BY <3>1, <3>2, FS_RemoveElement
    <3> QED BY <3>3, Slots, SaveFileAssumption
  <2> DEFINE h == [f \in Folder |-> s[f]]
  <2>4. h \in [Folder -> Used]
    BY <2>2
  <2>5. \E f, g \in Folder : f # g /\ h[f] = h[g]
    <3>1. Cardinality(Used) < Cardinality(Folder)
      BY <2>3, Slots, SaveFileAssumption
    <3> HIDE DEF h, Used
    <3> QED BY <2>3, <2>4, <3>1, Slots, FS_PigeonHole
  <2> QED BY <2>2, <2>5
<1>11. FreeSlots(image) = {a}
  BY <1>9, <1>10
<1> QED BY <1>3, <1>8, <1>11 DEF Settled

\* So there is one slot for each folder, and one left.
LEMMA SettledCounts ==
  ASSUME NEW image, Settled(image)
  PROVE  /\ \A f \in Folder : Cardinality(SlotsOf(image, f)) = 1
         /\ Cardinality(FreeSlots(image)) = 1
         /\ image[0] = Small
BY FS_Singleton DEF Settled, Clean, HasOne

\* The new save of a folder in the free slot.
LEMMA SavingMoves ==
  ASSUME NEW image \in Image, Settled(image), NEW f \in Folder, NEW o \in Slot, NEW n \in Slot,
         SlotsOf(image, f) = {o}, FreeSlots(image) = {n}, NEW b \in Body,
         NEW new, Written(new, image, n, Live(f, (image[o].gen + 1) % 4, b))
  PROVE  /\ new \in Image /\ Moved(new, f, o, n)
         /\ new[n].body = b /\ new[o].gen \in 0 .. 3
         /\ \A g \in Folder \ {f} : SlotsOf(new, g) = SlotsOf(image, g)
         /\ \A j \in Block : j # n => new[j] = image[j]
<1> DEFINE v == Live(f, (image[o].gen + 1) % 4, b)
<1>1. image[o].kind = "live" /\ image[o].folder = f /\ image[n].kind = "free"
  BY DEF SlotsOf, IsLiveOf, FreeSlots
<1>2. image[o].gen \in 0 .. 3 /\ (image[o].gen + 1) % 4 \in 0 .. 3
  <2>1. image[o] \in Save
    BY Slots DEF Image
  <2> QED BY <1>1, <2>1, Kinds
<1>3. /\ v \in Save /\ v.kind = "live" /\ v.folder = f /\ v.body = b
      /\ v.gen = (image[o].gen + 1) % 4
  BY <1>2, Kinds
<1>0. Written(new, image, n, v)
  OBVIOUS
<1> HIDE DEF v
<1>4. /\ new \in Image /\ new[0] = image[0] /\ new[n] = v
      /\ \A j \in Block : j # n => new[j] = image[j]
      /\ \A j \in Slot : j # n => new[j] = image[j]
  BY <1>0, <1>3, WrittenElsewhere DEF Written
<1>5. o # n
  BY <1>1
<1>6. SlotsOf(new, f) = {o, n} /\ FreeSlots(new) = {}
  BY <1>3, <1>4 DEF SlotsOf, IsLiveOf, FreeSlots
<1>7. \A g \in Folder \ {f} : SlotsOf(new, g) = SlotsOf(image, g)
  BY <1>1, <1>3, <1>4 DEF SlotsOf, IsLiveOf
<1>8. new[o] = image[o]
  BY <1>4, <1>5, Slots
<1>9. Clean(new)
  BY <1>3, <1>4, Slots DEF Clean, Settled
<1>10. \A g \in Folder \ {f} : HasOne(new, g)
  BY <1>7 DEF HasOne, Settled
<1>11. Moved(new, f, o, n)
  BY <1>3, <1>4, <1>5, <1>6, <1>8, <1>9, <1>10 DEF Moved
<1> QED BY <1>2, <1>3, <1>4, <1>7, <1>8, <1>11

\* The old slot is given up.
LEMMA GivingUpSettles ==
  ASSUME NEW image \in Image, NEW f \in Folder, NEW o \in Slot, NEW n \in Slot,
         Moved(image, f, o, n), NEW new,
         Written(new, image, o, Blank)
  PROVE  /\ new \in Image /\ Settled(new) /\ SlotsOf(new, f) = {n} /\ new[n] = image[n]
         /\ \A g \in Folder \ {f} : SlotsOf(new, g) = SlotsOf(image, g)
         /\ \A j \in Block : j # o => new[j] = image[j]
<1>1. image[o].kind = "live" /\ image[o].folder = f /\ o # n
  BY DEF Moved, SlotsOf, IsLiveOf
<1>2. Blank \in Save /\ Blank.kind = "free"
  BY Kinds
<1>3. /\ new \in Image /\ new[0] = image[0] /\ new[o] = Blank
      /\ \A j \in Block : j # o => new[j] = image[j]
      /\ \A j \in Slot : j # o => new[j] = image[j]
  BY <1>2, WrittenElsewhere DEF Written
<1>4. SlotsOf(new, f) = {n} /\ FreeSlots(new) = {o}
  BY <1>1, <1>2, <1>3 DEF Moved, SlotsOf, IsLiveOf, FreeSlots
<1>5. \A g \in Folder \ {f} : SlotsOf(new, g) = SlotsOf(image, g)
  BY <1>1, <1>2, <1>3 DEF SlotsOf, IsLiveOf
<1>6. \A g \in Folder : HasOne(new, g)
  <2>1. HasOne(new, f)
    BY <1>4 DEF HasOne
  <2>2. \A g \in Folder \ {f} : HasOne(new, g)
    BY <1>5 DEF HasOne, Moved
  <2> QED BY <2>1, <2>2
<1>7. Clean(new)
  BY <1>2, <1>3, Slots DEF Clean, Moved
<1>8. Settled(new)
  BY <1>4, <1>6, <1>7 DEF Settled
<1>9. new[n] = image[n]
  BY <1>1, <1>3, Slots
<1> QED BY <1>3, <1>4, <1>5, <1>8, <1>9

\* A folder is emptied in place.
LEMMA DeletingKeepsSettled ==
  ASSUME NEW image \in Image, Settled(image), NEW f \in Folder, NEW i \in Slot,
         SlotsOf(image, f) = {i}, NEW new, Written(new, image, i, Live(f, 0, Fresh))
  PROVE  /\ new \in Image /\ Settled(new) /\ new[i].body = Fresh
         /\ \A g \in Folder : SlotsOf(new, g) = SlotsOf(image, g)
         /\ \A j \in Block : j # i => new[j] = image[j]
<1> DEFINE v == Live(f, 0, Fresh)
<1>1. image[i].kind = "live" /\ image[i].folder = f
  BY DEF SlotsOf, IsLiveOf
<1>2. v \in Save /\ v.kind = "live" /\ v.folder = f /\ v.body = Fresh
  <2>1. Fresh \in Body
    BY SaveFileAssumption DEF Fresh, Body
  <2> QED BY <2>1, Kinds
<1>0. Written(new, image, i, v)
  OBVIOUS
<1> HIDE DEF v
<1>3. /\ new \in Image /\ new[0] = image[0] /\ new[i] = v
      /\ \A j \in Block : j # i => new[j] = image[j]
      /\ \A j \in Slot : j # i => new[j] = image[j]
  BY <1>0, <1>2, WrittenElsewhere DEF Written
<1>4. FreeSlots(new) = FreeSlots(image)
  BY <1>1, <1>2, <1>3 DEF FreeSlots
<1>5. \A g \in Folder : SlotsOf(new, g) = SlotsOf(image, g)
  BY <1>1, <1>2, <1>3 DEF SlotsOf, IsLiveOf
<1>6. Clean(new)
  BY <1>2, <1>3, Slots DEF Clean, Settled
<1>7. \A g \in Folder : HasOne(new, g)
  BY <1>5 DEF Settled, HasOne
<1>8. Settled(new)
  BY <1>4, <1>6, <1>7 DEF Settled
<1> QED BY <1>2, <1>3, <1>5, <1>8

-------------------------------------------------------------------------------
(* Repairs.                                                                *)

\* What the repairs leave a folder, and all that its slots hold.
Content(image, f) == IF Kept(image, f) = {} THEN Fresh ELSE image[First(Kept(image, f))].body
Bodies(image, f) == {image[i].body : i \in SlotsOf(image, f)}

\* Recovered is that, folder by folder.
LEMMA RecoveredIs ==
  ASSUME NEW image
  PROVE  Recovered(image) = [f \in Folder |-> Content(image, f)]
BY DEF Recovered, Content

\* A folder has the same slots in two images.
Same(new, image, f) ==
  SlotsOf(new, f) = SlotsOf(image, f) /\ \A i \in SlotsOf(image, f) : new[i] = image[i]

\* Then two slots at most leave it the same.
LEMMA SameSlotsKept ==
  ASSUME NEW image, NEW new, NEW f, Cardinality(SlotsOf(image, f)) <= 2, Same(new, image, f)
  PROVE  Kept(new, f) = Kept(image, f) /\ Content(new, f) = Content(image, f)
         /\ Bodies(new, f) = Bodies(image, f)
<1> DEFINE S == SlotsOf(image, f)
<1> USE DEF Same
<1>1. S \in SUBSET Slot /\ IsFiniteSet(S) /\ Cardinality(S) \in Nat /\ S \subseteq Nat
  BY Slots, FS_Subset, FS_CardinalityType DEF SlotsOf
<1>2. Kept(new, f) = Kept(image, f) /\ Kept(image, f) \subseteq S
  <2>1. CASE Cardinality(S) < 2
    BY <2>1, KeptIs
  <2>2. CASE Cardinality(S) = 2
    <3>1. First(S) \in S
      BY <1>1, <2>2, FirstIs, FS_EmptySet
    <3>2. Cardinality(S \ {First(S)}) = 1
      <4>1. Cardinality(S \ {First(S)}) = Cardinality(S) - 1
        BY <1>1, <3>1, FS_RemoveElement
      <4> QED BY <2>2, <4>1
    <3>3. First(S \ {First(S)}) \in S
      <4>1. S \ {First(S)} # {} /\ S \ {First(S)} \subseteq Nat
        BY <1>1, <3>2, FS_EmptySet
      <4> QED BY <4>1, FirstIs
    <3>4. Loser(new, S) = Loser(image, S)
      BY <3>1, <3>3 DEF Loser
    <3>5. Kept(image, f) = S \ {Loser(image, S)}
      BY <2>2, KeptIs
    <3>6. Kept(new, f) = S \ {Loser(new, S)}
      BY <2>2, KeptIs
    <3> QED BY <3>4, <3>5, <3>6
  <2> QED BY <1>1, <2>1, <2>2
<1>3. Content(new, f) = Content(image, f)
  <2>1. CASE Kept(image, f) = {}
    BY <1>2, <2>1 DEF Content
  <2>2. CASE Kept(image, f) # {}
    <3>1. First(Kept(image, f)) \in S
      BY <1>1, <1>2, <2>2, FirstIs
    <3> QED BY <1>2, <2>2, <3>1 DEF Content
  <2> QED BY <2>1, <2>2
<1>4. Bodies(new, f) = Bodies(image, f)
  BY DEF Bodies
<1> QED BY <1>2, <1>3, <1>4

\* The content of a folder with a single slot.
LEMMA SingleContent ==
  ASSUME NEW image, NEW f, NEW i \in Slot, SlotsOf(image, f) = {i}
  PROVE  Content(image, f) = image[i].body
<1>1. Kept(image, f) = {i}
  BY KeptNoneOrOne
<1>2. First({i}) = i
  BY Slots, FirstIs
<1> QED BY <1>1, <1>2 DEF Content

\* A repair writes one block, which loses no folder what would be left of it in the
\* end, and gives it nothing but an empty slot.
Repairs(new, image) ==
  /\ new \in Image /\ NoSmall(new) /\ TwoAtMost(new)
  /\ \A f \in Folder : Content(new, f) = Content(image, f)
                       /\ Bodies(new, f) \subseteq Bodies(image, f) \cup {Fresh}

\* The two repairs that take nothing from any folder.
LEMMA RepairElsewhere ==
  ASSUME NEW image \in Image, NoSmall(image), TwoAtMost(image), NEW i \in Block,
         NEW v \in Save, v.kind # "live", i \in Slot => image[i].kind # "live" /\ v.kind # "small",
         NEW new, new = [image EXCEPT ![i] = v]
  PROVE  Repairs(new, image)
<1>1. /\ new \in Image /\ new[i] = v /\ \A j \in Block : j # i => new[j] = image[j]
  BY DEF Image
<1>2. \A j \in Slot : (j # i => new[j] = image[j])
  BY <1>1, Slots
<1>3. NoSmall(new)
  BY <1>1, <1>2 DEF NoSmall
<1>4. \A f \in Folder : SlotsOf(new, f) = SlotsOf(image, f)
  BY <1>1, <1>2 DEF SlotsOf, IsLiveOf
<1>5. \A f \in Folder : Same(new, image, f)
  BY <1>1, <1>2 DEF SlotsOf, IsLiveOf, Same
<1>6. TwoAtMost(new)
  BY <1>4 DEF TwoAtMost
<1>7. \A f \in Folder : Content(new, f) = Content(image, f) /\ Bodies(new, f) = Bodies(image, f)
  <2> TAKE f \in Folder
  <2>1. Cardinality(SlotsOf(image, f)) <= 2
    BY DEF TwoAtMost
  <2> QED BY <1>5, <2>1, SameSlotsKept
<1> QED BY <1>1, <1>3, <1>6, <1>7 DEF Repairs

\* A slot too many.
LEMMA RepairDoubled ==
  ASSUME NEW image \in Image, NoSmall(image), TwoAtMost(image), NEW f \in Doubled(image),
         NEW l, l = Loser(image, SlotsOf(image, f)), NEW new, new = [image EXCEPT ![l] = Blank]
  PROVE  l \in Slot /\ Repairs(new, image)
<1> DEFINE S == SlotsOf(image, f)
<1>1. S \in SUBSET Slot /\ IsFiniteSet(S) /\ f \in Folder
  BY Slots, FS_Subset DEF SlotsOf, Doubled
<1>2. Cardinality(S) = 2 /\ ~(Cardinality(S) < 2)
  <2>1. Cardinality(S) \in Nat /\ Cardinality(S) > 1 /\ Cardinality(S) <= 2
    BY <1>1, FS_CardinalityType DEF Doubled, TwoAtMost
  <2> QED BY <2>1
<1>3. l \in S
  BY <1>1, <1>2, LoserIsOne
<1>4. l \in Slot /\ image[l].kind = "live" /\ image[l].folder = f
  BY <1>3 DEF SlotsOf, IsLiveOf
<1>5. new \in Image /\ new[l] = Blank /\ \A j \in Slot : j # l => new[j] = image[j]
  BY <1>4, Kinds, Slots DEF Image
<1>6. Blank.kind = "free"
  BY Kinds
<1>7. NoSmall(new)
  BY <1>5, <1>6 DEF NoSmall
<1>8. SlotsOf(new, f) = S \ {l}
  BY <1>5, <1>6 DEF SlotsOf, IsLiveOf
<1>9. Cardinality(S \ {l}) = 1 /\ Cardinality(SlotsOf(new, f)) = 1
  <2>1. Cardinality(S \ {l}) = Cardinality(S) - 1
    BY <1>1, <1>3, FS_RemoveElement
  <2>2. Cardinality(S \ {l}) = 1
    BY <1>2, <2>1
  <2> QED BY <1>8, <2>2, Zenon
<1>10. Content(new, f) = Content(image, f) /\ Bodies(new, f) \subseteq Bodies(image, f)
  <2>1. Kept(new, f) = S \ {l}
    <3>1. Cardinality(SlotsOf(new, f)) < 2
      BY <1>9
    <3> QED BY <1>8, <3>1, KeptIs, Zenon
  <2>2. Kept(image, f) = S \ {l}
    BY <1>2, KeptIs
  <2>3. First(S \ {l}) \in S \ {l}
    <3>1. S \ {l} # {}
      <4>1. Cardinality(S \ {l}) # 0
        BY <1>9
      <4> QED BY <4>1, FS_EmptySet, Zenon
    <3>2. S \ {l} \subseteq Nat
      BY <1>1, Slots
    <3> QED BY <3>1, <3>2, FirstIs
  <2>4. \A j \in S \ {l} : new[j] = image[j]
    BY <1>1, <1>5
  <2>5. Content(new, f) = Content(image, f)
    <3>1. Kept(new, f) # {} /\ Kept(image, f) # {} /\ Kept(new, f) = Kept(image, f)
      BY <2>1, <2>2, <2>3
    <3>2. new[First(Kept(new, f))] = image[First(Kept(image, f))]
      BY <2>1, <2>2, <2>3, <2>4, Zenon
    <3>3. Content(new, f) = new[First(Kept(new, f))].body
      BY <3>1 DEF Content
    <3>4. Content(image, f) = image[First(Kept(image, f))].body
      BY <3>1 DEF Content
    <3> QED BY <3>2, <3>3, <3>4
  <2>6. Bodies(new, f) \subseteq Bodies(image, f)
    BY <1>8, <2>4 DEF Bodies
  <2> QED BY <2>5, <2>6
<1>11. ASSUME NEW g \in Folder, g # f
       PROVE  Same(new, image, g)
  BY <1>4, <1>5, <1>6, <1>11 DEF SlotsOf, IsLiveOf, Same
<1>12. TwoAtMost(new)
  <2> SUFFICES ASSUME NEW g \in Folder PROVE Cardinality(SlotsOf(new, g)) <= 2
    BY DEF TwoAtMost
  <2>1. CASE g = f
    BY <1>9, <2>1
  <2>2. CASE g # f
    BY <1>11, <2>2 DEF TwoAtMost, Same
  <2> QED BY <2>1, <2>2
<1>13. \A g \in Folder : Content(new, g) = Content(image, g)
                         /\ Bodies(new, g) \subseteq Bodies(image, g) \cup {Fresh}
  <2> TAKE g \in Folder
  <2>1. CASE g = f
    BY <1>10, <2>1
  <2>2. CASE g # f
    <3>1. Cardinality(SlotsOf(image, g)) <= 2
      BY DEF TwoAtMost
    <3>2. Content(new, g) = Content(image, g) /\ Bodies(new, g) = Bodies(image, g)
      BY <1>11, <2>2, <3>1, SameSlotsKept
    <3> QED BY <3>2
  <2> QED BY <2>1, <2>2
<1> QED BY <1>4, <1>5, <1>7, <1>12, <1>13 DEF Repairs

\* A folder without a slot.
LEMMA RepairMissing ==
  ASSUME NEW image \in Image, NoSmall(image), TwoAtMost(image), NEW f \in Missing(image),
         NEW i, i = First(FreeSlots(image)), NEW new, new = [image EXCEPT ![i] = Live(f, 0, Fresh)]
  PROVE  i \in Slot /\ Repairs(new, image)
<1> DEFINE v == Live(f, 0, Fresh)
<1>1. f \in Folder /\ SlotsOf(image, f) = {} /\ FreeSlots(image) # {}
  BY DEF Missing
<1>2. i \in FreeSlots(image)
  <2>1. FreeSlots(image) \subseteq Nat
    BY Slots DEF FreeSlots
  <2> QED BY <1>1, <2>1, FirstIs
<1>3. i \in Slot /\ image[i].kind = "free"
  BY <1>2 DEF FreeSlots
<1>4. v \in Save /\ v.kind = "live" /\ v.folder = f /\ v.body = Fresh
  <2>1. Fresh \in Body
    BY SaveFileAssumption DEF Fresh, Body
  <2> QED BY <1>1, <2>1, Kinds
<1> HIDE DEF v
<1>5. new \in Image /\ new[i] = v /\ \A j \in Slot : j # i => new[j] = image[j]
  BY <1>3, <1>4, Slots DEF Image, v
<1>6. NoSmall(new)
  BY <1>4, <1>5 DEF NoSmall
<1>7. SlotsOf(new, f) = {i}
  BY <1>1, <1>3, <1>4, <1>5 DEF SlotsOf, IsLiveOf
<1>8. Content(new, f) = Fresh /\ Content(image, f) = Fresh /\ Bodies(new, f) = {Fresh}
  <2>1. Kept(image, f) = {}
    BY <1>1, KeptNoneOrOne
  <2>2. Content(new, f) = new[i].body
    BY <1>3, <1>7, SingleContent
  <2>3. Content(new, f) = Fresh
    BY <1>4, <1>5, <2>2
  <2>4. Content(image, f) = Fresh
    BY <2>1 DEF Content
  <2>5. Bodies(new, f) = {new[i].body}
    BY <1>7 DEF Bodies
  <2> QED BY <1>4, <1>5, <2>3, <2>4, <2>5
<1>9. ASSUME NEW g \in Folder, g # f
      PROVE  Same(new, image, g)
  BY <1>3, <1>4, <1>5, <1>9 DEF SlotsOf, IsLiveOf, Same
<1>10. TwoAtMost(new)
  <2> SUFFICES ASSUME NEW g \in Folder PROVE Cardinality(SlotsOf(new, g)) <= 2
    BY DEF TwoAtMost
  <2>1. CASE g = f
    <3>1. Cardinality({i}) = 1
      BY FS_Singleton
    <3>2. Cardinality(SlotsOf(new, f)) = 1
      BY <1>7, <3>1, Zenon
    <3> QED BY <2>1, <3>2
  <2>2. CASE g # f
    BY <1>9, <2>2 DEF TwoAtMost, Same
  <2> QED BY <2>1, <2>2
<1>11. \A g \in Folder : Content(new, g) = Content(image, g)
                         /\ Bodies(new, g) \subseteq Bodies(image, g) \cup {Fresh}
  <2> TAKE g \in Folder
  <2>1. CASE g = f
    BY <1>8, <2>1
  <2>2. CASE g # f
    <3>1. Cardinality(SlotsOf(image, g)) <= 2
      BY DEF TwoAtMost
    <3>2. Content(new, g) = Content(image, g) /\ Bodies(new, g) = Bodies(image, g)
      BY <1>9, <2>2, <3>1, SameSlotsKept
    <3> QED BY <3>2
  <2> QED BY <2>1, <2>2
<1> QED BY <1>3, <1>5, <1>6, <1>10, <1>11 DEF Repairs

\* Each repair is one of these.
LEMMA NextRepairRepairs ==
  ASSUME NEW image \in Image, NoSmall(image), TwoAtMost(image), ~Sound(image),
         NEW w, w = NextRepair(image), NEW new, new = [image EXCEPT ![w.block] = w.value]
  PROVE  Repairs(new, image)
<1>1. CASE image[0] # Small
  <2>1. w.block = 0 /\ w.value = Small
    BY <1>1 DEF NextRepair, Write
  <2>2. new = [image EXCEPT ![0] = Small]
    BY <2>1
  <2>3. Small \in Save /\ Small.kind # "live" /\ 0 \in Block /\ 0 \notin Slot
    BY Kinds, Slots
  <2> QED BY <2>2, <2>3, RepairElsewhere, Zenon
<1>2. CASE image[0] = Small /\ BadSlots(image) # {}
  <2>1. w.block = First(BadSlots(image)) /\ w.value = Blank
    BY <1>2 DEF NextRepair, Write
  <2>2. First(BadSlots(image)) \in BadSlots(image)
    <3>1. BadSlots(image) \subseteq Nat
      BY Slots DEF BadSlots
    <3> QED BY <1>2, <3>1, FirstIs
  <2>3. PICK i : i = First(BadSlots(image))
    OBVIOUS
  <2>4. i \in Slot /\ i \in Block /\ image[i].kind = "bad"
    BY <2>2, <2>3, Slots, Kinds DEF BadSlots
  <2>5. new = [image EXCEPT ![i] = Blank]
    BY <2>1, <2>3
  <2>6. /\ Blank \in Save /\ Blank.kind # "live" /\ Blank.kind # "small" /\ image[i].kind # "live"
    BY <2>4, Kinds
  <2> QED BY <2>4, <2>5, <2>6, RepairElsewhere, Zenon
<1>3. CASE image[0] = Small /\ BadSlots(image) = {}
  <2> DEFINE D == Doubled(image) \cup Missing(image)
  <2>1. PICK f : f = First(D)
    OBVIOUS
  <2>2. f \in D
    <3>1. D # {} /\ D \subseteq Nat
      BY <1>3, Slots DEF Sound, Doubled, Missing
    <3> QED BY <2>1, <3>1, FirstIs
  <2>3. w = IF f \in Doubled(image) THEN Write(Loser(image, SlotsOf(image, f)), Blank)
            ELSE Write(First(FreeSlots(image)), Live(f, 0, Fresh))
    BY <1>3, <2>1 DEF NextRepair
  <2>4. CASE f \in Doubled(image)
    <3>1. new = [image EXCEPT ![Loser(image, SlotsOf(image, f))] = Blank]
      BY <2>3, <2>4 DEF Write
    <3> QED BY <2>4, <3>1, RepairDoubled
  <2>5. CASE f \notin Doubled(image)
    <3>1. new = [image EXCEPT ![First(FreeSlots(image))] = Live(f, 0, Fresh)]
      BY <2>3, <2>5 DEF Write
    <3> QED BY <2>2, <2>5, <3>1, RepairMissing
  <2> QED BY <2>4, <2>5
<1> QED BY <1>1, <1>2, <1>3


-------------------------------------------------------------------------------
(* Lists of writes.                                                        *)

Writes == [block : Block, value : Save]

\* The images on the way, for the lists of at most two writes that there are.
LEMMA AfterIs ==
  ASSUME NEW image, NEW writes
  PROVE  /\ After(image, writes, 0) = image
         /\ After(image, writes, 1) = [image EXCEPT ![writes[1].block] = writes[1].value]
         /\ After(image, writes, 2) =
              [After(image, writes, 1) EXCEPT ![writes[2].block] = writes[2].value]
<1> DEFINE Put(e, k) == [e EXCEPT ![writes[k].block] = writes[k].value]
           Step(n, a) == [k \in 0 .. n |-> IF k = 0 THEN image ELSE Put(a[k - 1], k)]
           step(k) == IF k = 0 THEN image ELSE IF k = 1 THEN Put(image, 1)
                      ELSE Put(Put(image, 1), 2)
           A(n) == CHOOSE a : a = Step(n, a)
<1>1. \A n : After(image, writes, n) = A(n)[n]
  BY DEF After
<1> HIDE DEF Put
<1>2. ASSUME NEW n \in 0 .. 2 PROVE \E a : a = Step(n, a)
  <2> DEFINE h == [k \in 0 .. n |-> step(k)]
  <2>1. \A k \in 0 .. n : k # 0 => k - 1 \in 0 .. n /\ h[k - 1] = step(k - 1)
    OBVIOUS
  <2>2. \A k \in 0 .. n : k # 0 => step(k) = Put(h[k - 1], k)
    <3> TAKE k \in 0 .. n
    <3> HAVE k # 0
    <3>1. k = 1 \/ k = 2
      OBVIOUS
    <3>2. h[k - 1] = step(k - 1)
      BY <2>1
    <3> QED BY <3>1, <3>2
  <2> HIDE DEF h
  <2>3. \A k \in 0 .. n : step(k) = IF k = 0 THEN image ELSE Put(h[k - 1], k)
    BY <2>2
  <2>4. h = Step(n, h)
    BY <2>3 DEF h
  <2> QED BY <2>4
<1>3. ASSUME NEW n \in 0 .. 2
      PROVE  /\ A(n)[0] = image
             /\ \A k \in 1 .. n : A(n)[k] = Put(A(n)[k - 1], k)
  <2>1. A(n) = Step(n, A(n))
    BY <1>2
  <2> HIDE DEF A
  <2>2. \A k \in 0 .. n : Step(n, A(n))[k] = IF k = 0 THEN image ELSE Put(A(n)[k - 1], k)
    OBVIOUS
  <2>3. \A k \in 0 .. n : A(n)[k] = IF k = 0 THEN image ELSE Put(A(n)[k - 1], k)
    BY <2>1, <2>2, Zenon
  <2> QED BY <2>3
<1> HIDE DEF A
<1>4. A(0)[0] = image
  BY <1>3
<1>5. A(1)[1] = Put(image, 1)
  BY <1>3
<1>6. A(2)[2] = Put(Put(image, 1), 2)
  BY <1>3
<1> QED BY <1>1, <1>4, <1>5, <1>6 DEF Put

\* A list is the writes of an operation.
LEMMA PlannedFits ==
  ASSUME NEW image \in Image, NEW writes, Planned(image, writes)
  PROVE  /\ writes \in Seq(Writes) /\ Len(writes) \in 0 .. 2
         /\ \A k \in 1 .. Len(writes) : writes[k].block \in Slot
         /\ NoSmall(image) /\ TwoAtMost(image)
<1>1. /\ Settled(image) => NoSmall(image) /\ TwoAtMost(image)
      /\ \A f \in Folder, o, n \in Slot :
           Moved(image, f, o, n) => NoSmall(image) /\ TwoAtMost(image)
  <2>1. Clean(image) => NoSmall(image)
    BY DEF Clean, NoSmall
  <2>2. \A f \in Folder : HasOne(image, f) => Cardinality(SlotsOf(image, f)) <= 2
    BY FS_Singleton DEF HasOne
  <2>3. \A f \in Folder, o, n \in Slot :
          o # n /\ SlotsOf(image, f) = {o, n} => Cardinality(SlotsOf(image, f)) <= 2
    <3> TAKE f \in Folder, o \in Slot, n \in Slot
    <3> HAVE o # n /\ SlotsOf(image, f) = {o, n}
    <3>1. SlotsOf(image, f) = {o} \cup {n}
      OBVIOUS
    <3>2. IsFiniteSet({o}) /\ Cardinality({o}) = 1 /\ n \notin {o}
      BY FS_Singleton
    <3>3. Cardinality({o} \cup {n}) = 2
      BY <3>2, FS_AddElement
    <3>4. Cardinality(SlotsOf(image, f)) = 2
      BY <3>1, <3>3, Zenon
    <3> QED BY <3>4
  <2> QED BY <2>1, <2>2, <2>3 DEF Settled, Moved, TwoAtMost
<1>2. Fresh \in Body
  BY SaveFileAssumption DEF Fresh, Body
<1>3. CASE writes = <<>> /\ Settled(image)
  BY <1>1, <1>3
<1>4. CASE \E f \in Folder, i \in Slot : Deletes(image, writes, f, i)
  <2>1. PICK f \in Folder, i \in Slot : Deletes(image, writes, f, i)
    BY <1>4
  <2>2. PICK w : w = Write(i, Live(f, 0, Fresh))
    OBVIOUS
  <2>3. w \in Writes /\ w.block = i
    <3>1. Live(f, 0, Fresh) \in Save
      BY <1>2, Kinds
    <3> QED BY <2>2, <3>1, Slots DEF Write, Writes
  <2>4. writes = <<w>> /\ Settled(image)
    BY <2>1, <2>2 DEF Deletes
  <2> QED BY <1>1, <2>3, <2>4
<1>5. CASE \E f \in Folder, o, n \in Slot, b \in Body : SavesAnew(image, writes, f, o, n, b)
  <2>1. PICK f \in Folder, o \in Slot, n \in Slot, b \in Body : SavesAnew(image, writes, f, o, n, b)
    BY <1>5
  <2>2. PICK v : v = Write(n, Live(f, (image[o].gen + 1) % 4, b))
    OBVIOUS
  <2>3. PICK w : w = Write(o, Blank)
    OBVIOUS
  <2>4. v \in Writes /\ v.block = n
    <3>1. (image[o].gen + 1) % 4 \in 0 .. 3
      <4>1. image[o].kind = "live" /\ image[o] \in Save
        BY <2>1, Slots DEF SavesAnew, SlotsOf, IsLiveOf, Image
      <4>2. image[o].gen \in 0 .. 3
        BY <4>1, Kinds
      <4> QED BY <4>2
    <3>2. Live(f, (image[o].gen + 1) % 4, b) \in Save
      BY <3>1, Kinds
    <3> QED BY <2>2, <3>2, Slots DEF Write, Writes
  <2>5. w \in Writes /\ w.block = o
    BY <2>3, Kinds, Slots DEF Write, Writes
  <2>6. writes = <<v, w>> /\ Settled(image)
    BY <2>1, <2>2, <2>3 DEF SavesAnew
  <2> QED BY <1>1, <2>4, <2>5, <2>6
<1>6. CASE \E f \in Folder, o, n \in Slot : GivesUp(image, writes, f, o, n)
  <2>1. PICK f \in Folder, o \in Slot, n \in Slot : GivesUp(image, writes, f, o, n)
    BY <1>6
  <2>2. PICK w : w = Write(o, Blank)
    OBVIOUS
  <2>3. w \in Writes /\ w.block = o
    BY <2>2, Kinds, Slots DEF Write, Writes
  <2>4. writes = <<w>> /\ Moved(image, f, o, n)
    BY <2>1, <2>2 DEF GivesUp
  <2> QED BY <1>1, <2>3, <2>4
<1> QED BY <1>3, <1>4, <1>5, <1>6 DEF Planned

\* Each write leaves the rest of the operation to be made.
LEMMA PlannedWrite ==
  ASSUME NEW image \in Image, NEW writes, Planned(image, writes), writes # <<>>,
         NEW new, new = [image EXCEPT ![Head(writes).block] = Head(writes).value]
  PROVE  new \in Image /\ Planned(new, Tail(writes))
<1>1. writes \in Seq(Writes) /\ Len(writes) \in 0 .. 2 /\ writes[1] = Head(writes)
  BY PlannedFits
<1>2. PICK w : w = Head(writes)
  OBVIOUS
<1>3. w \in Writes /\ w.block \in Slot
  BY <1>1, <1>2, PlannedFits
<1>4. PICK i : i = w.block
  OBVIOUS
<1>5. PICK v : v = w.value
  OBVIOUS
<1>6. Written(new, image, i, v)
  <2>1. i \in Slot /\ v \in Save /\ new = [image EXCEPT ![i] = v]
    BY <1>2, <1>3, <1>4, <1>5 DEF Writes
  <2>2. Written([image EXCEPT ![i] = v], image, i, v)
    BY <2>1, WriteWrites, Zenon
  <2> QED BY <2>1, <2>2, Zenon
<1> HIDE DEF Written
<1>7. new \in Image
  BY <1>6 DEF Written
<1>8. CASE \E f \in Folder, j \in Slot : Deletes(image, writes, f, j)
  <2>1. PICK f \in Folder, j \in Slot : Deletes(image, writes, f, j)
    BY <1>8
  <2>2. PICK u : u = Write(j, Live(f, 0, Fresh))
    OBVIOUS
  <2>3. writes = <<u>> /\ Settled(image) /\ SlotsOf(image, f) = {j}
    BY <2>1, <2>2 DEF Deletes
  <2>4. w = u /\ Tail(writes) = <<>>
    BY <1>2, <2>3
  <2>5. Written(new, image, j, Live(f, 0, Fresh))
    BY <1>4, <1>5, <1>6, <2>2, <2>4 DEF Write
  <2>6. Settled(new)
    BY <2>3, <2>5, DeletingKeepsSettled
  <2> QED BY <1>7, <2>4, <2>6 DEF Planned
<1>9. CASE \E f \in Folder, o, n \in Slot, b \in Body : SavesAnew(image, writes, f, o, n, b)
  <2>1. PICK f \in Folder, o \in Slot, n \in Slot, b \in Body : SavesAnew(image, writes, f, o, n, b)
    BY <1>9
  <2>2. PICK u : u = Write(n, Live(f, (image[o].gen + 1) % 4, b))
    OBVIOUS
  <2>3. PICK x : x = Write(o, Blank)
    OBVIOUS
  <2>4. writes = <<u, x>> /\ Settled(image) /\ SlotsOf(image, f) = {o} /\ FreeSlots(image) = {n}
    BY <2>1, <2>2, <2>3 DEF SavesAnew
  <2>5. w = u /\ Tail(writes) = <<x>>
    BY <1>2, <2>4
  <2>6. Written(new, image, n, Live(f, (image[o].gen + 1) % 4, b))
    BY <1>4, <1>5, <1>6, <2>2, <2>5 DEF Write
  <2>7. Moved(new, f, o, n)
    BY <2>4, <2>6, SavingMoves
  <2>8. GivesUp(new, Tail(writes), f, o, n)
    BY <2>3, <2>5, <2>7 DEF GivesUp
  <2> QED BY <1>7, <2>8 DEF Planned
<1>10. CASE \E f \in Folder, o, n \in Slot : GivesUp(image, writes, f, o, n)
  <2>1. PICK f \in Folder, o \in Slot, n \in Slot : GivesUp(image, writes, f, o, n)
    BY <1>10
  <2>2. PICK u : u = Write(o, Blank)
    OBVIOUS
  <2>3. writes = <<u>> /\ Moved(image, f, o, n)
    BY <2>1, <2>2 DEF GivesUp
  <2>4. w = u /\ Tail(writes) = <<>>
    BY <1>2, <2>3
  <2>5. Written(new, image, o, Blank)
    BY <1>4, <1>5, <1>6, <2>2, <2>4 DEF Write
  <2>6. Settled(new)
    BY <2>3, <2>5, GivingUpSettles
  <2> QED BY <1>7, <2>4, <2>6 DEF Planned
<1> QED BY <1>8, <1>9, <1>10 DEF Planned

-------------------------------------------------------------------------------
(* The operations.                                                         *)

\* Between operations a folder is in one slot, and what it holds is there.
LEMMA FolderHeld ==
  ASSUME saves \in Image, Settled(saves), NEW f \in Folder
  PROVE  \E o \in Slot : /\ SlotsOf(saves, f) = {o} /\ SlotOf(saves, f) = o /\ o # 0
                         /\ BodyOf(f) = saves[o].body /\ BodyOf(f) \in Body
<1>1. PICK o \in Slot : SlotsOf(saves, f) = {o}
  BY DEF Settled, HasOne
<1>2. First({o}) = o
  BY Slots, FirstIs
<1>3. SlotOf(saves, f) = o /\ o # 0
  BY <1>1, <1>2, Slots DEF SlotOf
<1>4. saves[o] \in Save /\ saves[o].kind = "live"
  BY <1>1, Slots DEF Image, SlotsOf, IsLiveOf
<1> QED BY <1>1, <1>3, <1>4, Kinds DEF BodyOf

\* So it is saved into the slot left over, and then given up where it was.
LEMMA OverwriteSaves ==
  ASSUME saves \in Image, Settled(saves), NEW f \in Folder, NEW b \in Body
  PROVE  \E o, n \in Slot : SavesAnew(saves, Overwrite(f, SlotOf(saves, f), b), f, o, n, b)
<1>1. PICK o \in Slot : SlotsOf(saves, f) = {o} /\ SlotOf(saves, f) = o /\ o # 0
  BY FolderHeld
<1>2. PICK n \in Slot : FreeSlots(saves) = {n}
  BY DEF Settled
<1>3. First(FreeSlots(saves)) = n
  <2>1. First({n}) = n
    BY Slots, FirstIs
  <2> QED BY <1>2, <2>1
<1>4. PICK v : v = Write(n, Live(f, (saves[o].gen + 1) % 4, b))
  OBVIOUS
<1>5. PICK w : w = Write(o, Blank)
  OBVIOUS
<1>6. Overwrite(f, o, b) = <<v>> \o <<w>>
  BY <1>1, <1>2, <1>3, <1>4, <1>5 DEF Overwrite
<1>7. <<v>> \o <<w>> = <<v, w>>
  <2> DEFINE S == {v, w}
  <2>1. <<v>> \in Seq(S) /\ <<w>> \in Seq(S) /\ <<v, w>> \in Seq(S)
    OBVIOUS
  <2>2. /\ Len(<<v>>) = 1 /\ Len(<<w>>) = 1 /\ Len(<<v, w>>) = 2
        /\ <<v>>[1] = v /\ <<w>>[1] = w /\ <<v, w>>[1] = v /\ <<v, w>>[2] = w
    OBVIOUS
  <2>3. PICK s : s = <<v>> \o <<w>>
    OBVIOUS
  <2>4. s \in Seq(S) /\ Len(s) = 2 /\ s[1] = v /\ s[2] = w
    BY <2>1, <2>2, <2>3, ConcatProperties
  <2>5. s = <<v, w>>
    BY <2>1, <2>2, <2>4, SeqEqual
  <2> QED BY <2>3, <2>5
<1>8. SavesAnew(saves, Overwrite(f, SlotOf(saves, f), b), f, o, n, b)
  BY <1>1, <1>2, <1>4, <1>5, <1>6, <1>7 DEF SavesAnew
<1> QED BY <1>8

\* Every operation of the game saves some folder, or empties one.
Operation(f) ==
  \/ CompleteStage(f) \/ UnlockCheat(f) \/ SaveSettings(f) \/ SelectBond(f)
  \/ DeleteFolder(f) \/ CopyFolder(f)
Changes(writes, f, b) ==
  \/ \E o, n \in Slot : SavesAnew(saves, writes, f, o, n, b)
  \/ b = Fresh /\ \E i \in Slot : Deletes(saves, writes, f, i)

\* It is made between operations, and makes the list of writes alone.
LEMMA OperationChanges ==
  ASSUME SInv, NEW f \in Folder, Operation(f)
  PROVE  /\ Idle /\ Settled(saves)
         /\ UNCHANGED <<saves, eeprom, file, store, checking, failed, fails>>
         /\ \E g \in Folder, b \in Body : Changes(todo', g, b)
<1>1. PICK writes : Start(writes) /\ writes = todo'
  BY DEF Operation, CompleteStage, UnlockCheat, SaveSettings, SelectBond, ChangeRest,
         DeleteFolder, CopyFolder, Start
<1>2. Idle /\ UNCHANGED <<saves, eeprom, file, store, checking, failed, fails>>
  BY <1>1 DEF Start
<1>3. saves \in Image /\ Settled(saves)
  <2>1. Planned(saves, todo) /\ todo = <<>>
    BY <1>2 DEF SInv, Idle
  <2> QED BY <2>1 DEF SInv, TypeOK, Planned, Deletes, SavesAnew, GivesUp
<1>4. \A g \in Folder : BodyOf(g) \in Body
  BY <1>3, FolderHeld
<1>5. ASSUME NEW g \in Folder, NEW b \in Body, Start(Overwrite(g, SlotOf(saves, g), b))
      PROVE  Changes(todo', g, b)
  BY <1>3, <1>5, OverwriteSaves DEF Start, Changes
<1>6. ASSUME CompleteStage(f) PROVE \E g \in Folder, b \in Body : Changes(todo', g, b)
  <2>1. PICK d \in BodyOf(f).done .. MaxDone :
          Start(Overwrite(f, SlotOf(saves, f), [BodyOf(f) EXCEPT !.done = d]))
    BY <1>6 DEF CompleteStage
  <2>2. PICK b : b = [BodyOf(f) EXCEPT !.done = d]
    OBVIOUS
  <2>3. b \in Body
    BY <1>4, <2>2, SaveFileAssumption DEF Body
  <2> QED BY <1>5, <2>1, <2>2, <2>3
<1>7. ASSUME ChangeRest(f) PROVE \E g \in Folder, b \in Body : Changes(todo', g, b)
  <2>1. PICK r \in Rest \ {BodyOf(f).rest} :
          Start(Overwrite(f, SlotOf(saves, f), [BodyOf(f) EXCEPT !.rest = r]))
    BY <1>7 DEF ChangeRest
  <2>2. PICK b : b = [BodyOf(f) EXCEPT !.rest = r]
    OBVIOUS
  <2>3. b \in Body
    BY <1>4, <2>2 DEF Body
  <2> QED BY <1>5, <2>1, <2>2, <2>3
<1>8. ASSUME DeleteFolder(f) PROVE \E g \in Folder, b \in Body : Changes(todo', g, b)
  <2>1. PICK o \in Slot : SlotsOf(saves, f) = {o} /\ SlotOf(saves, f) = o
    BY <1>3, FolderHeld
  <2>2. Deletes(saves, todo', f, o)
    BY <1>3, <1>8, <2>1 DEF DeleteFolder, Start, Deletes
  <2>3. Fresh \in Body
    BY SaveFileAssumption DEF Fresh, Body
  <2> QED BY <2>2, <2>3 DEF Changes
<1>9. ASSUME CopyFolder(f) PROVE \E g \in Folder, b \in Body : Changes(todo', g, b)
  <2> DEFINE empty == {g \in Folder : BodyOf(g).done = 0}
  <2>1. empty # {} /\ Start(Overwrite(First(empty), SlotOf(saves, First(empty)), BodyOf(f)))
    BY <1>9 DEF CopyFolder
  <2>2. First(empty) \in Folder
    <3>1. empty \subseteq Nat
      BY Slots
    <3> QED BY <2>1, <3>1, FirstIs
  <2> QED BY <1>4, <1>5, <2>1, <2>2
<1> QED BY <1>2, <1>3, <1>6, <1>7, <1>8, <1>9
        DEF Operation, UnlockCheat, SaveSettings, SelectBond

\* Such a list is one of those the invariant speaks of.
LEMMA ChangesArePlanned ==
  ASSUME NEW writes, NEW f \in Folder, NEW b \in Body, Changes(writes, f, b)
  PROVE  Planned(saves, writes)
BY DEF Changes, Planned

-------------------------------------------------------------------------------
(* The invariant holds.                                                    *)

\* A write leaves the file as it is, and opens it or fails.
LEMMA StoreOpensOrFails ==
  ASSUME TypeOK, NEW w, WriteBlock(w)
  PROVE  /\ store = "closed" /\ store' \in {"open", "closed"} /\ file' = file
         /\ failed' \in BOOLEAN /\ fails' \in 0 .. MaxFails
         /\ store' = "closed" => failed'
<1>1. store = "closed" /\ Store
  BY DEF WriteBlock
<1>2. CASE store' = "open" /\ failed' = FALSE /\ UNCHANGED <<file, fails>>
  BY <1>1, <1>2 DEF TypeOK
<1>3. CASE failed' = TRUE /\ fails < MaxFails /\ fails' = fails + 1 /\ UNCHANGED <<file, store>>
  <2>1. fails' \in 0 .. MaxFails
    BY <1>3, SaveFileAssumption DEF TypeOK
  <2> QED BY <1>1, <1>3, <2>1
<1> QED BY <1>1, <1>2, <1>3 DEF Store

\* A torn file has no more in it than the image it was to hold.
LEMMA TornIsLess ==
  ASSUME NEW image \in Image, NoSmall(image), TwoAtMost(image), NEW n, NEW torn,
         torn = Torn(image, n)
  PROVE  /\ torn \in Image /\ NoSmall(torn) /\ TwoAtMost(torn)
         /\ \A f \in Folder : /\ SlotsOf(torn, f) \subseteq SlotsOf(image, f)
                              /\ \A i \in SlotsOf(torn, f) : torn[i] = image[i]
<1>1. torn = [i \in Block |-> IF i < n THEN image[i] ELSE Bad]
  BY DEF Torn
<1>2. torn \in Image
  BY <1>1, Kinds DEF Image
<1>3. \A i \in Slot : torn[i] = image[i] \/ torn[i].kind = "bad"
  BY <1>1, Slots, Kinds
<1>4. NoSmall(torn)
  BY <1>3 DEF NoSmall
<1>5. \A f \in Folder : /\ SlotsOf(torn, f) \subseteq SlotsOf(image, f)
                        /\ \A i \in SlotsOf(torn, f) : torn[i] = image[i]
  BY <1>3 DEF SlotsOf, IsLiveOf
<1>6. TwoAtMost(torn)
  <2> SUFFICES ASSUME NEW f \in Folder PROVE Cardinality(SlotsOf(torn, f)) <= 2
    BY DEF TwoAtMost
  <2>1. IsFiniteSet(SlotsOf(image, f)) /\ Cardinality(SlotsOf(image, f)) <= 2
    BY Slots, FS_Subset DEF SlotsOf, TwoAtMost
  <2>2. IsFiniteSet(SlotsOf(torn, f))
        /\ Cardinality(SlotsOf(torn, f)) <= Cardinality(SlotsOf(image, f))
    BY <1>5, <2>1, FS_Subset
  <2> QED BY <2>1, <2>2, FS_CardinalityType
<1> QED BY <1>2, <1>4, <1>5, <1>6

\* There is no file: every block is bad.
LEMMA InitSInv == Init => SInv
<1> SUFFICES ASSUME Init PROVE SInv
  OBVIOUS
<1>1. file \in Image /\ \A i \in Slot : file[i].kind = "bad"
  BY Kinds, Slots DEF Init, Image
<1>2. TypeOK
  <2>1. <<>> \in Seq([block : Block, value : Save])
    OBVIOUS
  <2>2. 0 \in 0 .. MaxFails
    BY SaveFileAssumption
  <2> QED BY <1>1, <2>1, <2>2 DEF Init, TypeOK
<1>3. \A f \in Folder : SlotsOf(file, f) = {}
  BY <1>1 DEF SlotsOf, IsLiveOf
<1>4. TwoAtMost(file) /\ NoSmall(file)
  BY <1>1, <1>3, FS_EmptySet DEF TwoAtMost, NoSmall
<1> QED BY <1>2, <1>4 DEF Init, SInv

\* The next write of an operation goes on with it.
LEMMA WriteNextSInv == SInv /\ WriteNext => SInv'
<1> SUFFICES ASSUME SInv, WriteNext PROVE SInv'
  OBVIOUS
<1> USE DEF SInv
<1>1. /\ store = "closed" /\ store' \in {"open", "closed"} /\ file' = file
      /\ failed' \in BOOLEAN /\ fails' \in 0 .. MaxFails
      /\ store' = "closed" => failed'
  BY StoreOpensOrFails DEF WriteNext
<1>2. todo # <<>> /\ ~checking /\ checking' = checking /\ todo' = Tail(todo)
  BY DEF WriteNext
<1>3. /\ saves' = [saves EXCEPT ![Head(todo).block] = Head(todo).value] /\ eeprom' = saves'
  BY DEF WriteNext, WriteBlock
<1>4. saves \in Image /\ Planned(saves, todo)
  BY <1>1, <1>2 DEF TypeOK
<1>5. saves' \in Image /\ Planned(saves', todo')
  BY <1>2, <1>3, <1>4, PlannedWrite
<1>6. todo' \in Seq(Writes) /\ NoSmall(saves') /\ TwoAtMost(saves')
  BY <1>5, PlannedFits
<1>7. NoSmall(file') /\ TwoAtMost(file')
  BY <1>1
<1>8. TypeOK'
  BY <1>1, <1>2, <1>3, <1>5, <1>6 DEF TypeOK, Writes
<1> QED BY <1>1, <1>2, <1>3, <1>5, <1>6, <1>7, <1>8

\* A repair never gives a folder a third slot.
LEMMA WriteRepairSInv == SInv /\ WriteRepair => SInv'
<1> SUFFICES ASSUME SInv, WriteRepair PROVE SInv'
  OBVIOUS
<1> USE DEF SInv
<1>1. /\ store = "closed" /\ store' \in {"open", "closed"} /\ file' = file
      /\ failed' \in BOOLEAN /\ fails' \in 0 .. MaxFails
      /\ store' = "closed" => failed'
  BY StoreOpensOrFails DEF WriteRepair
<1>2. checking /\ checking' = checking /\ todo = <<>> /\ todo' = todo /\ ~Sound(saves)
  BY DEF WriteRepair
<1>3. PICK w : w = NextRepair(saves)
  OBVIOUS
<1>4. /\ saves' = [saves EXCEPT ![w.block] = w.value] /\ eeprom' = saves'
  BY <1>3 DEF WriteRepair, WriteBlock
<1>5. Repairs(saves', saves)
  BY <1>2, <1>3, <1>4, NextRepairRepairs DEF TypeOK
<1>6. saves' \in Image /\ NoSmall(saves') /\ TwoAtMost(saves')
  BY <1>5 DEF Repairs
<1>7. NoSmall(file') /\ TwoAtMost(file')
  BY <1>1
<1>8. TypeOK'
  BY <1>1, <1>2, <1>4, <1>6 DEF TypeOK
<1> QED BY <1>1, <1>2, <1>4, <1>6, <1>7, <1>8

\* A check ends with settled slots.
LEMMA EndCheckSInv == SInv /\ EndCheck => SInv'
<1> SUFFICES ASSUME SInv, EndCheck PROVE SInv'
  OBVIOUS
<1>1. Settled(saves) /\ todo = <<>>
  BY SoundIsSettled DEF SInv, TypeOK, EndCheck
<1>2. Planned(saves, todo)
  BY <1>1 DEF Planned
<1>3. UNCHANGED <<saves, eeprom, file, store, todo, failed, fails>> /\ checking' = FALSE
  BY DEF EndCheck
<1>4. TypeOK'
  BY <1>3 DEF SInv, TypeOK
<1> QED BY <1>2, <1>3, <1>4 DEF SInv, EndCheck

\* The file holds what is in memory.
LEMMA CloseFileSInv == SInv /\ CloseFile => SInv'
<1> SUFFICES ASSUME SInv, CloseFile PROVE SInv'
  OBVIOUS
<1>1. /\ UNCHANGED <<saves, eeprom, todo, checking, failed, fails>>
      /\ file' = saves /\ store' = "closed" /\ store = "open"
  BY DEF SInv, CloseFile
<1>2. TypeOK'
  BY <1>1 DEF SInv, TypeOK
<1> QED BY <1>1, <1>2 DEF SInv

\* No process is left, and the file is the only image.
LEMMA CrashSInv == SInv /\ Crash => SInv'
<1> SUFFICES ASSUME SInv, Crash PROVE SInv'
  OBVIOUS
<1> USE DEF SInv
<1>1. file' \in Image /\ NoSmall(file') /\ TwoAtMost(file')
  <2>1. CASE file' = file
    BY <2>1 DEF TypeOK
  <2>2. CASE \E n \in 0 .. NumFolders + 2 : file' = Torn(eeprom, n)
    BY <2>2, TornIsLess DEF TypeOK
  <2> QED BY <2>1, <2>2 DEF Crash
<1>2. /\ store' = "off" /\ todo' = <<>> /\ checking' = FALSE /\ failed' = FALSE
      /\ saves' = file' /\ eeprom' = file' /\ fails' = fails
  BY DEF Crash
<1>3. TypeOK'
  <2>1. <<>> \in Seq([block : Block, value : Save])
    OBVIOUS
  <2> QED BY <1>1, <1>2, <2>1 DEF TypeOK
<1> QED BY <1>1, <1>2, <1>3

\* The check begins with whatever was found.
LEMMA BootSInv == SInv /\ Boot => SInv'
<1> SUFFICES ASSUME SInv, Boot PROVE SInv'
  OBVIOUS
<1> USE DEF SInv
<1>1. /\ UNCHANGED <<file, todo, failed, fails>> /\ store' = "closed" /\ checking' = TRUE
      /\ saves' = file /\ eeprom' = file /\ todo = <<>>
  BY DEF Boot
<1>2. TypeOK'
  BY <1>1 DEF TypeOK
<1>3. NoSmall(saves') /\ TwoAtMost(saves') /\ NoSmall(file') /\ TwoAtMost(file')
  BY <1>1
<1> QED BY <1>1, <1>2, <1>3

\* So does the one when the legal screen comes up.
LEMMA ValidateSInv == SInv /\ Validate => SInv'
<1> SUFFICES ASSUME SInv, Validate PROVE SInv'
  OBVIOUS
<1>1. /\ UNCHANGED <<eeprom, file, store, todo, failed, fails>> /\ checking' = TRUE
      /\ saves' = saves /\ todo = <<>> /\ store = "closed"
  BY DEF SInv, Validate, Idle
<1>2. TypeOK'
  BY <1>1 DEF SInv, TypeOK
<1> QED BY <1>1, <1>2 DEF SInv

\* An operation makes its list.
LEMMA OperationSInv == \A f \in Folder : SInv /\ Operation(f) => SInv'
<1> SUFFICES ASSUME NEW f \in Folder, SInv, Operation(f) PROVE SInv'
  OBVIOUS
<1>1. /\ UNCHANGED <<saves, eeprom, file, store, checking, failed, fails>>
      /\ store = "closed" /\ ~checking
  BY OperationChanges DEF Idle
<1>2. PICK g \in Folder, b \in Body : Changes(todo', g, b)
  BY OperationChanges
<1>3. Planned(saves, todo')
  BY <1>2, ChangesArePlanned
<1>4. todo' \in Seq(Writes)
  BY <1>3, PlannedFits DEF SInv, TypeOK
<1>5. TypeOK'
  BY <1>1, <1>4 DEF SInv, TypeOK, Writes
<1> QED BY <1>1, <1>3, <1>5 DEF SInv

\* No other step.
LEMMA Steps ==
  [Next]_vars => \/ WriteNext \/ WriteRepair \/ EndCheck \/ CloseFile
                 \/ Crash \/ Boot \/ Validate
                 \/ \E f \in Folder : Operation(f)
                 \/ UNCHANGED vars
BY DEF Next, Operation

\* A step that changes nothing.
LEMMA StutterSInv == SInv /\ UNCHANGED vars => SInv'
BY DEF vars, SInv, TypeOK

\* Every step keeps the invariant.
LEMMA StepSInv == SInv /\ [Next]_vars => SInv'
BY Steps, WriteNextSInv, WriteRepairSInv, EndCheckSInv, CloseFileSInv, CrashSInv, BootSInv,
   ValidateSInv, OperationSInv, StutterSInv

\* It holds in every state of every behaviour.
LEMMA AlwaysSInv == Spec => []SInv
<1>1. Init => SInv
  BY InitSInv
<1>2. SInv /\ [Next]_vars => SInv'
  BY StepSInv
<1> QED BY <1>1, <1>2, PTL DEF Spec

-------------------------------------------------------------------------------
(* What the operations do to the contents.                                 *)

\* What a folder is left with is empty, or in one of its slots.
LEMMA ContentIsHeld ==
  ASSUME NEW image, NEW f, Cardinality(SlotsOf(image, f)) <= 2
  PROVE  Content(image, f) \in {Fresh} \cup Bodies(image, f)
<1> DEFINE S == SlotsOf(image, f)
<1>1. S \in SUBSET Slot /\ IsFiniteSet(S) /\ Cardinality(S) \in Nat /\ S \subseteq Nat
  BY Slots, FS_Subset, FS_CardinalityType DEF SlotsOf
<1>2. Kept(image, f) \subseteq S
  <2>1. CASE Cardinality(S) < 2
    BY <2>1, KeptIs
  <2>2. CASE Cardinality(S) = 2
    BY <2>2, KeptIs
  <2> QED BY <1>1, <2>1, <2>2
<1>3. CASE Kept(image, f) = {}
  BY <1>3 DEF Content
<1>4. CASE Kept(image, f) # {}
  <2>1. First(Kept(image, f)) \in S
    BY <1>1, <1>2, <1>4, FirstIs
  <2> QED BY <1>4, <2>1 DEF Content, Bodies
<1> QED BY <1>3, <1>4

\* All of it is of the right form.
LEMMA BodiesTyped ==
  ASSUME NEW image \in Image, NEW f
  PROVE  Bodies(image, f) \subseteq Body /\ Fresh \in Body
<1>1. \A i \in SlotsOf(image, f) : image[i] \in Save /\ image[i].kind = "live"
  BY Slots DEF SlotsOf, IsLiveOf, Image
<1>2. \A i \in SlotsOf(image, f) : image[i].body \in Body
  BY <1>1, Kinds
<1> QED BY <1>2, SaveFileAssumption DEF Bodies, Fresh, Body

\* The image new gives every folder what the other does, and no slot of one
\* holds more, but for an empty one.
Like(new, image) ==
  \A f \in Folder : Content(new, f) = Content(image, f)
                    /\ Bodies(new, f) \subseteq Bodies(image, f) \cup {Fresh}

\* It gives one folder some content instead.
Puts(new, image, f, b) ==
  /\ Content(new, f) = b /\ Bodies(new, f) \subseteq Bodies(image, f) \cup {b}
  /\ \A g \in Folder \ {f} : Content(new, g) = Content(image, g)
                             /\ Bodies(new, g) = Bodies(image, g)

\* A folder is changed by a write that leaves the slots of the others alone.
LEMMA PutsOne ==
  ASSUME NEW image \in Image, TwoAtMost(image), NEW f \in Folder, NEW b, NEW new,
         \A g \in Folder \ {f} : Same(new, image, g),
         Content(new, f) = b, Bodies(new, f) \subseteq Bodies(image, f) \cup {b}
  PROVE  Puts(new, image, f, b)
<1>1. \A g \in Folder \ {f} : Content(new, g) = Content(image, g)
                               /\ Bodies(new, g) = Bodies(image, g)
  <2> TAKE g \in Folder \ {f}
  <2>1. Cardinality(SlotsOf(image, g)) <= 2
    BY DEF TwoAtMost
  <2> QED BY <2>1, SameSlotsKept
<1> QED BY <1>1 DEF Puts

\* From the write of the new slot on, the new save is what the folder has.
LEMMA SavingPuts ==
  ASSUME NEW image \in Image, Settled(image), NEW f \in Folder, NEW o \in Slot, NEW n \in Slot,
         SlotsOf(image, f) = {o}, FreeSlots(image) = {n}, NEW b \in Body,
         NEW new, Written(new, image, n, Live(f, (image[o].gen + 1) % 4, b))
  PROVE  new \in Image /\ Moved(new, f, o, n) /\ new[n].body = b /\ Puts(new, image, f, b)
<1>1. /\ new \in Image /\ Moved(new, f, o, n)
      /\ new[n].body = b /\ new[o].gen \in 0 .. 3
      /\ \A g \in Folder \ {f} : SlotsOf(new, g) = SlotsOf(image, g)
      /\ \A j \in Block : j # n => new[j] = image[j]
  <2>1. new \in Image /\ Moved(new, f, o, n) /\ new[n].body = b
    BY SavingMoves
  <2>2. new[o].gen \in 0 .. 3
    BY SavingMoves
  <2>3. \A g \in Folder \ {f} : SlotsOf(new, g) = SlotsOf(image, g)
    BY SavingMoves
  <2>4. \A j \in Block : j # n => new[j] = image[j]
    BY DEF Written
  <2> QED BY <2>1, <2>2, <2>3, <2>4, Zenon
<1>2. o # n /\ SlotsOf(new, f) = {o, n} /\ new[n].gen = (new[o].gen + 1) % 4
  BY <1>1 DEF Moved
<1>3. Kept(new, f) = {n}
  <2>1. Loser(new, {o, n}) = o /\ Kept(new, f) = {n}
    <3>1. InTwo(new, f, o, n)
      BY <1>1, <1>2 DEF InTwo
    <3> QED BY <3>1, LaterWins
  <2> QED BY <2>1
<1>4. Content(new, f) = b
  <2>1. First({n}) = n
    BY Slots, FirstIs
  <2> QED BY <1>1, <1>3, <2>1 DEF Content
<1>5. Bodies(new, f) \subseteq Bodies(image, f) \cup {b}
  <2>1. new[o] = image[o]
    BY <1>1, <1>2, Slots
  <2> QED BY <1>1, <1>2, <2>1 DEF Bodies
<1>6. \A g \in Folder \ {f} : Same(new, image, g)
  <2>1. image[n].kind = "free"
    BY DEF FreeSlots
  <2>2. \A g \in Folder : \A i \in SlotsOf(image, g) : i # n /\ i \in Block
    BY <2>1, Slots DEF SlotsOf, IsLiveOf
  <2> QED BY <1>1, <2>2 DEF Same
<1>7. TwoAtMost(image)
  BY PlannedFits DEF Planned
<1> QED BY <1>1, <1>4, <1>5, <1>6, <1>7, PutsOne

\* Giving up the old slot changes nothing.
LEMMA GivingUpKeeps ==
  ASSUME NEW image \in Image, NEW f \in Folder, NEW o \in Slot, NEW n \in Slot,
         Moved(image, f, o, n), NEW new, Written(new, image, o, Blank)
  PROVE  Like(new, image) /\ Puts(new, image, f, image[n].body)
<1>1. /\ new \in Image /\ SlotsOf(new, f) = {n} /\ new[n] = image[n]
      /\ \A g \in Folder \ {f} : SlotsOf(new, g) = SlotsOf(image, g)
      /\ \A j \in Block : j # o => new[j] = image[j]
  BY GivingUpSettles
<1>2. o # n /\ SlotsOf(image, f) = {o, n} /\ image[n].gen = (image[o].gen + 1) % 4
  BY DEF Moved
<1>3. image[o].gen \in 0 .. 3
  <2>1. image[o] \in Save /\ image[o].kind = "live"
    BY <1>2, Slots DEF Image, SlotsOf, IsLiveOf
  <2> QED BY <2>1, Kinds
<1>4. Kept(image, f) = {n}
  <2>1. Loser(image, {o, n}) = o /\ Kept(image, f) = {n}
    <3>1. InTwo(image, f, o, n)
      BY <1>2, <1>3 DEF InTwo
    <3> QED BY <3>1, LaterWins
  <2> QED BY <2>1
<1>5. Content(image, f) = image[n].body /\ Content(new, f) = image[n].body
  <2>1. First({n}) = n
    BY Slots, FirstIs
  <2>2. Content(image, f) = image[n].body
    BY <1>4, <2>1 DEF Content
  <2> QED BY <1>1, <2>2, SingleContent
<1>6. Bodies(new, f) \subseteq Bodies(image, f)
  BY <1>1, <1>2 DEF Bodies
<1>7. \A g \in Folder \ {f} : Same(new, image, g)
  <2>1. image[o].folder = f
    BY <1>2 DEF SlotsOf, IsLiveOf
  <2>2. \A g \in Folder \ {f} : \A i \in SlotsOf(image, g) : i # o /\ i \in Block
    BY <2>1, Slots DEF SlotsOf, IsLiveOf
  <2> QED BY <1>1, <2>2 DEF Same
<1>8. TwoAtMost(image)
  BY PlannedFits DEF Planned, GivesUp
<1>9. Puts(new, image, f, image[n].body)
  BY <1>5, <1>6, <1>7, <1>8, PutsOne
<1> QED BY <1>5, <1>6, <1>9 DEF Puts, Like

\* Emptying a folder in place.
LEMMA DeletingPuts ==
  ASSUME NEW image \in Image, Settled(image), NEW f \in Folder, NEW i \in Slot,
         SlotsOf(image, f) = {i}, NEW new, Written(new, image, i, Live(f, 0, Fresh))
  PROVE  Puts(new, image, f, Fresh)
<1>1. /\ new[i].body = Fresh
      /\ \A g \in Folder : SlotsOf(new, g) = SlotsOf(image, g)
      /\ \A j \in Block : j # i => new[j] = image[j]
  BY DeletingKeepsSettled
<1>2. SlotsOf(new, f) = {i}
  BY <1>1
<1>3. Content(new, f) = Fresh
  BY <1>1, <1>2, SingleContent
<1>4. Bodies(new, f) = {Fresh}
  BY <1>1, <1>2 DEF Bodies
<1>5. \A g \in Folder \ {f} : Same(new, image, g)
  <2>1. image[i].folder = f
    BY DEF SlotsOf, IsLiveOf
  <2>2. \A g \in Folder \ {f} : \A j \in SlotsOf(image, g) : j # i /\ j \in Block
    BY <2>1, Slots DEF SlotsOf, IsLiveOf
  <2> QED BY <1>1, <2>2 DEF Same
<1>6. TwoAtMost(image)
  BY PlannedFits DEF Planned
<1> QED BY <1>3, <1>4, <1>5, <1>6, PutsOne

\* So all along the way of an operation the folder it changes has the new
\* content, and the others have theirs.
LEMMA ChangesPut ==
  ASSUME saves \in Image, NEW writes, NEW f \in Folder, NEW b \in Body, Changes(writes, f, b)
  PROVE  /\ Len(writes) \in 1 .. 2
         /\ \A n \in 1 .. Len(writes) : Puts(After(saves, writes, n), saves, f, b)
<1>1. CASE \E o, n \in Slot : SavesAnew(saves, writes, f, o, n, b)
  <2>1. PICK o \in Slot, n \in Slot : SavesAnew(saves, writes, f, o, n, b)
    BY <1>1
  <2>2. PICK v : v = Live(f, (saves[o].gen + 1) % 4, b)
    OBVIOUS
  <2>3. /\ writes = <<Write(n, v), Write(o, Blank)>> /\ Settled(saves)
        /\ SlotsOf(saves, f) = {o} /\ FreeSlots(saves) = {n}
    BY <2>1, <2>2 DEF SavesAnew
  <2>4. v \in Save
    <3>1. saves[o] \in Save /\ saves[o].kind = "live"
      BY <2>3, Slots DEF Image, SlotsOf, IsLiveOf
    <3>2. (saves[o].gen + 1) % 4 \in 0 .. 3
      <4>1. saves[o].gen \in 0 .. 3
        BY <3>1, Kinds
      <4> QED BY <4>1
    <3> QED BY <2>2, <3>2, Kinds
  <2>5. Len(writes) = 2 /\ writes[1].block = n /\ writes[1].value = v
        /\ writes[2].block = o /\ writes[2].value = Blank
    BY <2>3 DEF Write
  <2>6. PICK one : one = [saves EXCEPT ![n] = v]
    OBVIOUS
  <2>7. PICK two : two = [one EXCEPT ![o] = Blank]
    OBVIOUS
  <2>8. After(saves, writes, 1) = one /\ After(saves, writes, 2) = two
    <3>1. After(saves, writes, 1) = one
      BY <2>5, <2>6, AfterIs
    <3> QED BY <2>5, <2>7, <3>1, AfterIs
  <2>9. Written(one, saves, n, v)
    BY <2>4, <2>6, WriteWrites, Zenon
  <2>10. one \in Image /\ Moved(one, f, o, n) /\ one[n].body = b /\ Puts(one, saves, f, b)
    <3>1. Written(one, saves, n, Live(f, (saves[o].gen + 1) % 4, b))
      BY <2>2, <2>9
    <3> QED BY <2>3, <3>1, SavingPuts
  <2>11. Written(two, one, o, Blank)
    BY <2>7, <2>10, WriteWrites, Kinds, Zenon
  <2>12. Like(two, one) /\ Puts(two, one, f, b)
    BY <2>10, <2>11, GivingUpKeeps
  <2>13. Puts(two, saves, f, b)
    BY <2>10, <2>12 DEF Puts
  <2> QED BY <2>5, <2>8, <2>10, <2>13
<1>2. CASE b = Fresh /\ \E i \in Slot : Deletes(saves, writes, f, i)
  <2>1. PICK i \in Slot : Deletes(saves, writes, f, i)
    BY <1>2
  <2>2. PICK v : v = Live(f, 0, Fresh)
    OBVIOUS
  <2>3. writes = <<Write(i, v)>> /\ Settled(saves) /\ SlotsOf(saves, f) = {i}
    BY <2>1, <2>2 DEF Deletes
  <2>4. v \in Save
    BY <1>2, <2>2, Kinds
  <2>5. Len(writes) = 1 /\ writes[1].block = i /\ writes[1].value = v
    BY <2>3 DEF Write
  <2>6. PICK one : one = [saves EXCEPT ![i] = v]
    OBVIOUS
  <2>7. After(saves, writes, 1) = one
    BY <2>5, <2>6, AfterIs
  <2>8. Written(one, saves, i, v)
    BY <2>4, <2>6, WriteWrites, Zenon
  <2>9. Written(one, saves, i, Live(f, 0, Fresh))
    BY <2>2, <2>8
  <2>10. Puts(one, saves, f, b)
    BY <1>2, <2>3, <2>9, DeletingPuts
  <2> QED BY <2>5, <2>7, <2>10
<1> QED BY <1>1, <1>2 DEF Changes

-------------------------------------------------------------------------------
(* What a restart finds.                                                   *)

\* What is in memory and on the file is always of the right form.
THEOREM TypeCorrect == Spec => []TypeOK
<1>1. SInv => TypeOK
  BY DEF SInv
<1> QED BY <1>1, AlwaysSInv, PTL

\* Between operations each folder has one slot, and one slot is left over, after
\* whatever crashes, torn files and failed writes.
THEOREM EachHasOneSlot == Spec => []OneSlotEach
<1>1. SInv => OneSlotEach
  <2> SUFFICES ASSUME SInv, Idle
               PROVE  /\ \A f \in Folder : Cardinality(SlotsOf(saves, f)) = 1
                      /\ Cardinality(FreeSlots(saves)) = 1
                      /\ saves[0] = Small
    BY DEF OneSlotEach
  <2>1. Planned(saves, todo) /\ todo = <<>>
    BY DEF SInv, Idle
  <2>2. Settled(saves)
    BY <2>1 DEF Planned, Deletes, SavesAnew, GivesUp
  <2> QED BY <2>2, SettledCounts
<1> QED BY <1>1, AlwaysSInv, PTL

\* From the moment a new slot is on the file a restart finds what the game has now.
THEOREM FoundOnceWritten == Spec => []SavedOnceWritten
<1>1. SInv => SavedOnceWritten
  <2> SUFFICES ASSUME SInv, store = "closed", ~failed, ~checking,
                      \A k \in 1 .. Len(todo) : todo[k].value = Blank
               PROVE  Recovered(file) = Recovered(After(saves, todo, Len(todo)))
    BY DEF SavedOnceWritten
  <2>1. file = saves /\ Planned(saves, todo) /\ saves \in Image
    BY DEF SInv, TypeOK
  <2>2. \A f, g, b : Live(f, g, b) # Blank
    BY DEF Live, Blank
  <2>3. CASE todo = <<>>
    <3>1. After(saves, todo, Len(todo)) = saves
      BY <2>3, AfterIs
    <3> QED BY <2>1, <3>1
  <2>4. ASSUME NEW f \in Folder, NEW i \in Slot, Deletes(saves, todo, f, i) PROVE FALSE
    <3>1. PICK v : v = Live(f, 0, Fresh)
      OBVIOUS
    <3>2. todo = <<Write(i, v)>>
      BY <2>4, <3>1 DEF Deletes
    <3>3. Len(todo) = 1 /\ todo[1].value = v
      BY <3>2 DEF Write
    <3> QED BY <2>2, <3>1, <3>3
  <2>5. ASSUME NEW f \in Folder, NEW o \in Slot, NEW n \in Slot, NEW b \in Body,
               SavesAnew(saves, todo, f, o, n, b)
        PROVE  FALSE
    <3>1. PICK v : v = Live(f, (saves[o].gen + 1) % 4, b)
      OBVIOUS
    <3>2. todo = <<Write(n, v), Write(o, Blank)>>
      BY <2>5, <3>1 DEF SavesAnew
    <3>3. Len(todo) = 2 /\ todo[1].value = v
      BY <3>2 DEF Write
    <3> QED BY <2>2, <3>1, <3>3
  <2>6. ASSUME NEW f \in Folder, NEW o \in Slot, NEW n \in Slot, GivesUp(saves, todo, f, o, n)
        PROVE  Recovered(file) = Recovered(After(saves, todo, Len(todo)))
    <3>1. Moved(saves, f, o, n) /\ todo = <<Write(o, Blank)>>
      BY <2>6 DEF GivesUp
    <3>2. Len(todo) = 1 /\ todo[1].block = o /\ todo[1].value = Blank
      BY <3>1 DEF Write
    <3>3. PICK one : one = [saves EXCEPT ![o] = Blank]
      OBVIOUS
    <3>4. After(saves, todo, Len(todo)) = one
      BY <3>2, <3>3, AfterIs
    <3>5. Written(one, saves, o, Blank)
      BY <2>1, <3>3, WriteWrites, Kinds, Zenon
    <3>6. Like(one, saves)
      BY <2>1, <3>1, <3>5, GivingUpKeeps
    <3>7. Recovered(one) = Recovered(saves)
      BY <3>6, RecoveredIs DEF Like
    <3> QED BY <2>1, <3>4, <3>7
  <2> QED BY <2>1, <2>3, <2>4, <2>5, <2>6 DEF Planned
<1> QED BY <1>1, AlwaysSInv, PTL

-------------------------------------------------------------------------------
(* The slots keep what SaveStore promises.                                 *)

\* The images on the way of a list of writes, and the last of them.
Ahead(image, writes) == {After(image, writes, n) : n \in 0 .. Len(writes)}
Final(image, writes) == After(image, writes, Len(writes))

\* What a restart may find, of each folder, if it finds one of some images.
Outcomes(C) == [f \in Folder |-> {Recovered(c)[f] : c \in C}]
Remains(C) ==
  [f \in Folder |-> {Fresh} \cup UNION {{c[i].body : i \in SlotsOf(c, f)} : c \in C}]

\* The images of a set have each something like them in another.
AllLike(C, D) == \A c \in C : \E d \in D : Like(c, d)

\* The actions of SaveStore, in these words.
LEMMA StoreActions ==
  /\ Candidates = {file} \cup Ahead(eeprom, todo)
  /\ Candidates' = {file'} \cup Ahead(eeprom', todo')
  /\ Abs!Init <=> /\ Recovered(Final(eeprom, todo)) \in [Folder -> Body]
                  /\ Outcomes(Candidates) \in [Folder -> SUBSET Body]
                  /\ Remains(Candidates) \in [Folder -> SUBSET Body]
                  /\ (store = "open") \in BOOLEAN
  /\ \A f, b :
       Abs!Play(f, b) <=>
         /\ ~(store = "open")
         /\ Recovered(Final(eeprom', todo')) = [Recovered(Final(eeprom, todo)) EXCEPT ![f] = b]
         /\ \A g \in Folder :
              /\ Outcomes(Candidates')[g] \subseteq
                   Outcomes(Candidates)[g] \cup (IF g = f THEN {b} ELSE {})
              /\ Remains(Candidates')[g] \subseteq
                   Remains(Candidates)[g] \cup (IF g = f THEN {b} ELSE {})
         /\ (store' = "open") = (store = "open")
  /\ Abs!Rewrite <=>
       /\ \A f \in Folder : /\ Outcomes(Candidates')[f] \subseteq Outcomes(Candidates)[f]
                            /\ Remains(Candidates')[f] \subseteq Remains(Candidates)[f]
       /\ Recovered(Final(eeprom', todo')) = Recovered(Final(eeprom, todo))
       /\ (store' = "open") \in BOOLEAN
  /\ Abs!Restart <=>
       /\ \A f \in Folder :
            /\ Recovered(Final(eeprom', todo'))[f] \in
                 IF store = "open" THEN Remains(Candidates)[f] ELSE Outcomes(Candidates)[f]
            /\ Outcomes(Candidates')[f] = {Recovered(Final(eeprom', todo'))[f]}
            /\ Remains(Candidates')[f] \subseteq Remains(Candidates)[f]
       /\ ~(store' = "open")
  /\ Abs!vars = <<Recovered(Final(eeprom, todo)), Outcomes(Candidates), Remains(Candidates),
                  store = "open">>
  /\ Abs!vars' = <<Recovered(Final(eeprom', todo')), Outcomes(Candidates'), Remains(Candidates'),
                   store' = "open">>
  /\ Abs!Next <=> (\E f \in Folder, b \in Body : Abs!Play(f, b)) \/ Abs!Rewrite \/ Abs!Restart
BY DEF Abs!Init, Abs!Play, Abs!Rewrite, Abs!Restart, Abs!Next, Abs!vars, Candidates, Ahead, Final,
       Outcomes, Remains

\* Contents and what is in the slots of a set of images, folder by folder.
LEMMA OutcomesAre ==
  ASSUME NEW C, NEW f \in Folder
  PROVE  /\ Outcomes(C)[f] = {Content(c, f) : c \in C}
         /\ Remains(C)[f] = {Fresh} \cup UNION {Bodies(c, f) : c \in C}
<1>1. \A c : Recovered(c)[f] = Content(c, f)
  BY RecoveredIs
<1>2. Outcomes(C)[f] = {Recovered(c)[f] : c \in C}
  BY DEF Outcomes
<1>3. Outcomes(C)[f] = {Content(c, f) : c \in C}
  BY <1>1, <1>2
<1>4. Remains(C)[f] = {Fresh} \cup UNION {Bodies(c, f) : c \in C}
  BY DEF Remains, Bodies
<1> QED BY <1>3, <1>4

\* Fewer images, or better ones, allow fewer contents.
LEMMA AllLikeGivesLess ==
  ASSUME NEW C, NEW D, AllLike(C, D), NEW f \in Folder
  PROVE  Outcomes(C)[f] \subseteq Outcomes(D)[f] /\ Remains(C)[f] \subseteq Remains(D)[f]
<1>1. /\ Outcomes(C)[f] = {Content(c, f) : c \in C}
      /\ Remains(C)[f] = {Fresh} \cup UNION {Bodies(c, f) : c \in C}
  BY OutcomesAre
<1>2. /\ Outcomes(D)[f] = {Content(c, f) : c \in D}
      /\ Remains(D)[f] = {Fresh} \cup UNION {Bodies(c, f) : c \in D}
  BY OutcomesAre
<1>3. \A c \in C : \E d \in D : Content(c, f) = Content(d, f)
                               /\ Bodies(c, f) \subseteq Bodies(d, f) \cup {Fresh}
  BY DEF AllLike, Like
<1>4. {Content(c, f) : c \in C} \subseteq {Content(c, f) : c \in D}
  BY <1>3
<1>5. UNION {Bodies(c, f) : c \in C} \subseteq {Fresh} \cup UNION {Bodies(c, f) : c \in D}
  BY <1>3
<1> QED BY <1>1, <1>2, <1>4, <1>5

\* Fewer images are such images.
LEMMA SubsetIsAllLike ==
  ASSUME NEW D, NEW C \in SUBSET D
  PROVE  AllLike(C, D)
BY DEF AllLike, Like

\* The device is rewritten whenever its images come to be fewer, or better.
LEMMA Rewrites ==
  ASSUME AllLike(Candidates', Candidates),
         Recovered(Final(eeprom', todo')) = Recovered(Final(eeprom, todo))
  PROVE  Abs!Rewrite
<1>1. \A f \in Folder : /\ Outcomes(Candidates')[f] \subseteq Outcomes(Candidates)[f]
                        /\ Remains(Candidates')[f] \subseteq Remains(Candidates)[f]
  BY AllLikeGivesLess
<1>2. (store' = "open") \in BOOLEAN
  OBVIOUS
<1> QED BY <1>1, <1>2, StoreActions

\* There is always the image itself, and a list begins with its first write.
LEMMA AheadIs ==
  ASSUME NEW image
  PROVE  /\ Ahead(image, <<>>) = {image} /\ Final(image, <<>>) = image
         /\ \A writes : Len(writes) \in Nat => image \in Ahead(image, writes)
<1>1. \A writes : After(image, writes, 0) = image
  BY AfterIs
<1>2. Len(<<>>) = 0 /\ 0 .. 0 = {0}
  OBVIOUS
<1>3. Ahead(image, <<>>) = {After(image, <<>>, 0)} /\ Final(image, <<>>) = After(image, <<>>, 0)
  BY <1>2 DEF Ahead, Final
<1>4. ASSUME NEW writes, Len(writes) \in Nat PROVE image \in Ahead(image, writes)
  <2>1. 0 \in 0 .. Len(writes)
    BY <1>4
  <2>2. After(image, writes, 0) \in Ahead(image, writes)
    BY <2>1 DEF Ahead
  <2> QED BY <1>1, <2>2
<1> QED BY <1>1, <1>3, <1>4

\* Once its first write is made fewer images are ahead, and the last is the same.
LEMMA AheadOfTail ==
  ASSUME NEW image, NEW writes \in Seq(Writes), Len(writes) \in 1 .. 2,
         NEW new, new = [image EXCEPT ![Head(writes).block] = Head(writes).value]
  PROVE  /\ Ahead(new, Tail(writes)) \subseteq Ahead(image, writes)
         /\ Final(new, Tail(writes)) = Final(image, writes)
<1>1. Head(writes) = writes[1]
  OBVIOUS
<1>2. After(image, writes, 1) = new
  BY <1>1, AfterIs
<1>3. After(image, writes, 2) = [new EXCEPT ![writes[2].block] = writes[2].value]
  <2>1. After(image, writes, 2) =
          [After(image, writes, 1) EXCEPT ![writes[2].block] = writes[2].value]
    BY AfterIs
  <2> QED BY <1>2, <2>1, Zenon
<1>4. CASE Len(writes) = 1
  <2>1. Tail(writes) = <<>>
    <3>1. Tail(writes) \in Seq(Writes) /\ Len(Tail(writes)) = 0
      BY <1>4, EmptySeq, HeadTailProperties
    <3> QED BY <3>1, EmptySeq
  <2>2. Ahead(new, Tail(writes)) = {new} /\ Final(new, Tail(writes)) = new
    BY <2>1, AheadIs
  <2>3. After(image, writes, 1) \in Ahead(image, writes)
    BY <1>4 DEF Ahead
  <2>4. Final(image, writes) = new
    BY <1>2, <1>4 DEF Final
  <2> QED BY <1>2, <2>2, <2>3, <2>4
<1>5. CASE Len(writes) = 2
  <2>1. PICK t : t = Tail(writes)
    OBVIOUS
  <2>2. Len(t) = 1 /\ t[1] = writes[2]
    <3>1. writes # <<>>
      BY <1>5, EmptySeq
    <3> QED BY <1>5, <2>1, <3>1, HeadTailProperties
  <2>3. After(new, t, 0) = new /\ After(new, t, 1) = After(image, writes, 2)
    <3>1. After(new, t, 0) = new /\ After(new, t, 1) = [new EXCEPT ![t[1].block] = t[1].value]
      BY AfterIs
    <3> QED BY <1>3, <2>2, <3>1, Zenon
  <2>4. 0 .. Len(t) = {0, 1}
    BY <2>2
  <2>5. Ahead(new, t) = {After(new, t, 0), After(new, t, 1)}
    BY <2>4 DEF Ahead
  <2>6. {After(image, writes, 1), After(image, writes, 2)} \subseteq Ahead(image, writes)
    BY <1>5 DEF Ahead
  <2>7. Final(new, t) = Final(image, writes)
    BY <1>5, <2>2, <2>3 DEF Final
  <2> QED BY <1>2, <2>1, <2>3, <2>5, <2>6, <2>7
<1>6. Len(writes) = 1 \/ Len(writes) = 2
  OBVIOUS
<1> QED BY <1>4, <1>5, <1>6

-------------------------------------------------------------------------------
(* Each step is one of SaveStore.                                          *)

\* A write of an operation leaves fewer images ahead, and the last is the same.
LEMMA WriteNextRewrites == SInv /\ WriteNext => Abs!Rewrite
<1> SUFFICES ASSUME SInv, WriteNext PROVE Abs!Rewrite
  OBVIOUS
<1>1. file' = file
  BY StoreOpensOrFails DEF SInv, WriteNext
<1>2. /\ eeprom' = [eeprom EXCEPT ![Head(todo).block] = Head(todo).value]
      /\ todo' = Tail(todo) /\ todo # <<>> /\ store = "closed"
  BY DEF WriteNext, WriteBlock
<1>3. todo \in Seq(Writes) /\ Len(todo) \in 1 .. 2
  <2>1. Planned(saves, todo) /\ saves \in Image
    BY <1>2 DEF SInv, TypeOK
  <2>2. todo \in Seq(Writes) /\ Len(todo) \in 0 .. 2
    BY <2>1, PlannedFits
  <2>3. Len(todo) \in Nat \ {0}
    BY <1>2, <2>2, EmptySeq
  <2> QED BY <2>2, <2>3
<1>4. /\ Ahead(eeprom', todo') \subseteq Ahead(eeprom, todo)
      /\ Final(eeprom', todo') = Final(eeprom, todo)
  BY <1>2, <1>3, AheadOfTail
<1>5. Candidates' \subseteq Candidates
  BY <1>1, <1>4, StoreActions
<1>6. AllLike(Candidates', Candidates)
  BY <1>5, SubsetIsAllLike
<1> QED BY <1>4, <1>6, Rewrites

\* A repair leaves every folder what it would have had.
LEMMA WriteRepairRewrites == SInv /\ WriteRepair => Abs!Rewrite
<1> SUFFICES ASSUME SInv, WriteRepair PROVE Abs!Rewrite
  OBVIOUS
<1>1. file' = file
  BY StoreOpensOrFails DEF SInv, WriteRepair
<1>2. PICK w : w = NextRepair(eeprom)
  OBVIOUS
<1>3. /\ eeprom' = [eeprom EXCEPT ![w.block] = w.value]
      /\ todo' = <<>> /\ todo = <<>> /\ ~Sound(eeprom)
  BY <1>2 DEF SInv, WriteRepair, WriteBlock
<1>4. Repairs(eeprom', eeprom)
  BY <1>2, <1>3, NextRepairRepairs DEF SInv, TypeOK
<1>5. Like(eeprom', eeprom)
  BY <1>4 DEF Repairs, Like
<1>6. /\ Ahead(eeprom', todo') = {eeprom'} /\ Final(eeprom', todo') = eeprom'
      /\ Ahead(eeprom, todo) = {eeprom} /\ Final(eeprom, todo) = eeprom
  BY <1>3, AheadIs
<1>7. AllLike(Candidates', Candidates)
  <2>1. Candidates = {file, eeprom} /\ Candidates' = {file, eeprom'}
    BY <1>1, <1>6, StoreActions
  <2>2. Like(file, file)
    BY DEF Like
  <2> QED BY <1>5, <2>1, <2>2 DEF AllLike
<1>8. Recovered(Final(eeprom', todo')) = Recovered(Final(eeprom, todo))
  BY <1>5, <1>6, RecoveredIs DEF Like
<1> QED BY <1>7, <1>8, Rewrites

\* When the file is closed it holds the image there is.
LEMMA CloseFileRewrites == SInv /\ CloseFile => Abs!Rewrite
<1> SUFFICES ASSUME SInv, CloseFile PROVE Abs!Rewrite
  OBVIOUS
<1>1. file' = eeprom /\ eeprom' = eeprom /\ todo' = todo
  BY DEF CloseFile
<1>2. eeprom \in Ahead(eeprom, todo)
  <2>1. Len(todo) \in Nat
    BY LenProperties DEF SInv, TypeOK
  <2> QED BY <2>1, AheadIs
<1>3. Candidates' \subseteq Candidates
  BY <1>1, <1>2, StoreActions
<1>4. AllLike(Candidates', Candidates)
  BY <1>3, SubsetIsAllLike
<1> QED BY <1>1, <1>4, Rewrites

\* A crash leaves the file as it is, or torn if it was being rewritten.
LEMMA CrashRestarts == SInv /\ Crash => Abs!Restart
<1> SUFFICES ASSUME SInv, Crash PROVE Abs!Restart
  OBVIOUS
<1>1. eeprom' = file' /\ todo' = <<>> /\ store' = "off"
  BY DEF Crash
<1>2. Final(eeprom', todo') = file' /\ Candidates' = {file'}
  BY <1>1, AheadIs, StoreActions
<1>3. \A f \in Folder : /\ Outcomes(Candidates')[f] = {Content(file', f)}
                        /\ Remains(Candidates')[f] = {Fresh} \cup Bodies(file', f)
                        /\ Recovered(Final(eeprom', todo'))[f] = Content(file', f)
  BY <1>2, OutcomesAre, RecoveredIs
<1>4. ASSUME file' = file /\ store = "closed", NEW f \in Folder
      PROVE  /\ Content(file', f) \in IF store = "open" THEN Remains(Candidates)[f]
                                      ELSE Outcomes(Candidates)[f]
             /\ {Fresh} \cup Bodies(file', f) \subseteq Remains(Candidates)[f]
  <2>1. file' \in Candidates
    BY <1>4, StoreActions
  <2>2. /\ Content(file', f) \in Outcomes(Candidates)[f]
        /\ {Fresh} \cup Bodies(file', f) \subseteq Remains(Candidates)[f]
    BY <2>1, OutcomesAre
  <2> QED BY <1>4, <2>2
<1>5. ASSUME store = "open", NEW n, file' = Torn(eeprom, n), NEW f \in Folder
      PROVE  /\ Content(file', f) \in IF store = "open" THEN Remains(Candidates)[f]
                                      ELSE Outcomes(Candidates)[f]
             /\ {Fresh} \cup Bodies(file', f) \subseteq Remains(Candidates)[f]
  <2>1. eeprom \in Image /\ NoSmall(eeprom) /\ TwoAtMost(eeprom) /\ Len(todo) \in Nat
    BY LenProperties DEF SInv, TypeOK
  <2>2. /\ TwoAtMost(file') /\ SlotsOf(file', f) \subseteq SlotsOf(eeprom, f)
        /\ \A i \in SlotsOf(file', f) : file'[i] = eeprom[i]
    BY <1>5, <2>1, TornIsLess
  <2>3. Bodies(file', f) \subseteq Bodies(eeprom, f)
    BY <2>2 DEF Bodies
  <2>4. Content(file', f) \in {Fresh} \cup Bodies(file', f)
    BY <2>2, ContentIsHeld DEF TwoAtMost
  <2>5. eeprom \in Candidates
    BY <2>1, AheadIs, StoreActions
  <2>6. {Fresh} \cup Bodies(eeprom, f) \subseteq Remains(Candidates)[f]
    BY <2>5, OutcomesAre
  <2> QED BY <1>5, <2>3, <2>4, <2>6
<1>6. \A f \in Folder : /\ Content(file', f) \in IF store = "open" THEN Remains(Candidates)[f]
                                                 ELSE Outcomes(Candidates)[f]
                        /\ {Fresh} \cup Bodies(file', f) \subseteq Remains(Candidates)[f]
  BY <1>4, <1>5 DEF Crash
<1>7. ~(store' = "open")
  BY <1>1
<1>8. \A f \in Folder :
        /\ Recovered(Final(eeprom', todo'))[f] \in
             IF store = "open" THEN Remains(Candidates)[f] ELSE Outcomes(Candidates)[f]
        /\ Outcomes(Candidates')[f] = {Recovered(Final(eeprom', todo'))[f]}
        /\ Remains(Candidates')[f] \subseteq Remains(Candidates)[f]
  <2> TAKE f \in Folder
  <2>1. Outcomes(Candidates')[f] = {Recovered(Final(eeprom', todo'))[f]}
    BY <1>3, Zenon
  <2>2. Remains(Candidates')[f] \subseteq Remains(Candidates)[f]
    BY <1>3, <1>6, Zenon
  <2>3. Recovered(Final(eeprom', todo'))[f] \in
          IF store = "open" THEN Remains(Candidates)[f] ELSE Outcomes(Candidates)[f]
    BY <1>3, <1>6, Zenon
  <2> QED BY <2>1, <2>2, <2>3
<1> QED BY <1>7, <1>8, StoreActions

\* An operation adds images in which one folder has its new content.
LEMMA OperationPlays ==
  \A f \in Folder : SInv /\ Operation(f) => \E g \in Folder, b \in Body : Abs!Play(g, b)
<1> SUFFICES ASSUME NEW f \in Folder, SInv, Operation(f)
             PROVE  \E g \in Folder, b \in Body : Abs!Play(g, b)
  OBVIOUS
<1>1. file' = file /\ eeprom' = eeprom /\ store' = store /\ store = "closed" /\ todo = <<>>
  BY OperationChanges DEF Idle
<1>2. PICK g \in Folder, b \in Body : Changes(todo', g, b)
  BY OperationChanges
<1>3. /\ Len(todo') \in 1 .. 2
      /\ \A n \in 1 .. Len(todo') : Puts(After(eeprom, todo', n), eeprom, g, b)
  BY <1>2, ChangesPut DEF SInv, TypeOK
<1>4. Candidates = {file, eeprom} /\ Final(eeprom, todo) = eeprom
  BY <1>1, AheadIs, StoreActions
<1>5. Candidates' = {file} \cup Ahead(eeprom, todo')
  BY <1>1, StoreActions
<1>6. \A c \in Candidates' : c \in Candidates \/ Puts(c, eeprom, g, b)
  <2> TAKE c \in Candidates'
  <2>1. CASE c = file
    BY <1>4, <2>1
  <2>2. CASE c \in Ahead(eeprom, todo')
    <3>1. PICK n \in 0 .. Len(todo') : c = After(eeprom, todo', n)
      BY <2>2 DEF Ahead
    <3>2. n = 0 \/ n \in 1 .. Len(todo')
      BY <1>3, <3>1
    <3>3. After(eeprom, todo', 0) = eeprom
      BY AfterIs
    <3> QED BY <1>3, <1>4, <3>1, <3>2, <3>3
  <2> QED BY <1>5, <2>1, <2>2
<1>7. Puts(Final(eeprom', todo'), eeprom, g, b)
  <2>1. Len(todo') \in 1 .. Len(todo')
    BY <1>3
  <2> QED BY <1>1, <1>3, <2>1 DEF Final
<1>8. Recovered(Final(eeprom', todo')) = [Recovered(Final(eeprom, todo)) EXCEPT ![g] = b]
  <2>1. PICK last : last = Final(eeprom', todo')
    OBVIOUS
  <2>2. \A h \in Folder : Content(last, h) = IF h = g THEN b ELSE Content(eeprom, h)
    BY <1>7, <2>1 DEF Puts
  <2>3. Recovered(last) = [h \in Folder |-> Content(last, h)]
        /\ Recovered(eeprom) = [h \in Folder |-> Content(eeprom, h)]
    BY RecoveredIs
  <2>4. Recovered(last) = [Recovered(eeprom) EXCEPT ![g] = b]
    BY <2>2, <2>3
  <2> QED BY <1>4, <2>1, <2>4
<1>9. ASSUME NEW h \in Folder
      PROVE  /\ Outcomes(Candidates')[h] \subseteq
                  Outcomes(Candidates)[h] \cup (IF h = g THEN {b} ELSE {})
             /\ Remains(Candidates')[h] \subseteq
                  Remains(Candidates)[h] \cup (IF h = g THEN {b} ELSE {})
  <2> DEFINE more == IF h = g THEN {b} ELSE {}
  <2>1. /\ Outcomes(Candidates)[h] = {Content(c, h) : c \in Candidates}
        /\ Remains(Candidates)[h] = {Fresh} \cup UNION {Bodies(c, h) : c \in Candidates}
    BY OutcomesAre
  <2>2. PICK D : D = Candidates'
    OBVIOUS
  <2>3. /\ Outcomes(D)[h] = {Content(c, h) : c \in D}
        /\ Remains(D)[h] = {Fresh} \cup UNION {Bodies(c, h) : c \in D}
    BY OutcomesAre
  <2>4. \A c \in D : \/ c \in Candidates
                     \/ /\ Content(c, h) \in {Content(eeprom, h)} \cup more
                        /\ Bodies(c, h) \subseteq Bodies(eeprom, h) \cup more
    BY <1>6, <2>2 DEF Puts
  <2>5. eeprom \in Candidates
    BY <1>4
  <2> HIDE DEF more
  <2>6. {Content(c, h) : c \in D} \subseteq {Content(c, h) : c \in Candidates} \cup more
    BY <2>4, <2>5
  <2>7. PICK U : U = UNION {Bodies(c, h) : c \in D}
    OBVIOUS
  <2>8. PICK V : V = UNION {Bodies(c, h) : c \in Candidates}
    OBVIOUS
  <2>9. U \subseteq V \cup more
    <3> SUFFICES ASSUME NEW x \in U PROVE x \in V \cup more
      OBVIOUS
    <3>1. PICK c \in D : x \in Bodies(c, h)
      BY <2>7
    <3>2. x \in more \/ \E d \in Candidates : x \in Bodies(d, h)
      BY <2>4, <2>5, <3>1
    <3> QED BY <2>8, <3>2
  <2>10. /\ Outcomes(D)[h] \subseteq Outcomes(Candidates)[h] \cup more
        /\ Remains(D)[h] \subseteq Remains(Candidates)[h] \cup more
    <3>1. Outcomes(D)[h] \subseteq Outcomes(Candidates)[h] \cup more
      BY <2>1, <2>3, <2>6, Zenon
    <3>2. Remains(D)[h] \subseteq Remains(Candidates)[h] \cup more
      <4>1. Remains(D)[h] = {Fresh} \cup U /\ Remains(Candidates)[h] = {Fresh} \cup V
        BY <2>1, <2>3, <2>7, <2>8, Zenon
      <4> QED BY <2>9, <4>1
    <3> QED BY <3>1, <3>2
  <2> QED BY <2>2, <2>10 DEF more
<1>10. ~(store = "open") /\ (store' = "open") = (store = "open")
  BY <1>1
<1>11. Abs!Play(g, b)
  BY <1>8, <1>9, <1>10, StoreActions
<1> QED BY <1>11

\* The end of the check, the start of the program and of a check change nothing.
LEMMA RestStutters ==
  SInv /\ (EndCheck \/ Boot \/ Validate \/ UNCHANGED vars) => UNCHANGED Abs!vars
<1> SUFFICES ASSUME SInv, EndCheck \/ Boot \/ Validate \/ UNCHANGED vars
             PROVE  UNCHANGED Abs!vars
  OBVIOUS
<1>1. file' = file /\ eeprom' = eeprom /\ todo' = todo /\ (store' = "open") = (store = "open")
  BY DEF SInv, EndCheck, Boot, Validate, vars
<1>2. Candidates' = Candidates
  BY <1>1, StoreActions
<1> QED BY <1>1, <1>2, StoreActions

\* A crash between any two writes costs a folder nothing but the change being made
\* and never brings back what was replaced; one inside a rewrite of the file may
\* blank the folder or undo the latest change, and nothing worse: however many
\* folders there are, and whatever they hold.
THEOREM SaveFileImplementsStore == Spec => ImplementsStore
<1>1. Init => Abs!Init
  <2> SUFFICES ASSUME Init PROVE Abs!Init
    OBVIOUS
  <2>1. SInv /\ eeprom = file /\ todo = <<>> /\ store = "off"
    BY InitSInv DEF Init
  <2>2. Candidates = {file} /\ Final(eeprom, todo) = file
    BY <2>1, AheadIs, StoreActions
  <2>3. \A f \in Folder : /\ Content(file, f) \in Body
                          /\ Bodies(file, f) \subseteq Body /\ Fresh \in Body
    <3> TAKE f \in Folder
    <3>1. file \in Image /\ Cardinality(SlotsOf(file, f)) <= 2
      BY <2>1 DEF SInv, TypeOK, TwoAtMost
    <3>2. Bodies(file, f) \subseteq Body /\ Fresh \in Body
      BY <3>1, BodiesTyped
    <3> QED BY <3>1, <3>2, ContentIsHeld
  <2>4. Recovered(Final(eeprom, todo)) \in [Folder -> Body]
    BY <2>2, <2>3, RecoveredIs
  <2>5. \A f \in Folder : /\ Outcomes(Candidates)[f] \in SUBSET Body
                          /\ Remains(Candidates)[f] \in SUBSET Body
    <3> TAKE f \in Folder
    <3>1. /\ Outcomes({file})[f] = {Content(c, f) : c \in {file}}
          /\ Remains({file})[f] = {Fresh} \cup UNION {Bodies(c, f) : c \in {file}}
      BY OutcomesAre
    <3>2. {Content(c, f) : c \in {file}} \subseteq Body
      BY <2>3
    <3>3. {Fresh} \cup UNION {Bodies(c, f) : c \in {file}} \subseteq Body
      BY <2>3
    <3> QED BY <2>2, <3>1, <3>2, <3>3, Zenon
  <2>6. /\ Outcomes(Candidates) \in [Folder -> SUBSET Body]
        /\ Remains(Candidates) \in [Folder -> SUBSET Body]
    BY <2>5 DEF Outcomes, Remains
  <2>7. (store = "open") \in BOOLEAN
    OBVIOUS
  <2> QED BY <2>4, <2>6, <2>7, StoreActions
<1>2. SInv /\ [Next]_vars => [Abs!Next]_(Abs!vars)
  BY Steps, WriteNextRewrites, WriteRepairRewrites, CloseFileRewrites, CrashRestarts,
     OperationPlays, RestStutters, StoreActions
<1> QED BY AlwaysSInv, <1>1, <1>2, PTL DEF Spec, ImplementsStore, Abs!Spec
===============================================================================
