--------------------------------- MODULE Rooms ---------------------------------
(***************************************************************************)
(* The rooms of a stage, src/game/bg.c, in the ad hoc heap of src/mema.c:  *)
(* measured when the stage is loaded, loaded when they come into view and  *)
(* deleted when they have been out of view for some frames.                *)
(*                                                                         *)
(* A room has one block for its vertices and display lists and one for the *)
(* bounds of its vertex batches.  The compressed data and what is drawn    *)
(* with the room are left out.                                             *)
(***************************************************************************)
EXTENDS MemaHeap

CONSTANTS
  NumRooms,   \* g_MaxNumRooms - 1
  Need,       \* units of a room's data, decompressed
  Bounds,     \* units of the bounds of its vertex batches
  Preloads,   \* rooms the stage's visibility commands preload
  MaxAge      \* model_bin_loaded at which a room out of view is deleted (4)

Room == 1 .. NumRooms

ASSUME RoomsAssumption ==
  /\ NumRooms \in Nat /\ MaxAge \in Nat \ {0} /\ Preloads \subseteq Room
  /\ Need \in [Room -> Nat \ {0}] /\ Bounds \in [Room -> Nat \ {0}]

VARIABLES
  spaces,   \* g_MemoryAllocations
  room,     \* g_BgRoomInfo
  lost,     \* history: the units that memaSearch has given up
  stage     \* the room to measure next, Playing or Left

vars == <<spaces, room, lost, stage>>

Playing == NumRooms + 1
Left == NumRooms + 2

RoomInfo == [model_bin_loaded : 0 .. MaxAge, field_35 : BOOLEAN,
             cur_room_totalsize : Nat, vertices : Nat, vtx_batch_bounds : Nat]

TypeOK ==
  /\ spaces \in [Slot -> Space]
  /\ room \in [Room -> RoomInfo]
  /\ lost \in Nat /\ stage \in 1 .. Left

\* (cur_room_totalsize is -1 in the code while it is not known)
NewRoom == [model_bin_loaded |-> 0, field_35 |-> FALSE, cur_room_totalsize |-> 0,
            vertices |-> NULL, vtx_batch_bounds |-> NULL]

Init ==
  /\ spaces = WholeHeap
  /\ room = [r \in Room |-> NewRoom]
  /\ lost = 0 /\ stage = 1

Memory == [spaces |-> spaces, room |-> room, lost |-> lost]
Become(m) == spaces' = m.spaces /\ room' = m.room /\ lost' = m.lost

\* bgBuildRoomVtxBounds
WithBounds(m, r) ==
  LET a == Allocated(m.spaces, Bounds[r])
  IN IF m.room[r].vtx_batch_bounds # NULL THEN m
     ELSE [m EXCEPT !.spaces = a.table, !.room[r].vtx_batch_bounds = a.addr]

\* bgLoadRoomModelData: the first time into the longest free space, of which the
\* rest is then given back.  The size is rounded up to one or two units more than
\* the data; a failure to grow into them is not noticed.
Loaded(m, r) ==
  LET known == m.room[r].cur_room_totalsize > 0
      table == IF known THEN m.spaces ELSE Defrag(m.spaces)
      allocsize == IF known THEN m.room[r].cur_room_totalsize ELSE Longest(table)
      a == Allocated(table, allocsize)
      size == Need[r] + 2
      loaded == [m EXCEPT !.spaces = a.table,
                          !.room[r].model_bin_loaded = 1, !.room[r].vertices = a.addr,
                          !.room[r].cur_room_totalsize = size]
  IN IF m.room[r].model_bin_loaded # 0 THEN m
     ELSE IF a.addr = NULL THEN [m EXCEPT !.spaces = a.table]
     ELSE WithBounds(Reallocated(loaded, a.addr, allocsize, size), r)

\* delete_room_data (faulty variant of WithoutBounds: their address is kept)
BoundsFreed(m, r) ==
  LET b == m.room[r].vtx_batch_bounds
  IN IF b = NULL THEN m ELSE Freed(m, b, Bounds[r])
WithoutBounds(m, r) == [BoundsFreed(m, r) EXCEPT !.room[r].vtx_batch_bounds = NULL]

Deleted(m, r) ==
  LET size == m.room[r].cur_room_totalsize
      n == WithoutBounds(m, r)
      o == IF size = 0 THEN n ELSE Freed(n, m.room[r].vertices, size)
  IN [o EXCEPT !.room[r].model_bin_loaded = 0, !.room[r].vertices = NULL]

-------------------------------------------------------------------------------
\* bgRoomCalcBB, called for one room after the other when a stage is loaded
Measure ==
  /\ stage \in Room
  /\ Become(Deleted(Loaded(Memory, stage), stage))
  /\ stage' = stage + 1

\* bgRenderRoomPrimary: a room in view, while there is budget to load it
Render(r) ==
  /\ stage = Playing
  /\ LET m == Loaded(Memory, r)
     IN Become(IF m.room[r].model_bin_loaded = 0 THEN m
               ELSE [m EXCEPT !.room[r].model_bin_loaded = 1])
  /\ UNCHANGED stage

\* bgCheckIfRoomModelNeedsLoad: a room that a stage wants kept is never aged
Preload(r) ==
  /\ stage = Playing /\ r \in Preloads
  /\ Become(Loaded([Memory EXCEPT !.room[r].field_35 = TRUE], r))
  /\ UNCHANGED stage

\* bgRoomsTickUnload
Aged(m, r) ==
  IF m.room[r].field_35 \/ m.room[r].model_bin_loaded = 0 THEN m
  ELSE IF m.room[r].model_bin_loaded = MaxAge THEN Deleted(m, r)
  ELSE [m EXCEPT !.room[r].model_bin_loaded = @ + 1]

TickUnload ==
  /\ stage = Playing
  /\ Become(FoldLeft(Aged, Memory, [r \in Room |-> r]))
  /\ UNCHANGED stage

\* memaSingleDefragPass, once a frame
SingleDefragPass ==
  /\ stage = Playing
  /\ spaces' = DefragPass(spaces).table
  /\ UNCHANGED <<room, lost, stage>>

\* cleanup_rooms
Unload(m, r) == IF m.room[r].model_bin_loaded = 0 THEN m ELSE Deleted(m, r)
LeaveStage ==
  /\ stage = Playing
  /\ Become(FoldLeft(Unload, Memory, [r \in Room |-> r]))
  /\ stage' = Left

\* memaReset and the rooms of the next stage
NextStage ==
  /\ stage = Left
  /\ spaces' = WholeHeap /\ room' = [r \in Room |-> NewRoom]
  /\ lost' = 0 /\ stage' = 1

Next ==
  \/ Measure
  \/ \E r \in Room : Render(r) \/ Preload(r)
  \/ TickUnload \/ SingleDefragPass
  \/ LeaveStage \/ NextStage

Spec == Init /\ [][Next]_vars

-------------------------------------------------------------------------------
(* Properties.                                                             *)

Blocks ==
  {<<room[r].vertices, room[r].cur_room_totalsize>> : r \in {q \in Room : room[q].vertices # NULL}}
    \cup {<<room[r].vtx_batch_bounds, Bounds[r]>> :
            r \in {q \in Room : room[q].vtx_batch_bounds # NULL}}
FreeSpaces == {<<spaces[i].addr, spaces[i].size>> : i \in {j \in Slot : spaces[j].size # 0}}

\* What a room believes to be its block (the size is computed, not returned by the
\* allocator, and the block was grown without looking) and what the table holds to
\* be free lies in the heap and never overlaps: with another room's block, with
\* its own bounds or with free space that would be handed out again.
BlocksDisjoint ==
  /\ \A b \in Blocks \cup FreeSpaces : Extent(b[1], b[2]) \subseteq Units
  /\ \A b, c \in Blocks \cup FreeSpaces :
       b # c => Extent(b[1], b[2]) \cap Extent(c[1], c[2]) = {}
  /\ Blocks \cap FreeSpaces = {}

\* While the rooms of a stage are measured the longest free space has room for each
\* of them, with the units its size is rounded up by: were it shorter, the block
\* would have to grow, and whether it did is not looked at.  It holds although
\* merging stops early, see LongestIsLongest.
MeasuredRoomFits == stage \in Room => Longest(Defrag(spaces)) >= Need[stage] + 2

\* No memory goes astray, in whatever order rooms are loaded, deleted, swapped and
\* merged: what is neither in a block nor in the table was given up by memaSearch.
NothingLost ==
  LET Sum(S) == FoldSet(LAMBDA x, y : x[3] + y, 0, S)
      free == {<<"free", i, spaces[i].size>> : i \in Slot}
      data == {<<"data", r, room[r].cur_room_totalsize>> :
                 r \in {q \in Room : room[q].vertices # NULL}}
      bounds == {<<"bounds", r, Bounds[r]>> : r \in {q \in Room : room[q].vtx_batch_bounds # NULL}}
  IN Sum(free) + Sum(data) + Sum(bounds) + lost = HeapSize

\* A free space is given up for another one only when the table is full of spaces
\* no two of which could be merged: as memaSearch's comment has it, its passes
\* leave the table in order, whatever order they find it in.
GivesUpOnlyWhenStuck ==
  LET s == Search(spaces)
  IN s.table[s.slot].size # 0 => \A i, j \in Slot : ~Follows(spaces, i, j)

\* The comment of memaGetLongestFree: the longest space it finds is the longest run
\* of free units there is.
LongestIsLongest ==
  LET free == UNION {Extent(f[1], f[2]) : f \in FreeSpaces}
      longest == Longest(Defrag(spaces))
  IN \A u \in free : ~(Extent(u, longest + 1) \subseteq free)
===============================================================================
