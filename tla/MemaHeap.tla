-------------------------------- MODULE MemaHeap --------------------------------
(***************************************************************************)
(* The ad hoc allocator, src/mema.c: a table of the free spaces of a heap. *)
(* Allocations are not recorded; a block is freed with its address and     *)
(* size.  Sizes and addresses count units of 16 bytes.                     *)
(*                                                                         *)
(* The operations are operators from a table to a table: they run to the   *)
(* end on the main thread, and what is worth telling apart is what their   *)
(* callers do between them.                                                *)
(***************************************************************************)
EXTENDS Integers, SequencesExt

CONSTANTS
  HeapStart, HeapSize,  \* the block memaReset is given
  Slots,                \* ALLOCATIONS_LENGTH - 1 (508)
  Quick,                \* entries an allocation looks at for a good fit (16)
  Close,                \* what a good fit may leave over (64 bytes)
  Passes                \* merge passes before an allocation gives up (8)

ASSUME MemaAssumption ==
  /\ HeapStart \in Nat \ {0} /\ HeapSize \in Nat \ {0}
  /\ Slots \in Nat \ {0} /\ Quick \in 1 .. Slots
  /\ Close \in Nat /\ Passes \in Nat

Slot == 1 .. Slots
Units == HeapStart .. (HeapStart + HeapSize - 1)
Space == [addr : Nat, size : Nat]
NoSpace == [addr |-> 0, size |-> 0]
NoSlot == 0
NULL == 0

SmallestIn(S) == CHOOSE i \in S : \A j \in S : i <= j

\* memaReset
WholeHeap ==
  [i \in Slot |-> IF i = 1 THEN [addr |-> HeapStart, size |-> HeapSize] ELSE NoSpace]

Swapped(table, i, j) == [table EXCEPT ![i] = table[j], ![j] = table[i]]

\* memaMerge (faulty variant: the space merged is forgotten)
MergedAway(table, i, j) == [table EXCEPT ![j] = NoSpace]
Merged(table, i, j) == [table EXCEPT ![i].size = @ + table[j].size, ![j] = NoSpace]

Follows(table, i, j) == table[i].addr + table[i].size = table[j].addr

\* memaDefragPass: each space is swapped with the one before it when it lies
\* below that one, and otherwise merged when it follows it.
PassStep(s, i) ==
  IF s.table[i].size = 0 THEN s
  ELSE IF s.prev # NoSlot /\ s.table[i].addr < s.table[s.prev].addr
       THEN [s EXCEPT !.table = Swapped(@, i, s.prev), !.prev = i]
  ELSE IF s.prev # NoSlot /\ Follows(s.table, s.prev, i)
       THEN [s EXCEPT !.table = Merged(@, s.prev, i), !.any = TRUE]
  ELSE [s EXCEPT !.prev = i]

DefragPass(table) ==
  FoldLeft(PassStep, [table |-> table, prev |-> NoSlot, any |-> FALSE], [i \in Slot |-> i])

\* memaDefrag: passes until one merges nothing, after Slots of them at the latest
Defrag(table) ==
  LET Again(s, i) == IF s.any THEN DefragPass(s.table) ELSE s
  IN FoldLeft(Again, DefragPass(table), [i \in Slot |-> i]).table

\* memaGetLongestFree, after memaDefrag
Longest(table) == CHOOSE n \in {table[i].size : i \in Slot} : \A i \in Slot : table[i].size <= n

\* memaSearch: a slot for one more space is found empty or made by merging two
\* spaces, while the table is sorted in as many passes as it may need; if there is
\* none the smallest space is given up for it.
SearchStep(s, i) ==
  IF s.slot # NoSlot THEN s
  ELSE IF s.table[i].size = 0 THEN [s EXCEPT !.slot = i]
  ELSE IF i = Slots THEN s
  ELSE LET t == IF s.table[i + 1].addr < s.table[i].addr
                THEN Swapped(s.table, i, i + 1) ELSE s.table
       IN IF Follows(t, i, i + 1)
          THEN [table |-> Merged(t, i, i + 1), slot |-> i + 1]
          ELSE [table |-> t, slot |-> NoSlot]

\* (faulty variant of SearchPasses: a single pass)
OnePass == 1
SearchPasses == Slots

Search(table) ==
  LET order == [k \in 1 .. (SearchPasses * Slots) |-> ((k - 1) % Slots) + 1]
      s == FoldLeft(SearchStep, [table |-> table, slot |-> NoSlot], order)
      smallest == {i \in Slot : \A j \in Slot : s.table[i].size <= s.table[j].size}
  IN IF s.slot # NoSlot THEN s ELSE [s EXCEPT !.slot = SmallestIn(smallest)]

\* _memaFree: the entry that corresponds to the address or a later empty one;
\* when there is none the code looks at the earlier ones, but finding an empty
\* one there sends it to memaSearch, just as finding none does.
\* (lost counts the units given up so far.)
Freed(m, addr, size) ==
  LET index == ((addr - HeapStart) * Slots) \div HeapSize + 1
      later == {i \in index .. Slots : m.spaces[i].size = 0}
      s == Search(m.spaces)
      space == [addr |-> addr, size |-> size]
  IN IF later # {} THEN [m EXCEPT !.spaces[SmallestIn(later)] = space]
     ELSE [m EXCEPT !.spaces = [s.table EXCEPT ![s.slot] = space],
                    !.lost = @ + s.table[s.slot].size]

\* The front of a space is taken (the end of memaAlloc and of memaGrow).
Taken(table, i, amount) ==
  [table EXCEPT ![i] = IF @.size = amount THEN NoSpace
                       ELSE [addr |-> @.addr + amount, size |-> @.size - amount]]

\* memaAlloc, amount > 0: a good fit or else the best one among the first
\* entries, or else the first one that is large enough, if need be after merging.
Allocated(table, amount) ==
  LET Fits(t) == {i \in Slot : t[i].size >= amount}
      over(i) == table[i].size - amount
      quick == Fits(table) \cap 1 .. Quick
      good == {i \in quick : over(i) < Close \/ over(i) * 4 < amount}
      best == {i \in quick : \A j \in quick : over(i) <= over(j)}
      merged == FoldLeft(LAMBDA t, k : DefragPass(t).table, table, [k \in 1 .. Passes |-> k])
      At(t, i) == [table |-> Taken(t, i, amount), addr |-> t[i].addr]
  IN IF good # {} THEN At(table, SmallestIn(good))
     ELSE IF best # {} THEN At(table, SmallestIn(best))
     ELSE IF Fits(table) # {} THEN At(table, SmallestIn(Fits(table)))
     ELSE IF Fits(merged) # {} THEN At(merged, SmallestIn(Fits(merged)))
     ELSE [table |-> merged, addr |-> NULL]

\* memaGrow
Grown(table, addr, amount) ==
  LET after == {i \in Slot : table[i].addr = addr /\ table[i].size >= amount}
  IN IF after = {} THEN table ELSE Taken(table, SmallestIn(after), amount)

\* memaRealloc (faulty variant: what a block has too much is not given back)
OnlyGrown(m, addr, oldsize, newsize) ==
  IF newsize > oldsize
  THEN [m EXCEPT !.spaces = Grown(@, addr + oldsize, newsize - oldsize)] ELSE m
Reallocated(m, addr, oldsize, newsize) ==
  IF newsize > oldsize
  THEN [m EXCEPT !.spaces = Grown(@, addr + oldsize, newsize - oldsize)]
  ELSE IF newsize < oldsize THEN Freed(m, addr + newsize, oldsize - newsize)
  ELSE m

Extent(addr, size) == addr .. (addr + size - 1)
===============================================================================
