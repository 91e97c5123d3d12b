-------------------------------- MODULE Heap --------------------------------
(***************************************************************************)
(* The kernel heap of src/kernel/memory/heap.c: first fit over a chain of  *)
(* blocks, each a header and the bytes behind it; kmalloc splits, kfree    *)
(* joins a block with the free blocks that follow it.                      *)
(*                                                                         *)
(* Addresses and block sizes are counted in granules of Granule bytes, the *)
(* 16 of the code, which is also the size of a header.  Requests are in    *)
(* bytes and computed in words of Word values, the 2^64 of size_t.         *)
(***************************************************************************)
EXTENDS Integers, FiniteSetsExt

CONSTANTS HeapSize,     \* granules of the heap
          Granule,      \* bytes of a granule
          Word,         \* number of values of a size_t
          Requests      \* the sizes callers ask for

ASSUME HeapAssumption ==
  /\ HeapSize \in Nat /\ HeapSize > 1 /\ Granule \in Nat \ {0} /\ Word \in Nat \ {0}
ASSUME RequestAssumption == Requests \subseteq 0 .. Word - 1

VARIABLES blocks,       \* header address -> [size, free]
          live            \* pointer a caller holds -> bytes it asked for

vars == <<blocks, live>>

Block == [size : Nat, free : BOOLEAN]

Headers == DOMAIN blocks

\* next_block: the header behind block b.
After(b) == b + 1 + blocks[b].size

\* size rounded up to whole granules, as the code's word arithmetic has it.
\* Mutant: rounded down.
UnitsDown(bytes) == bytes \div Granule
Units(bytes)     == ((bytes + Granule - 1) % Word) \div Granule

Fitting(units) == {b \in Headers : blocks[b].free /\ blocks[b].size >= units}

\* A block is split when what is left holds a header and a granule.
Splits(b, units) == blocks[b].size >= units + 2

----------------------------------------------------------------------------
Init ==
  /\ blocks = [b \in {0} |-> [size |-> HeapSize - 1, free |-> TRUE]]
  /\ live = [p \in {} |-> 0]

\* The chain with block b in use, cut after its first units granules.
Cut(b, units) ==
  LET rest == b + 1 + units
  IN  [h \in Headers \cup {rest} |->
         CASE h = b    -> [size |-> units, free |-> FALSE]
           [] h = rest -> [size |-> blocks[b].size - units - 1, free |-> TRUE]
           [] OTHER    -> blocks[h]]

\* The chain with all of block b in use.  Mutant: its flag is cleared only when
\* it is split.
WholeStillFree(b) == blocks
Whole(b)          == [blocks EXCEPT ![b].free = FALSE]

Hold(p, bytes) == [r \in DOMAIN live \cup {p} |-> IF r = p THEN bytes ELSE live[r]]

\* kmalloc.  A request of no byte, and one that nothing fits, gets no block.
Alloc(bytes) ==
  LET units == Units(bytes)
      b     == Min(Fitting(units))
  IN  /\ bytes # 0 /\ Fitting(units) # {}
      /\ blocks' = IF Splits(b, units) THEN Cut(b, units) ELSE Whole(b)
      /\ live' = Hold(b + 1, bytes)

\* The end of the run of free blocks behind b: the next block in use, or the
\* end of the heap.  Mutant: only the next block is looked at.
RunEndNext(b) ==
  IF After(b) \in Headers /\ blocks[After(b)].free THEN After(After(b)) ELSE After(b)

RunEnd(b) == Min({h \in Headers : h > b /\ ~blocks[h].free} \cup {HeapSize})

\* The chain once b is free and has swallowed the free blocks up to end.
\* Mutant: the swallowed headers are not counted.
JoinedShort(b, end) ==
  [h \in {k \in Headers : k <= b \/ k >= end} |->
     IF h = b THEN [size |-> end - b - 2, free |-> TRUE] ELSE blocks[h]]

Joined(b, end) ==
  [h \in {k \in Headers : k <= b \/ k >= end} |->
     IF h = b THEN [size |-> end - b - 1, free |-> TRUE] ELSE blocks[h]]

\* kfree of a pointer a caller holds.
Free(p) ==
  /\ blocks' = Joined(p - 1, RunEnd(p - 1))
  /\ live' = [r \in DOMAIN live \ {p} |-> live[r]]

Next == (\E bytes \in Requests : Alloc(bytes)) \/ (\E p \in DOMAIN live : Free(p))

Spec == Init /\ [][Next]_vars

----------------------------------------------------------------------------
TypeOK ==
  /\ Headers \subseteq 0 .. HeapSize - 1
  /\ blocks \in [Headers -> Block]
  /\ live \in [DOMAIN live -> Requests]

\* The blocks tile the heap: the walk from the first header meets every
\* header and ends exactly at the end of the heap, and no header lies inside
\* another block, through any sequence of splits and joins.
Tiled ==
  /\ 0 \in Headers
  /\ \A b \in Headers : After(b) \in Headers \cup {HeapSize}
  /\ \A b, c \in Headers : b < c => After(b) <= c

\* The callers' pointers are the blocks in use, one each: no live block is
\* handed out again, swallowed by a join, or forgotten.
LiveIsUsed ==
  DOMAIN live = {b + 1 : b \in {h \in Headers : ~blocks[h].free}}

\* The heap and its callers agree on who has what.
HeapSound == TypeOK /\ Tiled /\ LiveIsUsed

\* The bytes a caller asked for are within its block.  A request so large
\* that rounding it up wraps to a small number is the exception.
Enough ==
  \A p \in DOMAIN live :
    live[p] <= Word - Granule => blocks[p - 1].size * Granule >= live[p]

\* While a caller holds a pointer its block does not change.
LiveBlocksStay ==
  [][\A p \in DOMAIN live \cap DOMAIN live' :
       p - 1 \in Headers' /\ blocks'[p - 1] = blocks[p - 1] /\ live'[p] = live[p]]_vars

\* A freed block has joined every free block behind it.
FreeJoinsForward ==
  [][\A p \in DOMAIN live \ DOMAIN live' :
       After(p - 1)' = HeapSize \/ ~blocks'[After(p - 1)'].free]_vars
=============================================================================
