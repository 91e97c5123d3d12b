----------------------------- MODULE MemoryProofs -----------------------------
(***************************************************************************)
(* Proofs about the two allocators.  Heap, for every heap size, word and   *)
(* set of requests: the blocks always tile the heap, the callers' pointers *)
(* are exactly the blocks in use, and each block holds what its caller     *)
(* asked for.  Pmm, for every page size, every pair of limits and every    *)
(* report of the boot loader: each page in use has one owner, the counter  *)
(* counts them, the kernel keeps its own, and a panic means a full memory. *)
(***************************************************************************)
EXTENDS Heap, Pmm, BasicFacts, FiniteSetTheorems, TLAPS

----------------------------------------------------------------------------
(* The kernel heap.                                                        *)

Used == {h \in Headers : ~blocks[h].free}

IInv == TypeOK /\ Tiled /\ LiveIsUsed

\* A request is rounded to a natural number of granules.
LEMMA UnitsType ==
  ASSUME NEW bytes \in Requests
  PROVE  Units(bytes) \in Nat
<1>1. bytes \in Nat /\ Granule \in Nat \ {0} /\ Word \in Nat \ {0}
  BY HeapAssumption, RequestAssumption
<1>2. (bytes + Granule - 1) % Word \in Nat
  BY <1>1
<1>3. QED
  BY <1>1, <1>2 DEF Units

\* A block that fits: a free header, with nothing inside it.
LEMMA FitFacts ==
  ASSUME IInv, NEW bytes \in Requests, Fitting(Units(bytes)) # {}
  PROVE  LET b == Min(Fitting(Units(bytes))) IN
         /\ b \in Headers /\ b \in Nat /\ blocks[b] \in Block
         /\ blocks[b].free /\ blocks[b].size >= Units(bytes)
<1>1. Fitting(Units(bytes)) \in SUBSET Nat
  BY HeapAssumption DEF Fitting, IInv, TypeOK
<1>2. Min(Fitting(Units(bytes))) \in Fitting(Units(bytes))
  BY <1>1, MinIsLeast
<1>3. QED
  BY <1>2, HeapAssumption DEF Fitting, IInv, TypeOK

\* The chain after a split is again well formed.
LEMMA CutFacts ==
  ASSUME IInv, NEW b \in Headers, blocks[b].free, NEW units \in Nat, Splits(b, units),
         blocks' = Cut(b, units)
  PROVE  LET rest == b + 1 + units IN
         /\ Headers' = Headers \cup {rest} /\ rest \notin Headers /\ rest # b
         /\ rest \in 0 .. HeapSize - 1
         /\ blocks'[b] = [size |-> units, free |-> FALSE]
         /\ blocks'[rest] = [size |-> blocks[b].size - units - 1, free |-> TRUE]
         /\ \A h \in Headers \ {b} : blocks'[h] = blocks[h]
<1> DEFINE rest == b + 1 + units
<1>1. b \in Nat /\ blocks[b] \in Block /\ blocks[b].size \in Nat /\ HeapSize \in Nat
  BY HeapAssumption DEF IInv, TypeOK, Block
<1>2. blocks[b].size >= units + 2 /\ b < rest /\ rest < After(b) /\ rest \in Nat
  BY <1>1 DEF Splits, After
<1>3. rest \notin Headers
  BY <1>1, <1>2, HeapAssumption DEF IInv, Tiled, TypeOK, After
<1>4. After(b) <= HeapSize
  BY <1>1, HeapAssumption DEF IInv, Tiled, TypeOK
<1>5. rest \in 0 .. HeapSize - 1
  BY <1>1, <1>2, <1>4 DEF After
<1>6. Headers' = Headers \cup {rest}
  BY DEF Cut, Headers
<1>7. QED
  BY <1>1, <1>2, <1>3, <1>5, <1>6 DEF Cut, Headers

\* The end of a run of free blocks: past b, the end of the heap or a block in use.
LEMMA RunEndFacts ==
  ASSUME IInv, NEW b \in Headers
  PROVE  /\ RunEnd(b) \in Nat /\ b < RunEnd(b) /\ RunEnd(b) <= HeapSize
         /\ RunEnd(b) = HeapSize \/ (RunEnd(b) \in Headers /\ ~blocks[RunEnd(b)].free)
         /\ \A h \in Headers : b < h /\ h < RunEnd(b) => blocks[h].free
<1> DEFINE S == {h \in Headers : h > b /\ ~blocks[h].free} \cup {HeapSize}
<1>1. S \in SUBSET Nat /\ S # {} /\ b \in Nat /\ b < HeapSize
  BY HeapAssumption DEF IInv, TypeOK
<1>2. Min(S) \in S /\ \A y \in S : Min(S) <= y
  BY <1>1, MinIsLeast
<1>3. RunEnd(b) = Min(S)
  BY DEF RunEnd
<1>4. \A h \in Headers : h \in Nat
  BY HeapAssumption DEF IInv, TypeOK
<1> HIDE DEF S
<1>5. RunEnd(b) \in Nat /\ b < RunEnd(b) /\ RunEnd(b) <= HeapSize
  BY <1>1, <1>2, <1>3, <1>4 DEF S
<1>6. RunEnd(b) = HeapSize \/ (RunEnd(b) \in Headers /\ ~blocks[RunEnd(b)].free)
  BY <1>2, <1>3 DEF S
<1>7. ASSUME NEW h \in Headers, b < h, h < RunEnd(b)
      PROVE  blocks[h].free
  BY <1>1, <1>2, <1>3, <1>4, <1>5, <1>7 DEF S
<1>8. QED
  BY <1>5, <1>6, <1>7
-----------------------------------------------------------------------------
\* The first block is the whole heap.
LEMMA InitInv == Init => IInv
<1> SUFFICES ASSUME Init PROVE IInv
  OBVIOUS
<1>1. Headers = {0} /\ blocks[0] = [size |-> HeapSize - 1, free |-> TRUE] /\ DOMAIN live = {}
  BY DEF Init, Headers
<1>2. TypeOK
  BY <1>1, HeapAssumption DEF Init, TypeOK, Block, Headers
<1>3. Tiled
  BY <1>1, HeapAssumption DEF Tiled, After
<1>4. LiveIsUsed
  BY <1>1 DEF LiveIsUsed
<1>5. QED
  BY <1>2, <1>3, <1>4 DEF IInv

\* kmalloc that splits a block.
LEMMA SplitStep ==
  ASSUME IInv, NEW bytes \in Requests, NEW b \in Headers, blocks[b].free,
         Splits(b, Units(bytes)), blocks' = Cut(b, Units(bytes)),
         live' = Hold(b + 1, bytes)
  PROVE  IInv'
<1> DEFINE units == Units(bytes)
           rest  == b + 1 + units
<1>1. units \in Nat
  BY UnitsType
<1>2. /\ Headers' = Headers \cup {rest} /\ rest \notin Headers /\ rest # b
      /\ rest \in 0 .. HeapSize - 1
      /\ blocks'[b] = [size |-> units, free |-> FALSE]
      /\ blocks'[rest] = [size |-> blocks[b].size - units - 1, free |-> TRUE]
      /\ \A h \in Headers \ {b} : blocks'[h] = blocks[h]
  BY <1>1, CutFacts
<1>3. b \in Nat /\ blocks[b] \in Block /\ blocks[b].size \in Nat /\ blocks[b].size >= units + 2
  BY HeapAssumption DEF IInv, TypeOK, Splits, Block
<1>4. \A h \in Headers : h \in 0 .. HeapSize - 1 /\ blocks[h] \in Block /\ blocks[h].size \in Nat
  BY DEF IInv, TypeOK, Block
<1>5. blocks' = [h \in Headers' |-> blocks'[h]]
  BY DEF Cut, Headers
<1>6. DOMAIN live' = DOMAIN live \cup {b + 1}
  BY DEF Hold
<1> HIDE DEF units
<1>7. TypeOK'
  <2>1. Headers' \subseteq 0 .. HeapSize - 1
    BY <1>2, <1>4
  <2>2. ASSUME NEW h \in Headers' PROVE blocks'[h] \in Block
    <3>1. CASE h = b
      BY <3>1, <1>2, <1>1 DEF Block
    <3>2. CASE h = rest
      <4>1. blocks[b].size - units - 1 \in Nat
        BY <1>1, <1>3
      <4>2. QED
        BY <3>2, <4>1, <1>2 DEF Block
    <3>3. CASE h \in Headers \ {b}
      BY <3>3, <1>2, <1>4
    <3>4. QED
      BY <3>1, <3>2, <3>3, <1>2
  <2>3. live' \in [DOMAIN live' -> Requests]
    BY DEF Hold, IInv, TypeOK
  <2>4. QED
    BY <2>1, <2>2, <2>3, <1>5 DEF TypeOK
<1>8. After(b)' = rest /\ After(rest)' = After(b) /\ \A h \in Headers \ {b} : After(h)' = After(h)
  BY <1>1, <1>2, <1>3, <1>4 DEF After
<1>9. Tiled'
  <2>1. 0 \in Headers'
    BY <1>2 DEF IInv, Tiled
  <2>2. ASSUME NEW h \in Headers' PROVE After(h)' \in Headers' \cup {HeapSize}
    BY <1>2, <1>8 DEF IInv, Tiled
  <2>3. ASSUME NEW c \in Headers', NEW d \in Headers', c < d
        PROVE  After(c)' <= d
    <3>1. \A x, y \in Headers : x < y => After(x) <= y
      BY DEF IInv, Tiled
    <3>2. b < rest /\ rest < After(b) /\ After(b) \in Nat
      BY <1>1, <1>3 DEF After
    <3>3. CASE c = b /\ d = rest
      BY <3>3, <1>8, <1>2
    <3>4. CASE c = b /\ d \in Headers \ {b}
      BY <3>4, <3>1, <3>2, <1>8, <1>2, <1>4, <2>3
    <3>5. CASE c = rest /\ d \in Headers
      <4>1. b < d
        BY <3>5, <2>3, <3>2, <1>4, <1>2
      <4>2. QED
        BY <4>1, <3>5, <3>1, <1>8
    <3>6. CASE c \in Headers \ {b} /\ d = rest
      <4>1. c < b
        BY <3>6, <2>3, <3>1, <3>2, <1>4, <1>2
      <4>2. After(c) <= b /\ After(c) \in Nat
        BY <3>6, <4>1, <3>1, <1>4 DEF After
      <4>3. QED
        BY <4>2, <3>6, <3>2, <1>8, <1>2, <1>3
    <3>7. CASE c \in Headers \ {b} /\ d \in Headers
      BY <3>7, <3>1, <2>3, <1>8
    <3>8. CASE c = rest /\ d = rest
      BY <3>8, <2>3, <1>2
    <3>9. QED
      BY <3>3, <3>4, <3>5, <3>6, <3>7, <3>8, <1>2, <2>3, <1>4
  <2>4. QED
    BY <2>1, <2>2, <2>3 DEF Tiled
<1>10. LiveIsUsed'
  <2>1. Used' = Used \cup {b}
    BY <1>2 DEF Used
  <2>2. DOMAIN live = {h + 1 : h \in Used}
    BY DEF IInv, LiveIsUsed, Used
  <2>3. DOMAIN live' = {h + 1 : h \in Used'}
    BY <2>1, <2>2, <1>6
  <2>4. QED
    BY <2>3 DEF LiveIsUsed, Used
<1>11. QED
  BY <1>7, <1>9, <1>10 DEF IInv

\* kmalloc that hands out a whole block.
LEMMA WholeStep ==
  ASSUME IInv, NEW bytes \in Requests, NEW b \in Headers, blocks[b].free,
         blocks' = Whole(b), live' = Hold(b + 1, bytes)
  PROVE  IInv'
<1>1. \A h \in Headers : h \in 0 .. HeapSize - 1 /\ blocks[h] \in Block /\ blocks[h].size \in Nat
  BY DEF IInv, TypeOK, Block
<1>2. /\ Headers' = Headers /\ blocks' \in [Headers -> Block]
      /\ ~blocks'[b].free
      /\ \A h \in Headers : blocks'[h].size = blocks[h].size
      /\ \A h \in Headers \ {b} : blocks'[h] = blocks[h]
  BY <1>1 DEF Whole, Headers, IInv, TypeOK, Block
<1>3. DOMAIN live' = DOMAIN live \cup {b + 1}
  BY DEF Hold
<1>4. TypeOK'
  <2>1. live' \in [DOMAIN live' -> Requests]
    BY DEF Hold, IInv, TypeOK
  <2>2. QED
    BY <1>2, <2>1 DEF IInv, TypeOK
<1>5. \A h \in Headers : After(h)' = After(h)
  BY <1>2 DEF After
<1>6. Tiled'
  BY <1>2, <1>5 DEF IInv, Tiled
<1>7. LiveIsUsed'
  <2>1. Used' = Used \cup {b}
    BY <1>2 DEF Used
  <2>2. DOMAIN live = {h + 1 : h \in Used}
    BY DEF IInv, LiveIsUsed, Used
  <2>3. DOMAIN live' = {h + 1 : h \in Used'}
    BY <2>1, <2>2, <1>3
  <2>4. QED
    BY <2>3 DEF LiveIsUsed, Used
<1>8. QED
  BY <1>4, <1>6, <1>7 DEF IInv

\* The chain after a join.
LEMMA JoinFacts ==
  ASSUME IInv, NEW b \in Headers, blocks' = Joined(b, RunEnd(b))
  PROVE  /\ Headers' = {h \in Headers : h <= b \/ h >= RunEnd(b)}
         /\ b \in Headers'
         /\ blocks'[b] = [size |-> RunEnd(b) - b - 1, free |-> TRUE]
         /\ \A h \in Headers' \ {b} : blocks'[h] = blocks[h]
         /\ After(b)' = RunEnd(b)
         /\ \A h \in Headers' \ {b} : After(h)' = After(h)
<1>1. /\ RunEnd(b) \in Nat /\ b < RunEnd(b)
      /\ b \in Nat
  BY RunEndFacts, HeapAssumption DEF IInv, TypeOK
<1>2. Headers' = {h \in Headers : h <= b \/ h >= RunEnd(b)} /\ b \in Headers'
  BY <1>1 DEF Joined, Headers
<1>3. blocks'[b] = [size |-> RunEnd(b) - b - 1, free |-> TRUE]
  BY <1>1, <1>2 DEF Joined, Headers
<1>4. \A h \in Headers' \ {b} : blocks'[h] = blocks[h]
  BY <1>2 DEF Joined, Headers
<1>5. After(b)' = RunEnd(b)
  BY <1>1, <1>3 DEF After
<1>6. QED
  BY <1>2, <1>3, <1>4, <1>5 DEF After

\* A pointer a caller holds stands behind a header in use.
LEMMA LiveBlock ==
  ASSUME IInv, NEW p \in DOMAIN live
  PROVE  p - 1 \in Headers /\ p - 1 \in Nat /\ p = p - 1 + 1 /\ ~blocks[p - 1].free
<1>1. PICK h \in Headers : p = h + 1 /\ ~blocks[h].free
  BY DEF IInv, LiveIsUsed
<1>2. h \in Nat
  BY DEF IInv, TypeOK
<1>3. QED
  BY <1>1, <1>2

\* kfree.
LEMMA FreeStep ==
  ASSUME IInv, NEW p \in DOMAIN live, Free(p)
  PROVE  IInv'
<1> DEFINE b   == p - 1
           end == RunEnd(b)
<1>1. b \in Headers /\ b \in Nat /\ p = b + 1 /\ ~blocks[b].free
  BY LiveBlock
<1>2. /\ end \in Nat /\ b < end /\ end <= HeapSize
      /\ end = HeapSize \/ (end \in Headers /\ ~blocks[end].free)
      /\ \A h \in Headers : b < h /\ h < end => blocks[h].free
  BY <1>1, RunEndFacts
<1>3. /\ Headers' = {h \in Headers : h <= b \/ h >= end}
      /\ b \in Headers'
      /\ blocks'[b] = [size |-> end - b - 1, free |-> TRUE]
      /\ \A h \in Headers' \ {b} : blocks'[h] = blocks[h]
      /\ After(b)' = end
      /\ \A h \in Headers' \ {b} : After(h)' = After(h)
  BY <1>1, JoinFacts DEF Free
<1>4. \A h \in Headers : h \in 0 .. HeapSize - 1 /\ blocks[h] \in Block /\ h < After(h) /\ After(h) \in Nat
  BY DEF IInv, TypeOK, Block, After
<1>5. DOMAIN live' = DOMAIN live \ {p} /\ live' \in [DOMAIN live' -> Requests]
  BY DEF Free, IInv, TypeOK
<1>6. blocks' = [h \in Headers' |-> blocks'[h]]
  BY DEF Free, Joined, Headers
<1> HIDE DEF end, b
<1>7. TypeOK'
  <2>1. ASSUME NEW h \in Headers' PROVE blocks'[h] \in Block
    <3>1. end - b - 1 \in Nat
      BY <1>1, <1>2
    <3>2. CASE h = b
      BY <3>1, <3>2, <1>3 DEF Block
    <3>3. CASE h # b
      BY <3>3, <1>3, <1>4
    <3>4. QED
      BY <3>2, <3>3
  <2>2. QED
    BY <2>1, <1>3, <1>4, <1>5, <1>6 DEF TypeOK
<1>8. \A x, y \in Headers : x < y => After(x) <= y
  BY DEF IInv, Tiled
<1>9. Tiled'
  <2>1. 0 \in Headers'
    BY <1>1, <1>3 DEF IInv, Tiled
  <2>2. ASSUME NEW h \in Headers' PROVE After(h)' \in Headers' \cup {HeapSize}
    <3>1. CASE h = b
      BY <3>1, <1>1, <1>2, <1>3
    <3>2. CASE h # b /\ h < b
      <4>1. After(h) <= b /\ After(h) \in Headers \cup {HeapSize}
        BY <3>2, <1>1, <1>3, <1>8 DEF IInv, Tiled
      <4>2. QED
        BY <4>1, <3>2, <1>1, <1>2, <1>3, <1>4
    <3>3. CASE h # b /\ h >= end
      <4>1. After(h) >= end /\ After(h) \in Headers \cup {HeapSize}
        BY <3>3, <1>2, <1>3, <1>4 DEF IInv, Tiled
      <4>2. QED
        BY <4>1, <3>3, <1>3
    <3>4. QED
      BY <3>1, <3>2, <3>3, <1>1, <1>3, <1>4
  <2>3. ASSUME NEW c \in Headers', NEW d \in Headers', c < d
        PROVE  After(c)' <= d
    <3>1. CASE c = b
      <4>1. After(c)' = end
        BY <3>1, <1>1, <1>2, <1>3 DEF After
      <4>2. d \in Headers /\ (d <= b \/ d >= end)
        BY <2>3, <1>3
      <4>3. d > b /\ d \in Nat /\ b \in Nat
        BY <4>2, <3>1, <2>3, <1>1, <1>4
      <4>4. d >= end
        BY <4>2, <4>3
      <4>5. QED
        BY <4>1, <4>4, <1>2
    <3>2. CASE c # b
      BY <3>2, <2>3, <1>3, <1>8
    <3>3. QED
      BY <3>1, <3>2
  <2>4. QED
    BY <2>1, <2>2, <2>3 DEF Tiled
<1>10. LiveIsUsed'
  <2>1. Used' = Used \ {b}
    <3>1. ASSUME NEW h \in Used' PROVE h \in Used \ {b}
      BY <1>3 DEF Used
    <3>2. ASSUME NEW h \in Used \ {b} PROVE h \in Used'
      <4>1. h \in Headers /\ ~blocks[h].free /\ h # b
        BY DEF Used
      <4>2. h \in Headers'
        BY <4>1, <1>1, <1>2, <1>3, <1>4
      <4>3. QED
        BY <4>1, <4>2, <1>3 DEF Used
    <3>3. QED
      BY <3>1, <3>2
  <2>2. DOMAIN live = {h + 1 : h \in Used} /\ Used \subseteq Nat
    BY <1>4 DEF IInv, LiveIsUsed, Used
  <2>3. DOMAIN live' = {h + 1 : h \in Used'}
    BY <2>1, <2>2, <1>1, <1>5
  <2>4. QED
    BY <2>3 DEF LiveIsUsed, Used
<1>11. QED
  BY <1>7, <1>9, <1>10 DEF IInv

\* Every step of a caller keeps the heap whole.
LEMMA NextInv == IInv /\ [Next]_vars => IInv'
<1> SUFFICES ASSUME IInv, [Next]_vars PROVE IInv'
  OBVIOUS
<1>1. ASSUME NEW bytes \in Requests, Alloc(bytes) PROVE IInv'
  <2> DEFINE b == Min(Fitting(Units(bytes)))
  <2>1. b \in Headers /\ blocks[b].free
    BY <1>1, FitFacts DEF Alloc
  <2>2. live' = Hold(b + 1, bytes)
    BY <1>1 DEF Alloc
  <2>3. CASE Splits(b, Units(bytes))
    <3>1. blocks' = Cut(b, Units(bytes))
      BY <1>1, <2>3 DEF Alloc
    <3> HIDE DEF b
    <3>2. QED
      BY <3>1, <2>1, <2>2, <2>3, SplitStep
  <2>4. CASE ~Splits(b, Units(bytes))
    <3>1. blocks' = Whole(b)
      BY <1>1, <2>4 DEF Alloc
    <3> HIDE DEF b
    <3>2. QED
      BY <3>1, <2>1, <2>2, WholeStep
  <2>5. QED
    BY <2>3, <2>4
<1>2. ASSUME NEW p \in DOMAIN live, Free(p) PROVE IInv'
  BY <1>2, FreeStep
<1>3. CASE UNCHANGED vars
  BY <1>3 DEF vars, IInv, TypeOK, Tiled, LiveIsUsed, Headers, After
<1>4. QED
  BY <1>1, <1>2, <1>3 DEF Next

\* Through any sequence of kmalloc and kfree the blocks tile the heap, and the
\* pointers callers hold are the blocks in use, one each.
THEOREM HeapCorrect == Spec => []HeapSound
<1>1. IInv => HeapSound
  BY DEF IInv, HeapSound
<1>2. QED
  BY <1>1, InitInv, NextInv, PTL DEF Spec

\* A block whose pointer a caller holds is not moved, resized or handed out
\* again by any call.
THEOREM LiveStay == Spec => LiveBlocksStay
<1> DEFINE Stays == \A p \in DOMAIN live \cap DOMAIN live' :
             p - 1 \in Headers' /\ blocks'[p - 1] = blocks[p - 1] /\ live'[p] = live[p]
<1>1. ASSUME IInv, Next PROVE Stays
  <2> SUFFICES ASSUME NEW p \in DOMAIN live \cap DOMAIN live'
               PROVE  p - 1 \in Headers' /\ blocks'[p - 1] = blocks[p - 1] /\ live'[p] = live[p]
    OBVIOUS
  <2>1. p - 1 \in Headers /\ p - 1 \in Nat /\ p = p - 1 + 1 /\ ~blocks[p - 1].free
    BY <1>1, LiveBlock
  <2>2. ASSUME NEW bytes \in Requests, Alloc(bytes)
        PROVE  p - 1 \in Headers' /\ blocks'[p - 1] = blocks[p - 1] /\ live'[p] = live[p]
    <3> DEFINE b == Min(Fitting(Units(bytes)))
    <3>1. b \in Headers /\ b \in Nat /\ blocks[b].free /\ b # p - 1 /\ b + 1 # p
      BY <1>1, <2>1, <2>2, FitFacts DEF Alloc
    <3>2. live' = Hold(b + 1, bytes)
      BY <2>2 DEF Alloc
    <3>3. blocks' = (IF Splits(b, Units(bytes)) THEN Cut(b, Units(bytes)) ELSE Whole(b))
      BY <2>2 DEF Alloc
    <3> HIDE DEF b
    <3>4. live'[p] = live[p]
      BY <3>1, <3>2 DEF Hold
    <3>5. CASE Splits(b, Units(bytes))
      <4>1. p - 1 \in Headers' /\ blocks'[p - 1] = blocks[p - 1]
        BY <1>1, <2>1, <3>1, <3>3, <3>5, CutFacts, UnitsType
      <4>2. QED
        BY <4>1, <3>4
    <3>6. CASE ~Splits(b, Units(bytes))
      BY <2>1, <3>1, <3>3, <3>4, <3>6 DEF Whole, Headers
    <3>7. QED
      BY <3>5, <3>6
  <2>3. ASSUME NEW r \in DOMAIN live, Free(r)
        PROVE  p - 1 \in Headers' /\ blocks'[p - 1] = blocks[p - 1] /\ live'[p] = live[p]
    <3>1. DOMAIN live' = DOMAIN live \ {r} /\ live'[p] = live[p] /\ p # r
      BY <2>3 DEF Free
    <3>2. r - 1 \in Headers /\ r - 1 \in Nat /\ r = r - 1 + 1
      BY <1>1, LiveBlock
    <3>3. /\ Headers' = {h \in Headers : h <= r - 1 \/ h >= RunEnd(r - 1)}
          /\ \A h \in Headers' \ {r - 1} : blocks'[h] = blocks[h]
      BY <1>1, <2>3, <3>2, JoinFacts DEF Free
    <3>4. /\ RunEnd(r - 1) \in Nat
          /\ \A h \in Headers : r - 1 < h /\ h < RunEnd(r - 1) => blocks[h].free
      BY <1>1, <3>2, RunEndFacts
    <3>5. p - 1 # r - 1
      BY <2>1, <3>1, <3>2
    <3>6. p - 1 \in Headers'
      BY <2>1, <3>2, <3>3, <3>4
    <3>7. QED
      BY <3>1, <3>3, <3>5, <3>6
  <2>4. QED
    BY <1>1, <2>2, <2>3 DEF Next
<1>2. ASSUME IInv, [Next]_vars PROVE [Stays]_vars
  BY <1>1, <1>2
<1>3. Spec => [][Stays]_vars
  BY <1>2, InitInv, NextInv, PTL DEF Spec
<1>4. QED
  BY <1>3 DEF LiveBlocksStay
-----------------------------------------------------------------------------
\* Rounded up within the word, a request fits the granules it is given.
LEMMA UnitsEnough ==
  ASSUME NEW bytes \in Requests, bytes <= Word - Granule
  PROVE  Units(bytes) * Granule >= bytes
<1> DEFINE sum  == bytes + Granule - 1
           quot == sum \div Granule
           left == sum % Granule
<1>1. bytes \in Nat /\ Granule \in Nat \ {0} /\ Word \in Nat \ {0}
  BY HeapAssumption, RequestAssumption
<1>2. sum \in Nat /\ sum < Word
  BY <1>1
<1>3. Units(bytes) = quot
  <2>1. sum % Word = sum
    BY <1>1, <1>2
  <2>2. QED
    BY <2>1 DEF Units
<1>4. sum = Granule * quot + left /\ left \in 0 .. Granule - 1 /\ quot \in Nat
  BY <1>1, <1>2
<1> HIDE DEF quot, left
<1>5. quot * Granule \in Nat /\ quot * Granule = Granule * quot
  BY <1>1, <1>4
<1>6. quot * Granule >= bytes
  BY <1>1, <1>4, <1>5
<1>7. QED
  BY <1>3, <1>6

\* The memory kmalloc returns holds the bytes its caller asked for, and still
\* does after any number of other calls, unless rounding the request up wrapped.
THEOREM HeapEnough == Spec => []Enough
<1>1. Init => Enough
  BY DEF Init, Enough
<1>2. ASSUME IInv, IInv', Enough, [Next]_vars,
             [\A p \in DOMAIN live \cap DOMAIN live' :
                p - 1 \in Headers' /\ blocks'[p - 1] = blocks[p - 1] /\ live'[p] = live[p]]_vars
      PROVE  Enough'
  <2>1. ASSUME NEW q \in DOMAIN live', live'[q] <= Word - Granule
        PROVE  blocks'[q - 1].size * Granule >= live'[q]
    <3>1. CASE q \in DOMAIN live
      BY <1>2, <2>1, <3>1 DEF Enough, vars
    <3>2. CASE q \notin DOMAIN live
      <4>1. ASSUME NEW bytes \in Requests, Alloc(bytes)
            PROVE  blocks'[q - 1].size * Granule >= live'[q]
        <5> DEFINE b == Min(Fitting(Units(bytes)))
        <5>1. /\ b \in Headers /\ b \in Nat /\ blocks[b] \in Block
              /\ blocks[b].free /\ blocks[b].size >= Units(bytes)
          BY <1>2, <4>1, FitFacts DEF Alloc
        <5>2. live' = Hold(b + 1, bytes)
          BY <4>1 DEF Alloc
        <5>3. blocks' = (IF Splits(b, Units(bytes)) THEN Cut(b, Units(bytes)) ELSE Whole(b))
          BY <4>1 DEF Alloc
        <5> HIDE DEF b
        <5>4. q = b + 1 /\ q - 1 = b /\ live'[q] = bytes
          BY <2>1, <3>2, <5>1, <5>2 DEF Hold
        <5>5. Units(bytes) \in Nat /\ Units(bytes) * Granule >= bytes
          BY <2>1, <5>4, UnitsType, UnitsEnough
        <5>6. blocks'[b].size \in Nat /\ blocks'[b].size >= Units(bytes)
          <6>1. CASE Splits(b, Units(bytes))
            <7>1. blocks' = Cut(b, Units(bytes)) /\ Units(bytes) \in Nat
              BY <6>1, <5>3, <5>5
            <7>2. blocks'[b] = [size |-> Units(bytes), free |-> FALSE]
              BY <6>1, <7>1, <1>2, <5>1, CutFacts
            <7>3. QED
              BY <7>1, <7>2
          <6>2. CASE ~Splits(b, Units(bytes))
            BY <6>2, <5>1, <5>3, <5>5 DEF Whole, Headers, Block
          <6>3. QED
            BY <6>1, <6>2
        <5>7. bytes \in Nat /\ Granule \in Nat
          BY HeapAssumption, RequestAssumption
        <5>8. blocks'[b].size * Granule >= Units(bytes) * Granule
          <6> DEFINE m == blocks'[b].size
                     n == Units(bytes)
          <6>1. m \in Nat /\ n \in Nat /\ m >= n
            BY <5>5, <5>6
          <6> HIDE DEF m, n
          <6>2. m * Granule >= n * Granule
            BY <6>1, <5>7, TimesMonotone
          <6>3. QED
            BY <6>2 DEF m, n
        <5>9. QED
          BY <5>4, <5>5, <5>6, <5>7, <5>8
      <4>2. ASSUME NEW p \in DOMAIN live, Free(p)
            PROVE  FALSE
        BY <2>1, <3>2, <4>2 DEF Free
      <4>3. CASE UNCHANGED vars
        BY <2>1, <3>2, <4>3 DEF vars
      <4>4. QED
        BY <1>2, <4>1, <4>2, <4>3 DEF Next
    <3>3. QED
      BY <3>1, <3>2
  <2>2. QED
    BY <2>1 DEF Enough
<1>3. Spec => LiveBlocksStay
  BY LiveStay
<1>4. QED
  BY <1>1, <1>2, <1>3, InitInv, NextInv, PTL DEF Spec, LiveBlocksStay
-----------------------------------------------------------------------------
\* What kfree leaves ends where the heap does or before a block in use: only
\* kfree takes a pointer from its caller, and it joins up to the end of the run.
THEOREM FreeJoins == Spec => FreeJoinsForward
<1> DEFINE Joins == \A p \in DOMAIN live \ DOMAIN live' :
             After(p - 1)' = HeapSize \/ ~blocks'[After(p - 1)'].free
<1>1. ASSUME IInv, Next PROVE Joins
  <2> SUFFICES ASSUME NEW p \in DOMAIN live \ DOMAIN live'
               PROVE  After(p - 1)' = HeapSize \/ ~blocks'[After(p - 1)'].free
    OBVIOUS
  <2> DEFINE b == p - 1
  <2>1. b \in Headers /\ b \in Nat /\ p = b + 1
    BY <1>1, LiveBlock
  <2>2. ~(\E bytes \in Requests : Alloc(bytes))
    BY DEF Alloc, Hold
  <2>3. PICK r \in DOMAIN live : Free(r)
    BY <1>1, <2>2 DEF Next
  <2>4. r = p
    BY <2>3 DEF Free
  <2> HIDE DEF b
  <2>5. blocks' = Joined(b, RunEnd(b))
    BY <2>3, <2>4 DEF Free, b
  <2>6. /\ RunEnd(b) \in Nat /\ b < RunEnd(b)
        /\ RunEnd(b) = HeapSize \/ (RunEnd(b) \in Headers /\ ~blocks[RunEnd(b)].free)
    BY <1>1, <2>1, RunEndFacts
  <2>7. /\ Headers' = {h \in Headers : h <= b \/ h >= RunEnd(b)}
        /\ \A h \in Headers' \ {b} : blocks'[h] = blocks[h]
        /\ After(b)' = RunEnd(b)
    BY <1>1, <2>1, <2>5, JoinFacts
  <2>8. RunEnd(b) = HeapSize \/ ~blocks'[RunEnd(b)].free
    BY <2>1, <2>6, <2>7
  <2>9. QED
    BY <2>7, <2>8 DEF b
<1>2. ASSUME IInv, [Next]_vars PROVE [Joins]_vars
  BY <1>1, <1>2
<1>3. Spec => [][Joins]_vars
  BY <1>2, InitInv, NextInv, PTL DEF Spec
<1>4. QED
  BY <1>3 DEF FreeJoinsForward
----------------------------------------------------------------------------
(* The physical pages.                                                     *)

\* The typing and ownership facts a step preserves together.
PmmInv ==
  /\ PagesTypeOK /\ CounterMatches /\ OneOwner /\ PanicIsFull
  /\ total = Pages(MultibootMemory(boot))

\* What the loader reports is a natural number.
LEMMA ReportType ==
  ASSUME NEW info \in Boots
  PROVE  MultibootMemory(info) \in Nat
<1> DEFINE S == Tops(info) \cup {0}
<1>1. MapOf(info) \subseteq Region
  BY BootAssumption DEF MapOf
<1>2. ASSUME NEW e \in Region
      PROVE  (e.addr + e.len) % AddressWord \in 0 .. AddressWord - 1
  <2>1. e.addr \in Nat /\ e.len \in Nat
    BY SizeAssumption DEF Region
  <2>2. e.addr + e.len \in Nat /\ AddressWord \in Nat \ {0}
    BY <2>1, SizeAssumption
  <2>3. QED
    BY <2>2
<1>3. S \in SUBSET (0 .. AddressWord - 1) /\ S # {}
  BY <1>1, <1>2, SizeAssumption DEF Tops
<1>4. AddressWord - 1 \in Nat
  BY SizeAssumption
<1> HIDE DEF S
<1>5. Max(S) \in S
  BY <1>3, <1>4, MaxIsGreatest
<1>6. MultibootMemory(info) = Max(S)
  BY DEF MultibootMemory, S
<1>7. MultibootMemory(info) \in 0 .. AddressWord - 1
  BY <1>3, <1>5, <1>6
<1>8. QED
  BY <1>4, <1>7

\* The memory the kernel settles for lies within its limits.
LEMMA ClampFacts ==
  ASSUME NEW memory \in Nat
  PROVE  Clamped(memory) \in Nat /\ LeastMemory <= Clamped(memory)
<1> DEFINE low == Min({MostMemory, memory})
<1>1. LeastMemory \in Nat /\ MostMemory \in Nat
  BY SizeAssumption
<1>2. low \in Nat
  <2>1. low \in {MostMemory, memory}
    BY <1>1, MinIsLeast
  <2>2. QED
    BY <1>1, <2>1
<1> HIDE DEF low
<1>3. PICK n \in Nat : LeastMemory <= n /\ low <= n
  BY <1>1, <1>2
<1>4. {LeastMemory, low} \in SUBSET (0 .. n)
  BY <1>1, <1>2, <1>3
<1>5. Max({LeastMemory, low}) \in {LeastMemory, low} /\ Max({LeastMemory, low}) >= LeastMemory
  BY <1>4, MaxIsGreatest
<1>6. QED
  BY <1>1, <1>2, <1>5 DEF Clamped, low

\* The number of pages, and where the bitmap lies.
LEMMA LayoutFacts ==
  ASSUME NEW info \in Boots
  PROVE  LET n == Pages(MultibootMemory(info)) IN
         /\ n \in Nat
         /\ n * PageSize <= Clamped(MultibootMemory(info))
         /\ BitmapStart \in Nat /\ BitmapEnd(n) \in Nat /\ BitmapStart <= BitmapEnd(n)
         /\ BitmapEnd(n) \div PageSize \in Nat
<1> DEFINE n == Pages(MultibootMemory(info))
<1>1. PageSize \in Nat \ {0} /\ KernelEnd \in Nat
  BY SizeAssumption
<1>2. Clamped(MultibootMemory(info)) \in Nat
  BY ReportType, ClampFacts
<1>3. n \in Nat /\ n * PageSize <= Clamped(MultibootMemory(info))
  BY <1>1, <1>2, DivFacts DEF Pages
<1>4. BitmapStart \in Nat
  <2> DEFINE k == KernelEnd + PageSize - 1
  <2>1. k \in Nat
    BY <1>1
  <2>2. k \div PageSize \in Nat
    BY <1>1, <2>1
  <2>3. QED
    BY <1>1, <2>2 DEF BitmapStart
<1> HIDE DEF n
<1>5. (n + 7) \div 8 \in Nat
  BY <1>3
<1>6. BitmapEnd(n) \in Nat /\ BitmapStart <= BitmapEnd(n)
  BY <1>4, <1>5 DEF BitmapEnd
<1>7. BitmapEnd(n) \div PageSize \in Nat
  BY <1>1, <1>6
<1>8. QED
  BY <1>3, <1>4, <1>6, <1>7 DEF n
-----------------------------------------------------------------------------
\* pmm_init reserves the first pages and counts them.
LEMMA PmmInitInv == PmmInit => PmmInv
<1> SUFFICES ASSUME PmmInit PROVE PmmInv
  OBVIOUS
<1> DEFINE last == BitmapEnd(total) \div PageSize
<1>1. boot \in Boots /\ total \in Nat /\ last \in Nat
  BY LayoutFacts DEF PmmInit
<1>2. used = 0 .. last /\ usedPages = last + 1 /\ held = {} /\ panicked = FALSE
  BY DEF PmmInit, Reserved
<1> HIDE DEF last
<1>3. IsFiniteSet(0 .. last) /\ Cardinality(0 .. last) = last + 1
  BY <1>1, FS_Interval
<1>4. PagesTypeOK
  <2>1. usedPages \in Nat /\ used \subseteq Nat /\ held \subseteq 0 .. total - 1
    BY <1>1, <1>2
  <2>2. panicked \in BOOLEAN
    BY <1>2
  <2>3. QED
    BY <1>1, <2>1, <2>2 DEF PagesTypeOK
<1>5. CounterMatches
  BY <1>2, <1>3 DEF CounterMatches
<1>6. OneOwner
  BY <1>2 DEF OneOwner, Reserved, last
<1>7. QED
  BY <1>2, <1>4, <1>5, <1>6 DEF PmmInit, PmmInv, PanicIsFull

\* pmm_alloc_page.
LEMMA PmmAllocStep ==
  ASSUME PmmInv, AllocPage
  PROVE  PmmInv'
<1>1. boot' = boot /\ total' = total /\ ~panicked
  BY DEF AllocPage
<1>2. CASE Searched \subseteq used
  BY <1>1, <1>2 DEF AllocPage, PmmInv, PagesTypeOK, CounterMatches, OneOwner, PanicIsFull, Searched
<1>3. CASE ~(Searched \subseteq used)
  <2> DEFINE page == Min(Searched \ used)
  <2>1. page \in Searched \ used
    BY <1>3, MinIsLeast DEF Searched, PmmInv, PagesTypeOK
  <2>2. /\ used' = used \cup {page} /\ usedPages' = usedPages + 1
        /\ held' = held \cup {page} /\ panicked' = panicked
    BY <1>3 DEF AllocPage, SetPage
  <2> HIDE DEF page
  <2>3. page \in 0 .. total - 1 /\ page \notin used
    BY <2>1 DEF Searched
  <2>4. PagesTypeOK'
    BY <1>1, <2>2, <2>3 DEF PmmInv, PagesTypeOK
  <2>5. CounterMatches'
    BY <2>2, <2>3, FS_AddElement DEF PmmInv, CounterMatches
  <2>6. OneOwner'
    BY <1>1, <2>2, <2>3 DEF PmmInv, OneOwner, Reserved
  <2>7. PanicIsFull'
    BY <1>1, <2>2 DEF PanicIsFull
  <2>8. QED
    BY <1>1, <2>4, <2>5, <2>6, <2>7 DEF PmmInv
<1>4. QED
  BY <1>2, <1>3

\* pmm_free_page.
LEMMA PmmFreeStep ==
  ASSUME PmmInv, NEW page \in 0 .. total, FreePage(page)
  PROVE  PmmInv'
<1>1. /\ boot' = boot /\ total' = total /\ panicked' = panicked /\ ~panicked
      /\ page \in held \/ page \notin used
      /\ held' = held \ {page}
  BY DEF FreePage, Freeable
<1>2. CASE page < total /\ page \in used
  <2>1. used' = used \ {page} /\ usedPages' = usedPages - 1
    BY <1>2 DEF FreePage, Cleared
  <2>2. usedPages - 1 = Cardinality(used \ {page}) /\ IsFiniteSet(used \ {page})
    BY <1>2, FS_RemoveElement DEF PmmInv, CounterMatches
  <2>3. usedPages - 1 \in Nat
    BY <2>2, FS_CardinalityType
  <2>4. PagesTypeOK'
    BY <1>1, <2>1, <2>3 DEF PmmInv, PagesTypeOK
  <2>5. CounterMatches'
    BY <2>1, <2>2 DEF CounterMatches
  <2>6. OneOwner'
    BY <1>1, <1>2, <2>1 DEF PmmInv, OneOwner, Reserved
  <2>7. PanicIsFull'
    BY <1>1 DEF PanicIsFull
  <2>8. QED
    BY <1>1, <2>4, <2>5, <2>6, <2>7 DEF PmmInv
<1>3. CASE ~(page < total /\ page \in used)
  <2>1. used' = used /\ usedPages' = usedPages
    BY <1>3 DEF FreePage, Cleared
  <2>2. page \notin held
    BY <1>3, SizeAssumption DEF PmmInv, PagesTypeOK, OneOwner
  <2>3. held' = held
    BY <1>1, <2>2
  <2>4. QED
    BY <1>1, <2>1, <2>3 DEF PmmInv, PagesTypeOK, CounterMatches, OneOwner, PanicIsFull, Reserved
<1>4. QED
  BY <1>2, <1>3

\* Every call keeps the allocator's bookkeeping.
LEMMA PmmNextInv == PmmInv /\ [PmmNext]_pmm => PmmInv'
<1>1. ASSUME PmmInv, UNCHANGED pmm PROVE PmmInv'
  BY <1>1 DEF pmm, PmmInv, PagesTypeOK, CounterMatches, OneOwner, PanicIsFull, Reserved
<1>2. QED
  BY <1>1, PmmAllocStep, PmmFreeStep DEF PmmNext

\* The bookkeeping holds in every reachable state.
LEMMA PmmInvariant == PmmSpec => []PmmInv
  BY PmmInitInv, PmmNextInv, PTL DEF PmmSpec

\* Whatever is allocated, freed twice or freed out of range, the counter is the
\* number of bits set and every page in use belongs to the kernel or to one
\* caller.
THEOREM PagesOwned == PmmSpec => []PagesSound
<1>1. PmmInv => PagesSound
  BY DEF PmmInv, PagesSound
<1>2. QED
  BY <1>1, PmmInvariant, PTL

\* The allocator panics only when every page of the memory is in use.
THEOREM PanicWhenFull == PmmSpec => []PanicIsFull
<1>1. PmmInv => PanicIsFull
  BY DEF PmmInv
<1>2. QED
  BY <1>1, PmmInvariant, PTL

\* A page in a caller's hands starts behind the bitmap.
LEMMA HeldBehind ==
  ASSUME PmmInv, NEW page \in held
  PROVE  page \in Nat /\ page < total /\ page * PageSize >= BitmapEnd(total)
<1>1. boot \in Boots /\ page \in Nat /\ page < total /\ page \notin Reserved(total)
  BY DEF PmmInv, PagesTypeOK, OneOwner
<1>2. BitmapEnd(total) \in Nat /\ BitmapEnd(total) \div PageSize \in Nat
  BY <1>1, LayoutFacts DEF PmmInv
<1>3. page > BitmapEnd(total) \div PageSize
  BY <1>1, <1>2 DEF Reserved
<1>4. PageSize \in Nat \ {0}
  BY SizeAssumption
<1>5. page * PageSize > BitmapEnd(total)
  BY <1>1, <1>2, <1>3, <1>4, DivFacts
<1>6. page * PageSize \in Nat
  BY <1>1, <1>4
<1>7. QED
  BY <1>1, <1>2, <1>5, <1>6

\* No caller is ever given a page with a byte of the kernel or of the bitmap.
THEOREM KernelStaysKept == PmmSpec => []KernelKept
<1>1. PmmInv => KernelKept
  BY HeldBehind DEF KernelKept
<1>2. QED
  BY <1>1, PmmInvariant, PTL

\* On a machine whose usable memory reaches from the bitmap to the end the
\* kernel settled for, every page handed out exists to its last byte.
THEOREM PagesAreThere == PmmSpec => []PagesExist
<1>1. ASSUME PmmInv PROVE PagesExist
  <2> SUFFICES ASSUME Sound(boot), NEW page \in held
               PROVE  \E e \in MapOf(boot) :
                        /\ e.usable /\ e.addr <= page * PageSize
                        /\ (page + 1) * PageSize <= e.addr + e.len
    BY DEF PagesExist
  <2>1. boot \in Boots /\ total = Pages(MultibootMemory(boot))
    BY <1>1 DEF PmmInv, PagesTypeOK
  <2>2. PICK e \in MapOf(boot) : /\ e.usable /\ e.addr <= BitmapStart
                                 /\ e.addr + e.len >= Clamped(MultibootMemory(boot))
    BY DEF Sound
  <2>3. e.addr \in Nat /\ e.len \in Nat
    BY <2>1, BootAssumption, SizeAssumption DEF MapOf, Region
  <2>4. page \in Nat /\ page < total /\ page * PageSize >= BitmapEnd(total)
    BY <1>1, HeldBehind
  <2>5. /\ total \in Nat /\ total * PageSize <= Clamped(MultibootMemory(boot))
        /\ BitmapStart \in Nat /\ BitmapEnd(total) \in Nat /\ BitmapStart <= BitmapEnd(total)
    BY <2>1, LayoutFacts
  <2>6. PageSize \in Nat /\ Clamped(MultibootMemory(boot)) \in Nat
    BY <2>1, SizeAssumption, ReportType, ClampFacts
  <2>7. e.addr <= page * PageSize
    <3>1. page * PageSize \in Nat
      BY <2>4, <2>6
    <3>2. QED
      BY <3>1, <2>2, <2>3, <2>4, <2>5
  <2>8. (page + 1) * PageSize <= total * PageSize
    <3>1. page + 1 \in Nat /\ total >= page + 1
      BY <2>4, <2>5
    <3>2. total * PageSize >= (page + 1) * PageSize
      BY <3>1, <2>5, <2>6, TimesMonotone
    <3>3. total * PageSize \in Nat /\ (page + 1) * PageSize \in Nat
      BY <3>1, <2>5, <2>6
    <3>4. QED
      BY <3>2, <3>3
  <2>9. (page + 1) * PageSize <= e.addr + e.len
    <3>1. total * PageSize \in Nat /\ (page + 1) * PageSize \in Nat
      BY <2>4, <2>5, <2>6
    <3>2. QED
      BY <3>1, <2>2, <2>3, <2>5, <2>6, <2>8
  <2>10. QED
    BY <2>2, <2>7, <2>9
<1>2. QED
  BY <1>1, PmmInvariant, PTL
=============================================================================
