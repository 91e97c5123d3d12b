--------------------------- MODULE RamDiskProofs ---------------------------
(***************************************************************************)
(* Proofs about RamDisk for every table size, every set of names and paths *)
(* of any length.  The argument has three layers: what resolve returns     *)
(* (lemma WalkStays, by induction over the path), what Subtree is (lemmas  *)
(* SubtreeFacts and ConnectedNotOnLoop), and one step per call.            *)
(***************************************************************************)
EXTENDS Commands, BasicFacts, FiniteSetTheorems

----------------------------------------------------------------------------
\* resolve.

\* The recursive function of Walk satisfies its defining equation whenever
\* the steps stay in some set.
LEMMA WalkEquation ==
  ASSUME NEW D, NEW start \in D, NEW toks \in Seq(Tokens),
         \A x \in D, t \in Tokens : StepTo(x, t) \in D
  PROVE  /\ Walk(start, toks)[0] = start
         /\ \A k \in 1 .. Len(toks) :
              Walk(start, toks)[k] = StepTo(Walk(start, toks)[k - 1], toks[k])
<1> DEFINE n == Len(toks)
           Fits1(m, g) == /\ g[0] = start
                          /\ \A k \in 1 .. m : g[k] = StepTo(g[k - 1], toks[k])
           Good(m) == \E g \in [0 .. m -> D] : Fits1(m, g)
           S == {j \in Nat : j <= n => Good(j)}
<1>0. n \in Nat /\ \A k \in 1 .. n : toks[k] \in Tokens
  OBVIOUS
<1> HIDE DEF n
<1>1. 0 \in S
  <2>1. /\ Fits1(0, [k \in 0 .. 0 |-> start])
        /\ [k \in 0 .. 0 |-> start] \in [0 .. 0 -> D]
    OBVIOUS
  <2>. QED BY <2>1
<1>2. ASSUME NEW m \in S PROVE m + 1 \in S
  <2> HIDE DEF Good
  <2>1. SUFFICES ASSUME m + 1 <= n PROVE Good(m + 1)
    OBVIOUS
  <2> USE DEF Good
  <2>2. PICK g \in [0 .. m -> D] : Fits1(m, g)
    BY <1>0, <2>1
  <2> DEFINE h == [k \in 0 .. m + 1 |->
                     IF k <= m THEN g[k] ELSE StepTo(g[m], toks[m + 1])]
  <2>3. StepTo(g[m], toks[m + 1]) \in D
    BY <1>0, <2>1
  <2>4. h \in [0 .. m + 1 -> D]
    BY <2>3
  <2>5. h[0] = start
    BY <2>2
  <2>6. ASSUME NEW k \in 1 .. m + 1 PROVE h[k] = StepTo(h[k - 1], toks[k])
    <3>1. CASE k <= m
      <4>1. h[k] = g[k] /\ h[k - 1] = g[k - 1]
        BY <3>1
      <4>. QED BY <4>1, <3>1, <2>2
    <3>2. CASE k = m + 1
      <4>1. h[k] = StepTo(g[m], toks[m + 1]) /\ h[k - 1] = g[m]
        BY <3>2
      <4>. QED BY <4>1, <3>2
    <3>. QED BY <3>1, <3>2
  <2> HIDE DEF h
  <2>. QED BY <2>4, <2>5, <2>6
<1>3. S = Nat
  BY <1>1, <1>2, SetInduction
<1>4. PICK g \in [0 .. n -> D] : Fits1(n, g)
  <2>1. n \in S
    BY <1>3, <1>0
  <2>. QED BY <2>1, <1>0
<1>5. g = [k \in 0 .. n |-> IF k = 0 THEN start ELSE StepTo(g[k - 1], toks[k])]
  BY <1>4, <1>0
<1>6. Walk(start, toks) =
        [k \in 0 .. n |-> IF k = 0 THEN start
                          ELSE StepTo(Walk(start, toks)[k - 1], toks[k])]
  BY <1>5, Zenon DEF Walk, n
<1> DEFINE w == Walk(start, toks)
<1> HIDE DEF w
<1>7. w = [k \in 0 .. n |-> IF k = 0 THEN start ELSE StepTo(w[k - 1], toks[k])]
  BY <1>6 DEF w
<1>8. w[0] = start /\ \A k \in 1 .. n : w[k] = StepTo(w[k - 1], toks[k])
  BY <1>0, <1>7
<1>. QED BY <1>8 DEF n, w

\* A walk that starts in a set its steps do not leave ends in that set.
LEMMA WalkStays ==
  ASSUME NEW D, NEW start \in D, NEW toks \in Seq(Tokens),
         \A x \in D, t \in Tokens : StepTo(x, t) \in D
  PROVE  Walk(start, toks)[Len(toks)] \in D
<1> DEFINE w == Walk(start, toks)
           S == {m \in Nat : m <= Len(toks) => w[m] \in D}
<1>1. /\ w[0] = start
      /\ \A k \in 1 .. Len(toks) : w[k] = StepTo(w[k - 1], toks[k])
      /\ Len(toks) \in Nat
      /\ \A k \in 1 .. Len(toks) : toks[k] \in Tokens
  BY WalkEquation
<1> HIDE DEF w
<1>2. 0 \in S
  BY <1>1
<1>3. ASSUME NEW m \in S PROVE m + 1 \in S
  <2>1. SUFFICES ASSUME m + 1 <= Len(toks) PROVE w[m + 1] \in D
    OBVIOUS
  <2>2. w[m + 1] = StepTo(w[m], toks[m + 1])
    BY <1>1, <2>1
  <2>3. w[m] \in D /\ toks[m + 1] \in Tokens
    BY <2>1, <1>1
  <2>. QED BY <2>2, <2>3
<1>4. S = Nat
  BY <1>2, <1>3, SetInduction
<1>5. Len(toks) \in S
  BY <1>1, <1>4
<1>6. w[Len(toks)] \in D
  BY <1>1, <1>5
<1>. QED BY <1>6 DEF w

\* The walk over a path without its last component is the walk over the
\* path, one step short: the two resolve calls of create_node agree.
LEMMA WalkLast ==
  ASSUME NEW D, NEW start \in D, NEW toks \in Seq(Tokens), toks # <<>>,
         \A x \in D, t \in Tokens : StepTo(x, t) \in D
  PROVE  LET front == SubSeq(toks, 1, Len(toks) - 1)
         IN  Walk(start, toks)[Len(toks)] =
               StepTo(Walk(start, front)[Len(front)], toks[Len(toks)])
<1> DEFINE n == Len(toks)
           front == SubSeq(toks, 1, n - 1)
           w == Walk(start, toks)
           v == Walk(start, front)
           S == {j \in Nat : j <= n - 1 => v[j] = w[j]}
<1>1. /\ n \in Nat \ {0}
      /\ front \in Seq(Tokens)
      /\ Len(front) = n - 1
      /\ \A k \in 1 .. n - 1 : front[k] = toks[k]
  <2>1. n \in Nat \ {0} /\ \A k \in 1 .. n - 1 : toks[k] \in Tokens
    BY EmptySeq, LenProperties
  <2>2. /\ front \in Seq(Tokens)
        /\ Len(front) = IF 1 <= n - 1 THEN (n - 1) - 1 + 1 ELSE 0
        /\ \A k \in 1 .. (n - 1) - 1 + 1 : front[k] = toks[1 + k - 1]
    <3> HIDE DEF n
    <3>. QED BY <2>1, SubSeqProperties
  <2> HIDE DEF n, front
  <2>3. \A k \in 1 .. n - 1 : 1 + k - 1 = k
    BY <2>1
  <2>. QED BY <2>1, <2>2, <2>3
<1>2. w[0] = start /\ \A k \in 1 .. n : w[k] = StepTo(w[k - 1], toks[k])
  BY WalkEquation
<1>3. /\ v[0] = start
      /\ \A k \in 1 .. Len(front) : v[k] = StepTo(v[k - 1], front[k])
  <2> HIDE DEF front
  <2>. QED BY <1>1, WalkEquation
<1> HIDE DEF n, front, w, v
<1>4. 0 \in S
  BY <1>1, <1>2, <1>3
<1>5. ASSUME NEW m \in S PROVE m + 1 \in S
  <2>1. SUFFICES ASSUME m + 1 <= n - 1 PROVE v[m + 1] = w[m + 1]
    OBVIOUS
  <2>2. m \in Nat /\ v[m] = w[m]
    <3>1. m \in Nat /\ (m <= n - 1 => v[m] = w[m])
      OBVIOUS
    <3>. QED BY <3>1, <2>1, <1>1
  <2>3. v[m + 1] = StepTo(v[m], front[m + 1])
    BY <1>1, <1>3, <2>1
  <2>4. w[m + 1] = StepTo(w[m], toks[m + 1])
    BY <1>1, <1>2, <2>1
  <2>. QED BY <1>1, <2>1, <2>2, <2>3, <2>4
<1>6. S = Nat
  BY <1>4, <1>5, SetInduction
<1>7. n - 1 \in S
  BY <1>1, <1>6
<1>8. w[n] = StepTo(w[n - 1], toks[n])
  BY <1>1, <1>2
<1>9. w[n] = StepTo(v[Len(front)], toks[n])
  BY <1>1, <1>7, <1>8
<1>. QED BY <1>9 DEF n, front, w, v

----------------------------------------------------------------------------
\* Slots and names.

\* Slots are naturals, the root is one and None is not.
LEMMA SlotsAreNats == Slots \subseteq Nat /\ Root \in Slots /\ None \notin Slots
BY SlotAssumption DEF Slots, Root, None

\* child_of returns a child or nothing.
LEMMA ChildOfFacts ==
  ASSUME TypeOK, NEW i, NEW name
  PROVE  ChildOf(i, name) \in Children(i) \cup {None}
<1> DEFINE found == {j \in Children(i) : nodes[j].name = name}
<1>1. found \in SUBSET Nat
  BY SlotsAreNats DEF TypeOK, Children
<1>2. found # {} => Min(found) \in found
  BY <1>1, MinIsLeast
<1>. QED BY <1>2 DEF ChildOf

\* One turn of resolve's loop stays among the used slots.
LEMMA StepUsed ==
  ASSUME TypeOK, TreeShape, NEW x \in Used \cup {None}, NEW t \in Tokens
  PROVE  StepTo(x, t) \in Used \cup {None}
<1>1. ChildOf(x, t) \in Used \cup {None}
  BY ChildOfFacts DEF Children
<1>2. x # None => ParentOf(x) \in Used
  BY DEF ParentOf, TreeShape
<1>. QED BY <1>1, <1>2 DEF StepTo

\* resolve returns -1 or a slot in use.
LEMMA ResolveUsed ==
  ASSUME TypeOK, TreeShape, NEW p \in PathStrings
  PROVE  Resolve(p) \in Used \cup {None}
<1> DEFINE start == IF p.abs THEN Root ELSE cwd
<1>1. start \in Used \cup {None} /\ p.toks \in Seq(Tokens)
  BY DEF TreeShape, PathStrings
<1>2. \A x \in Used \cup {None}, t \in Tokens : StepTo(x, t) \in Used \cup {None}
  BY StepUsed
<1> HIDE DEF start
<1>3. Walk(start, p.toks)[Len(p.toks)] \in Used \cup {None}
  BY <1>1, <1>2, WalkStays
<1>. QED BY <1>3 DEF Resolve, start

\* A path resolves to what its last component leads to from its parent.
LEMMA ResolveLast ==
  ASSUME TypeOK, TreeShape, NEW p \in PathStrings, HasBase(p)
  PROVE  /\ ParentPath(p) \in PathStrings
         /\ BaseOf(p) \in Tokens
         /\ Resolve(p) = StepTo(Resolve(ParentPath(p)), BaseOf(p))
<1> DEFINE start == IF p.abs THEN Root ELSE cwd
           front == SubSeq(p.toks, 1, Len(p.toks) - 1)
<1>1. start \in Used \cup {None} /\ p.toks \in Seq(Tokens) /\ p.toks # <<>>
  BY DEF TreeShape, PathStrings, HasBase
<1>2. \A x \in Used \cup {None}, t \in Tokens : StepTo(x, t) \in Used \cup {None}
  BY StepUsed
<1>3. /\ ParentPath(p) \in PathStrings
      /\ ParentPath(p).abs = p.abs
      /\ ParentPath(p).toks = front
  BY <1>1 DEF ParentPath, PathStrings
<1>4. BaseOf(p) \in Tokens
  BY <1>1 DEF BaseOf
<1> HIDE DEF start
<1>5. Walk(start, p.toks)[Len(p.toks)] =
        StepTo(Walk(start, front)[Len(front)], p.toks[Len(p.toks)])
  BY <1>1, <1>2, WalkLast
<1>. QED BY <1>3, <1>4, <1>5 DEF Resolve, BaseOf, start

\* A path whose parent is a directory and that leads to no directory ends in
\* a proper name: no node is ever called "." or "..".
LEMMA BaseIsName ==
  ASSUME TypeOK, TreeShape, NEW p \in PathStrings, HasBase(p), BaseFits(p),
         IsDir(Resolve(ParentPath(p))), ~IsDir(Resolve(p))
  PROVE  BaseOf(p) \in Names
<1> DEFINE d == Resolve(ParentPath(p))
<1>1. d \in Used /\ nodes[d].dir
  BY ResolveLast, ResolveUsed DEF IsDir
<1>2. ParentOf(d) \in Used /\ nodes[ParentOf(d)].dir
  BY <1>1 DEF ParentOf, TreeShape
<1>3. Used \subseteq Slots
  BY DEF TypeOK
<1>4. d # None /\ ParentOf(d) # None
  BY <1>1, <1>2, <1>3, SlotsAreNats
<1>5. Resolve(p) = StepTo(d, BaseOf(p)) /\ BaseOf(p) \in Tokens
  BY ResolveLast
<1> HIDE DEF d
<1>6. BaseOf(p) # TooLong
  BY DEF BaseFits
<1>7. BaseOf(p) # Dot
  BY <1>1, <1>4, <1>5, <1>6 DEF StepTo, IsDir
<1>8. BaseOf(p) # DotDot
  BY <1>2, <1>4, <1>5, <1>6, <1>7 DEF StepTo, IsDir
<1>. QED BY <1>5, <1>6, <1>7, <1>8 DEF Tokens

----------------------------------------------------------------------------
\* Subtrees.

Closed(S) == \A k \in S : Children(k) \subseteq S

\* A subtree is the least set closed under children.
LEMMA SubtreeLeast ==
  ASSUME NEW i \in Used, NEW S \in SUBSET Used, i \in S, Closed(S)
  PROVE  Subtree(i) \subseteq S
BY DEF Subtree, Closed

\* A subtree holds its top, is closed, and enters only through the top.
LEMMA SubtreeFacts ==
  ASSUME TypeOK, TreeShape, NEW i \in Used
  PROVE  /\ i \in Subtree(i) /\ Subtree(i) \subseteq Used
         /\ Closed(Subtree(i))
         /\ \A k \in Subtree(i) \ {i} : nodes[k].parent \in Subtree(i)
         /\ i # Root => Root \notin Subtree(i)
<1>1. i \in Subtree(i) /\ Subtree(i) \subseteq Used
  BY DEF Subtree
<1>2. Closed(Subtree(i))
  BY DEF Subtree, Closed, Children
<1>3. ASSUME NEW k \in Subtree(i) \ {i}, nodes[k].parent \notin Subtree(i)
      PROVE  FALSE
  <2> DEFINE S == Subtree(i) \ {k}
  <2>1. S \in SUBSET Used /\ i \in S
    BY <1>1
  <2>2. Closed(S)
    BY <1>2, <1>3 DEF Closed, Children
  <2>. QED BY <2>1, <2>2, SubtreeLeast
<1>4. ASSUME i # Root PROVE Root \notin Subtree(i)
  <2> DEFINE S == Used \ {Root}
  <2>1. S \in SUBSET Used /\ i \in S
    BY <1>4
  <2>2. Closed(S)
    BY SlotsAreNats DEF Closed, Children, TreeShape, TypeOK
  <2>. QED BY <2>1, <2>2, SubtreeLeast
<1>. QED BY <1>1, <1>2, <1>3, <1>4

\* A node that hangs off the root is not on a loop: delete_node called for it
\* ends.  Otherwise the nodes off the root without its subtree would be a
\* smaller set closed under children.
LEMMA ConnectedNotOnLoop ==
  ASSUME TypeOK, TreeShape, NEW i \in Connected, i # Root
  PROVE  ~OnLoop(i)
<1> SUFFICES ASSUME OnLoop(i) PROVE FALSE
  OBVIOUS
<1> DEFINE S == Connected \ Subtree(i)
<1>1. /\ Root \in Connected /\ Connected \subseteq Used
      /\ Closed(Connected)
  BY SubtreeFacts DEF Connected, TreeShape
<1>2. i \in Used /\ Root \in Used
  BY <1>1
<1>3. /\ i \in Subtree(i) /\ Root \notin Subtree(i)
      /\ \A k \in Subtree(i) \ {i} : nodes[k].parent \in Subtree(i)
  BY <1>2, SubtreeFacts
<1>4. nodes[i].parent \in Subtree(i)
  BY DEF OnLoop
<1>5. \A k \in Subtree(i) : nodes[k].parent \in Subtree(i)
  BY <1>3, <1>4
<1>6. Closed(S)
  BY <1>1, <1>5 DEF Closed, Children
<1>7. S \in SUBSET Used /\ Root \in S
  BY <1>1, <1>3
<1>8. Connected \subseteq S
  BY <1>2, <1>6, <1>7, SubtreeLeast DEF Connected
<1>. QED BY <1>3, <1>8

----------------------------------------------------------------------------
\* create_node.

\* The slot create_node takes is free.
LEMMA FreeSlotFacts ==
  ASSUME Slots \ Used # {}
  PROVE  FreeSlot \in Slots \ Used
<1>1. (Slots \ Used) \in SUBSET Nat
  BY SlotsAreNats
<1>. QED BY <1>1, MinIsLeast DEF FreeSlot

\* What create_node leaves: the nodes there were, and at most one new entry
\* in a directory of the tree.
LEMMA AfterCreateFacts ==
  ASSUME TypeOK, TreeShape, NEW p \in PathStrings, BaseFits(p),
         NEW dir \in BOOLEAN
  PROVE  LET after == AfterCreate(p, dir)
         IN  /\ Used \subseteq DOMAIN after /\ DOMAIN after \subseteq Slots
             /\ after \in [DOMAIN after -> Node]
             /\ \A j \in Used : after[j] = nodes[j]
             /\ \A j \in DOMAIN after \ Used :
                  /\ after[j].parent \in Used
                  /\ nodes[after[j].parent].dir
                  /\ after[j].name \in Names
<1>1. CASE ~Creates(p)
  BY <1>1 DEF AfterCreate, TypeOK
<1>2. CASE Creates(p)
  <2> DEFINE parent == Resolve(ParentPath(p))
  <2>1. FreeSlot \in Slots \ Used
    BY <1>2, FreeSlotFacts DEF Creates
  <2>2. parent \in Used /\ nodes[parent].dir
    BY <1>2, ResolveLast, ResolveUsed DEF Creates, IsDir
  <2>3. BaseOf(p) \in Names
    BY <1>2, BaseIsName DEF Creates, IsDir
  <2>4. [dir |-> dir, name |-> BaseOf(p), parent |-> parent] \in Node
    BY <2>2, <2>3 DEF Node, TypeOK
  <2>5. AfterCreate(p, dir) =
          [j \in Used \cup {FreeSlot} |->
             IF j = FreeSlot
             THEN [dir |-> dir, name |-> BaseOf(p), parent |-> parent]
             ELSE nodes[j]]
    BY <1>2 DEF AfterCreate
  <2> HIDE DEF parent
  <2>6. Used \subseteq Slots /\ \A j \in Used : nodes[j] \in Node
    BY DEF TypeOK
  <2>. QED BY <2>1, <2>2, <2>3, <2>4, <2>5, <2>6
<1>. QED BY <1>1, <1>2

\* The slot create_node returns is in use afterwards, and so is the slot a
\* write or a copy settles on.
LEMMA TargetFacts ==
  ASSUME TypeOK, TreeShape, NEW p \in PathStrings, BaseFits(p)
  PROVE  Target(p) \in DOMAIN AfterCreate(p, FALSE) \cup {None}
<1>1. Resolve(p) \in Used \cup {None}
  BY ResolveUsed
<1>2. Used \subseteq DOMAIN AfterCreate(p, FALSE)
  BY AfterCreateFacts
<1>3. Creates(p) => FreeSlot \in DOMAIN AfterCreate(p, FALSE)
  BY DEF AfterCreate
<1>. QED BY <1>1, <1>2, <1>3 DEF Target, CreateIdx

\* A creation keeps the sizes in range.
LEMMA SizeAfterCreateFacts ==
  ASSUME TypeOK, NEW p
  PROVE  SizeAfterCreate(p) \in [Slots -> 0 .. MaxData - 1]
<1>1. size \in [Slots -> 0 .. MaxData - 1] /\ 0 \in 0 .. MaxData - 1
  BY SlotAssumption DEF TypeOK
<1>. QED BY <1>1 DEF SizeAfterCreate

\* Copying a text that leaves room for the NUL keeps the array's shape.
LEMMA OverlayFacts ==
  ASSUME NEW text \in Seq(Bytes), NEW buf \in [1 .. MaxData -> Bytes]
  PROVE  Overlay(text, buf) \in [1 .. MaxData -> Bytes]
<1>1. Len(buf) = MaxData
  BY SlotAssumption
<1>2. \A j \in 1 .. MaxData : j <= Len(text) => text[j] \in Bytes
  OBVIOUS
<1>. QED BY <1>1, <1>2, ByteAssumption DEF Overlay

\* The content of a file is a sequence of bytes.
LEMMA ContentFacts ==
  ASSUME TypeOK, NEW i \in Slots
  PROVE  Content(i) \in Seq(Bytes)
<1>1. /\ data[i] \in [1 .. MaxData -> Bytes]
      /\ size[i] \in 0 .. MaxData - 1 /\ MaxData \in Nat
  BY SlotAssumption DEF TypeOK
<1>2. \A j \in 1 .. size[i] : data[i][j] \in Bytes
  BY <1>1
<1>. QED BY <1>1, <1>2, SubSeqProperties DEF Content

----------------------------------------------------------------------------
\* One lemma per call: each keeps the types and the shape of the tree.

NodesTyped == Used \subseteq Slots /\ nodes \in [Used -> Node]

\* create_node keeps the tree's shape.
LEMMA CreateStep ==
  ASSUME TypeOK, TreeShape, NEW p \in PathStrings, BaseFits(p),
         NEW dir \in BOOLEAN, nodes' = AfterCreate(p, dir), cwd' = cwd
  PROVE  NodesTyped' /\ TreeShape'
<1>1. /\ Used \subseteq Used' /\ Used' \subseteq Slots
      /\ nodes' \in [Used' -> Node]
      /\ \A j \in Used : nodes'[j] = nodes[j]
      /\ \A j \in Used' \ Used : /\ nodes'[j].parent \in Used
                                 /\ nodes[nodes'[j].parent].dir
                                 /\ nodes'[j].name \in Names
  BY AfterCreateFacts DEF Used
<1>2. Root \in Used' /\ nodes'[Root].dir /\ nodes'[Root].parent = None
  BY <1>1 DEF TreeShape
<1>3. ASSUME NEW i \in Used' \ {Root}
      PROVE  /\ nodes'[i].parent \in Used'
             /\ nodes'[nodes'[i].parent].dir
             /\ nodes'[i].name \in Names
  <2>1. CASE i \in Used
    BY <2>1, <1>1 DEF TreeShape
  <2>2. CASE i \notin Used
    BY <2>2, <1>1, <1>3
  <2>. QED BY <2>1, <2>2
<1>4. cwd' \in Used' /\ nodes'[cwd'].dir
  BY <1>1 DEF TreeShape
<1>. QED BY <1>1, <1>2, <1>3, <1>4 DEF NodesTyped, TreeShape

\* fs_make_file and fs_make_dir.
LEMMA MakeStep ==
  ASSUME TypeOK, TreeShape, NEW p \in PathStrings, NEW dir \in BOOLEAN, Make(p, dir)
  PROVE  TypeOK' /\ TreeShape'
<1>1. p \in PathStrings
  OBVIOUS
<1>2. NodesTyped' /\ TreeShape'
  BY <1>1, CreateStep DEF Make
<1>3. size' \in [Slots -> 0 .. MaxData - 1]
  BY SizeAfterCreateFacts DEF Make
<1>. QED BY <1>2, <1>3 DEF Make, TypeOK, NodesTyped

\* fs_write_file.
LEMMA WriteStep ==
  ASSUME TypeOK, TreeShape, NEW p \in PathStrings, NEW text \in Seq(Bytes \ {0}),
         WriteFile(p, text)
  PROVE  TypeOK' /\ TreeShape'
<1>1. p \in PathStrings /\ text \in Seq(Bytes) /\ Len(text) \in Nat
  OBVIOUS
<1>2. NodesTyped' /\ TreeShape'
  BY <1>1, CreateStep DEF WriteFile
<1> DEFINE i == Target(p)
           fits == i # None /\ ~AfterCreate(p, FALSE)[i].dir /\ Fits(text)
<1>3. fits => i \in Slots /\ Len(text) \in 0 .. MaxData - 1
  <2>1. i \in DOMAIN AfterCreate(p, FALSE) \cup {None}
    BY <1>1, TargetFacts DEF WriteFile
  <2>2. DOMAIN AfterCreate(p, FALSE) \subseteq Slots
    BY <1>1, AfterCreateFacts DEF WriteFile
  <2>3. fits => i # None /\ Len(text) < MaxData
    BY DEF Fits
  <2> HIDE DEF i, fits
  <2>4. fits => i \in Slots
    BY <2>1, <2>2, <2>3
  <2>5. fits => Len(text) \in 0 .. MaxData - 1
    BY <1>1, <2>3, SlotAssumption
  <2>. QED BY <2>4, <2>5
<1>4. /\ data' = IF fits THEN [data EXCEPT ![i] = Overlay(text, @)] ELSE data
      /\ size' = IF fits THEN [size EXCEPT ![i] = Len(text)]
                 ELSE SizeAfterCreate(p)
      /\ ok' = fits /\ cwd' = cwd /\ hung' = hung
  BY DEF WriteFile
<1>5. fits \in BOOLEAN
  OBVIOUS
<1> HIDE DEF i, fits
<1>6. data' \in [Slots -> [1 .. MaxData -> Bytes]]
  <2>1. i \in Slots => Overlay(text, data[i]) \in [1 .. MaxData -> Bytes]
    BY <1>1, OverlayFacts DEF TypeOK
  <2>. QED BY <1>3, <1>4, <2>1 DEF TypeOK
<1>7. size' \in [Slots -> 0 .. MaxData - 1]
  BY <1>3, <1>4, SizeAfterCreateFacts DEF TypeOK
<1>. QED BY <1>2, <1>4, <1>5, <1>6, <1>7 DEF TypeOK, NodesTyped

\* What fs_copy may write to are paths that create_node may split.
LEMMA CopyTargetFacts ==
  ASSUME TypeOK, TreeShape, NEW p \in PathStrings, NEW q \in PathStrings, BaseFits(q),
         IsFile(Resolve(p)), NEW t \in CopyTargets(p, q)
  PROVE  /\ Resolve(p) \in Used /\ Resolve(p) \in Slots
         /\ t \in PathStrings /\ BaseFits(t)
<1> DEFINE s == Resolve(p)
<1>1. s \in Used /\ s \in Slots /\ nodes[s].name \in Names
  <2>1. s \in Used /\ ~nodes[s].dir
    BY ResolveUsed DEF IsFile
  <2>. QED BY <2>1 DEF TreeShape, TypeOK
<1>2. CASE IsDir(Resolve(q))
  <2>1. PICK a \in BOOLEAN :
          t = [abs |-> a, toks |-> Append(q.toks, nodes[s].name), slash |-> FALSE]
    BY <1>2 DEF CopyTargets, PathStrings
  <2>2. nodes[s].name \in Tokens /\ nodes[s].name # TooLong
    BY <1>1, NameAssumption DEF Tokens
  <2>3. q.toks \in Seq(Tokens)
    BY DEF PathStrings
  <2> DEFINE toks == Append(q.toks, nodes[s].name)
  <2>4. toks \in Seq(Tokens) /\ toks[Len(toks)] = nodes[s].name
    BY <2>2, <2>3, AppendProperties
  <2>5. t = [abs |-> a, toks |-> toks, slash |-> FALSE]
    BY <2>1
  <2> HIDE DEF toks, s
  <2>6. t \in PathStrings
    BY <2>4, <2>5 DEF PathStrings
  <2>7. BaseOf(t) = nodes[s].name
    BY <2>4, <2>5 DEF BaseOf
  <2>. QED BY <1>1, <2>2, <2>6, <2>7 DEF BaseFits, s
<1>3. CASE ~IsDir(Resolve(q))
  BY <1>1, <1>3 DEF CopyTargets
<1>. QED BY <1>2, <1>3

\* fs_copy.
LEMMA CopyStep ==
  ASSUME TypeOK, TreeShape, NEW p \in PathStrings, NEW q \in PathStrings, Copy(p, q)
  PROVE  TypeOK' /\ TreeShape'
<1>0. p \in PathStrings /\ q \in PathStrings
  OBVIOUS
<1>1. CASE Fail
  BY <1>1 DEF Fail, TypeOK, TreeShape, Used
<1>2. ASSUME IsFile(Resolve(p)), NEW t \in CopyTargets(p, q), CopyTo(Resolve(p), t)
      PROVE  TypeOK' /\ TreeShape'
  <2> DEFINE s == Resolve(p)
             d == Target(t)
             fits == d # None /\ ~AfterCreate(t, FALSE)[d].dir
  <2>1. s \in Used /\ s \in Slots /\ t \in PathStrings /\ BaseFits(t)
    BY <1>2, CopyTargetFacts DEF Copy
  <2>3. /\ nodes' = AfterCreate(t, FALSE)
        /\ data' = IF fits THEN [data EXCEPT ![d] = Overlay(Content(s), @)] ELSE data
        /\ size' = IF fits THEN [size EXCEPT ![d] = size[s]] ELSE size
        /\ ok' = fits /\ cwd' = cwd /\ hung' = hung
    BY <1>2 DEF CopyTo
  <2>4. NodesTyped' /\ TreeShape'
    BY <2>1, <2>3, CreateStep
  <2>5. fits => d \in Slots
    <3>1. d \in DOMAIN AfterCreate(t, FALSE) \cup {None}
      BY <2>1, TargetFacts
    <3>2. DOMAIN AfterCreate(t, FALSE) \subseteq Slots
      BY <2>1, AfterCreateFacts
    <3>. QED BY <3>1, <3>2
  <2>6. fits \in BOOLEAN
    OBVIOUS
  <2> HIDE DEF s, d, fits
  <2>7. data' \in [Slots -> [1 .. MaxData -> Bytes]]
    <3>1. d \in Slots => Overlay(Content(s), data[d]) \in [1 .. MaxData -> Bytes]
      BY <2>1, ContentFacts, OverlayFacts DEF TypeOK
    <3>. QED BY <2>3, <2>5, <3>1 DEF TypeOK
  <2>8. size' \in [Slots -> 0 .. MaxData - 1]
    BY <2>1, <2>3, <2>5 DEF TypeOK
  <2>. QED BY <2>3, <2>4, <2>6, <2>7, <2>8 DEF TypeOK, NodesTyped
<1>. QED BY <1>1, <1>2 DEF Copy

\* fs_move.
LEMMA MoveStep ==
  ASSUME TypeOK, TreeShape, NEW p \in PathStrings, NEW q \in PathStrings, Move(p, q)
  PROVE  TypeOK' /\ TreeShape'
<1> DEFINE s == Resolve(p)
           d == Resolve(q)
           parent == Resolve(ParentPath(q))
<1>0. /\ p \in PathStrings /\ q \in PathStrings
      /\ s \in Used \cup {None} /\ d \in Used \cup {None}
  BY ResolveUsed
<1>1. CASE Fail
  BY <1>1 DEF Fail, TypeOK, TreeShape, Used
<1>2. CASE s \notin {None, Root} /\ IsDir(d) /\ MoveInto(s, d)
  <2>1. s \in Used \ {Root} /\ d \in Used /\ nodes[d].dir
    BY <1>0, <1>2 DEF IsDir
  <2>2. /\ nodes' = [nodes EXCEPT ![s].parent = d]
        /\ ok' = TRUE /\ UNCHANGED <<data, size, cwd, hung>>
    BY <1>2 DEF MoveInto
  <2> HIDE DEF s, d
  <2>3. /\ Used' = Used
        /\ nodes' \in [Used -> Node]
        /\ \A j \in Used : /\ nodes'[j].dir = nodes[j].dir
                           /\ nodes'[j].name = nodes[j].name
                           /\ nodes'[j].parent = IF j = s THEN d ELSE nodes[j].parent
    BY <2>1, <2>2 DEF TypeOK, Used, Node
  <2>4. TypeOK'
    BY <2>2, <2>3 DEF TypeOK
  <2>5. TreeShape'
    BY <2>1, <2>2, <2>3 DEF TreeShape
  <2>. QED BY <2>4, <2>5
<1>3. CASE /\ s \notin {None, Root} /\ ~IsDir(d)
           /\ HasBase(q) /\ IsDir(parent)
           /\ MoveOnto(s, d, parent, BaseOf(q))
  <2> DEFINE name == BaseOf(q)
  <2>1. /\ s \in Used \ {Root}
        /\ d = None \/ (d \in Used /\ ~nodes[d].dir)
        /\ parent \in Used /\ nodes[parent].dir
        /\ name \in Names
    <3>1. name \in Names
      BY <1>0, <1>3, BaseIsName DEF Move
    <3>2. parent \in Used /\ nodes[parent].dir
      BY <1>0, <1>3, ResolveLast, ResolveUsed DEF IsDir
    <3>3. s \notin {None, Root} /\ ~IsDir(d)
      BY <1>3
    <3>4. d = None \/ ~nodes[d].dir
      BY <3>3 DEF IsDir
    <3> HIDE DEF s, d, parent, name
    <3>5. s \in Used \ {Root}
      BY <1>0, <3>3
    <3>6. d = None \/ (d \in Used /\ ~nodes[d].dir)
      BY <1>0, <3>4
    <3>. QED BY <3>1, <3>2, <3>5, <3>6
  <2>2. /\ nodes' = [j \in Used \ {d} |->
                       IF j = s
                       THEN [nodes[s] EXCEPT !.parent = parent, !.name = name]
                       ELSE nodes[j]]
        /\ ok' = TRUE /\ UNCHANGED <<data, size, cwd, hung>>
    BY <1>3 DEF MoveOnto
  <2> HIDE DEF s, d, parent, name
  <2>3. /\ Used' = Used \ {d}
        /\ nodes' \in [Used' -> Node]
        /\ \A j \in Used' :
             /\ nodes'[j].dir = nodes[j].dir
             /\ nodes'[j].name = IF j = s THEN name ELSE nodes[j].name
             /\ nodes'[j].parent = IF j = s THEN parent ELSE nodes[j].parent
    BY <2>1, <2>2 DEF TypeOK, Used, Node
  <2>4. TypeOK'
    BY <2>2, <2>3 DEF TypeOK
  <2>5. Used \subseteq Slots /\ None \notin Used
    BY SlotsAreNats DEF TypeOK
  <2>6. /\ Root \in Used' /\ nodes'[Root].dir /\ nodes'[Root].parent = None
        /\ cwd' \in Used' /\ nodes'[cwd'].dir
    <3>1. Root # d /\ Root # s /\ cwd # d
      BY <2>1, <2>5 DEF TreeShape
    <3>. QED BY <2>2, <2>3, <3>1 DEF TreeShape
  <2>7. ASSUME NEW i \in Used' \ {Root}
        PROVE  /\ nodes'[i].parent \in Used'
               /\ nodes'[nodes'[i].parent].dir
               /\ nodes'[i].name \in Names
    <3>1. i \in Used \ {Root}
      BY <2>3
    <3>2. nodes'[i].parent \in Used /\ nodes[nodes'[i].parent].dir
      BY <2>1, <2>3, <3>1 DEF TreeShape
    <3>3. nodes'[i].parent \in Used'
      BY <2>1, <2>3, <2>5, <3>2
    <3>. QED BY <2>1, <2>3, <3>1, <3>2, <3>3 DEF TreeShape
  <2>8. TreeShape'
    BY <2>6, <2>7 DEF TreeShape
  <2>. QED BY <2>4, <2>8
<1>. QED BY <1>1, <1>2, <1>3 DEF Move

\* fs_delete.
LEMMA DeleteStep ==
  ASSUME TypeOK, TreeShape, NEW p \in PathStrings, Delete(p)
  PROVE  TypeOK' /\ TreeShape'
<1> DEFINE i == Resolve(p)
<1>0. i \in Used \cup {None}
  BY ResolveUsed
<1>1. CASE i \in {None, Root} /\ Fail
  BY <1>1 DEF Fail, TypeOK, TreeShape, Used
<1>2. CASE hung' = TRUE /\ UNCHANGED <<nodes, data, size, cwd, ok>>
  BY <1>2 DEF TypeOK, TreeShape, Used
<1>3. CASE /\ i \notin {None, Root} /\ ~OnLoop(i)
           /\ nodes' = Restrict(nodes, Used \ Freed(i))
           /\ cwd' = CwdWithout(i)
           /\ ok' = TRUE
           /\ UNCHANGED <<data, size, hung>>
  <2>1. i \in Used \ {Root}
    BY <1>0, <1>3
  <2> HIDE DEF i
  <2> DEFINE gone == Subtree(i)
  <2>2. /\ i \in gone /\ gone \subseteq Used /\ Root \notin gone
        /\ \A k \in gone : Children(k) \subseteq gone
    BY <2>1, SubtreeFacts DEF Closed
  <2>3. nodes[i].parent \notin gone
    BY <1>3 DEF OnLoop
  <2>4. /\ cwd' = IF cwd \in gone THEN nodes[i].parent ELSE cwd
        /\ nodes' = [j \in Used \ gone |-> nodes[j]]
        /\ ok' = TRUE /\ UNCHANGED <<data, size, hung>>
    BY <1>3 DEF CwdWithout, Freed, Restrict
  <2> HIDE DEF gone
  <2>5. /\ Used' = Used \ gone
        /\ nodes' \in [Used' -> Node]
        /\ \A j \in Used' : nodes'[j] = nodes[j]
    BY <2>4 DEF TypeOK, Used
  <2>6. /\ Root \in Used' /\ nodes'[Root].dir /\ nodes'[Root].parent = None
        /\ cwd' \in Used' /\ nodes'[cwd'].dir
    BY <2>1, <2>2, <2>3, <2>4, <2>5 DEF TreeShape
  <2>7. ASSUME NEW j \in Used' \ {Root}
        PROVE  /\ nodes'[j].parent \in Used'
               /\ nodes'[nodes'[j].parent].dir
               /\ nodes'[j].name \in Names
    <3>1. j \in Children(nodes[j].parent) /\ nodes[j].parent \in Used
      BY <2>5 DEF Children, TreeShape
    <3>2. nodes[j].parent \notin gone
      BY <2>2, <2>5, <3>1
    <3>. QED BY <2>5, <3>1, <3>2 DEF TreeShape
  <2>8. TreeShape'
    BY <2>6, <2>7 DEF TreeShape
  <2>9. cwd' \in Slots
    BY <2>5, <2>6 DEF TypeOK
  <2>. QED BY <2>4, <2>5, <2>8, <2>9 DEF TypeOK
<1>. QED BY <1>1, <1>2, <1>3 DEF Delete

\* fs_chdir.
LEMMA ChdirStep ==
  ASSUME TypeOK, TreeShape, NEW p \in PathStrings, Chdir(p)
  PROVE  TypeOK' /\ TreeShape'
<1>1. Resolve(p) \in Used \cup {None}
  BY ResolveUsed
<1>2. IsDir(Resolve(p)) => Resolve(p) \in Used
  BY <1>1 DEF IsDir
<1>. QED BY <1>2 DEF Chdir, Fail, IsDir, TypeOK, TreeShape, Used

----------------------------------------------------------------------------
\* The types and the tree shape hold in every reachable state, for every
\* table size and every set of paths: no call of ramdisk.c leaves a dangling
\* parent, a file with children, or a current directory that is gone.
Tree == TypeOK /\ TreeShape

\* ramdisk_init leaves the root alone.
LEMMA InitTree == Init => Tree
<1> SUFFICES ASSUME Init PROVE Tree
  OBVIOUS
<1>1. Used = {Root} /\ nodes[Root] = [dir |-> TRUE, name |-> "/", parent |-> None]
  BY DEF Init, Used
<1>2. TreeShape
  BY <1>1 DEF Init, TreeShape
<1>3. nodes \in [Used -> Node] /\ Used \subseteq Slots
  BY <1>1, SlotsAreNats DEF Init, Node
<1>4. /\ data \in [Slots -> [1 .. MaxData -> Bytes]]
      /\ size \in [Slots -> 0 .. MaxData - 1]
  BY SlotAssumption, ByteAssumption DEF Init
<1>. QED BY <1>2, <1>3, <1>4, SlotsAreNats DEF Init, Tree, TypeOK

\* Every call keeps the types and the shape.
LEMMA NextTree == Tree /\ [Next]_vars => Tree'
<1> SUFFICES ASSUME Tree, [Next]_vars PROVE Tree'
  OBVIOUS
<1> USE DEF Tree
<1>1. ASSUME NEW p \in Paths, NEW dir \in BOOLEAN, Make(p, dir) PROVE Tree'
  BY <1>1, MakeStep, PathAssumption
<1>2. ASSUME NEW p \in Paths, NEW text \in Texts, WriteFile(p, text) PROVE Tree'
  BY <1>2, WriteStep, PathAssumption, TextAssumption
<1>3. ASSUME NEW p \in Paths, NEW q \in Paths, Copy(p, q) PROVE Tree'
  BY <1>3, CopyStep, PathAssumption
<1>4. ASSUME NEW p \in Paths, NEW q \in Paths, Move(p, q) PROVE Tree'
  BY <1>4, MoveStep, PathAssumption
<1>5. ASSUME NEW p \in Paths, Delete(p) PROVE Tree'
  BY <1>5, DeleteStep, PathAssumption
<1>6. ASSUME NEW p \in Paths, Chdir(p) PROVE Tree'
  BY <1>6, ChdirStep, PathAssumption
<1>7. CASE Cwd
  BY <1>7 DEF Cwd, TypeOK, TreeShape, Used
<1>8. CASE UNCHANGED vars
  BY <1>8 DEF vars, TypeOK, TreeShape, Used
<1>. QED BY <1>1, <1>2, <1>3, <1>4, <1>5, <1>6, <1>7, <1>8 DEF Next

\* No sequence of calls leaves a dangling parent, a file as a parent, a freed
\* current directory or a changed root.
THEOREM TreeCorrect == Spec => []TreeSound
<1>1. Init => Tree
  BY InitTree
<1>2. Tree /\ [Next]_vars => Tree'
  BY NextTree
<1>3. Tree => TreeSound
  BY DEF Tree, TreeSound
<1>. QED BY <1>1, <1>2, <1>3, PTL DEF Spec

----------------------------------------------------------------------------
\* Loops.

\* From a current directory that hangs off the root every path leads nowhere
\* or to a node that does too.
LEMMA ResolveConnected ==
  ASSUME Tree, cwd \in Connected, NEW p \in PathStrings
  PROVE  Resolve(p) \in Connected \cup {None}
<1> USE DEF Tree
<1>1. /\ Root \in Connected /\ Connected \subseteq Used /\ Closed(Connected)
      /\ \A k \in Connected \ {Root} : nodes[k].parent \in Connected
  BY SubtreeFacts DEF Connected, TreeShape
<1>2. ASSUME NEW x \in Connected \cup {None}, NEW t \in Tokens
      PROVE  StepTo(x, t) \in Connected \cup {None}
  <2>1. x # None => ParentOf(x) \in Connected
    BY <1>1 DEF ParentOf, TreeShape
  <2>2. x # None => ChildOf(x, t) \in Connected \cup {None}
    BY <1>1, ChildOfFacts DEF Closed
  <2>. QED BY <2>1, <2>2 DEF StepTo
<1> DEFINE start == IF p.abs THEN Root ELSE cwd
<1>3. start \in Connected \cup {None} /\ p.toks \in Seq(Tokens)
  BY <1>1 DEF PathStrings
<1> HIDE DEF start
<1>4. Walk(start, p.toks)[Len(p.toks)] \in Connected \cup {None}
  BY <1>2, <1>3, WalkStays
<1>. QED BY <1>4 DEF Resolve, start

HungApart == hung => cwd \notin Connected

\* A recursion that does not end has met a current directory off the tree.
LEMMA NextHungApart == Tree /\ HungApart /\ [Next]_vars => HungApart'
<1> SUFFICES ASSUME Tree, HungApart, [Next]_vars PROVE HungApart'
  OBVIOUS
<1>1. CASE hung' = hung /\ ~hung
  BY <1>1 DEF HungApart
<1>2. CASE UNCHANGED vars
  BY <1>2 DEF vars, HungApart, Connected, Subtree, Children, Used
<1>3. ASSUME NEW p \in Paths, Delete(p) PROVE HungApart'
  <2>1. CASE hung' = hung
    BY <1>1, <1>3, <2>1 DEF Delete
  <2>2. CASE /\ Resolve(p) \notin {None, Root} /\ OnLoop(Resolve(p))
             /\ UNCHANGED <<nodes, cwd>>
    <3>1. p \in PathStrings
      BY PathAssumption
    <3>2. cwd \notin Connected
      BY <2>2, <3>1, ResolveConnected, ConnectedNotOnLoop DEF Tree
    <3>. QED BY <2>2, <3>2 DEF HungApart, Connected, Subtree, Children, Used
  <2>. QED BY <1>3, <2>1, <2>2 DEF Delete, Fail
<1>4. CASE Cwd
  BY <1>4 DEF Cwd, HungApart, Connected, Subtree, Children, Used
<1>5. CASE \E p \in Paths, dir \in BOOLEAN : Make(p, dir)
  BY <1>1, <1>5 DEF Make
<1>6. CASE \E p \in Paths, text \in Texts : WriteFile(p, text)
  BY <1>1, <1>6 DEF WriteFile
<1>7. CASE \E p, q \in Paths : Copy(p, q)
  BY <1>1, <1>7 DEF Copy, CopyTo, Fail
<1>8. CASE \E p, q \in Paths : Move(p, q)
  BY <1>1, <1>8 DEF Move, MoveInto, MoveOnto, Fail
<1>9. CASE \E p \in Paths : Chdir(p)
  BY <1>1, <1>9 DEF Chdir, Fail
<1>. QED BY <1>2, <1>3, <1>4, <1>5, <1>6, <1>7, <1>8, <1>9 DEF Next

\* The endless recursions of delete_node and build_path are out of reach of
\* every session whose current directory hangs off the root.
THEOREM LoopsStayOutOfReach == Spec => []LoopsOutOfReach
<1>1. Init => HungApart
  BY DEF Init, HungApart
<1>2. Tree /\ HungApart => LoopsOutOfReach
  BY ResolveConnected, PathAssumption DEF HungApart, LoopsOutOfReach
<1>. QED BY <1>1, <1>2, InitTree, NextTree, NextHungApart, PTL DEF Spec

----------------------------------------------------------------------------
(* Failures.                                                               *)

\* A creation gives its file to the caller: the slot that create_node takes is the
\* target, and it is a file.
LEMMA CreatedTarget ==
  ASSUME TypeOK, NEW p \in PathStrings, Creates(p)
  PROVE  /\ FreeSlot \in Slots \ Used /\ Target(p) = FreeSlot /\ Target(p) # None
         /\ ~AfterCreate(p, FALSE)[Target(p)].dir
         /\ \A dir \in BOOLEAN :
              /\ CreateIdx(p, dir) = FreeSlot
              /\ DOMAIN AfterCreate(p, dir) = Used \cup {FreeSlot}
              /\ AfterCreate(p, dir)[FreeSlot] =
                   [dir |-> dir, name |-> BaseOf(p), parent |-> Resolve(ParentPath(p))]
<1>1. FreeSlot \in Slots \ Used
  BY FreeSlotFacts DEF Creates
<1>2. FreeSlot # None
  BY <1>1, SlotsAreNats
<1>3. CreateIdx(p, FALSE) = FreeSlot /\ Target(p) = FreeSlot
  BY DEF Target, CreateIdx, Creates
<1>4. \A dir \in BOOLEAN :
        /\ DOMAIN AfterCreate(p, dir) = Used \cup {FreeSlot}
        /\ AfterCreate(p, dir)[FreeSlot] =
             [dir |-> dir, name |-> BaseOf(p), parent |-> Resolve(ParentPath(p))]
  BY DEF AfterCreate
<1>5. ~AfterCreate(p, FALSE)[Target(p)].dir
  <2>1. AfterCreate(p, FALSE)[FreeSlot] =
          [dir |-> FALSE, name |-> BaseOf(p), parent |-> Resolve(ParentPath(p))]
    BY DEF AfterCreate
  <2>2. AfterCreate(p, FALSE)[FreeSlot].dir = FALSE
    <3>1. \A r, b, c : r = [dir |-> FALSE, name |-> b, parent |-> c] => r.dir = FALSE
      OBVIOUS
    <3>2. QED
      BY <2>1, <3>1, Zenon
  <2>3. QED
    BY <1>3, <2>2
<1>6. QED
  BY <1>1, <1>2, <1>3, <1>4, <1>5 DEF CreateIdx

FailureHarmless ==
  ~ok' =>
    /\ data' = data /\ cwd' = cwd
    /\ \/ nodes' = nodes /\ size' = size
       \/ \E p \in Paths, text \in Texts :
            /\ Creates(p) /\ Len(text) >= MaxData /\ WriteFile(p, text)
            /\ size'[FreeSlot] = 0

LEMMA StepFailureHarmless ==
  ASSUME Tree, [Next]_vars
  PROVE  [FailureHarmless]_vars
<1> SUFFICES ASSUME ~ok', Next
             PROVE  /\ data' = data /\ cwd' = cwd
                    /\ \/ nodes' = nodes /\ size' = size
                       \/ \E p \in Paths, text \in Texts :
                            /\ Creates(p) /\ Len(text) >= MaxData /\ WriteFile(p, text)
                            /\ size'[FreeSlot] = 0
  BY DEF FailureHarmless
<1> USE DEF Tree
<1>1. Fail => UNCHANGED <<data, cwd, nodes, size>>
  BY DEF Fail
<1>2. ASSUME NEW p \in Paths, NEW dir \in BOOLEAN, Make(p, dir)
      PROVE  UNCHANGED <<data, cwd, nodes, size>>
  <2>1. ~Creates(p)
    BY <1>2, CreatedTarget, PathAssumption DEF Make
  <2>2. QED
    BY <1>2, <2>1 DEF Make, AfterCreate, SizeAfterCreate
<1>3. ASSUME NEW p \in Paths, NEW text \in Texts, WriteFile(p, text)
      PROVE  /\ data' = data /\ cwd' = cwd
             /\ \/ nodes' = nodes /\ size' = size
                \/ Creates(p) /\ Len(text) >= MaxData /\ size'[FreeSlot] = 0
  <2>1. /\ ~(Target(p) # None /\ ~AfterCreate(p, FALSE)[Target(p)].dir /\ Fits(text))
        /\ data' = data /\ cwd' = cwd
        /\ nodes' = AfterCreate(p, FALSE) /\ size' = SizeAfterCreate(p)
    BY <1>3 DEF WriteFile
  <2>2. CASE Creates(p)
    <3>1. ~Fits(text)
      BY <2>1, <2>2, CreatedTarget, PathAssumption
    <3>2. text \in Seq(Bytes \ {0}) /\ Len(text) \in Nat
      BY TextAssumption
    <3>3. Len(text) >= MaxData
      BY <3>1, <3>2, SlotAssumption DEF Fits
    <3>4. FreeSlot \in Slots
      BY <2>2, CreatedTarget, PathAssumption
    <3>5. size'[FreeSlot] = 0
      BY <2>1, <2>2, <3>4 DEF SizeAfterCreate, TypeOK
    <3>6. QED
      BY <2>1, <2>2, <3>3, <3>5
  <2>3. CASE ~Creates(p)
    BY <2>1, <2>3 DEF AfterCreate, SizeAfterCreate
  <2>4. QED
    BY <2>2, <2>3
<1>4. ASSUME NEW p \in Paths, NEW q \in Paths, NEW t \in CopyTargets(p, q),
             BaseFits(q), IsFile(Resolve(p)), CopyTo(Resolve(p), t)
      PROVE  UNCHANGED <<data, cwd, nodes, size>>
  <2>1. /\ ~(Target(t) # None /\ ~AfterCreate(t, FALSE)[Target(t)].dir)
        /\ UNCHANGED <<data, cwd, size>> /\ nodes' = AfterCreate(t, FALSE)
    BY <1>4 DEF CopyTo
  <2>2. t \in PathStrings
    BY <1>4, CopyTargetFacts, PathAssumption
  <2>3. ~Creates(t)
    BY <2>1, <2>2, CreatedTarget
  <2>4. QED
    BY <2>1, <2>3 DEF AfterCreate
<1>5. ASSUME NEW p \in Paths, NEW q \in Paths, Copy(p, q)
      PROVE  UNCHANGED <<data, cwd, nodes, size>>
  <2>1. CASE Fail
    BY <1>1, <2>1
  <2>2. CASE IsFile(Resolve(p)) /\ \E t \in CopyTargets(p, q) : CopyTo(Resolve(p), t)
    BY <1>4, <1>5, <2>2 DEF Copy
  <2>3. QED
    BY <1>5, <2>1, <2>2 DEF Copy
<1>6. ASSUME NEW p \in Paths, NEW q \in Paths, Move(p, q)
      PROVE  Fail
  BY <1>6 DEF Move, MoveInto, MoveOnto
<1>7. ASSUME NEW p \in Paths, Delete(p)
      PROVE  UNCHANGED <<data, cwd, nodes, size>>
  BY <1>1, <1>7 DEF Delete
<1>8. ASSUME NEW p \in Paths, Chdir(p)
      PROVE  Fail
  BY <1>8 DEF Chdir
<1>9. ~Cwd
  BY DEF Cwd
<1>10. QED
  BY <1>1, <1>2, <1>3, <1>5, <1>6, <1>7, <1>8, <1>9 DEF Next

\* A call that reports failure has changed nothing but that an oversize write to a
\* missing file leaves an empty file behind.
THEOREM FailuresHarmless == Spec => FailuresChangeNothing
<1>1. Tree /\ [Next]_vars => [FailureHarmless]_vars
  BY StepFailureHarmless
<1>2. Spec => [][FailureHarmless]_vars
  BY <1>1, InitTree, NextTree, PTL DEF Spec
<1>3. QED
  BY <1>2 DEF FailuresChangeNothing, FailureHarmless

----------------------------------------------------------------------------
(* What is written and what is read.                                       *)

\* A text laid over a data array is what the array begins with.
LEMMA OverlayReads ==
  ASSUME NEW text \in Seq(Bytes), Len(text) < MaxData, NEW buf \in [1 .. MaxData -> Bytes]
  PROVE  SubSeq(Overlay(text, buf), 1, Len(text)) = text
<1>1. Len(text) \in Nat /\ MaxData \in Nat /\ Len(buf) = MaxData
  BY SlotAssumption
<1>2. /\ Overlay(text, buf) \in Seq(Bytes) /\ Len(Overlay(text, buf)) = MaxData
      /\ \A j \in 1 .. Len(text) : Overlay(text, buf)[j] = text[j]
  <2>1. Overlay(text, buf) \in [1 .. MaxData -> Bytes]
    BY OverlayFacts
  <2>2. \A j \in 1 .. Len(text) : Overlay(text, buf)[j] = text[j]
    BY <1>1 DEF Overlay
  <2>3. QED
    BY <1>1, <2>1, <2>2
<1> DEFINE o == Overlay(text, buf)
<1> HIDE DEF o
<1>3. /\ o \in Seq(Bytes) /\ Len(o) = MaxData
      /\ \A j \in 1 .. Len(text) : o[j] = text[j]
  BY <1>2 DEF o
<1>4. SubSeq(o, 1, Len(text)) = text
  BY <1>1, <1>3
<1>5. QED
  BY <1>4 DEF o

\* The content of a file is as long as its size says, and fits with its NUL.
LEMMA ContentLength ==
  ASSUME TypeOK, NEW i \in Slots
  PROVE  /\ Content(i) \in Seq(Bytes) /\ Len(Content(i)) = size[i] /\ size[i] < MaxData
         /\ size[i] = 0 => Content(i) = <<>>
<1>1. /\ data[i] \in [1 .. MaxData -> Bytes] /\ size[i] \in 0 .. MaxData - 1
      /\ MaxData \in Nat \ {0}
  BY SlotAssumption DEF TypeOK
<1>2. Content(i) \in Seq(Bytes)
  BY ContentFacts
<1>3. Len(Content(i)) = size[i] /\ size[i] < MaxData
  BY <1>1 DEF Content
<1>4. QED
  BY <1>2, <1>3

Before(i) == IF i \in Used THEN Content(i) ELSE <<>>

\* A slot whose bytes and size stay, or that is new and empty, has kept its content.
LEMMA ContentKept ==
  ASSUME Tree, NEW i \in Slots, data' = data,
         \/ i \in Used /\ size'[i] = size[i]
         \/ i \notin Used /\ size'[i] = 0
  PROVE  Content(i)' = Before(i)
<1>1. CASE i \in Used /\ size'[i] = size[i]
  BY <1>1 DEF Content, Before
<1>2. CASE i \notin Used /\ size'[i] = 0
  <2>1. Content(i)' = SubSeq(data[i], 1, 0)
    BY <1>2 DEF Content
  <2>2. data[i] \in [1 .. MaxData -> Bytes]
    BY DEF Tree, TypeOK
  <2>3. SubSeq(data[i], 1, 0) = <<>>
    BY <2>2
  <2>4. QED
    BY <1>2, <2>1, <2>3 DEF Before
<1>3. QED
  BY <1>1, <1>2

\* The size of a slot after create_node has looked at a path.
LEMMA SizeCreated ==
  ASSUME Tree, NEW p \in PathStrings, BaseFits(p), NEW dir \in BOOLEAN,
         NEW i \in DOMAIN AfterCreate(p, dir)
  PROVE  /\ i \in Slots
         /\ \/ i \in Used /\ SizeAfterCreate(p)[i] = size[i]
            \/ i \notin Used /\ i = FreeSlot /\ Creates(p) /\ SizeAfterCreate(p)[i] = 0
<1> USE DEF Tree
<1>1. i \in Slots
  BY AfterCreateFacts
<1>2. CASE Creates(p)
  <2>1. FreeSlot \in Slots \ Used /\ i \in Used \cup {FreeSlot}
    BY <1>2, CreatedTarget
  <2>2. SizeAfterCreate(p) = [size EXCEPT ![FreeSlot] = 0] /\ size \in [Slots -> 0 .. MaxData - 1]
    BY <1>2 DEF SizeAfterCreate, TypeOK
  <2>3. QED
    BY <1>1, <1>2, <2>1, <2>2
<1>3. CASE ~Creates(p)
  BY <1>1, <1>3 DEF SizeAfterCreate, AfterCreate, Used
<1>4. QED
  BY <1>2, <1>3

LEMMA MakeKeepsContent ==
  ASSUME Tree, NEW p \in PathStrings, NEW dir \in BOOLEAN, Make(p, dir), NEW i \in Used'
  PROVE  Content(i)' = Before(i)
<1>1. /\ nodes' = AfterCreate(p, dir) /\ size' = SizeAfterCreate(p) /\ data' = data
      /\ p \in PathStrings /\ BaseFits(p)
  BY DEF Make
<1>2. i \in DOMAIN AfterCreate(p, dir)
  BY <1>1 DEF Used
<1>3. QED
  BY <1>1, <1>2, SizeCreated, ContentKept

LEMMA WriteChangesTarget ==
  ASSUME Tree, NEW p \in PathStrings, NEW text \in Seq(Bytes \ {0}), WriteFile(p, text), NEW i \in Used'
  PROVE  Content(i)' = Before(i) \/ (Target(p) = i /\ Content(i)' = text)
<1> USE DEF Tree
<1>1. /\ p \in PathStrings /\ text \in Seq(Bytes) /\ Len(text) \in Nat /\ BaseFits(p)
  BY DEF WriteFile
<1> DEFINE d == Target(p)
           fits == d # None /\ ~AfterCreate(p, FALSE)[d].dir /\ Fits(text)
<1>2. /\ data' = IF fits THEN [data EXCEPT ![d] = Overlay(text, @)] ELSE data
      /\ size' = IF fits THEN [size EXCEPT ![d] = Len(text)] ELSE SizeAfterCreate(p)
      /\ nodes' = AfterCreate(p, FALSE)
  BY DEF WriteFile
<1>3. d \in DOMAIN AfterCreate(p, FALSE) \cup {None} /\ DOMAIN AfterCreate(p, FALSE) \subseteq Slots
  BY <1>1, TargetFacts, AfterCreateFacts
<1>4. /\ i \in DOMAIN AfterCreate(p, FALSE) /\ i \in Slots
      /\ \/ i \in Used /\ SizeAfterCreate(p)[i] = size[i]
         \/ i \notin Used /\ i = FreeSlot /\ Creates(p) /\ SizeAfterCreate(p)[i] = 0
  <2>1. i \in DOMAIN AfterCreate(p, FALSE)
    BY <1>2 DEF Used
  <2>2. QED
    BY <1>1, <2>1, SizeCreated
<1>5. CASE ~fits
  <2>1. data' = data /\ size' = SizeAfterCreate(p)
    BY <1>2, <1>5
  <2>2. QED
    BY <1>4, <2>1, ContentKept
<1>6. CASE fits /\ i = d
  <2>1. d \in Slots /\ Len(text) < MaxData
    BY <1>4, <1>6 DEF Fits
  <2>2. data'[d] = Overlay(text, data[d]) /\ size'[d] = Len(text) /\ data[d] \in [1 .. MaxData -> Bytes]
    BY <1>2, <1>6, <2>1 DEF TypeOK
  <2>3. Content(i)' = SubSeq(Overlay(text, data[d]), 1, Len(text))
    BY <1>6, <2>2 DEF Content
  <2>4. QED
    BY <1>1, <1>6, <2>1, <2>2, <2>3, OverlayReads
<1>7. CASE fits /\ i # d
  <2>1. i \in Used
    BY <1>1, <1>4, <1>7, CreatedTarget
  <2>2. d \in Slots
    BY <1>3, <1>7
  <2>3. data'[i] = data[i] /\ size'[i] = size[i]
    BY <1>2, <1>4, <1>7, <2>2 DEF TypeOK
  <2>4. QED
    BY <2>1, <2>3 DEF Content, Before
<1>8. QED
  BY <1>5, <1>6, <1>7

LEMMA CopyChangesTarget ==
  ASSUME Tree, NEW p \in PathStrings, NEW q \in PathStrings, NEW t \in CopyTargets(p, q), BaseFits(q),
         IsFile(Resolve(p)), CopyTo(Resolve(p), t), NEW i \in Used'
  PROVE  Content(i)' = Before(i) \/ (Target(t) = i /\ Content(i)' = Content(Resolve(p)))
<1> USE DEF Tree
<1> DEFINE s == Resolve(p)
           d == Target(t)
           fits == d # None /\ ~AfterCreate(t, FALSE)[d].dir
<1>1. s \in Used /\ s \in Slots /\ t \in PathStrings /\ BaseFits(t)
  BY CopyTargetFacts
<1>2. /\ data' = IF fits THEN [data EXCEPT ![d] = Overlay(Content(s), @)] ELSE data
      /\ size' = IF fits THEN [size EXCEPT ![d] = size[s]] ELSE size
      /\ nodes' = AfterCreate(t, FALSE)
  BY DEF CopyTo
<1>3. d \in DOMAIN AfterCreate(t, FALSE) \cup {None} /\ DOMAIN AfterCreate(t, FALSE) \subseteq Slots
  BY <1>1, TargetFacts, AfterCreateFacts
<1>4. Used' = DOMAIN AfterCreate(t, FALSE) /\ i \in Slots
  BY <1>2, <1>3 DEF Used
<1>5. i \in Used \/ (Creates(t) /\ i = d)
  <2>1. CASE Creates(t)
    BY <1>1, <1>4, <2>1, CreatedTarget
  <2>2. CASE ~Creates(t)
    BY <1>4, <2>2 DEF AfterCreate, Used
  <2>3. QED
    BY <2>1, <2>2
<1>6. CASE ~fits
  <2>1. i \in Used
    BY <1>1, <1>5, <1>6, CreatedTarget
  <2>2. QED
    BY <1>2, <1>6, <2>1 DEF Content, Before
<1>7. CASE fits /\ i = d
  <2>1. /\ Content(s) \in Seq(Bytes) /\ Len(Content(s)) = size[s] /\ size[s] < MaxData
    BY <1>1, ContentLength
  <2>2. /\ data'[d] = Overlay(Content(s), data[d]) /\ size'[d] = size[s]
        /\ data[d] \in [1 .. MaxData -> Bytes]
    BY <1>2, <1>4, <1>7 DEF TypeOK
  <2>3. Content(i)' = SubSeq(Overlay(Content(s), data[d]), 1, Len(Content(s)))
    BY <1>7, <2>1, <2>2 DEF Content
  <2>4. QED
    BY <1>7, <2>1, <2>2, <2>3, OverlayReads
<1>8. CASE fits /\ i # d
  <2>1. i \in Used /\ d \in Slots
    BY <1>3, <1>5, <1>8
  <2>2. data'[i] = data[i] /\ size'[i] = size[i]
    BY <1>2, <1>4, <1>8, <2>1 DEF TypeOK
  <2>3. QED
    BY <2>1, <2>2 DEF Content, Before
<1>9. QED
  BY <1>6, <1>7, <1>8

WritersOnly ==
  \A i \in Used' :
    ~nodes'[i].dir /\ Content(i)' # Before(i)
    => \/ \E p \in Paths, text \in Texts :
            WriteFile(p, text) /\ Target(p) = i /\ Content(i)' = text
       \/ \E p, q \in Paths :
            /\ Copy(p, q) /\ Content(i)' = Content(Resolve(p))
            /\ \E t \in CopyTargets(p, q) : Target(t) = i

LEMMA StepWritersOnly ==
  ASSUME Tree, Next
  PROVE  WritersOnly
<1> SUFFICES ASSUME NEW i \in Used', Content(i)' # Before(i)
             PROVE  \/ \E p \in Paths, text \in Texts :
                         WriteFile(p, text) /\ Target(p) = i /\ Content(i)' = text
                    \/ \E p, q \in Paths :
                         /\ Copy(p, q) /\ Content(i)' = Content(Resolve(p))
                         /\ \E t \in CopyTargets(p, q) : Target(t) = i
  BY DEF WritersOnly
<1>1. ASSUME UNCHANGED <<data, size>>, i \in Used
      PROVE  FALSE
  BY <1>1 DEF Content, Before
<1>2. ~Fail
  BY <1>1 DEF Fail, Used
<1>3. CASE \E p \in Paths, dir \in BOOLEAN : Make(p, dir)
  BY <1>3, MakeKeepsContent, PathAssumption
<1>4. CASE \E p \in Paths, text \in Texts : WriteFile(p, text)
  BY <1>4, WriteChangesTarget, PathAssumption, TextAssumption
<1>5. CASE \E p, q \in Paths : Copy(p, q)
  <2>1. PICK p \in Paths, q \in Paths : Copy(p, q)
    BY <1>5
  <2>2. PICK t \in CopyTargets(p, q) : CopyTo(Resolve(p), t) /\ IsFile(Resolve(p)) /\ BaseFits(q)
    <3>1. BaseFits(q) /\ IsFile(Resolve(p)) /\ \E t \in CopyTargets(p, q) : CopyTo(Resolve(p), t)
      BY <1>2, <2>1 DEF Copy
    <3>2. QED
      BY <3>1
  <2>3. Target(t) = i /\ Content(i)' = Content(Resolve(p))
    BY <2>2, CopyChangesTarget, PathAssumption
  <2>4. QED
    BY <2>1, <2>2, <2>3
<1>6. CASE \E p, q \in Paths : Move(p, q)
  <2>1. PICK p \in Paths, q \in Paths : Move(p, q)
    BY <1>6
  <2>2. UNCHANGED <<data, size>>
    BY <2>1 DEF Move, Fail, MoveInto, MoveOnto
  <2>3. Used' \subseteq Used
    BY <2>1 DEF Move, Fail, MoveInto, MoveOnto, Used
  <2>4. QED
    BY <1>1, <2>2, <2>3
<1>7. CASE \E p \in Paths : Delete(p)
  BY <1>1, <1>7 DEF Delete, Fail, Restrict, Used
<1>8. CASE \E p \in Paths : Chdir(p)
  BY <1>1, <1>2, <1>8 DEF Chdir, Used
<1>9. CASE Cwd
  BY <1>1, <1>9 DEF Cwd, Used
<1>10. QED
  BY <1>3, <1>4, <1>5, <1>6, <1>7, <1>8, <1>9 DEF Next

\* A file's content changes only by a write or a copy that ends at that file, and
\* becomes what that call was given; a slot that is taken again shows no old byte.
THEOREM OnlyWriters == Spec => OnlyWritersChangeContent
<1>1. Tree /\ [Next]_vars => [WritersOnly]_vars
  BY StepWritersOnly
<1>2. Spec => [][WritersOnly]_vars
  BY <1>1, InitTree, NextTree, PTL DEF Spec
<1>3. QED
  BY <1>2 DEF OnlyWritersChangeContent, WritersOnly, Before

----------------------------------------------------------------------------
(* What is written is found again.                                         *)

Start(p) == IF p.abs THEN Root ELSE cwd

WalkIs(start, toks) ==
  /\ Walk(start, toks)[0] = start
  /\ \A k \in 1 .. Len(toks) :
       Walk(start, toks)[k] = StepTo(Walk(start, toks)[k - 1], toks[k])

\* WalkEquation and ResolveUsed for the slots in use, in a form that speaks of the
\* next state as well.
WalksAre == \A start \in Used \cup {None}, toks \in Seq(Tokens) : WalkIs(start, toks)

LEMMA WalkUsed == Tree => WalksAre
<1> SUFFICES ASSUME Tree, NEW start \in Used \cup {None}, NEW toks \in Seq(Tokens)
             PROVE  WalkIs(start, toks)
  BY DEF WalksAre
<1>1. \A x \in Used \cup {None}, t \in Tokens : StepTo(x, t) \in Used \cup {None}
  BY StepUsed DEF Tree
<1>2. QED
  BY <1>1, WalkEquation DEF WalkIs

\* The next state has a slot for each slot, and its steps go from one to the other
\* as before, but for the slots in A.
Follows(f, A) ==
  /\ f \in [Used -> Used']
  /\ \A x \in Used \ A, t \in Tokens :
       StepTo(x, t) \notin A \cup {None} => StepTo(f[x], t)' = f[StepTo(x, t)]

\* A walk that ends somewhere meets no step that leads nowhere; in a next state that
\* follows, it goes the same way.
LEMMA WalkFollowed ==
  ASSUME Tree, Tree', NEW f, NEW A, Follows(f, A),
         NEW start \in Used, f[start] = start, NEW toks \in Seq(Tokens),
         \A k \in 0 .. Len(toks) : Walk(start, toks)[k] \notin A,
         Walk(start, toks)[Len(toks)] # None
  PROVE  (Walk(start, toks)[Len(toks)])' = f[Walk(start, toks)[Len(toks)]]
<1> DEFINE w == Walk(start, toks)
<1>1. /\ w[0] = start
      /\ \A k \in 1 .. Len(toks) : w[k] = StepTo(w[k - 1], toks[k])
  BY WalkUsed DEF WalksAre, WalkIs
<1>2. PICK v : v = w'
  OBVIOUS
<1>3. /\ v[0] = start
      /\ \A k \in 1 .. Len(toks) : \A x : x = v[k - 1] => v[k] = StepTo(x, toks[k])'
  <2>1. Tree' => WalksAre'
    BY WalkUsed, PTL
  <2>2. start \in Used'
    BY DEF Follows
  <2>3. WalkIs(start, toks)'
    BY <2>1, <2>2 DEF WalksAre
  <2>4. QED
    BY <1>2, <2>3 DEF WalkIs
<1>4. Len(toks) \in Nat /\ \A k \in 1 .. Len(toks) : toks[k] \in Tokens
  OBVIOUS
<1>5. \A k \in 0 .. Len(toks) : w[k] \in Used \cup {None}
  <2> DEFINE S == {m \in Nat : m <= Len(toks) => w[m] \in Used \cup {None}}
  <2> HIDE DEF w
  <2>1. 0 \in S
    BY <1>1
  <2>2. ASSUME NEW m \in S PROVE m + 1 \in S
    <3>1. SUFFICES ASSUME m + 1 <= Len(toks) PROVE w[m + 1] \in Used \cup {None}
      OBVIOUS
    <3>2. w[m + 1] = StepTo(w[m], toks[m + 1]) /\ w[m] \in Used \cup {None} /\ toks[m + 1] \in Tokens
      <4>1. m + 1 \in 1 .. Len(toks) /\ m + 1 - 1 = m /\ m <= Len(toks)
        BY <1>4, <3>1
      <4>2. QED
        BY <1>1, <1>4, <4>1
    <3>3. QED
      BY <3>2, StepUsed DEF Tree
  <2>3. S = Nat
    BY <2>1, <2>2, SetInduction
  <2>4. QED
    BY <1>4, <2>3
<1>6. \A k \in 0 .. Len(toks) : w[k] \notin A
  OBVIOUS
<1> HIDE DEF w
<1> DEFINE S == {m \in Nat : m <= Len(toks) /\ w[m] # None => v[m] = f[w[m]]}
<1>7. 0 \in S
  BY <1>1, <1>3
<1>8. ASSUME NEW m \in S PROVE m + 1 \in S
  <2>1. SUFFICES ASSUME m + 1 <= Len(toks), w[m + 1] # None PROVE v[m + 1] = f[w[m + 1]]
    OBVIOUS
  <2>2. m + 1 \in 1 .. Len(toks) /\ m + 1 - 1 = m /\ m \in 0 .. Len(toks) /\ m + 1 \in 0 .. Len(toks)
    BY <1>4, <2>1
  <2>3. w[m + 1] = StepTo(w[m], toks[m + 1]) /\ toks[m + 1] \in Tokens
    BY <1>1, <1>4, <2>2
  <2>4. w[m] # None
    BY <2>1, <2>3 DEF StepTo
  <2>5. w[m] \in Used \ A /\ v[m] = f[w[m]] /\ w[m + 1] \notin A
    BY <1>5, <1>6, <2>1, <2>2, <2>4
  <2>6. PICK x, y : x \in Used \ A /\ x = w[m] /\ y = f[x]
    BY <2>5
  <2>7. v[m + 1] = StepTo(y, toks[m + 1])'
    BY <1>3, <2>2, <2>5, <2>6
  <2>8. StepTo(f[x], toks[m + 1])' = f[StepTo(x, toks[m + 1])]
    BY <2>1, <2>3, <2>5, <2>6 DEF Follows
  <2>9. QED
    BY <2>3, <2>6, <2>7, <2>8
<1>9. S = Nat
  BY <1>7, <1>8, SetInduction
<1>10. v[Len(toks)] = f[w[Len(toks)]]
  <2>1. w[Len(toks)] # None
    BY DEF w
  <2>2. QED
    BY <1>4, <1>9, <2>1
<1>11. QED
  BY <1>2, <1>10 DEF w

\* If the next state takes the steps that lead somewhere to the same slots, its walk
\* is the same.
LEMMA WalkKept ==
  ASSUME Tree, Tree', Used \subseteq Used',
         NEW start \in Used, NEW toks \in Seq(Tokens),
         \A x \in Used, t \in Tokens : StepTo(x, t) # None => StepTo(x, t)' = StepTo(x, t),
         Walk(start, toks)[Len(toks)] # None
  PROVE  (Walk(start, toks)[Len(toks)])' = Walk(start, toks)[Len(toks)]
<1>1. PICK f, none : f = [x \in Used |-> x] /\ none = {}
  OBVIOUS
<1>2. f \in [Used -> Used'] /\ f[start] = start
  BY <1>1
<1>3. ASSUME NEW x \in Used \ none, NEW t \in Tokens, StepTo(x, t) \notin none \cup {None}
      PROVE  StepTo(f[x], t)' = f[StepTo(x, t)]
  <2>1. StepTo(x, t) \in Used /\ f[x] = x /\ StepTo(x, t)' = StepTo(x, t)
    BY <1>1, <1>3, StepUsed DEF Tree
  <2>2. f[StepTo(x, t)] = StepTo(x, t)
    BY <1>1, <2>1
  <2>3. StepTo(f[x], t)' = StepTo(x, t)'
    BY <2>1
  <2>4. QED
    BY <2>1, <2>2, <2>3
<1>4. Follows(f, none)
  BY <1>2, <1>3, Zenon DEF Follows
<1>5. \A k \in 0 .. Len(toks) : Walk(start, toks)[k] \notin none
  BY <1>1
<1>6. (Walk(start, toks)[Len(toks)])' = f[Walk(start, toks)[Len(toks)]]
  BY <1>2, <1>4, <1>5, WalkFollowed
<1>7. Walk(start, toks)[Len(toks)] \in Used
  <2>1. \A x \in Used \cup {None}, t \in Tokens : StepTo(x, t) \in Used \cup {None}
    BY StepUsed DEF Tree
  <2>2. QED
    BY <2>1, WalkStays
<1>8. QED
  BY <1>1, <1>6, <1>7

\* ResolveLast in a form that speaks of the next state as well.
LastSteps ==
  \A p \in PathStrings :
    HasBase(p) => Resolve(p) = StepTo(Resolve(ParentPath(p)), BaseOf(p))

LEMMA LastStepTaken == Tree => LastSteps
BY ResolveLast DEF Tree, LastSteps

\* The entry that create_node makes has a name its directory did not have.
LEMMA CreatedEntry ==
  ASSUME Tree, NEW p \in PathStrings, BaseFits(p), Creates(p), NEW dir \in BOOLEAN,
         nodes' = AfterCreate(p, dir)
  PROVE  \E d, new, base :
           /\ d = Resolve(ParentPath(p)) /\ new = FreeSlot /\ base = BaseOf(p)
           /\ HasBase(p) /\ d \in Used /\ d # None /\ base \in Names /\ base \in Tokens
           /\ Used' = Used \cup {new} /\ new \in Slots \ Used /\ new # None
           /\ nodes'[new].name = base /\ nodes'[new].parent = d
           /\ \A j \in Used : nodes'[j] = nodes[j]
           /\ \A j \in Children(d) : nodes[j].name # base
<1> USE DEF Tree
<1>1. PICK d, new, base : d = Resolve(ParentPath(p)) /\ new = FreeSlot /\ base = BaseOf(p)
  OBVIOUS
<1>2. /\ HasBase(p) /\ d \in Used /\ nodes[d].dir /\ d # None /\ base \in Names /\ base \in Tokens
      /\ Resolve(p) = None /\ StepTo(d, base) = None
  <2>1. HasBase(p) /\ IsDir(d) /\ Resolve(p) = None
    BY <1>1 DEF Creates
  <2>2. base \in Names /\ base \in Tokens
    BY <1>1, <2>1, BaseIsName DEF IsDir, Tokens
  <2>3. d \in Used /\ StepTo(d, base) = None
    BY <1>1, <2>1, ResolveLast, ResolveUsed DEF IsDir
  <2>4. QED
    BY <2>1, <2>2, <2>3 DEF IsDir
<1>3. /\ Used' = Used \cup {new} /\ new \in Slots \ Used /\ new # None
      /\ nodes'[new].name = base /\ nodes'[new].parent = d
      /\ \A j \in Used : nodes'[j] = nodes[j]
  <2>1. /\ new \in Slots \ Used /\ Used' = Used \cup {new}
        /\ nodes'[new] = [dir |-> dir, name |-> base, parent |-> d]
    BY <1>1, CreatedTarget DEF Used
  <2>2. new # None
    BY <2>1, SlotsAreNats
  <2>3. \A j \in Used : nodes'[j] = nodes[j]
    BY <1>1, <2>1 DEF AfterCreate
  <2>4. QED
    BY <2>1, <2>2, <2>3
<1>4. {Dot, DotDot, TooLong} \cap Names = {}
  BY NameAssumption
<1>5. Used \subseteq Nat
  BY SlotsAreNats DEF TypeOK
<1>6. \A j \in Children(d) : nodes[j].name # base
  <2>1. ChildOf(d, base) = None
    BY <1>2, <1>4 DEF StepTo
  <2>2. SUFFICES ASSUME {j \in Children(d) : nodes[j].name = base} # {} PROVE FALSE
    OBVIOUS
  <2> DEFINE found == {j \in Children(d) : nodes[j].name = base}
  <2>3. found \in SUBSET Nat /\ found # {}
    BY <1>5, <2>2 DEF Children
  <2>4. ChildOf(d, base) = Min(found)
    BY <2>2 DEF ChildOf
  <2> HIDE DEF found
  <2>5. Min(found) \in Nat
    BY <2>3, MinIsLeast
  <2>6. QED
    BY <2>1, <2>4, <2>5 DEF None
<1>7. QED
  BY <1>1, <1>2, <1>3, <1>6

\* The entry that create_node makes is the one its path leads to.
LEMMA CreatedIsFound ==
  ASSUME Tree, Tree', NEW p \in PathStrings, BaseFits(p), Creates(p), NEW dir \in BOOLEAN,
         nodes' = AfterCreate(p, dir), cwd' = cwd
  PROVE  Resolve(p)' = FreeSlot
<1> USE DEF Tree
<1>1. PICK d, new, base :
        /\ d = Resolve(ParentPath(p)) /\ new = FreeSlot /\ base = BaseOf(p)
        /\ HasBase(p) /\ d \in Used /\ d # None /\ base \in Names /\ base \in Tokens
        /\ Used' = Used \cup {new} /\ new \in Slots \ Used /\ new # None
        /\ nodes'[new].name = base /\ nodes'[new].parent = d
        /\ \A j \in Used : nodes'[j] = nodes[j]
        /\ \A j \in Children(d) : nodes[j].name # base
  BY CreatedEntry
<1>2. PICK front :
        /\ front \in Seq(Tokens)
        /\ ParentPath(p).toks = front /\ ParentPath(p).abs = p.abs
  <2>1. HasBase(p) /\ p.toks \in Seq(Tokens) /\ p.toks # <<>>
    BY DEF Creates, HasBase, PathStrings
  <2>2. ParentPath(p).toks = SubSeq(p.toks, 1, Len(p.toks) - 1) /\ ParentPath(p).abs = p.abs
    BY <2>1 DEF ParentPath, PathStrings
  <2>3. SubSeq(p.toks, 1, Len(p.toks) - 1) \in Seq(Tokens)
    BY <2>1
  <2>4. QED
    BY <2>2, <2>3
<1>4. {Dot, DotDot, TooLong} \cap Names = {}
  BY NameAssumption
<1>7. ASSUME NEW x \in Used, NEW t \in Tokens, StepTo(x, t) # None
      PROVE  StepTo(x, t)' = StepTo(x, t)
  <2>1. CASE t \in {Dot, DotDot, TooLong}
    <3>1. ParentOf(x)' = ParentOf(x)
      BY <1>1 DEF ParentOf
    <3>2. QED
      BY <1>7, <2>1, <3>1 DEF StepTo
  <2>2. CASE t \notin {Dot, DotDot, TooLong}
    <3>1. ChildOf(x, t) # None /\ StepTo(x, t) = ChildOf(x, t) /\ StepTo(x, t)' = ChildOf(x, t)'
      BY <1>7, <2>2 DEF StepTo
    <3>2. PICK y \in Children(x) : nodes[y].name = t
      BY <3>1 DEF ChildOf
    <3>3. ~(x = d /\ t = base)
      BY <1>1, <3>2
    <3>4. {j \in Children(x)' : nodes'[j].name = t} = {j \in Children(x) : nodes[j].name = t}
      BY <1>1, <3>3 DEF Children
    <3>5. ChildOf(x, t)' = ChildOf(x, t)
      BY <3>4 DEF ChildOf
    <3>6. QED
      BY <3>1, <3>5
  <2>3. QED
    BY <2>1, <2>2
<1>8. PICK start : start = Start(p)
  OBVIOUS
<1>9. start \in Used /\ start \in Used' /\ start = Start(p)'
  BY <1>1, <1>8 DEF Start, TreeShape
<1>10. Walk(start, front)[Len(front)] = d
  BY <1>1, <1>2, <1>8 DEF Resolve, Start
<1>11. (Walk(start, front)[Len(front)])' = d
  <2>1. (Walk(start, front)[Len(front)])' = Walk(start, front)[Len(front)]
    <3>1. /\ start \in Used /\ Used \subseteq Used' /\ front \in Seq(Tokens)
          /\ Walk(start, front)[Len(front)] # None
      BY <1>1, <1>2, <1>9, <1>10
    <3>2. \A x \in Used, t \in Tokens : StepTo(x, t) # None => StepTo(x, t)' = StepTo(x, t)
      BY <1>7
    <3>3. QED
      BY <3>1, <3>2, WalkKept
  <2>2. QED
    BY <1>10, <2>1
<1>12. Resolve(ParentPath(p))' = d
  BY <1>1, <1>2, <1>8, <1>9, <1>11 DEF Resolve, Start
<1>13. Resolve(p)' = StepTo(d, base)'
  <2>1. Tree' => LastSteps'
    BY LastStepTaken, PTL
  <2>2. Resolve(p)' = StepTo(Resolve(ParentPath(p)), BaseOf(p))'
    BY <1>1, <2>1 DEF LastSteps
  <2>3. QED
    BY <1>1, <1>12, <2>2
<1>14. StepTo(d, base)' = ChildOf(d, base)'
  BY <1>1, <1>4 DEF StepTo
<1>15. {j \in Children(d)' : nodes'[j].name = base} = {new}
  BY <1>1 DEF Children
<1>16. ChildOf(d, base)' = new
  <2>1. ChildOf(d, base)' = Min({new})
    BY <1>15 DEF ChildOf
  <2>2. new \in Nat
    BY <1>1, SlotsAreNats
  <2>3. QED
    BY <2>1, <2>2, MinIsLeast
<1>17. QED
  BY <1>1, <1>13, <1>14, <1>16

\* A path that leads somewhere leads there again when no node has changed.
LEMMA ResolvedAsBefore ==
  ASSUME Tree, Tree', NEW p \in PathStrings, nodes' = nodes, cwd' = cwd, Resolve(p) # None
  PROVE  Resolve(p)' = Resolve(p)
<1>1. PICK start, toks : start = Start(p) /\ toks = p.toks /\ toks \in Seq(Tokens)
  BY DEF PathStrings
<1>2. start \in Used /\ start \in Used' /\ start = Start(p)'
  BY <1>1 DEF Start, Tree, TreeShape
<1>3. \A x \in Used, t \in Tokens : StepTo(x, t) # None => StepTo(x, t)' = StepTo(x, t)
  BY DEF StepTo, ChildOf, ParentOf, Children, Used
<1>4. Walk(start, toks)[Len(toks)] = Resolve(p)
  BY <1>1 DEF Resolve, Start
<1>5. (Walk(start, toks)[Len(toks)])' = Walk(start, toks)[Len(toks)]
  <2>1. /\ start \in Used /\ Used \subseteq Used' /\ toks \in Seq(Tokens)
        /\ Walk(start, toks)[Len(toks)] # None
    BY <1>1, <1>2, <1>4 DEF Used
  <2>2. QED
    BY <1>3, <2>1, WalkKept
<1>6. QED
  BY <1>1, <1>2, <1>4, <1>5 DEF Resolve, Start

\* A write that succeeds has left its file where its path leads to.
LEMMA WrittenIsFound ==
  ASSUME Tree, Tree', NEW p \in PathStrings, NEW text \in Seq(Bytes \ {0}), WriteFile(p, text), ok'
  PROVE  /\ Resolve(p)' = Target(p) /\ Target(p) \in Slots /\ Target(p) # None
         /\ ~nodes'[Target(p)].dir /\ Len(text) < MaxData
         /\ data' = [data EXCEPT ![Target(p)] = Overlay(text, @)]
         /\ size' = [size EXCEPT ![Target(p)] = Len(text)]
<1> USE DEF Tree
<1>1. /\ p \in PathStrings /\ BaseFits(p)
  BY DEF WriteFile
<1> DEFINE d == Target(p)
<1>2. /\ d # None /\ ~AfterCreate(p, FALSE)[d].dir /\ Fits(text)
      /\ data' = [data EXCEPT ![d] = Overlay(text, @)]
      /\ size' = [size EXCEPT ![d] = Len(text)]
      /\ nodes' = AfterCreate(p, FALSE) /\ cwd' = cwd
  BY DEF WriteFile
<1>3. d \in Slots
  BY <1>1, <1>2, TargetFacts, AfterCreateFacts
<1>4. CASE Creates(p)
  <2>1. Resolve(p)' = FreeSlot
    BY <1>1, <1>2, <1>4, CreatedIsFound
  <2>2. QED
    BY <1>1, <1>2, <1>3, <1>4, <2>1, CreatedTarget DEF Fits
<1>5. CASE ~Creates(p)
  <2>1. Resolve(p) # None /\ d = Resolve(p)
    BY <1>2, <1>5 DEF Target, CreateIdx
  <2>2. nodes' = nodes /\ cwd' = cwd
    BY <1>2, <1>5 DEF AfterCreate
  <2>8. Resolve(p)' = Resolve(p)
    BY <2>1, <2>2, ResolvedAsBefore
  <2>9. QED
    BY <1>2, <1>3, <2>1, <2>8 DEF Fits
<1>6. QED
  BY <1>4, <1>5

WrittenIsRead ==
  ok' => \A p \in Paths, text \in Texts :
           WriteFile(p, text) => /\ IsFile(Resolve(p))'
                                 /\ ReadFile(p, MaxData + 1)' = text

LEMMA StepWrittenIsRead ==
  ASSUME Tree, Tree'
  PROVE  WrittenIsRead
<1> SUFFICES ASSUME ok', NEW p \in Paths, NEW text \in Texts, WriteFile(p, text)
             PROVE  IsFile(Resolve(p))' /\ ReadFile(p, MaxData + 1)' = text
  BY DEF WrittenIsRead
<1>1. PICK d : /\ d = Target(p) /\ d = Resolve(p)' /\ d \in Slots /\ d # None
               /\ ~nodes'[d].dir /\ Len(text) < MaxData
               /\ data' = [data EXCEPT ![d] = Overlay(text, @)]
               /\ size' = [size EXCEPT ![d] = Len(text)]
  BY WrittenIsFound, PathAssumption, TextAssumption
<1>2. /\ data[d] \in [1 .. MaxData -> Bytes]
      /\ data'[d] = Overlay(text, data[d]) /\ size'[d] = Len(text)
      /\ text \in Seq(Bytes) /\ Len(text) \in Nat /\ MaxData \in Nat
  BY <1>1, TextAssumption, SlotAssumption DEF Tree, TypeOK
<1>3. IsFile(Resolve(p))'
  BY <1>1 DEF IsFile
<1>4. Min({Len(text), MaxData + 1 - 1}) = Len(text)
  <2>1. {Len(text), MaxData + 1 - 1} \in SUBSET Nat
    BY <1>2
  <2>2. /\ Min({Len(text), MaxData + 1 - 1}) \in {Len(text), MaxData + 1 - 1}
        /\ Min({Len(text), MaxData + 1 - 1}) <= Len(text)
    BY <2>1, MinIsLeast
  <2>3. QED
    BY <1>1, <1>2, <2>2
<1>5. ReadFile(p, MaxData + 1)' = SubSeq(Overlay(text, data[d]), 1, Len(text))
  <2>1. \A n : ReadFile(p, n)' = SubSeq(data'[d], 1, Min({size'[d], n - 1}))
    BY <1>1 DEF ReadFile
  <2>2. QED
    BY <1>2, <1>4, <2>1
<1>6. QED
  BY <1>1, <1>2, <1>3, <1>5, OverlayReads

\* What a successful write stored is what the same path reads back, whole.
THEOREM WritesReadBack == Spec => ReadBack
<1>1. Tree /\ Tree' => WrittenIsRead
  BY StepWrittenIsRead
<1>2. Spec => [][WrittenIsRead]_vars
  BY <1>1, InitTree, NextTree, PTL DEF Spec
<1>3. QED
  BY <1>2 DEF ReadBack, WrittenIsRead

----------------------------------------------------------------------------
(* Names.                                                                  *)

NamesDistinctStep ==
  SiblingsDistinct /\ ~SiblingsDistinct' =>
    \E s \in Used, d \in Used :
      /\ nodes[d].dir /\ nodes'[s].parent = d /\ nodes[s].parent # d
      /\ nodes'[s].name = nodes[s].name
      /\ ChildOf(d, nodes[s].name) # None

\* create_node makes no second entry of a name.
LEMMA CreationKeepsNames ==
  ASSUME Tree, SiblingsDistinct, NEW p \in PathStrings, BaseFits(p), NEW dir \in BOOLEAN,
         nodes' = AfterCreate(p, dir)
  PROVE  SiblingsDistinct'
<1>1. CASE ~Creates(p)
  <2>1. nodes' = nodes
    BY <1>1 DEF AfterCreate
  <2>2. QED
    BY <2>1 DEF SiblingsDistinct, Used
<1>2. CASE Creates(p)
  <2>1. PICK d, new, base :
          /\ Used' = Used \cup {new} /\ new \in Slots \ Used
          /\ nodes'[new].name = base /\ nodes'[new].parent = d
          /\ \A j \in Used : nodes'[j] = nodes[j]
          /\ \A j \in Children(d) : nodes[j].name # base
    BY <1>2, CreatedEntry
  <2>2. QED
    BY <2>1 DEF SiblingsDistinct, Children
<1>3. QED
  BY <1>1, <1>2

\* Fewer entries, all as they were.
LEMMA RemovalKeepsNames ==
  ASSUME SiblingsDistinct, Used' \subseteq Used, \A j \in Used' : nodes'[j] = nodes[j]
  PROVE  SiblingsDistinct'
BY DEF SiblingsDistinct

\* ChildOf finds what there is.
LEMMA ChildFound ==
  ASSUME Tree, NEW i, NEW j \in Children(i)
  PROVE  /\ ChildOf(i, nodes[j].name) \in Children(i)
         /\ nodes[ChildOf(i, nodes[j].name)].name = nodes[j].name
         /\ ChildOf(i, nodes[j].name) # None
<1> DEFINE found == {k \in Children(i) : nodes[k].name = nodes[j].name}
<1>1. found \in SUBSET Nat /\ found # {}
  BY SlotsAreNats DEF Tree, TypeOK, Children
<1>2. ChildOf(i, nodes[j].name) = Min(found)
  BY <1>1 DEF ChildOf
<1>3. Min(found) \in found /\ Min(found) # None
  <2> HIDE DEF found
  <2>. QED BY <1>1, MinIsLeast DEF None
<1>4. QED
  BY <1>2, <1>3

LEMMA MoveIntoNames ==
  ASSUME Tree, SiblingsDistinct, ~SiblingsDistinct',
         NEW s \in Used, NEW d \in Used, nodes[d].dir, MoveInto(s, d)
  PROVE  /\ nodes'[s].parent = d /\ nodes[s].parent # d
         /\ nodes'[s].name = nodes[s].name
         /\ ChildOf(d, nodes[s].name) # None
<1>1. /\ Used' = Used
      /\ nodes'[s].parent = d /\ nodes'[s].name = nodes[s].name
      /\ \A j \in Used : j # s => nodes'[j] = nodes[j]
  BY DEF MoveInto, Tree, TypeOK, Used, Node
<1>2. PICK i \in Used, j \in Used : /\ i # j /\ nodes'[i].parent = nodes'[j].parent
                                    /\ nodes'[i].name = nodes'[j].name
  BY <1>1 DEF SiblingsDistinct
<1>3. i = s \/ j = s
  BY <1>1, <1>2 DEF SiblingsDistinct
<1>4. PICK k \in Used : k # s /\ nodes[k].parent = d /\ nodes[k].name = nodes[s].name
  <2>1. CASE i = s
    BY <1>1, <1>2, <2>1
  <2>2. CASE j = s
    BY <1>1, <1>2, <2>2
  <2>3. QED
    BY <1>3, <2>1, <2>2
<1>5. nodes[s].parent # d
  BY <1>4 DEF SiblingsDistinct
<1>6. k \in Children(d)
  BY <1>4 DEF Children
<1>7. QED
  BY <1>1, <1>4, <1>5, <1>6, ChildFound

\* fs_move under a new name frees the entry that had it.
LEMMA MoveOntoNames ==
  ASSUME Tree, SiblingsDistinct, NEW p \in Paths, NEW q \in Paths, BaseFits(q),
         Resolve(p) \notin {None, Root}, ~IsDir(Resolve(q)), HasBase(q),
         IsDir(Resolve(ParentPath(q))),
         MoveOnto(Resolve(p), Resolve(q), Resolve(ParentPath(q)), BaseOf(q))
  PROVE  SiblingsDistinct'
<1> USE DEF Tree
<1>1. PICK s, d, parent, name : /\ s = Resolve(p) /\ d = Resolve(q)
                                /\ parent = Resolve(ParentPath(q)) /\ name = BaseOf(q)
  OBVIOUS
<1>2. s \in Used /\ parent \in Used /\ parent # None /\ name \in Names /\ q \in PathStrings
  <2>1. p \in PathStrings /\ q \in PathStrings
    BY PathAssumption
  <2>2. s \in Used
    BY <1>1, <2>1, ResolveUsed
  <2>3. parent \in Used /\ parent # None
    BY <1>1, <2>1, ResolveLast, ResolveUsed DEF IsDir
  <2>4. name \in Names
    BY <1>1, <2>1, BaseIsName
  <2>5. QED
    BY <2>1, <2>2, <2>3, <2>4
<1>3. /\ Used' = Used \ {d}
      /\ s \in Used' => nodes'[s].parent = parent /\ nodes'[s].name = name
      /\ \A j \in Used' : j # s => nodes'[j] = nodes[j]
  <2>1. nodes' = [j \in Used \ {d} |->
                    IF j = s THEN [nodes[s] EXCEPT !.parent = parent, !.name = name] ELSE nodes[j]]
    BY <1>1 DEF MoveOnto
  <2>2. nodes[s] \in Node
    BY <1>2 DEF TypeOK
  <2>3. QED
    BY <1>2, <2>1, <2>2 DEF Used, Node
<1>4. d = ChildOf(parent, name)
  <2>1. d = StepTo(parent, name)
    BY <1>1, <1>2, ResolveLast
  <2>2. name \notin {Dot, DotDot, TooLong}
    BY <1>2, NameAssumption
  <2>3. QED
    BY <1>2, <2>1, <2>2 DEF StepTo
<1>5. ASSUME NEW j \in Used', j # s, nodes[j].parent = parent
      PROVE  nodes[j].name # name
  <2>1. j \in Children(parent) /\ j \in Used /\ j # d
    BY <1>3, <1>5 DEF Children
  <2>2. SUFFICES ASSUME nodes[j].name = name PROVE FALSE
    OBVIOUS
  <2>3. d \in Children(parent) /\ nodes[d].name = name
    BY <1>4, <2>1, <2>2, ChildFound
  <2>4. QED
    BY <2>1, <2>2, <2>3 DEF SiblingsDistinct, Children
<1>6. QED
  BY <1>3, <1>5 DEF SiblingsDistinct

LEMMA StepNamesDistinct ==
  ASSUME Tree, Next
  PROVE  NamesDistinctStep
<1> USE DEF Tree
<1> SUFFICES ASSUME SiblingsDistinct, ~SiblingsDistinct'
             PROVE  \E s \in Used, d \in Used :
                      /\ nodes[d].dir /\ nodes'[s].parent = d /\ nodes[s].parent # d
                      /\ nodes'[s].name = nodes[s].name
                      /\ ChildOf(d, nodes[s].name) # None
  BY DEF NamesDistinctStep
<1>1. nodes' # nodes
  BY DEF SiblingsDistinct, Used
<1>2. ~Fail
  BY <1>1 DEF Fail
<1>3. ASSUME NEW p \in Paths, NEW dir \in BOOLEAN
      PROVE  ~Make(p, dir)
  BY CreationKeepsNames, PathAssumption DEF Make
<1>4. ASSUME NEW p \in Paths, NEW text \in Texts
      PROVE  ~WriteFile(p, text)
  BY CreationKeepsNames, PathAssumption DEF WriteFile
<1>5. ASSUME NEW p \in Paths, NEW q \in Paths
      PROVE  ~Copy(p, q)
  <2> SUFFICES ASSUME Copy(p, q) PROVE FALSE
    OBVIOUS
  <2>1. BaseFits(q) /\ IsFile(Resolve(p)) /\ \E t \in CopyTargets(p, q) : CopyTo(Resolve(p), t)
    BY <1>2 DEF Copy
  <2>2. PICK t \in CopyTargets(p, q) : CopyTo(Resolve(p), t)
    BY <2>1
  <2>3. t \in PathStrings /\ BaseFits(t)
    BY <2>1, CopyTargetFacts, PathAssumption
  <2>4. QED
    BY <2>2, <2>3, CreationKeepsNames DEF CopyTo
<1>6. ASSUME NEW p \in Paths, Delete(p)
      PROVE  FALSE
  <2>1. Used' \subseteq Used /\ \A j \in Used' : nodes'[j] = nodes[j]
    BY <1>1, <1>2, <1>6 DEF Delete, Restrict, Used
  <2>2. QED
    BY <2>1, RemovalKeepsNames
<1>7. ASSUME NEW p \in Paths, NEW q \in Paths, Move(p, q)
      PROVE  \E s \in Used, d \in Used :
               /\ nodes[d].dir /\ nodes'[s].parent = d /\ nodes[s].parent # d
               /\ nodes'[s].name = nodes[s].name
               /\ ChildOf(d, nodes[s].name) # None
  <2>1. ~( /\ Resolve(p) \notin {None, Root} /\ ~IsDir(Resolve(q))
           /\ HasBase(q) /\ IsDir(Resolve(ParentPath(q)))
           /\ MoveOnto(Resolve(p), Resolve(q), Resolve(ParentPath(q)), BaseOf(q)) )
    BY <1>7, MoveOntoNames DEF Move
  <2>2. Resolve(p) \notin {None, Root} /\ IsDir(Resolve(q)) /\ MoveInto(Resolve(p), Resolve(q))
    BY <1>2, <1>7, <2>1 DEF Move
  <2>3. Resolve(p) \in Used /\ Resolve(q) \in Used /\ nodes[Resolve(q)].dir
    BY <2>2, ResolveUsed, PathAssumption DEF IsDir
  <2>4. QED
    BY <2>2, <2>3, MoveIntoNames
<1>8. ASSUME NEW p \in Paths
      PROVE  ~Chdir(p)
  BY <1>1, <1>2 DEF Chdir
<1>9. ~Cwd
  BY <1>1 DEF Cwd
<1>10. QED
  BY <1>3, <1>4, <1>5, <1>6, <1>7, <1>8, <1>9 DEF Next

\* Two entries of one directory get the same name only by a move into a directory
\* that has an entry of that name.
THEOREM NamesDistinct == Spec => NamesStayDistinct
<1>1. Tree /\ [Next]_vars => [NamesDistinctStep]_vars
  BY StepNamesDistinct
<1>2. Spec => [][NamesDistinctStep]_vars
  BY <1>1, InitTree, NextTree, PTL DEF Spec
<1>3. QED
  BY <1>2 DEF NamesStayDistinct, NamesDistinctStep

----------------------------------------------------------------------------
(* Where loops come from.                                                  *)

LoopStep ==
  nodes' # nodes /\ Connected = Used /\ Connected' # Used' =>
    \E i \in Used \cap Used' :
      nodes'[i].parent # nodes[i].parent /\ nodes'[i].parent \in Subtree(i)

\* Every node hangs off the root when no smaller set is closed under children.
LEMMA AllConnected ==
  ASSUME Root \in Used, \A S \in SUBSET Used : Root \in S /\ Closed(S) => S = Used
  PROVE  Connected = Used
BY DEF Connected, Subtree, Closed

LEMMA AllConnectedNext ==
  ASSUME Root \in Used',
         \A S \in SUBSET Used' : Root \in S /\ (\A k \in S : Children(k)' \subseteq S) => S = Used'
  PROVE  Connected' = Used'
BY DEF Connected, Subtree

LEMMA ClosedIsAll ==
  ASSUME Tree, Connected = Used, NEW S \in SUBSET Used, Root \in S, Closed(S)
  PROVE  S = Used
<1>1. Root \in Used
  BY DEF Tree, TreeShape
<1>2. Subtree(Root) \subseteq S
  BY <1>1, SubtreeLeast
<1>3. QED
  BY <1>2 DEF Connected

LEMMA CreationKeepsTree ==
  ASSUME Tree, Tree', Connected = Used, NEW p \in PathStrings, BaseFits(p), NEW dir \in BOOLEAN,
         nodes' = AfterCreate(p, dir), nodes' # nodes
  PROVE  Connected' = Used'
<1>1. Creates(p)
  BY DEF AfterCreate
<1>2. PICK d, new :
        /\ d \in Used
        /\ Used' = Used \cup {new} /\ new \in Slots \ Used /\ nodes'[new].parent = d
        /\ \A j \in Used : nodes'[j] = nodes[j]
  <2>1. PICK d, new, base :
          /\ d \in Used /\ base \in Names
          /\ Used' = Used \cup {new} /\ new \in Slots \ Used /\ nodes'[new].parent = d
          /\ \A j \in Used : nodes'[j] = nodes[j]
    BY <1>1, CreatedEntry
  <2>2. QED
    BY <2>1
<1>3. ASSUME NEW S \in SUBSET Used', Root \in S, \A k \in S : Children(k)' \subseteq S
      PROVE  S = Used'
  <2> DEFINE T == S \cap Used
  <2>1. Closed(T)
    BY <1>2, <1>3 DEF Closed, Children
  <2>2. T \in SUBSET Used /\ Root \in T
    BY <1>3 DEF Tree, TreeShape
  <2>3. T = Used
    BY <2>1, <2>2, ClosedIsAll
  <2>4. d \in S /\ new \in Children(d)'
    BY <1>2, <2>3 DEF Children
  <2>5. new \in S
    BY <1>3, <2>4
  <2>6. QED
    BY <1>2, <2>3, <2>5
<1>4. QED
  BY <1>3, AllConnectedNext DEF Tree, TreeShape

\* Taking a whole subtree away leaves the rest hanging off the root.
LEMMA DeletionKeepsTree ==
  ASSUME Tree, Tree', Connected = Used, NEW i \in Used, i # Root,
         nodes' = Restrict(nodes, Used \ Freed(i))
  PROVE  Connected' = Used'
<1>1. /\ Subtree(i) \subseteq Used /\ Closed(Subtree(i)) /\ Root \notin Subtree(i)
  BY SubtreeFacts DEF Tree
<1>2. Used' = Used \ Subtree(i) /\ \A j \in Used' : nodes'[j] = nodes[j]
  BY DEF Restrict, Freed, Used
<1>3. ASSUME NEW S \in SUBSET Used', Root \in S, \A k \in S : Children(k)' \subseteq S
      PROVE  S = Used'
  <2> DEFINE T == S \cup Subtree(i)
  <2>1. Closed(T)
    BY <1>1, <1>2, <1>3 DEF Closed, Children
  <2>2. T \in SUBSET Used /\ Root \in T
    BY <1>1, <1>2, <1>3
  <2>3. T = Used
    BY <2>1, <2>2, ClosedIsAll
  <2>4. QED
    BY <1>2, <1>3, <2>3
<1>4. QED
  BY <1>3, AllConnectedNext DEF Tree, TreeShape

\* So does moving a subtree below a node outside of it, when all that goes is an
\* entry without entries of its own.
LEMMA MoveKeepsTree ==
  ASSUME Tree, Tree', Connected = Used,
         NEW s \in Used, s # Root, NEW x \in Used, x \notin Subtree(s),
         NEW d, d # Root, d \in Used => Children(d) = {}, Used' = Used \ {d},
         \A j \in Used' : nodes'[j].parent = IF j = s THEN x ELSE nodes[j].parent
  PROVE  Connected' = Used'
<1>1. s \in Subtree(s) /\ Subtree(s) \subseteq Used /\ Closed(Subtree(s))
  BY SubtreeFacts DEF Tree
<1>2. ASSUME NEW S \in SUBSET Used', Root \in S, \A k \in S : Children(k)' \subseteq S
      PROVE  S = Used'
  <2>1. ASSUME NEW k \in S
        PROVE  Children(k) \subseteq S \cup {s, d}
    <3>1. ASSUME NEW j \in Children(k), j # s, j # d
          PROVE  j \in Children(k)'
      BY <3>1 DEF Children
    <3>2. QED
      BY <1>2, <3>1
  <2>2. s \in S \cup {d}
    <3> DEFINE T == (S \cup Subtree(s) \cup {d}) \cap Used
    <3>1. Closed(T)
      <4>1. ASSUME NEW k \in T
            PROVE  Children(k) \subseteq T
        <5>1. Children(k) \subseteq Used
          BY DEF Children
        <5>2. CASE k \in S
          BY <1>1, <2>1, <5>1, <5>2
        <5>3. CASE k \in Subtree(s)
          BY <1>1, <5>1, <5>3 DEF Closed
        <5>4. CASE k = d
          BY <5>4
        <5>5. QED
          BY <5>2, <5>3, <5>4
      <4>2. QED
        BY <4>1 DEF Closed
    <3>2. T \in SUBSET Used /\ Root \in T
      BY <1>2
    <3>3. T = Used
      BY <3>1, <3>2, ClosedIsAll
    <3>4. x \in S \cup {d}
      BY <3>3
    <3>5. CASE s = d
      BY <3>5
    <3>6. CASE s # d
      <4>1. s \in Used' /\ nodes'[s].parent = x
        BY <3>6
      <4>2. x \in Used'
        BY <4>1 DEF Tree, TreeShape
      <4>3. x \in S
        BY <3>4, <4>2
      <4>4. s \in Children(x)'
        BY <4>1 DEF Children
      <4>5. QED
        BY <1>2, <4>3, <4>4
    <3>7. QED
      BY <3>5, <3>6
  <2> DEFINE U == (S \cup {d}) \cap Used
  <2>3. Closed(U)
    <3>1. ASSUME NEW k \in U
          PROVE  Children(k) \subseteq U
      <4>1. Children(k) \subseteq Used
        BY DEF Children
      <4>2. CASE k \in S
        BY <2>1, <2>2, <4>1, <4>2
      <4>3. CASE k = d
        BY <4>3
      <4>4. QED
        BY <4>2, <4>3
    <3>2. QED
      BY <3>1 DEF Closed
  <2>4. U \in SUBSET Used /\ Root \in U
    BY <1>2
  <2>5. U = Used
    BY <2>3, <2>4, ClosedIsAll
  <2>6. QED
    BY <1>2, <2>5
<1>3. QED
  BY <1>2, AllConnectedNext DEF Tree, TreeShape

\* A move is a loop only if the new parent is in the moved subtree, and then the
\* parent has changed.
LEMMA MoveLoops ==
  ASSUME Tree, Tree', Connected = Used,
         NEW s \in Used, s # Root, NEW x \in Used,
         NEW d, d # Root, d \in Used => Children(d) = {}, Used' = Used \ {d},
         \A j \in Used' : nodes'[j].parent = IF j = s THEN x ELSE nodes[j].parent,
         d = s => x \notin Subtree(s)
  PROVE  LoopStep
<1>1. CASE x \notin Subtree(s)
  BY <1>1, MoveKeepsTree DEF LoopStep
<1>2. CASE x \in Subtree(s)
  <2>1. nodes[s].parent \notin Subtree(s)
    BY ConnectedNotOnLoop DEF OnLoop, Tree
  <2>2. s \in Used' /\ nodes'[s].parent = x
    BY <1>2
  <2>3. QED
    BY <1>2, <2>1, <2>2 DEF LoopStep
<1>3. QED
  BY <1>1, <1>2

LEMMA StepLoop ==
  ASSUME Tree, Tree', Next
  PROVE  LoopStep
<1> USE DEF Tree
<1> SUFFICES ASSUME nodes' # nodes, Connected = Used, Connected' # Used'
             PROVE  LoopStep
  BY DEF LoopStep
<1>1. ~Fail
  BY DEF Fail
<1>2. ASSUME NEW p \in Paths, NEW dir \in BOOLEAN
      PROVE  ~Make(p, dir)
  BY CreationKeepsTree, PathAssumption DEF Make
<1>3. ASSUME NEW p \in Paths, NEW text \in Texts
      PROVE  ~WriteFile(p, text)
  BY CreationKeepsTree, PathAssumption DEF WriteFile
<1>4. ASSUME NEW p \in Paths, NEW q \in Paths
      PROVE  ~Copy(p, q)
  <2> SUFFICES ASSUME Copy(p, q) PROVE FALSE
    OBVIOUS
  <2>1. BaseFits(q) /\ IsFile(Resolve(p)) /\ \E t \in CopyTargets(p, q) : CopyTo(Resolve(p), t)
    BY <1>1 DEF Copy
  <2>2. PICK t \in CopyTargets(p, q) : CopyTo(Resolve(p), t)
    BY <2>1
  <2>3. t \in PathStrings /\ BaseFits(t)
    BY <2>1, CopyTargetFacts, PathAssumption
  <2>4. QED
    BY <2>2, <2>3, CreationKeepsTree DEF CopyTo
<1>5. ASSUME NEW p \in Paths
      PROVE  ~Delete(p)
  <2> SUFFICES ASSUME Delete(p) PROVE FALSE
    OBVIOUS
  <2>1. PICK i : i = Resolve(p)
    OBVIOUS
  <2>2. i \notin {None, Root} /\ nodes' = Restrict(nodes, Used \ Freed(i))
    BY <1>1, <2>1 DEF Delete
  <2>3. i \in Used
    BY <2>1, <2>2, ResolveUsed, PathAssumption
  <2>4. QED
    BY <2>2, <2>3, DeletionKeepsTree
<1>6. ASSUME NEW p \in Paths, NEW q \in Paths, Move(p, q)
      PROVE  LoopStep
  <2>1. PICK s, d, parent, name : /\ s = Resolve(p) /\ d = Resolve(q)
                                  /\ parent = Resolve(ParentPath(q)) /\ name = BaseOf(q)
    OBVIOUS
  <2>2. BaseFits(q) /\ s \notin {None, Root} /\ p \in PathStrings /\ q \in PathStrings
    BY <1>1, <1>6, <2>1, PathAssumption DEF Move
  <2>3. s \in Used /\ s # Root /\ d \in Used \cup {None} /\ None \notin Used
    BY <2>1, <2>2, ResolveUsed, SlotsAreNats DEF TypeOK
  <2>5. CASE IsDir(d) /\ MoveInto(s, d)
    <3>1. d \in Used
      BY <2>3, <2>5 DEF IsDir
    <3>2. nodes' = [nodes EXCEPT ![s].parent = d] /\ nodes \in [Used -> Node]
      BY <2>5 DEF MoveInto, TypeOK
    <3>3. Used' = Used /\ \A j \in Used : nodes'[j].parent = IF j = s THEN d ELSE nodes[j].parent
      BY <2>3, <3>2 DEF Used, Node
    <3>4. None # Root /\ None # s /\ Used' = Used \ {None}
      BY <2>2, <2>3, <3>3 DEF None, Root
    <3>5. QED
      BY <2>3, <3>1, <3>3, <3>4, MoveLoops
  <2>6. CASE HasBase(q) /\ IsDir(parent) /\ ~IsDir(d) /\ MoveOnto(s, d, parent, name)
    <3>1. parent \in Used /\ nodes[parent].dir
      BY <2>1, <2>2, <2>6, ResolveLast, ResolveUsed DEF IsDir
    <3>2. d # Root
      BY <2>6 DEF IsDir, TreeShape, None, Root
    <3>3. ASSUME d \in Used
          PROVE  Children(d) = {}
      <4>1. ~nodes[d].dir /\ d # None
        BY <2>3, <2>6, <3>3 DEF IsDir
      <4>2. Root \notin Children(d)
        BY <4>1 DEF Children, TreeShape
      <4>3. QED
        BY <4>1, <4>2 DEF Children, TreeShape
    <3>4. /\ Used' = Used \ {d}
          /\ \A j \in Used' : nodes'[j].parent = IF j = s THEN parent ELSE nodes[j].parent
      <4>1. nodes' = [j \in Used \ {d} |->
                        IF j = s THEN [nodes[s] EXCEPT !.parent = parent, !.name = name]
                        ELSE nodes[j]]
        BY <2>6 DEF MoveOnto
      <4>2. nodes[s] \in Node
        BY <2>3 DEF TypeOK
      <4>3. QED
        BY <4>1, <4>2 DEF Used, Node
    <3>5. ASSUME d = s
          PROVE  parent \notin Subtree(s)
      <4>1. Closed({s})
        BY <2>3, <3>3, <3>5 DEF Closed
      <4>2. Subtree(s) \subseteq {s}
        BY <2>3, <4>1, SubtreeLeast
      <4>3. parent # s
        BY <2>3, <2>6, <3>1, <3>5 DEF IsDir
      <4>4. QED
        BY <4>2, <4>3
    <3>6. QED
      BY <2>3, <3>1, <3>2, <3>3, <3>4, <3>5, MoveLoops
  <2>7. QED
    BY <1>1, <1>6, <2>1, <2>5, <2>6 DEF Move
<1>7. ASSUME NEW p \in Paths
      PROVE  ~Chdir(p)
  BY <1>1 DEF Chdir
<1>8. ~Cwd
  BY DEF Cwd
<1>9. QED
  BY <1>2, <1>3, <1>4, <1>5, <1>6, <1>7, <1>8 DEF Next

\* A node drops off the tree only by a move of a directory below itself.
THEOREM LoopsBySelfMove == Spec => LoopOnlyBySelfMove
<1>1. Tree /\ Tree' /\ [Next]_vars => [LoopStep]_vars
  BY StepLoop
<1>2. Spec => [][LoopStep]_vars
  BY <1>1, InitTree, NextTree, PTL DEF Spec
<1>3. QED
  BY <1>2 DEF LoopOnlyBySelfMove, LoopStep

----------------------------------------------------------------------------
(* What pwd prints.                                                        *)

\* The recursive function Above satisfies its defining equation.
LEMMA AboveEquation ==
  /\ Above[0] = cwd
  /\ \A k \in 1 .. MaxNodes : Above[k] = ParentOf(Above[k - 1])
<1> DEFINE Good(m, g) == g[0] = cwd /\ \A k \in 1 .. m : g[k] = ParentOf(g[k - 1])
           S == {m \in Nat : \E g : g = [k \in 0 .. m |-> g[k]] /\ Good(m, g)}
<1>1. 0 \in S
  <2>1. Good(0, [k \in 0 .. 0 |-> cwd])
    OBVIOUS
  <2>2. \E g : g = [k \in 0 .. 0 |-> g[k]] /\ Good(0, g)
    <3>1. [k \in 0 .. 0 |-> cwd] = [k \in 0 .. 0 |-> [j \in 0 .. 0 |-> cwd][k]]
      OBVIOUS
    <3>2. QED
      BY <2>1, <3>1
  <2>3. QED
    BY <2>2
<1>2. ASSUME NEW m \in S PROVE m + 1 \in S
  <2>1. PICK g : Good(m, g)
    OBVIOUS
  <2> DEFINE h == [k \in 0 .. m + 1 |-> IF k <= m THEN g[k] ELSE ParentOf(g[m])]
  <2>2. h[0] = cwd
    BY <2>1
  <2>3. ASSUME NEW k \in 1 .. m + 1 PROVE h[k] = ParentOf(h[k - 1])
    <3>1. CASE k <= m
      <4>1. h[k] = g[k] /\ h[k - 1] = g[k - 1]
        BY <3>1
      <4>. QED BY <2>1, <3>1, <4>1
    <3>2. CASE k = m + 1
      BY <3>2
    <3>. QED BY <3>1, <3>2
  <2>4. h = [k \in 0 .. m + 1 |-> h[k]]
    OBVIOUS
  <2> HIDE DEF h
  <2>5. Good(m + 1, h)
    BY <2>2, <2>3
  <2>6. m + 1 \in Nat /\ \E i : i = [k \in 0 .. m + 1 |-> i[k]] /\ Good(m + 1, i)
    <3> HIDE DEF Good
    <3>1. m \in Nat
      OBVIOUS
    <3>2. QED
      BY <2>4, <2>5, <3>1
  <2>7. QED
    BY <2>6
<1>3. S = Nat
  <2> HIDE DEF S
  <2>1. S \in SUBSET Nat
    BY DEF S
  <2>2. QED
    BY <1>1, <1>2, <2>1, SetInduction
<1>4. PICK g : g = [k \in 0 .. MaxNodes |-> g[k]] /\ Good(MaxNodes, g)
  <2> HIDE DEF Good
  <2>1. MaxNodes \in S
    <3> HIDE DEF S
    <3>. QED BY <1>3, SlotAssumption
  <2>2. QED
    BY <2>1
<1>5. g = [k \in 0 .. MaxNodes |-> IF k = 0 THEN cwd ELSE ParentOf(g[k - 1])]
  <2>1. \A k \in 0 .. MaxNodes : g[k] = IF k = 0 THEN cwd ELSE ParentOf(g[k - 1])
    <3>1. g[0] = cwd /\ \A k \in 1 .. MaxNodes : g[k] = ParentOf(g[k - 1])
      BY <1>4
    <3>2. \A k \in 0 .. MaxNodes : k = 0 \/ k \in 1 .. MaxNodes
      BY SlotAssumption
    <3>3. QED
      BY <3>1, <3>2
  <2>2. [k \in 0 .. MaxNodes |-> g[k]] =
          [k \in 0 .. MaxNodes |-> IF k = 0 THEN cwd ELSE ParentOf(g[k - 1])]
    BY <2>1
  <2>3. QED
    BY <1>4, <2>2, Zenon
<1>6. Above = [k \in 0 .. MaxNodes |-> IF k = 0 THEN cwd ELSE ParentOf(Above[k - 1])]
  BY <1>5, Zenon DEF Above
<1>7. PICK a : a = Above
  OBVIOUS
<1>8. a = [k \in 0 .. MaxNodes |-> IF k = 0 THEN cwd ELSE ParentOf(a[k - 1])]
  BY <1>6, <1>7
<1>9. a[0] = cwd /\ \A k \in 1 .. MaxNodes : a[k] = ParentOf(a[k - 1])
  BY <1>8, SlotAssumption
<1>10. QED
  BY <1>7, <1>9

\* The climb stays with the nodes that hang off the root.
LEMMA AboveConnected ==
  ASSUME Tree, cwd \in Connected, NEW n \in 0 .. MaxNodes
  PROVE  Above[n] \in Connected
<1>1. /\ Root \in Connected /\ \A k \in Connected \ {Root} : nodes[k].parent \in Connected
  BY SubtreeFacts DEF Connected, Tree, TreeShape
<1>2. \A k \in Connected : ParentOf(k) \in Connected
  BY <1>1 DEF ParentOf, Tree, TreeShape
<1> DEFINE S == {m \in Nat : m <= MaxNodes => Above[m] \in Connected}
<1>3. 0 \in S
  BY AboveEquation
<1>4. ASSUME NEW m \in S PROVE m + 1 \in S
  <2>1. SUFFICES ASSUME m + 1 <= MaxNodes PROVE Above[m + 1] \in Connected
    OBVIOUS
  <2>2. m + 1 \in 1 .. MaxNodes /\ m + 1 - 1 = m /\ m <= MaxNodes
    BY <2>1, SlotAssumption
  <2>3. Above[m + 1] = ParentOf(Above[m]) /\ Above[m] \in Connected
    BY <2>2, AboveEquation
  <2>4. QED
    BY <1>2, <2>3
<1>5. S = Nat
  BY <1>3, <1>4, SetInduction
<1>6. n \in S
  BY <1>5
<1>7. QED
  BY <1>6, SlotAssumption

\* Short of the root, each node of the climb is below the ones that follow.
LEMMA BelowTheAbove ==
  ASSUME Tree, cwd \in Connected,
         NEW a \in 0 .. MaxNodes, NEW b \in 0 .. MaxNodes, a <= b
  PROVE  Above[a] \in Subtree(Above[b])
<1> DEFINE S == {m \in Nat : a + m <= MaxNodes => Above[a] \in Subtree(Above[a + m])}
<1>0. MaxNodes \in Nat /\ Connected \subseteq Used
  BY SlotAssumption, SubtreeFacts DEF Connected, Tree, TreeShape
<1>1. 0 \in S
  <2>1. Above[a] \in Used
    BY <1>0, AboveConnected
  <2>2. Above[a] \in Subtree(Above[a]) /\ a + 0 = a
    BY <2>1, SubtreeFacts DEF Tree
  <2>3. QED
    BY <2>2
<1>2. ASSUME NEW m \in S PROVE m + 1 \in S
  <2>1. SUFFICES ASSUME a + (m + 1) <= MaxNodes PROVE Above[a] \in Subtree(Above[a + (m + 1)])
    OBVIOUS
  <2>2. PICK x, y : x = Above[a + m] /\ y = Above[a + (m + 1)]
    OBVIOUS
  <2>3. Above[a] \in Subtree(x) /\ x \in Used /\ y \in Used /\ y = ParentOf(x)
    <3>1. a + m \in 0 .. MaxNodes /\ a + (m + 1) \in 1 .. MaxNodes /\ a + (m + 1) - 1 = a + m
      BY <1>0, <2>1
    <3>2. QED
      BY <1>0, <2>2, <3>1, AboveConnected, AboveEquation
  <2>4. x \in Subtree(y)
    <3>1. y \in Subtree(y) /\ Closed(Subtree(y))
      BY <2>3, SubtreeFacts DEF Tree
    <3>2. y = x \/ x \in Children(y)
      BY <2>3 DEF ParentOf, Children
    <3>3. QED
      BY <3>1, <3>2 DEF Closed
  <2>5. Subtree(x) \subseteq Subtree(y)
    <3>1. Closed(Subtree(y)) /\ Subtree(y) \in SUBSET Used
      BY <2>3, SubtreeFacts DEF Tree
    <3>2. QED
      BY <2>3, <2>4, <3>1, SubtreeLeast
  <2>6. QED
    BY <2>2, <2>3, <2>5
<1>3. S = Nat
  <2> HIDE DEF S
  <2>1. S \in SUBSET Nat
    BY DEF S
  <2>2. QED
    BY <1>1, <1>2, <2>1, SetInduction
<1>4. b - a \in S /\ a + (b - a) = b
  <2> HIDE DEF S
  <2>. QED BY <1>0, <1>3
<1>5. QED
  BY <1>0, <1>4

\* The climb meets the root: without it, it would pass more nodes than there are.
LEMMA RootIsAbove ==
  ASSUME Tree, cwd \in Connected
  PROVE  \E k \in 0 .. MaxNodes : Above[k] = Root
<1> SUFFICES ASSUME \A k \in 0 .. MaxNodes : Above[k] # Root PROVE FALSE
  OBVIOUS
<1> DEFINE f == [k \in 0 .. MaxNodes |-> Above[k]]
<1>1. MaxNodes \in Nat \ {0} /\ Connected \subseteq Slots
  BY SlotAssumption, SubtreeFacts DEF Connected, Tree, TreeShape, TypeOK
<1>2. f \in [0 .. MaxNodes -> Slots]
  BY <1>1, AboveConnected
<1>3. /\ IsFiniteSet(0 .. MaxNodes) /\ IsFiniteSet(Slots)
      /\ Cardinality(Slots) < Cardinality(0 .. MaxNodes)
  <2>1. IsFiniteSet(0 .. MaxNodes) /\ Cardinality(0 .. MaxNodes) = MaxNodes + 1
    BY <1>1, FS_Interval
  <2>2. IsFiniteSet(0 .. MaxNodes - 1) /\ Cardinality(0 .. MaxNodes - 1) = MaxNodes
    BY <1>1, FS_Interval
  <2>3. QED
    BY <1>1, <2>1, <2>2 DEF Slots
<1>4. \E a, b \in 0 .. MaxNodes : a # b /\ f[a] = f[b]
  <2> HIDE DEF f
  <2>. QED BY <1>2, <1>3, FS_PigeonHole, Zenon
<1>5. PICK a, b \in 0 .. MaxNodes : a < b /\ Above[a] = Above[b]
  BY <1>1, <1>4
<1>6. PICK x : x = Above[a]
  OBVIOUS
<1>7. x \in Connected /\ x # Root
  BY <1>5, <1>6, AboveConnected
<1>8. nodes[x].parent = Above[a + 1]
  <2>1. a + 1 \in 1 .. MaxNodes /\ a + 1 - 1 = a
    BY <1>1, <1>5
  <2>2. Above[a + 1] = ParentOf(x)
    BY <1>6, <2>1, AboveEquation
  <2>3. x \in Used
    BY <1>7, SubtreeFacts DEF Connected, Tree, TreeShape
  <2>4. nodes[x].parent # None
    BY <1>7, <2>3, SlotsAreNats DEF Tree, TreeShape, TypeOK
  <2>5. QED
    BY <2>2, <2>4 DEF ParentOf
<1>9. Above[a + 1] \in Subtree(Above[b])
  BY <1>1, <1>5, BelowTheAbove
<1>10. QED
  BY <1>5, <1>6, <1>7, <1>8, <1>9, ConnectedNotOnLoop DEF OnLoop, Tree

\* Depth is where the climb meets the root first.
LEMMA DepthFacts ==
  ASSUME Tree, cwd \in Connected
  PROVE  /\ Depth \in 0 .. MaxNodes /\ Above[Depth] = Root
         /\ \A k \in 0 .. MaxNodes : k < Depth => Above[k] # Root
<1> DEFINE R == {k \in 0 .. MaxNodes : Above[k] = Root}
<1>1. R \in SUBSET Nat /\ R # {}
  BY RootIsAbove, SlotAssumption
<1>2. Min(R) \in R /\ \A k \in R : Min(R) <= k
  <2> HIDE DEF R
  <2>. QED BY <1>1, MinIsLeast
<1>3. QED
  BY <1>2, SlotAssumption DEF Depth

\* Among siblings with names of their own, a name leads to its node.
LEMMA StepDown ==
  ASSUME Tree, SiblingsDistinct, NEW x \in Used, x # Root
  PROVE  StepTo(ParentOf(x), nodes[x].name) = x /\ nodes[x].name \in Tokens
<1> USE DEF Tree
<1>1. /\ nodes[x].name \in Names /\ nodes[x].parent \in Used /\ nodes[x].parent # None
      /\ ParentOf(x) = nodes[x].parent
  BY SlotsAreNats DEF TreeShape, TypeOK, ParentOf
<1>2. nodes[x].name \notin {Dot, DotDot, TooLong} /\ nodes[x].name \in Tokens
  BY <1>1, NameAssumption DEF Tokens
<1>3. x \in Children(nodes[x].parent)
  BY DEF Children
<1>4. PICK y : y = ChildOf(nodes[x].parent, nodes[x].name)
  OBVIOUS
<1>5. y \in Children(nodes[x].parent) /\ nodes[y].name = nodes[x].name
  BY <1>3, <1>4, ChildFound
<1>6. y = x
  BY <1>5 DEF SiblingsDistinct, Children
<1>7. QED
  BY <1>1, <1>2, <1>4, <1>6 DEF StepTo

LEMMA PwdLeadsBack ==
  ASSUME Tree, cwd \in Connected, SiblingsDistinct
  PROVE  Resolve(PwdPath) = cwd
<1>1. PICK n, toks : n = Depth /\ toks = [j \in 1 .. n |-> nodes[Above[n - j]].name]
  OBVIOUS
<1>2. n \in 0 .. MaxNodes /\ n \in Nat /\ Above[n] = Root
  BY <1>1, DepthFacts, SlotAssumption
<1>3. ASSUME NEW j \in 1 .. n
      PROVE  /\ toks[j] \in Tokens
             /\ StepTo(Above[n - (j - 1)], toks[j]) = Above[n - j]
  <2>1. n - j \in 0 .. MaxNodes /\ n - j < n /\ n - (j - 1) \in 1 .. MaxNodes
        /\ n - (j - 1) - 1 = n - j
    BY <1>2, SlotAssumption
  <2>2. PICK x : x = Above[n - j]
    OBVIOUS
  <2>3. x \in Used /\ x # Root
    <3>1. x \in Connected /\ x # Root
      BY <1>1, <2>1, <2>2, AboveConnected, DepthFacts
    <3>2. QED
      BY <3>1, SubtreeFacts DEF Connected, Tree, TreeShape
  <2>4. Above[n - (j - 1)] = ParentOf(x)
    BY <2>1, <2>2, AboveEquation
  <2>5. toks[j] = nodes[x].name
    BY <1>1, <2>2
  <2>6. QED
    BY <2>2, <2>3, <2>4, <2>5, StepDown
<1>4. toks \in Seq(Tokens) /\ Len(toks) = n
  <2>1. DOMAIN toks = 1 .. n /\ toks = [j \in 1 .. n |-> toks[j]]
    BY <1>1
  <2>2. toks \in [1 .. n -> Tokens]
    BY <1>3, <2>1
  <2>3. QED
    BY <1>2, <2>2
<1>5. PICK w : w = Walk(Root, toks)
  OBVIOUS
<1>6. w[0] = Root /\ \A k \in 1 .. n : w[k] = StepTo(w[k - 1], toks[k])
  <2>1. Root \in Used \cup {None}
    BY DEF Tree, TreeShape
  <2>2. WalkIs(Root, toks)
    BY <1>4, <2>1, WalkUsed DEF WalksAre
  <2>3. QED
    BY <1>4, <1>5, <2>2 DEF WalkIs
<1> DEFINE S == {m \in Nat : m <= n => w[m] = Above[n - m]}
<1>7. 0 \in S
  BY <1>2, <1>6
<1>8. ASSUME NEW m \in S PROVE m + 1 \in S
  <2>1. SUFFICES ASSUME m + 1 <= n PROVE w[m + 1] = Above[n - (m + 1)]
    OBVIOUS
  <2>2. m + 1 \in 1 .. n /\ m + 1 - 1 = m /\ m <= n
    BY <1>2, <2>1
  <2>3. w[m + 1] = StepTo(w[m], toks[m + 1]) /\ w[m] = Above[n - m]
    BY <1>6, <2>2
  <2>4. StepTo(Above[n - (m + 1 - 1)], toks[m + 1]) = Above[n - (m + 1)]
    BY <1>3, <2>2
  <2>5. QED
    BY <2>2, <2>3, <2>4
<1>9. S = Nat
  <2> HIDE DEF S
  <2>1. S \in SUBSET Nat
    BY DEF S
  <2>2. QED
    BY <1>7, <1>8, <2>1, SetInduction
<1>10. w[n] = Above[0]
  <2>1. n \in S /\ n - n = 0
    BY <1>2, <1>9
  <2>2. QED
    BY <1>2, <2>1
<1>11. /\ PwdPath.abs = TRUE /\ PwdPath.toks = toks
  BY <1>1 DEF PwdPath
<1>12. Resolve(PwdPath) = w[n]
  BY <1>4, <1>5, <1>11 DEF Resolve
<1>13. QED
  BY <1>10, <1>12, AboveEquation

\* What pwd prints leads back to where it was printed, at any depth of the tree.
THEOREM PwdIsRight == Spec => []PwdRoundTrip
<1>1. Tree => PwdRoundTrip
  BY PwdLeadsBack DEF PwdRoundTrip
<1>2. QED
  BY <1>1, InitTree, NextTree, PTL DEF Spec

----------------------------------------------------------------------------
(* What split_args makes of a line.                                        *)

\* The characters of lines, and those of a line's arguments.
Glyphs == Char \cup Spaces \cup {Quote}
Texted(line) == {Argument(line, j).text : j \in 1 .. Len(line)}

LEMMA ArgumentLimits == ArgLen \in Nat \ {0} /\ MaxArgs \in Nat \ {0} /\ Quote \notin Spaces
BY CommandAssumption DEF Quote, Spaces

\* Blanks are skipped, as far as the first character that is none.
LEMMA SkippedFacts ==
  ASSUME NEW line, Len(line) \in Nat, NEW i \in 1 .. Len(line) + 1
  PROVE  /\ Skipped(line, i) \in i .. Len(line) + 1
         /\ Skipped(line, i) <= Len(line) => line[Skipped(line, i)] \notin Spaces
         /\ \A e \in i .. Len(line) + 1 :
              (\A j \in i .. e - 1 : line[j] \in Spaces) /\ (e > Len(line) \/ line[e] \notin Spaces)
                => Skipped(line, i) = e
<1> DEFINE S == {j \in i .. Len(line) + 1 : j > Len(line) \/ line[j] \notin Spaces}
<1>1. S \in SUBSET Nat /\ Len(line) + 1 \in S
  OBVIOUS
<1>2. Skipped(line, i) = Min(S)
  BY DEF Skipped
<1>3. Min(S) \in S
  <2> HIDE DEF S
  <2>1. QED
    BY <1>1, MinIsLeast
<1>4. ASSUME NEW e \in i .. Len(line) + 1,
             \A j \in i .. e - 1 : line[j] \in Spaces, e > Len(line) \/ line[e] \notin Spaces
      PROVE  Min(S) = e
  <2>1. e \in S
    BY <1>4
  <2>2. ASSUME NEW j \in S, j < e PROVE FALSE
    <3>1. j \in i .. e - 1 /\ j <= Len(line)
      BY <2>2
    <3>2. QED
      BY <1>4, <2>2, <3>1
  <2>3. \A j \in S : e <= j
    BY <2>2
  <2> HIDE DEF S
  <2>4. QED
    BY <1>1, <2>1, <2>3, MinIs
<1>5. QED
  BY <1>2, <1>3, <1>4

\* An argument leaves some characters behind.
LEMMA ArgumentAdvances ==
  ASSUME NEW line, Len(line) \in Nat, NEW at \in 1 .. Len(line), line[at] \notin Spaces
  PROVE  Argument(line, at).to \in at + 1 .. Len(line) + 1
<1> DEFINE quoted == line[at] = Quote
           start  == IF quoted THEN at + 1 ELSE at
           S      == {j \in start .. Len(line) + 1 :
                        \/ j > Len(line) \/ j = start + ArgLen
                        \/ IF quoted THEN line[j] = Quote ELSE line[j] \in Spaces}
           stop   == Min(S)
<1>1. Argument(line, at).to =
        IF quoted /\ stop <= Len(line) /\ stop < start + ArgLen THEN stop + 1 ELSE stop
  BY DEF Argument
<1>2. S \in SUBSET Nat /\ Len(line) + 1 \in S
  OBVIOUS
<1>3. stop \in S
  <2> HIDE DEF S
  <2>1. QED
    BY <1>2, MinIsLeast
<1>4. at \notin S
  BY ArgumentLimits
<1>5. stop \in at + 1 .. Len(line) + 1
  <2>1. stop \in start .. Len(line) + 1 /\ stop # at
    <3> HIDE DEF stop
    <3>1. QED
      BY <1>3, <1>4
  <2> HIDE DEF stop, S
  <2>2. QED
    BY <2>1
<1> HIDE DEF stop, S
<1>6. QED
  BY <1>1, <1>5

\* The arguments from each place on are the first of them and those behind it.
Splits(line, from) ==
  \A i \in 1 .. Len(line) + 1 :
    from[i] = IF Skipped(line, i) > Len(line) THEN <<>>
              ELSE <<Argument(line, Skipped(line, i)).text>>
                     \o from[Argument(line, Skipped(line, i)).to]

\* The recursive function in Args satisfies its defining equation.
LEMMA ArgsEquation ==
  ASSUME NEW line, Len(line) \in Nat
  PROVE  \E from : /\ Splits(line, from)
                   /\ Args(line) = SubSeq(from[1], 1, Min({MaxArgs, Len(from[1])}))
<1>0. PICK N \in Nat : N = Len(line)
  OBVIOUS
<1> DEFINE Q == Seq(Texted(line))
           P(i) == Skipped(line, i)
           D == {i \in 1 .. N + 1 : P(i) > N}
           base == [i \in D |-> <<>>]
           next == [i \in (1 .. N + 1) \ D |-> Argument(line, P(i)).to]
           step == [p \in ((1 .. N + 1) \ D) \X Q |-> <<Argument(line, P(p[1])).text>> \o p[2]]
<1>1. ASSUME NEW i \in (1 .. N + 1) \ D
      PROVE  /\ Argument(line, P(i)).to \in 1 .. N + 1 /\ i < Argument(line, P(i)).to
             /\ Argument(line, P(i)).text \in Texted(line)
  <2>1. ~(P(i) > N) /\ i \in 1 .. N + 1
    OBVIOUS
  <2>2. PICK at \in 1 .. N + 1 : at = P(i) /\ i <= at
    BY <1>0, <2>1, SkippedFacts
  <2>3. at \in 1 .. N /\ line[at] \notin Spaces
    BY <1>0, <2>1, <2>2, SkippedFacts
  <2>4. PICK to \in at + 1 .. N + 1 : to = Argument(line, at).to
    BY <1>0, <2>3, ArgumentAdvances
  <2>5. to \in 1 .. N + 1 /\ i < to
    BY <2>1, <2>2, <2>3, <2>4
  <2> HIDE DEF P, D
  <2>6. QED
    BY <1>0, <2>2, <2>3, <2>4, <2>5 DEF Texted
<1>2. D \in SUBSET (1 .. N + 1) /\ base \in [D -> Q]
  OBVIOUS
<1>3. next \in [(1 .. N + 1) \ D -> 1 .. N + 1] /\ \A i \in (1 .. N + 1) \ D : i < next[i]
  <2> HIDE DEF D, P
  <2>1. QED
    BY <1>1
<1>4. step \in [((1 .. N + 1) \ D) \X Q -> Q]
  <2>1. ASSUME NEW i \in (1 .. N + 1) \ D, NEW q \in Q
        PROVE  <<Argument(line, P(i)).text>> \o q \in Q
    <3>1. <<Argument(line, P(i)).text>> \in Q
      BY <1>1
    <3> HIDE DEF P
    <3>2. QED
      BY <3>1, ConcatProperties
  <2> HIDE DEF D, P, Q
  <2>2. QED
    BY <2>1
<1>5. StepsUp(Q, N + 1, D, base, next, step)
  <2>1. Q # {}
    <3>1. <<>> \in Q
      BY EmptySeq
    <3>2. QED
      BY <3>1
  <2> HIDE DEF D, base, next, step, Q
  <2>2. QED
    BY <1>2, <1>3, <1>4, <2>1 DEF StepsUp
<1>6. PICK f \in [1 .. N + 1 -> Q] :
        \A i \in 1 .. N + 1 : f[i] = IF i \in D THEN base[i] ELSE step[<<i, f[next[i]]>>]
  <2> HIDE DEF D, base, next, step, Q
  <2>1. PICK n : n = N + 1
    OBVIOUS
  <2>2. StepsUp(Q, n, D, base, next, step)
    BY <1>5, <2>1
  <2>3. \E f \in [1 .. n -> Q] :
          \A i \in 1 .. n : f[i] = IF i \in D THEN base[i] ELSE step[<<i, f[next[i]]>>]
    BY <2>2, CourseFromTheEnd, SMTT(30)
  <2>4. QED
    BY <2>1, <2>3
<1> DEFINE F(a) == [i \in 1 .. Len(line) + 1 |->
                      IF Skipped(line, i) > Len(line) THEN <<>>
                      ELSE <<Argument(line, Skipped(line, i)).text>>
                             \o a[Argument(line, Skipped(line, i)).to]]
           chosen == CHOOSE a : a = F(a)
<1>7. f = F(f)
  <2>1. ASSUME NEW i \in 1 .. N + 1 PROVE f[i] = F(f)[i]
    <3>1. CASE i \in D
      <4>1. f[i] = <<>>
        BY <1>6, <3>1
      <4>2. P(i) > N
        BY <3>1
      <4>3. QED
        BY <1>0, <4>1, <4>2
    <3>2. CASE i \notin D
      <4>1. PICK to \in 1 .. N + 1 : to = Argument(line, P(i)).to /\ next[i] = to
        BY <1>1, <3>2
      <4>2. f[i] = step[<<i, f[to]>>]
        <5> HIDE DEF D, base, next, step, Q
        <5>1. QED
          BY <1>6, <3>2, <4>1
      <4>3. step[<<i, f[to]>>] = <<Argument(line, P(i)).text>> \o f[to]
        <5>1. i \in (1 .. N + 1) \ D /\ f[to] \in Q
          BY <3>2
        <5> HIDE DEF D, P, Q
        <5>2. QED
          BY <5>1
      <4>4. ~(P(i) > N)
        BY <3>2
      <4> HIDE DEF step, D
      <4>5. QED
        BY <1>0, <4>1, <4>2, <4>3, <4>4
    <3>3. QED
      BY <3>1, <3>2
  <2>2. f = [i \in 1 .. N + 1 |-> f[i]] /\ F(f) = [i \in 1 .. N + 1 |-> F(f)[i]]
    BY <1>0
  <2> HIDE DEF F
  <2>3. QED
    BY <2>1, <2>2
<1>8. chosen = F(chosen)
  BY <1>7, Zenon
<1>9. Args(line) = SubSeq(chosen[1], 1, Min({MaxArgs, Len(chosen[1])}))
  BY DEF Args
<1> HIDE DEF chosen
<1>10. Splits(line, chosen)
  BY <1>8 DEF Splits
<1>11. QED
  BY <1>9, <1>10
\* Two sequences with the same elements are one.
LEMMA SameElements ==
  ASSUME NEW T, NEW U, NEW a \in Seq(T), NEW b \in Seq(U), NEW n \in Nat, Len(a) = n, Len(b) = n,
         \A k \in 1 .. n : a[k] = b[k]
  PROVE  a = b
<1>1. a = [k \in 1 .. n |-> a[k]] /\ b = [k \in 1 .. n |-> b[k]]
  OBVIOUS
<1>2. QED
  BY <1>1, Zenon

\* An argument in quotes ends behind the closing one.
LEMMA QuotedArgument ==
  ASSUME NEW line, NEW N \in Nat, Len(line) = N, NEW at \in 1 .. N, line[at] = Quote,
         NEW l \in Nat, l < ArgLen, at + l + 1 <= N, line[at + l + 1] = Quote,
         \A k \in 1 .. l : line[at + k] # Quote
  PROVE  Argument(line, at) = [text |-> SubSeq(line, at + 1, at + l), to |-> at + l + 2]
<1> DEFINE S == {j \in at + 1 .. N + 1 : \/ j > N \/ j = at + 1 + ArgLen
                                         \/ line[j] = Quote}
<1>1. ArgLen \in Nat
  BY ArgumentLimits
<1>2. PICK stop \in Nat : stop = at + l + 1
  OBVIOUS
<1>3. stop \in at + 1 .. N /\ line[stop] = Quote /\ stop < at + 1 + ArgLen
  BY <1>1, <1>2
<1>4. S \in SUBSET Nat /\ stop \in S
  BY <1>3
<1>5. ASSUME NEW j \in S, j < stop PROVE FALSE
  <2>1. j \in at + 1 .. N /\ j < at + 1 + ArgLen
    BY <1>1, <1>3, <1>5
  <2>2. line[j] = Quote
    BY <1>1, <2>1
  <2>3. j - at \in 1 .. l /\ at + (j - at) = j
    BY <1>2, <1>5, <2>1
  <2>4. QED
    BY <2>2, <2>3
<1>6. \A j \in S : stop <= j
  BY <1>3, <1>5
<1>7. Min(S) = stop
  <2> HIDE DEF S
  <2>1. QED
    BY <1>4, <1>6, MinIs
<1>8. Argument(line, at) =
        [text |-> SubSeq(line, at + 1, Min(S) - 1),
         to   |-> IF Min(S) <= N /\ Min(S) < at + 1 + ArgLen THEN Min(S) + 1 ELSE Min(S)]
  <2>1. (line[at] = Quote) = TRUE
    OBVIOUS
  <2>2. QED
    BY <2>1 DEF Argument
<1>9. stop - 1 = at + l /\ stop + 1 = at + l + 2 /\ stop <= N
  BY <1>2, <1>3
<1> HIDE DEF S
<1>10. QED
  BY <1>3, <1>7, <1>8, <1>9

\* A plain one ends at a blank, or with the line.
LEMMA PlainArgument ==
  ASSUME NEW line, NEW N \in Nat, Len(line) = N, NEW at \in 1 .. N, line[at] # Quote,
         NEW l \in Nat, l <= ArgLen, at + l <= N + 1, at + l <= N => line[at + l] \in Spaces,
         \A k \in 1 .. l : line[at + k - 1] \notin Spaces
  PROVE  Argument(line, at) = [text |-> SubSeq(line, at, at + l - 1), to |-> at + l]
<1> DEFINE S == {j \in at .. N + 1 : \/ j > N \/ j = at + ArgLen
                                     \/ line[j] \in Spaces}
<1>1. ArgLen \in Nat
  BY ArgumentLimits
<1>2. PICK stop \in Nat : stop = at + l
  OBVIOUS
<1>3. stop \in at .. N + 1 /\ stop <= at + ArgLen /\ (stop > N \/ line[stop] \in Spaces)
  BY <1>1, <1>2
<1>4. S \in SUBSET Nat /\ stop \in S
  BY <1>3
<1>5. ASSUME NEW j \in S, j < stop PROVE FALSE
  <2>1. j \in at .. N /\ j < at + ArgLen
    BY <1>1, <1>3, <1>5
  <2>2. line[j] \in Spaces
    BY <1>1, <2>1
  <2>3. j - at + 1 \in 1 .. l /\ at + (j - at + 1) - 1 = j
    BY <1>2, <1>5, <2>1
  <2>4. QED
    BY <2>2, <2>3
<1>6. \A j \in S : stop <= j
  BY <1>3, <1>5
<1>7. Min(S) = stop
  <2> HIDE DEF S
  <2>1. QED
    BY <1>4, <1>6, MinIs
<1>8. Argument(line, at) = [text |-> SubSeq(line, at, Min(S) - 1), to |-> Min(S)]
  <2>1. (line[at] = Quote) = FALSE
    OBVIOUS
  <2>2. QED
    BY <2>1 DEF Argument
<1> HIDE DEF S
<1>9. QED
  BY <1>2, <1>7, <1>8

Plain(w)  == w.quoted = FALSE
Quoted(w) == w.quoted = TRUE

\* A word's blanks and text, and how long they are.
Parts(w, x, y, b, l) ==
  /\ w.before = x /\ x \in Seq(Spaces) /\ w.text = y /\ y \in Seq(Char)
  /\ b \in Nat /\ b = Len(x) /\ l \in Nat /\ l = Len(y)

\* Characters that are b blanks and the text y of length l, plain or in quotes.
PlainText(t, y, b, l) ==
  /\ t \in Seq(Glyphs) /\ Len(t) = b + l
  /\ \A j \in 1 .. b : t[j] \in Spaces
  /\ \A k \in 1 .. l : t[b + k] = y[k]

QuotedText(t, y, b, l) ==
  /\ t \in Seq(Glyphs) /\ Len(t) = b + l + 2
  /\ \A j \in 1 .. b : t[j] \in Spaces
  /\ t[b + 1] = Quote /\ t[b + l + 2] = Quote
  /\ \A k \in 1 .. l : t[b + 1 + k] = y[k]

\* What is typed for a plain word: its blanks and its text.
LEMMA PlainTyping ==
  ASSUME NEW w, Plain(w), NEW x, NEW y, NEW b \in Nat, NEW l \in Nat, Parts(w, x, y, b, l)
  PROVE  PlainText(Typing(w), y, b, l)
<1>1. /\ x \in Seq(Spaces) /\ y \in Seq(Char)
      /\ b \in Nat /\ b = Len(x) /\ l \in Nat /\ l = Len(y)
  BY DEF Parts
<1>0. w.before = x /\ w.text = y
  BY DEF Parts
<1>2. x \in Seq(Glyphs) /\ y \in Seq(Glyphs)
  BY <1>1 DEF Glyphs
<1>3. Typing(w) = x \o y
  BY <1>0 DEF Typing, Plain
<1>4. \A j \in 1 .. b : x[j] \in Spaces
  BY <1>1
<1>5. /\ x \o y \in Seq(Glyphs) /\ Len(x \o y) = Len(x) + Len(y)
      /\ \A j \in 1 .. Len(x) : (x \o y)[j] = x[j]
      /\ \A k \in 1 .. Len(y) : (x \o y)[Len(x) + k] = y[k]
  BY <1>2, ConcatFacts
<1>6. QED
  BY <1>1, <1>3, <1>4, <1>5 DEF PlainText

\* What is typed for a word in quotes has them around the text.
LEMMA QuotedTyping ==
  ASSUME NEW w, Quoted(w), NEW x, NEW y, NEW b \in Nat, NEW l \in Nat, Parts(w, x, y, b, l)
  PROVE  QuotedText(Typing(w), y, b, l)
<1>1. /\ x \in Seq(Spaces) /\ y \in Seq(Char)
      /\ b \in Nat /\ b = Len(x) /\ l \in Nat /\ l = Len(y)
  BY DEF Parts
<1>0. w.before = x /\ w.text = y
  BY DEF Parts
<1>2. PICK q : q = <<Quote>>
  OBVIOUS
<1>3. Len(q) = 1 /\ q[1] = Quote /\ Quote \in Glyphs
  BY <1>2 DEF Glyphs
<1>4. x \in Seq(Glyphs) /\ y \in Seq(Glyphs) /\ q \in Seq(Glyphs)
  <2>1. x \in Seq(Glyphs) /\ y \in Seq(Glyphs)
    BY <1>1 DEF Glyphs
  <2>2. QED
    BY <1>2, <1>3, <2>1
<1>5. PICK c : c = q \o y
  OBVIOUS
<1>6. PICK d : d = c \o q
  OBVIOUS
<1>7. PICK t : t = x \o d
  OBVIOUS
<1>8. Typing(w) = t
  <2>1. Typing(w) = w.before \o (<<Quote>> \o w.text \o <<Quote>>)
    BY <1>0 DEF Typing, Quoted
  <2>2. QED
    BY <1>0, <1>2, <1>5, <1>6, <1>7, <2>1, Zenon
<1>9. /\ c \in Seq(Glyphs) /\ Len(c) = 1 + l /\ c[1] = Quote
      /\ \A k \in 1 .. l : c[1 + k] = y[k]
  <2>1. /\ q \o y \in Seq(Glyphs) /\ Len(q \o y) = Len(q) + Len(y)
        /\ \A j \in 1 .. Len(q) : (q \o y)[j] = q[j]
        /\ \A k \in 1 .. Len(y) : (q \o y)[Len(q) + k] = y[k]
    BY <1>4, ConcatFacts
  <2>2. 1 \in 1 .. Len(q)
    BY <1>3
  <2>3. QED
    BY <1>1, <1>3, <1>5, <2>1, <2>2
<1>10. /\ d \in Seq(Glyphs) /\ Len(d) = l + 2 /\ d[l + 2] = Quote
       /\ \A k \in 1 .. l + 1 : d[k] = c[k]
  <2>0. c \in Seq(Glyphs)
    BY <1>9
  <2>1. /\ c \o q \in Seq(Glyphs) /\ Len(c \o q) = Len(c) + Len(q)
        /\ \A j \in 1 .. Len(c) : (c \o q)[j] = c[j]
        /\ \A k \in 1 .. Len(q) : (c \o q)[Len(c) + k] = q[k]
    BY <1>4, <2>0, ConcatFacts
  <2>2. 1 \in 1 .. Len(q) /\ Len(c) = l + 1 /\ Len(c) + 1 = l + 2 /\ Len(c) + Len(q) = l + 2
    BY <1>1, <1>3, <1>9
  <2>3. d[Len(c) + 1] = Quote
    BY <1>1, <1>3, <1>6, <2>1, <2>2
  <2>4. QED
    BY <1>1, <1>6, <2>1, <2>2, <2>3
<1>11. /\ t \in Seq(Glyphs) /\ Len(t) = b + l + 2
       /\ \A j \in 1 .. b : t[j] = x[j]
       /\ \A k \in 1 .. l + 2 : t[b + k] = d[k]
  <2>0. d \in Seq(Glyphs)
    BY <1>10
  <2>1. /\ x \o d \in Seq(Glyphs) /\ Len(x \o d) = Len(x) + Len(d)
        /\ \A j \in 1 .. Len(x) : (x \o d)[j] = x[j]
        /\ \A k \in 1 .. Len(d) : (x \o d)[Len(x) + k] = d[k]
    BY <1>4, <2>0, ConcatFacts
  <2>2. b + (l + 2) = b + l + 2
    BY <1>1
  <2>3. QED
    BY <1>1, <1>7, <1>10, <2>1, <2>2
<1>12. \A j \in 1 .. b : t[j] \in Spaces
  BY <1>1, <1>4, <1>11
<1>13. t[b + 1] = Quote
  <2>1. 1 \in 1 .. l + 2 /\ 1 \in 1 .. l + 1
    BY <1>1
  <2>2. QED
    BY <1>1, <1>9, <1>10, <1>11, <2>1
<1>14. t[b + l + 2] = Quote
  <2>1. l + 2 \in 1 .. l + 2 /\ b + (l + 2) = b + l + 2
    BY <1>1
  <2>2. QED
    BY <1>1, <1>10, <1>11, <2>1
<1>15. ASSUME NEW k \in 1 .. l PROVE t[b + 1 + k] = y[k]
  <2>1. 1 + k \in 1 .. l + 2 /\ 1 + k \in 1 .. l + 1 /\ b + (1 + k) = b + 1 + k
    BY <1>1
  <2>2. t[b + (1 + k)] = d[1 + k] /\ d[1 + k] = c[1 + k] /\ c[1 + k] = y[k]
    BY <1>1, <1>9, <1>10, <1>11, <2>1
  <2>3. QED
    BY <2>1, <2>2
<1>16. QED
  BY <1>1, <1>8, <1>11, <1>12, <1>13, <1>14, <1>15 DEF QuotedText

\* A word typed behind place p of a line, with a blank or nothing behind it.
Stands(line, p, t) ==
  /\ line \in Seq(Glyphs) /\ p \in Nat /\ p + Len(t) <= Len(line)
  /\ \A j \in 1 .. Len(t) : line[p + j] = t[j]
  /\ p + Len(t) < Len(line) => line[p + Len(t) + 1] \in Spaces

\* It is the next argument from there, whole, and the next place is behind it.
Taken(line, p, w) ==
  /\ ~(Skipped(line, p + 1) > Len(line))
  /\ Argument(line, Skipped(line, p + 1)).text = w.text
  /\ Argument(line, Skipped(line, p + 1)).to = p + Len(Typing(w)) + 1

LEMMA PlainIsTaken ==
  ASSUME NEW w \in Word, Sayable(w), Plain(w), NEW line, NEW p, Stands(line, p, Typing(w))
  PROVE  Taken(line, p, w)
<1>1. PICK t, x, y : /\ t = Typing(w) /\ y = w.text /\ y \in Seq(Char)
                  /\ x = w.before /\ x \in Seq(Spaces)
  BY DEF Word
<1>2. PICK b \in Nat, l \in Nat : b = Len(x) /\ l = Len(y)
  BY <1>1
<1>3. /\ Len(t) = b + l
      /\ \A j \in 1 .. b : t[j] \in Spaces
      /\ \A k \in 1 .. l : t[b + k] = y[k]
  <2>1. Parts(w, x, y, b, l)
    BY <1>1, <1>2 DEF Parts
  <2>2. PlainText(Typing(w), y, b, l)
    BY <2>1, PlainTyping
  <2>3. t = Typing(w)
    BY <1>1
  <2>4. QED
    BY <2>2, <2>3, Zenon DEF PlainText
<1>4. PICK N \in Nat : N = Len(line) /\ p \in Nat /\ line \in Seq(Glyphs)
  BY DEF Stands
<1>5. /\ p + (b + l) <= N /\ \A j \in 1 .. b + l : line[p + j] = t[j]
      /\ p + (b + l) < N => line[p + (b + l) + 1] \in Spaces
  BY <1>1, <1>3, <1>4 DEF Stands
<1>6. y # <<>> /\ y[1] # Quote /\ l <= ArgLen /\ \A k \in DOMAIN y : y[k] \notin Spaces
  BY <1>1, <1>2 DEF Sayable, Plain, Word
<1>7. l > 0 /\ DOMAIN y = 1 .. l
  BY <1>1, <1>2, <1>6, EmptySeq
<1>8. PICK at \in Nat : at = p + b + 1
  BY <1>4
<1>9. PICK from \in Nat : from = p + 1
  BY <1>4
<1>10. from \in 1 .. N + 1 /\ at \in from .. N /\ at \in 1 .. N /\ at + l <= N + 1
  BY <1>4, <1>5, <1>7, <1>8, <1>9
<1>11. ASSUME NEW k \in 1 .. l PROVE line[at + k - 1] = y[k]
  <2>1. b + k \in 1 .. b + l /\ p + (b + k) = at + k - 1
    BY <1>4, <1>8
  <2>2. line[p + (b + k)] = t[b + k] /\ t[b + k] = y[k]
    BY <1>3, <1>5, <2>1
  <2>3. QED
    BY <2>1, <2>2
<1>12. line[at] \notin Spaces /\ line[at] # Quote
  <2>1. 1 \in 1 .. l /\ at + 1 - 1 = at
    BY <1>7
  <2>2. line[at] = y[1]
    BY <1>11, <2>1
  <2>3. QED
    BY <1>6, <1>7, <2>1, <2>2
<1>13. ASSUME NEW j \in from .. at - 1 PROVE line[j] \in Spaces
  <2>1. j - p \in 1 .. b /\ j - p \in 1 .. b + l /\ p + (j - p) = j
    BY <1>4, <1>8, <1>9
  <2>2. line[p + (j - p)] = t[j - p] /\ t[j - p] \in Spaces
    BY <1>3, <1>5, <2>1
  <2>3. QED
    BY <2>1, <2>2
<1>14. Skipped(line, from) = at
  <2>1. at \in from .. N + 1
    BY <1>10
  <2>2. QED
    BY <1>4, <1>10, <1>12, <1>13, <2>1, SkippedFacts
<1>15. at + l <= N => line[at + l] \in Spaces
  <2>1. at + l = p + (b + l) + 1
    BY <1>4, <1>8
  <2>2. at + l <= N => p + (b + l) < N
    BY <1>4, <1>8
  <2>3. QED
    BY <1>5, <2>1, <2>2
<1>16. \A k \in 1 .. l : line[at + k - 1] \notin Spaces
  BY <1>6, <1>7, <1>11
<1>17. Argument(line, at) = [text |-> SubSeq(line, at, at + l - 1), to |-> at + l]
  <2>1. /\ Len(line) = N /\ at \in 1 .. N /\ line[at] # Quote /\ l <= ArgLen /\ at + l <= N + 1
        /\ at + l <= N => line[at + l] \in Spaces
        /\ \A k \in 1 .. l : line[at + k - 1] \notin Spaces
    BY <1>4, <1>6, <1>10, <1>12, <1>15, <1>16, Zenon
  <2>2. QED
    BY <2>1, PlainArgument
<1>18. SubSeq(line, at, at + l - 1) = y
  <2>1. PICK e \in Nat : e = at + l
    OBVIOUS
  <2>2. e \in at .. N + 1 /\ at \in 1 .. N + 1 /\ e - at = l
    BY <1>10, <2>1
  <2>3. PICK u : u = SubSeq(line, at, e - 1)
    OBVIOUS
  <2>4. u \in Seq(Glyphs) /\ Len(u) = l /\ \A k \in 1 .. l : u[k] = line[at + k - 1]
    BY <1>4, <2>2, <2>3, CutOut
  <2>5. \A k \in 1 .. l : u[k] = y[k]
    BY <1>11, <2>4
  <2>6. u = y
    <3>1. u \in Seq(Glyphs) /\ y \in Seq(Char) /\ Len(u) = l /\ Len(y) = l
      BY <1>1, <1>2, <2>4
    <3>2. QED
      BY <2>5, <3>1, SameElements
  <2>7. QED
    BY <2>1, <2>3, <2>6
<1>19. at + l = p + Len(t) + 1 /\ ~(at > N)
  BY <1>3, <1>4, <1>8, <1>10
<1>20. QED
  <2>1. Skipped(line, p + 1) = at
    BY <1>9, <1>14, Zenon
  <2>2. Argument(line, at).text = y /\ Argument(line, at).to = at + l
    BY <1>17, <1>18
  <2>3. QED
    BY <1>1, <1>4, <1>19, <2>1, <2>2, Zenon DEF Taken

LEMMA QuotedIsTaken ==
  ASSUME NEW w \in Word, Sayable(w), Quoted(w), NEW line, NEW p, Stands(line, p, Typing(w))
  PROVE  Taken(line, p, w)
<1>1. PICK t, x, y : /\ t = Typing(w) /\ y = w.text /\ y \in Seq(Char)
                  /\ x = w.before /\ x \in Seq(Spaces)
  BY DEF Word
<1>2. PICK b \in Nat, l \in Nat : b = Len(x) /\ l = Len(y)
  BY <1>1
<1>3. /\ Len(t) = b + l + 2
      /\ \A j \in 1 .. b : t[j] \in Spaces
      /\ t[b + 1] = Quote /\ t[b + l + 2] = Quote
      /\ \A k \in 1 .. l : t[b + 1 + k] = y[k]
  <2>1. Parts(w, x, y, b, l)
    BY <1>1, <1>2 DEF Parts
  <2>2. QuotedText(Typing(w), y, b, l)
    BY <2>1, QuotedTyping
  <2>3. t = Typing(w)
    BY <1>1
  <2>4. QED
    BY <2>2, <2>3, Zenon DEF QuotedText
<1>4. PICK N \in Nat : N = Len(line) /\ p \in Nat /\ line \in Seq(Glyphs)
  BY DEF Stands
<1>5. p + (b + l + 2) <= N /\ \A j \in 1 .. b + l + 2 : line[p + j] = t[j]
  BY <1>1, <1>3, <1>4 DEF Stands
<1>6. l < ArgLen /\ \A k \in 1 .. l : y[k] # Quote
  <2>1. DOMAIN y = 1 .. l
    BY <1>1, <1>2
  <2>2. QED
    BY <1>1, <1>2, <2>1 DEF Sayable, Quoted, Word
<1>7. Quote \notin Spaces
  BY ArgumentLimits
<1>8. PICK at \in Nat : at = p + b + 1
  BY <1>4
<1>9. PICK from \in Nat : from = p + 1
  BY <1>4
<1>10. from \in 1 .. N + 1 /\ at \in from .. N /\ at \in 1 .. N /\ at + l + 1 <= N
  BY <1>4, <1>5, <1>8, <1>9
<1>11. ASSUME NEW k \in 1 .. l PROVE line[at + k] = y[k]
  <2>1. b + 1 + k \in 1 .. b + l + 2 /\ p + (b + 1 + k) = at + k
    BY <1>4, <1>8
  <2>2. line[p + (b + 1 + k)] = t[b + 1 + k] /\ t[b + 1 + k] = y[k]
    BY <1>3, <1>5, <2>1
  <2>3. QED
    BY <2>1, <2>2
<1>12. line[at] = Quote /\ line[at + l + 1] = Quote
  <2>1. b + 1 \in 1 .. b + l + 2 /\ p + (b + 1) = at
    BY <1>4, <1>8
  <2>2. b + l + 2 \in 1 .. b + l + 2 /\ p + (b + l + 2) = at + l + 1
    BY <1>4, <1>8
  <2>3. line[p + (b + 1)] = Quote
    BY <1>3, <1>5, <2>1
  <2>4. line[p + (b + l + 2)] = Quote
    BY <1>3, <1>5, <2>2
  <2>5. QED
    BY <2>1, <2>2, <2>3, <2>4
<1>13. ASSUME NEW j \in from .. at - 1 PROVE line[j] \in Spaces
  <2>1. j - p \in 1 .. b /\ j - p \in 1 .. b + l + 2 /\ p + (j - p) = j
    BY <1>4, <1>8, <1>9
  <2>2. line[p + (j - p)] = t[j - p] /\ t[j - p] \in Spaces
    BY <1>3, <1>5, <2>1
  <2>3. QED
    BY <2>1, <2>2
<1>14. Skipped(line, from) = at
  <2>1. at \in from .. N + 1
    BY <1>10
  <2>2. QED
    BY <1>4, <1>7, <1>10, <1>12, <1>13, <2>1, SkippedFacts
<1>15. \A k \in 1 .. l : line[at + k] # Quote
  BY <1>6, <1>11
<1>16. Argument(line, at) = [text |-> SubSeq(line, at + 1, at + l), to |-> at + l + 2]
  <2>1. /\ Len(line) = N /\ at \in 1 .. N /\ line[at] = Quote /\ l < ArgLen /\ at + l + 1 <= N
        /\ line[at + l + 1] = Quote /\ \A k \in 1 .. l : line[at + k] # Quote
    BY <1>4, <1>6, <1>10, <1>12, <1>15, Zenon
  <2>2. QED
    BY <2>1, QuotedArgument
<1>17. SubSeq(line, at + 1, at + l) = y
  <2>1. PICK s \in Nat, e \in Nat : s = at + 1 /\ e = at + l + 1
    OBVIOUS
  <2>2. e \in s .. N + 1 /\ s \in 1 .. N + 1 /\ e - s = l /\ e - 1 = at + l
    BY <1>10, <2>1
  <2>3. PICK u : u = SubSeq(line, s, e - 1)
    OBVIOUS
  <2>4. u \in Seq(Glyphs) /\ Len(u) = l /\ \A k \in 1 .. l : u[k] = line[s + k - 1]
    BY <1>4, <2>2, <2>3, CutOut
  <2>5. ASSUME NEW k \in 1 .. l PROVE u[k] = y[k]
    <3>1. s + k - 1 = at + k
      BY <2>1
    <3>2. QED
      BY <1>11, <2>4, <3>1
  <2>6. u = y
    <3>1. u \in Seq(Glyphs) /\ y \in Seq(Char) /\ Len(u) = l /\ Len(y) = l
      BY <1>1, <1>2, <2>4
    <3>2. QED
      BY <2>5, <3>1, SameElements
  <2>7. QED
    BY <2>1, <2>2, <2>3, <2>6
<1>18. at + l + 2 = p + Len(t) + 1 /\ ~(at > N)
  BY <1>3, <1>4, <1>8, <1>10
<1>19. QED
  <2>1. Skipped(line, p + 1) = at
    BY <1>9, <1>14, Zenon
  <2>2. Argument(line, at).text = y /\ Argument(line, at).to = at + l + 2
    BY <1>16, <1>17
  <2>3. QED
    BY <1>1, <1>4, <1>18, <2>1, <2>2, Zenon DEF Taken

LEMMA WordIsTaken ==
  ASSUME NEW w \in Word, Sayable(w), NEW line, NEW p, Stands(line, p, Typing(w))
  PROVE  Taken(line, p, w)
<1>1. Plain(w) \/ Quoted(w)
  BY DEF Word, Plain, Quoted
<1>2. QED
  BY <1>1, PlainIsTaken, QuotedIsTaken

\* The line of a meaning grows word by word.
Grows(ws, n, upto) ==
  /\ n \in Nat /\ n = Len(ws) /\ upto[0] = <<>>
  /\ \A i \in 1 .. n : upto[i] = upto[i - 1] \o Typing(ws[i])
  /\ \A i \in 0 .. n : upto[i] \in Seq(Glyphs)

LEMMA TypingType ==
  ASSUME NEW w \in Word
  PROVE  \E x, y : \E b \in Nat, l \in Nat :
           /\ Parts(w, x, y, b, l)
           /\ PlainText(Typing(w), y, b, l) \/ QuotedText(Typing(w), y, b, l)
<1>1. PICK x, y : y = w.text /\ y \in Seq(Char) /\ x = w.before /\ x \in Seq(Spaces)
  BY DEF Word
<1>2. PICK b \in Nat, l \in Nat : b = Len(x) /\ l = Len(y)
  BY <1>1
<1>3. Parts(w, x, y, b, l)
  BY <1>1, <1>2 DEF Parts
<1>4. Plain(w) \/ Quoted(w)
  BY DEF Word, Plain, Quoted
<1>5. PlainText(Typing(w), y, b, l) \/ QuotedText(Typing(w), y, b, l)
  BY <1>3, <1>4, PlainTyping, QuotedTyping
<1>6. QED
  BY <1>3, <1>5, Zenon

LEMMA TypingIsText ==
  ASSUME NEW w \in Word
  PROVE  Typing(w) \in Seq(Glyphs)
BY TypingType DEF PlainText, QuotedText

\* The recursive function in LineOf satisfies its defining equation.
LEMMA LineEquation ==
  ASSUME NEW m, NEW ws \in Seq(Word), m.words = ws
  PROVE  \E upto : Grows(ws, Len(ws), upto) /\ LineOf(m) = upto[Len(ws)] \o m.rest
<1>0. PICK N \in Nat : N = Len(ws)
  OBVIOUS
<1> DEFINE Q == Seq(Glyphs)
           D == {0} \cup {k \in Nat : k > N}
           base == [k \in D |-> <<>>]
           next == [k \in Nat \ D |-> k - 1]
           step == [p \in (Nat \ D) \X Q |-> p[2] \o Typing(ws[p[1]])]
<1>1. \A k \in Nat \ D : k \in 1 .. N /\ k - 1 \in Nat /\ k - 1 < k
  OBVIOUS
<1>2. D \in SUBSET Nat /\ base \in [D -> Q]
  <2>1. <<>> \in Q
    BY EmptySeq
  <2> HIDE DEF Q
  <2>2. QED
    BY <2>1
<1>3. next \in [Nat \ D -> Nat] /\ \A k \in Nat \ D : next[k] < k
  <2> HIDE DEF D
  <2>1. QED
    BY <1>1
<1>4. ASSUME NEW k \in 1 .. N, NEW q \in Q PROVE q \o Typing(ws[k]) \in Q
  <2>1. ws[k] \in Word
    BY <1>0
  <2>2. Typing(ws[k]) \in Seq(Glyphs)
    BY <2>1, TypingIsText
  <2>3. QED
    BY <2>2, ConcatFacts
<1>5. step \in [(Nat \ D) \X Q -> Q]
  <2> HIDE DEF D, Q
  <2>1. QED
    BY <1>1, <1>4
<1>6. PICK f \in [Nat -> Q] :
        \A i \in Nat : f[i] = IF i \in D THEN base[i] ELSE step[<<i, f[next[i]]>>]
  <2> HIDE DEF D, base, next, step, Q
  <2>1. StepsDown(Q, D, base, next, step)
    BY <1>2, <1>3, <1>5 DEF StepsDown
  <2>2. QED
    BY <2>1, CourseOfValues, SMTT(30)
<1>7. f[0] = <<>>
  <2>1. 0 \in D /\ base[0] = <<>>
    OBVIOUS
  <2> HIDE DEF D, base, next, step, Q
  <2>2. QED
    BY <1>6, <2>1
<1>8. ASSUME NEW i \in 1 .. N PROVE f[i] = f[i - 1] \o Typing(ws[i])
  <2>1. i \in Nat \ D /\ next[i] = i - 1 /\ i - 1 \in Nat
    OBVIOUS
  <2>2. PICK q \in Q : q = f[i - 1]
    BY <2>1
  <2>3. step[<<i, q>>] = q \o Typing(ws[i])
    <3> HIDE DEF D, Q
    <3>1. QED
      BY <2>1
  <2> HIDE DEF D, base, next, step, Q
  <2>4. f[i] = step[<<i, f[i - 1]>>]
    BY <1>6, <2>1
  <2>5. QED
    BY <2>2, <2>3, <2>4
<1> DEFINE F(a) == [n \in 0 .. Len(m.words) |->
                      IF n = 0 THEN <<>> ELSE a[n - 1] \o Typing(m.words[n])]
           chosen == CHOOSE a : a = F(a)
           g == [n \in 0 .. N |-> f[n]]
<1>9. g = F(g)
  <2>1. F(g) = [n \in 0 .. N |-> IF n = 0 THEN <<>> ELSE g[n - 1] \o Typing(ws[n])]
    BY <1>0
  <2>2. ASSUME NEW n \in 0 .. N
        PROVE  f[n] = IF n = 0 THEN <<>> ELSE g[n - 1] \o Typing(ws[n])
    <3>1. CASE n = 0
      BY <1>7, <3>1
    <3>2. CASE n # 0
      <4>1. n \in 1 .. N /\ n - 1 \in 0 .. N
        BY <3>2
      <4>2. g[n - 1] = f[n - 1]
        BY <4>1
      <4> HIDE DEF g
      <4>3. QED
        BY <1>8, <3>2, <4>1, <4>2
    <3>3. QED
      BY <3>1, <3>2
  <2>3. g = [n \in 0 .. N |-> IF n = 0 THEN <<>> ELSE g[n - 1] \o Typing(ws[n])]
    BY <2>2
  <2> HIDE DEF F, g
  <2>4. QED
    BY <2>1, <2>3
<1>10. chosen = F(chosen)
  BY <1>9, Zenon
<1>11. LineOf(m) = chosen[Len(m.words)] \o m.rest
  BY DEF LineOf
<1> HIDE DEF chosen
<1>12. chosen[0] = <<>> /\ \A i \in 1 .. N : chosen[i] = chosen[i - 1] \o Typing(ws[i])
  <2>1. chosen = [n \in 0 .. N |-> IF n = 0 THEN <<>> ELSE chosen[n - 1] \o Typing(ws[n])]
    BY <1>0, <1>10
  <2>2. PICK h : h = [n \in 0 .. N |-> IF n = 0 THEN <<>> ELSE chosen[n - 1] \o Typing(ws[n])]
    OBVIOUS
  <2>3. chosen = h
    BY <2>1, <2>2
  <2>4. h[0] = <<>>
    BY <2>2
  <2>5. ASSUME NEW i \in 1 .. N PROVE h[i] = chosen[i - 1] \o Typing(ws[i])
    <3>1. i \in 0 .. N /\ ~(i = 0)
      OBVIOUS
    <3>2. h[i] = IF i = 0 THEN <<>> ELSE chosen[i - 1] \o Typing(ws[i])
      BY <2>2, <3>1
    <3>3. QED
      BY <3>1, <3>2
  <2>6. QED
    BY <2>3, <2>4, <2>5
<1>13. \A i \in 0 .. N : chosen[i] \in Seq(Glyphs)
  <2> DEFINE T == {i \in Nat : i <= N => chosen[i] \in Seq(Glyphs)}
  <2>1. 0 \in T
    <3>1. chosen[0] \in Seq(Glyphs)
      BY <1>12, EmptySeq
    <3>2. QED
      BY <3>1
  <2>2. ASSUME NEW n \in T PROVE n + 1 \in T
    <3>1. CASE n + 1 <= N
      <4>1. n + 1 \in 1 .. N /\ (n + 1) - 1 = n /\ n <= N
        BY <3>1
      <4>2. PICK q : q = chosen[n] /\ q \in Q
        BY <4>1
      <4>3. chosen[n + 1] = q \o Typing(ws[n + 1])
        BY <1>12, <4>1, <4>2
      <4> HIDE DEF Q
      <4>4. chosen[n + 1] \in Q
        BY <1>4, <4>1, <4>2, <4>3
      <4>5. QED
        BY <4>4 DEF Q
    <3>2. CASE ~(n + 1 <= N)
      BY <3>2
    <3>3. QED
      BY <3>1, <3>2
  <2>3. T = Nat
    <3>1. T \in SUBSET Nat
      OBVIOUS
    <3> HIDE DEF T
    <3>2. QED
      BY <2>1, <2>2, <3>1, SetInduction
  <2>4. ASSUME NEW i \in 0 .. N PROVE chosen[i] \in Seq(Glyphs)
    <3>1. i \in T /\ i <= N
      <4>1. i \in Nat /\ i <= N
        OBVIOUS
      <4> HIDE DEF T
      <4>2. QED
        BY <2>3, <4>1
    <3>2. QED
      BY <3>1
  <2>5. QED
    BY <2>4
<1>14. Grows(ws, N, chosen)
  BY <1>0, <1>12, <1>13 DEF Grows
<1>15. LineOf(m) = chosen[N] \o m.rest
  BY <1>0, <1>11
<1>16. QED
  BY <1>0, <1>14, <1>15

\* A line that is made of words, and of blanks behind them.
Laid(ws, n, upto, rest, line) ==
  /\ Grows(ws, n, upto) /\ ws \in Seq(Word) /\ rest \in Seq(Spaces) /\ line = upto[n] \o rest
  /\ \A i \in 1 .. n : Sayable(ws[i]) /\ (i > 1 => ws[i].before # <<>>)

\* It starts with a.
StartsWith(line, a) ==
  Len(a) <= Len(line) /\ \A j \in 1 .. Len(a) : line[j] = a[j]

\* It is a with t behind it.
Adds(b, a, t) ==
  /\ a \in Seq(Glyphs) /\ b \in Seq(Glyphs) /\ t \in Seq(Glyphs)
  /\ Len(b) = Len(a) + Len(t)
  /\ \A j \in 1 .. Len(a) : b[j] = a[j]
  /\ \A j \in 1 .. Len(t) : b[Len(a) + j] = t[j]

\* One word more.
LEMMA OneWordMore ==
  ASSUME NEW ws, NEW n, NEW upto, NEW rest, NEW line, Laid(ws, n, upto, rest, line),
         NEW i \in 1 .. n
  PROVE  i - 1 \in 0 .. n /\ ws[i] \in Word /\ Adds(upto[i], upto[i - 1], Typing(ws[i]))
<1>1. n \in Nat /\ n = Len(ws) /\ ws \in Seq(Word)
  BY DEF Laid, Grows
<1>2. i - 1 \in 0 .. n /\ ws[i] \in Word
  BY <1>1
<1>3. PICK a, t : a = upto[i - 1] /\ t = Typing(ws[i])
  OBVIOUS
<1>4. a \in Seq(Glyphs) /\ t \in Seq(Glyphs)
  <2>1. a \in Seq(Glyphs)
    BY <1>2, <1>3 DEF Laid, Grows
  <2>2. t \in Seq(Glyphs)
    BY <1>2, <1>3, TypingIsText
  <2>3. QED
    BY <2>1, <2>2
<1>5. upto[i] = a \o t
  BY <1>3 DEF Laid, Grows
<1>6. /\ a \o t \in Seq(Glyphs) /\ Len(a \o t) = Len(a) + Len(t)
      /\ \A j \in 1 .. Len(a) : (a \o t)[j] = a[j]
      /\ \A j \in 1 .. Len(t) : (a \o t)[Len(a) + j] = t[j]
  BY <1>4, ConcatFacts
<1>7. QED
  <2>1. Adds(a \o t, a, t)
    BY <1>4, <1>6 DEF Adds
  <2>2. QED
    BY <1>2, <1>3, <1>5, <2>1

LEMMA LaidIsText ==
  ASSUME NEW ws, NEW n, NEW upto, NEW rest, NEW line, Laid(ws, n, upto, rest, line)
  PROVE  /\ n \in Nat /\ line \in Seq(Glyphs) /\ StartsWith(line, upto[n])
         /\ \A j \in Len(upto[n]) + 1 .. Len(line) : line[j] \in Spaces
<1>1. n \in Nat /\ rest \in Seq(Spaces)
  BY DEF Laid, Grows
<1>2. PICK a : a = upto[n] /\ a \in Seq(Glyphs)
  <2>1. n \in 0 .. n
    BY <1>1
  <2>2. QED
    BY <2>1 DEF Laid, Grows
<1>3. rest \in Seq(Glyphs) /\ \A j \in 1 .. Len(rest) : rest[j] \in Spaces
  <2>1. \A j \in 1 .. Len(rest) : rest[j] \in Spaces
    BY <1>1
  <2>2. rest \in Seq(Glyphs)
    BY <1>1 DEF Glyphs
  <2>3. QED
    BY <2>1, <2>2
<1>4. line = a \o rest
  BY <1>2 DEF Laid
<1>5. /\ a \o rest \in Seq(Glyphs) /\ Len(a \o rest) = Len(a) + Len(rest)
      /\ \A j \in 1 .. Len(a) : (a \o rest)[j] = a[j]
      /\ \A j \in 1 .. Len(rest) : (a \o rest)[Len(a) + j] = rest[j]
  BY <1>2, <1>3, ConcatFacts
<1>6. PICK p \in Nat, r \in Nat : p = Len(a) /\ r = Len(rest)
  BY <1>2, <1>3
<1>7. /\ line \in Seq(Glyphs) /\ Len(line) = p + r
      /\ \A j \in 1 .. p : line[j] = a[j]
      /\ \A j \in 1 .. r : line[p + j] = rest[j]
  BY <1>4, <1>5, <1>6
<1>8. StartsWith(line, a)
  BY <1>6, <1>7 DEF StartsWith
<1>9. ASSUME NEW j \in p + 1 .. p + r PROVE line[j] \in Spaces
  <2>1. j - p \in 1 .. r /\ p + (j - p) = j
    OBVIOUS
  <2>2. line[p + (j - p)] = rest[j - p] /\ rest[j - p] \in Spaces
    BY <1>3, <1>6, <1>7, <2>1
  <2>3. QED
    BY <2>1, <2>2
<1>10. QED
  BY <1>1, <1>2, <1>6, <1>7, <1>8, <1>9

LEMMA LaidStartsWith ==
  ASSUME NEW ws, NEW n, NEW upto, NEW rest, NEW line, Laid(ws, n, upto, rest, line)
  PROVE  \A i \in 0 .. n : StartsWith(line, upto[i])
<1>0. n \in Nat /\ line \in Seq(Glyphs)
  BY LaidIsText
<1>1. PICK L \in Nat : L = n + 1
  BY <1>0
<1> DEFINE S == {k \in 1 .. L : StartsWith(line, upto[k - 1])}
<1>2. ASSUME NEW i \in 1 .. L, \A j \in i + 1 .. L : j \in S
      PROVE  i \in S
  <2>1. CASE i = L
    <3>1. L - 1 = n
      BY <1>0, <1>1
    <3>2. QED
      BY <2>1, <3>1, LaidIsText
  <2>2. CASE i # L
    <3>1. i \in 1 .. n /\ i + 1 \in i + 1 .. L /\ (i + 1) - 1 = i
      BY <1>0, <1>1, <2>2
    <3>2. i + 1 \in S
      BY <1>2, <3>1
    <3>3. StartsWith(line, upto[i])
      BY <3>1, <3>2
    <3>4. PICK a, b : a = upto[i - 1] /\ b = upto[i]
      OBVIOUS
    <3>5. PICK t : t = Typing(ws[i])
      OBVIOUS
    <3>6. /\ a \in Seq(Glyphs) /\ b \in Seq(Glyphs) /\ t \in Seq(Glyphs)
          /\ Len(b) = Len(a) + Len(t) /\ \A j \in 1 .. Len(a) : b[j] = a[j]
      <4>1. Adds(b, a, t)
        BY <3>1, <3>4, <3>5, OneWordMore
      <4>2. QED
        BY <4>1 DEF Adds
    <3>7. Len(b) <= Len(line) /\ \A j \in 1 .. Len(b) : line[j] = b[j]
      BY <3>3, <3>4 DEF StartsWith
    <3>8. PICK x \in Nat, y \in Nat, z \in Nat : x = Len(a) /\ y = Len(b) /\ z = Len(line)
      BY <1>0, <3>6
    <3>9. x <= y /\ y <= z
      <4>1. PICK v \in Nat : v = Len(t)
        BY <3>6
      <4>2. y = x + v
        BY <3>6, <3>8, <4>1
      <4>3. QED
        BY <3>7, <3>8, <4>2
    <3>10. \A j \in 1 .. x : j \in 1 .. y
      BY <3>9
    <3>11. StartsWith(line, a)
      BY <3>6, <3>7, <3>8, <3>9, <3>10 DEF StartsWith
    <3>12. QED
      BY <3>4, <3>11
  <2>3. QED
    BY <2>1, <2>2
<1>3. S = 1 .. L
  <2>1. S \in SUBSET (1 .. L)
    OBVIOUS
  <2> HIDE DEF S
  <2>2. QED
    BY <1>2, <2>1, FromTheEnd
<1>4. ASSUME NEW i \in 0 .. n PROVE StartsWith(line, upto[i])
  <2>1. i + 1 \in 1 .. L /\ (i + 1) - 1 = i
    BY <1>0, <1>1
  <2>2. i + 1 \in S
    <3> HIDE DEF S
    <3>1. QED
      BY <1>3, <2>1
  <2>3. StartsWith(line, upto[(i + 1) - 1])
    BY <2>2
  <2>4. QED
    BY <2>1, <2>3
<1>5. QED
  BY <1>4

\* Every word stands where those before it end.
LEMMA WordsStand ==
  ASSUME NEW ws, NEW n, NEW upto, NEW rest, NEW line, Laid(ws, n, upto, rest, line),
         NEW i \in 1 .. n
  PROVE  Stands(line, Len(upto[i - 1]), Typing(ws[i]))
<1>0. n \in Nat /\ line \in Seq(Glyphs)
  BY LaidIsText
<1>1. PICK a, b : a = upto[i - 1] /\ b = upto[i]
  OBVIOUS
<1>2. PICK t : t = Typing(ws[i])
  OBVIOUS
<1>3. /\ a \in Seq(Glyphs) /\ b \in Seq(Glyphs) /\ t \in Seq(Glyphs)
      /\ Len(b) = Len(a) + Len(t)
      /\ \A j \in 1 .. Len(t) : b[Len(a) + j] = t[j]
  <2>1. Adds(b, a, t)
    BY <1>1, <1>2, OneWordMore
  <2>2. QED
    BY <2>1 DEF Adds
<1>4. PICK x \in Nat, v \in Nat, z \in Nat : x = Len(a) /\ v = Len(t) /\ z = Len(line)
  BY <1>0, <1>3
<1>5. x + v <= z /\ \A j \in 1 .. x + v : line[j] = b[j]
  <2>1. StartsWith(line, b)
    BY <1>0, <1>1, LaidStartsWith
  <2>2. Len(b) = x + v
    BY <1>3, <1>4
  <2>3. QED
    BY <1>4, <2>1, <2>2 DEF StartsWith
<1>6. ASSUME NEW j \in 1 .. v PROVE line[x + j] = t[j]
  <2>1. x + j \in 1 .. x + v
    OBVIOUS
  <2>2. QED
    BY <1>3, <1>4, <1>5, <2>1
<1>7. ASSUME x + v < z PROVE line[x + v + 1] \in Spaces
  <2>1. CASE i = n
    <3>1. \A j \in Len(b) + 1 .. z : line[j] \in Spaces
      BY <1>1, <1>4, <2>1, LaidIsText
    <3>2. Len(b) = x + v
      BY <1>3, <1>4
    <3>3. x + v + 1 \in x + v + 1 .. z
      BY <1>7
    <3>4. QED
      BY <3>1, <3>2, <3>3
  <2>2. CASE i # n
    <3>1. PICK k \in 1 .. n : k = i + 1 /\ k > 1 /\ k - 1 = i
      BY <1>0, <2>2
    <3>2. PICK c, u : c = upto[k] /\ u = Typing(ws[k])
      OBVIOUS
    <3>3. /\ c \in Seq(Glyphs) /\ u \in Seq(Glyphs) /\ ws[k] \in Word
          /\ Len(c) = Len(b) + Len(u)
          /\ \A j \in 1 .. Len(u) : c[Len(b) + j] = u[j]
      <4>1. ws[k] \in Word /\ Adds(c, b, u)
        BY <1>1, <3>1, <3>2, OneWordMore
      <4>2. QED
        BY <4>1 DEF Adds
    <3>4. ws[k].before # <<>>
      BY <3>1 DEF Laid
    <3>5. Len(u) > 0 /\ u[1] \in Spaces
      <4>1. PICK d, y : \E e \in Nat, l \in Nat :
              /\ Parts(ws[k], d, y, e, l)
              /\ PlainText(u, y, e, l) \/ QuotedText(u, y, e, l)
        BY <3>2, <3>3, TypingType
      <4>2. PICK e \in Nat, l \in Nat :
              /\ Parts(ws[k], d, y, e, l)
              /\ PlainText(u, y, e, l) \/ QuotedText(u, y, e, l)
        BY <4>1
      <4>3. e > 0
        <5>1. d \in Seq(Spaces) /\ d # <<>> /\ e = Len(d)
          BY <3>4, <4>2 DEF Parts
        <5>2. QED
          BY <5>1, EmptySeq
      <4>4. Len(u) >= e /\ \A j \in 1 .. e : u[j] \in Spaces
        BY <4>2 DEF PlainText, QuotedText
      <4>5. 1 \in 1 .. e
        BY <4>3
      <4>6. QED
        BY <3>3, <4>3, <4>4, <4>5
    <3>6. PICK q \in Nat : q = Len(u) /\ q > 0
      BY <3>3, <3>5
    <3>7. Len(b) = x + v /\ Len(c) = x + v + q
      BY <1>3, <1>4, <3>3, <3>6
    <3>8. \A j \in 1 .. x + v + q : line[j] = c[j]
      <4>1. StartsWith(line, c)
        BY <1>0, <3>1, <3>2, LaidStartsWith
      <4>2. QED
        BY <3>7, <4>1 DEF StartsWith
    <3>9. 1 \in 1 .. q /\ x + v + 1 \in 1 .. x + v + q
      BY <3>6
    <3>10. c[x + v + 1] = u[1]
      BY <3>3, <3>6, <3>7, <3>9
    <3>11. QED
      BY <3>5, <3>8, <3>9, <3>10
  <2>3. QED
    BY <2>1, <2>2
<1>8. Stands(line, x, t)
  BY <1>0, <1>4, <1>5, <1>6, <1>7 DEF Stands
<1>9. QED
  BY <1>1, <1>2, <1>4, <1>8

\* The texts of the words from the i-th on.
TextsFrom(q, ws, n, i) ==
  /\ q \in Seq(Seq(Char)) /\ Len(q) = n - i + 1
  /\ \A k \in 1 .. n - i + 1 : q[k] = ws[i + k - 1].text

LEMMA NoWordLeft ==
  ASSUME NEW ws, NEW n, NEW upto, NEW rest, NEW line, Laid(ws, n, upto, rest, line),
         NEW from, Splits(line, from)
  PROVE  from[Len(upto[n]) + 1] = <<>>
<1>1. PICK N \in Nat : N = Len(line) /\ line \in Seq(Glyphs)
  BY LaidIsText
<1>2. PICK p \in Nat : p = Len(upto[n]) /\ p <= N
  <2>1. n \in 0 .. n
    BY LaidIsText
  <2>2. upto[n] \in Seq(Glyphs)
    BY <2>1 DEF Laid, Grows
  <2>3. PICK a : a = upto[n] /\ a \in Seq(Glyphs)
    BY <2>2
  <2>4. Len(a) <= N
    BY <1>1, <2>3, LaidIsText DEF StartsWith
  <2>5. Len(a) \in Nat
    BY <2>3
  <2>6. QED
    BY <2>3, <2>4, <2>5
<1>3. \A j \in p + 1 .. N : line[j] \in Spaces
  BY <1>1, <1>2, LaidIsText
<1>4. PICK i \in Nat, e \in Nat : i = p + 1 /\ e = N + 1
  BY <1>2
<1>5. i \in 1 .. N + 1 /\ e \in i .. N + 1 /\ e > N
  BY <1>2, <1>4
<1>6. \A j \in i .. e - 1 : line[j] \in Spaces
  BY <1>3, <1>4
<1>7. Skipped(line, i) = e
  BY <1>1, <1>5, <1>6, SkippedFacts
<1>8. Skipped(line, i) > Len(line)
  BY <1>1, <1>5, <1>7
<1>9. from[i] = <<>>
  BY <1>1, <1>5, <1>8 DEF Splits
<1>10. QED
  BY <1>2, <1>4, <1>9

LEMMA NextWord ==
  ASSUME NEW ws, NEW n, NEW upto, NEW rest, NEW line, Laid(ws, n, upto, rest, line),
         NEW from, Splits(line, from), NEW i \in 1 .. n
  PROVE  from[Len(upto[i - 1]) + 1] = <<ws[i].text>> \o from[Len(upto[i]) + 1]
<1>1. PICK a, b : a = upto[i - 1] /\ b = upto[i]
  OBVIOUS
<1>2. PICK t : t = Typing(ws[i])
  OBVIOUS
<1>3. ws[i] \in Word /\ a \in Seq(Glyphs) /\ t \in Seq(Glyphs) /\ Len(b) = Len(a) + Len(t)
  <2>1. ws[i] \in Word /\ Adds(b, a, t)
    BY <1>1, <1>2, OneWordMore
  <2>2. QED
    BY <2>1 DEF Adds
<1>4. PICK p \in Nat, v \in Nat : p = Len(a) /\ v = Len(t) /\ Len(b) = p + v
  BY <1>3
<1>5. PICK N \in Nat : N = Len(line)
  <2>1. line \in Seq(Glyphs)
    BY LaidIsText
  <2>2. QED
    BY <2>1
<1>6. Stands(line, p, t)
  BY <1>1, <1>2, <1>4, WordsStand
<1>7. Taken(line, p, ws[i])
  <2>1. Sayable(ws[i])
    BY DEF Laid
  <2>2. Stands(line, p, Typing(ws[i]))
    BY <1>2, <1>6
  <2>3. QED
    BY <1>3, <2>1, <2>2, WordIsTaken
<1>8. PICK at : at = Skipped(line, p + 1)
  OBVIOUS
<1>9. ~(at > Len(line)) /\ Argument(line, at).text = ws[i].text
      /\ Argument(line, at).to = p + v + 1
  BY <1>2, <1>4, <1>7, <1>8, Zenon DEF Taken
<1>10. p + 1 \in 1 .. N + 1
  <2>1. p + v <= N
    BY <1>4, <1>5, <1>6 DEF Stands
  <2>2. QED
    BY <2>1
<1>11. from[p + 1] = <<Argument(line, at).text>> \o from[Argument(line, at).to]
  <2>1. from[p + 1] = IF Skipped(line, p + 1) > Len(line) THEN <<>>
                      ELSE <<Argument(line, Skipped(line, p + 1)).text>>
                             \o from[Argument(line, Skipped(line, p + 1)).to]
    BY <1>5, <1>10 DEF Splits
  <2>2. QED
    BY <1>8, <1>9, <2>1, Zenon
<1>12. QED
  BY <1>1, <1>4, <1>9, <1>11, Zenon

LEMMA AllTexts ==
  ASSUME NEW ws, NEW n, NEW upto, NEW rest, NEW line, Laid(ws, n, upto, rest, line),
         NEW from, Splits(line, from)
  PROVE  TextsFrom(from[1], ws, n, 1)
<1>0. n \in Nat /\ upto[0] = <<>> /\ n = Len(ws)
  BY DEF Laid, Grows
<1>1. PICK L \in Nat : L = n + 1
  BY <1>0
<1> DEFINE S == {i \in 1 .. L : TextsFrom(from[Len(upto[i - 1]) + 1], ws, n, i)}
<1>2. ASSUME NEW i \in 1 .. L, \A j \in i + 1 .. L : j \in S
      PROVE  i \in S
  <2>1. CASE i = L
    <3>1. i - 1 = n /\ n - i + 1 = 0
      BY <1>0, <1>1, <2>1
    <3>2. from[Len(upto[i - 1]) + 1] = <<>>
      BY <3>1, NoWordLeft
    <3>3. PICK q : q = <<>>
      OBVIOUS
    <3>4. q \in Seq(Seq(Char)) /\ Len(q) = 0
      BY <3>3, EmptySeq
    <3>5. TextsFrom(q, ws, n, i)
      BY <3>1, <3>4 DEF TextsFrom
    <3>6. QED
      BY <3>2, <3>3, <3>5
  <2>2. CASE i # L
    <3>1. i \in 1 .. n /\ i + 1 \in i + 1 .. L /\ (i + 1) - 1 = i
      BY <1>0, <1>1, <2>2
    <3>2. i + 1 \in S
      BY <1>2, <3>1
    <3>3. PICK q : q = from[Len(upto[i]) + 1]
      OBVIOUS
    <3>4. PICK d \in Nat : d = n - i
      <4>1. n \in Nat /\ i \in Nat /\ i <= n
        BY <1>0, <3>1
      <4>2. n - i \in Nat
        BY <4>1
      <4>3. QED
        BY <4>2
    <3>5. q \in Seq(Seq(Char)) /\ Len(q) = d /\ \A k \in 1 .. d : q[k] = ws[i + k].text
      <4>1. PICK h : h = i + 1 /\ h \in S
        BY <3>2
      <4>2. TextsFrom(from[Len(upto[h - 1]) + 1], ws, n, h)
        BY <4>1
      <4>3. h - 1 = i /\ n - h + 1 = d
        BY <1>0, <3>4, <4>1
      <4>4. TextsFrom(q, ws, n, h)
        BY <3>3, <4>2, <4>3
      <4>5. q \in Seq(Seq(Char)) /\ Len(q) = d /\ \A k \in 1 .. d : q[k] = ws[h + k - 1].text
        BY <4>3, <4>4 DEF TextsFrom
      <4>6. \A k \in 1 .. d : h + k - 1 = i + k
        BY <4>1
      <4>7. QED
        BY <4>5, <4>6
    <3>6. PICK y : y = ws[i].text
      OBVIOUS
    <3>7. y \in Seq(Char)
      <4>1. ws[i] \in Word
        BY <3>1, OneWordMore
      <4>2. QED
        BY <3>6, <4>1 DEF Word
    <3>8. PICK o : o = <<y>>
      OBVIOUS
    <3>9. o \in Seq(Seq(Char)) /\ Len(o) = 1 /\ o[1] = y
      <4>1. Len(o) = 1 /\ o[1] = y
        BY <3>8
      <4> HIDE <3>7
      <4>2. PICK Q : Q = Seq(Char)
        OBVIOUS
      <4>3. y \in Q
        BY <3>7, <4>2
      <4>4. o \in Seq(Q)
        BY <3>8, <4>3
      <4>5. QED
        BY <4>1, <4>2, <4>4
    <3>10. /\ o \o q \in Seq(Seq(Char)) /\ Len(o \o q) = Len(o) + Len(q)
           /\ \A j \in 1 .. Len(o) : (o \o q)[j] = o[j]
           /\ \A j \in 1 .. Len(q) : (o \o q)[Len(o) + j] = q[j]
      <4>1. o \in Seq(Seq(Char)) /\ q \in Seq(Seq(Char))
        BY <3>5, <3>9
      <4>2. QED
        BY <4>1, ConcatFacts
    <3>11. PICK r : r = o \o q
      OBVIOUS
    <3>12. from[Len(upto[i - 1]) + 1] = r
      BY <3>1, <3>3, <3>6, <3>8, <3>11, NextWord
    <3>13. r \in Seq(Seq(Char)) /\ Len(r) = 1 + d /\ r[1] = y
           /\ \A k \in 1 .. d : r[1 + k] = q[k]
      <4>1. 1 \in 1 .. Len(o) /\ Len(o) + Len(q) = 1 + d
        BY <3>5, <3>9
      <4>2. QED
        BY <3>5, <3>9, <3>10, <3>11, <4>1
    <3>14. ASSUME NEW k \in 1 .. 1 + d PROVE r[k] = ws[i + k - 1].text
      <4>1. CASE k = 1
        <5>1. i + k - 1 = i
          BY <4>1
        <5>2. QED
          BY <3>6, <3>13, <4>1, <5>1
      <4>2. CASE k # 1
        <5>1. PICK g \in 1 .. d : g = k - 1 /\ 1 + g = k /\ i + g = i + k - 1
          BY <4>2
        <5>2. r[1 + g] = q[g] /\ q[g] = ws[i + g].text
          BY <3>5, <3>13
        <5>3. QED
          BY <5>1, <5>2
      <4>3. QED
        BY <4>1, <4>2
    <3>15. TextsFrom(r, ws, n, i)
      <4>1. n - i + 1 = 1 + d
        BY <1>0, <3>4
      <4>2. QED
        BY <3>13, <3>14, <4>1 DEF TextsFrom
    <3>16. QED
      BY <3>12, <3>15
  <2>3. QED
    BY <2>1, <2>2
<1>3. S = 1 .. L
  <2>1. S \in SUBSET (1 .. L)
    OBVIOUS
  <2> HIDE DEF S
  <2>2. QED
    BY <1>2, <2>1, FromTheEnd
<1>4. 1 \in S
  <2>1. 1 \in 1 .. L
    BY <1>0, <1>1
  <2> HIDE DEF S
  <2>2. QED
    BY <1>3, <2>1
<1>5. PICK i : i = 1 /\ i \in S
  BY <1>4
<1>6. TextsFrom(from[Len(upto[i - 1]) + 1], ws, n, i)
  BY <1>5
<1>7. i - 1 = 0 /\ Len(<<>>) + 1 = 1
  BY <1>5, EmptySeq
<1>8. QED
  BY <1>0, <1>5, <1>6, <1>7

\* What split_args makes of a line is what is meant by it.
LEMMA LineIsUnderstood ==
  ASSUME NEW m \in Meanings
  PROVE  Args(LineOf(m)) = Meant(m)
<1>1. PICK ws, rest : m.words = ws /\ m.rest = rest
  OBVIOUS
<1>2. /\ ws \in Seq(Word) /\ rest \in Seq(Spaces)
      /\ \A i \in DOMAIN ws : Sayable(ws[i]) /\ (i > 1 => ws[i].before # <<>>)
  BY <1>1, MeaningAssumption
<1>3. PICK n \in Nat : n = Len(ws) /\ DOMAIN ws = 1 .. n
  BY <1>2
<1>4. PICK upto : Grows(ws, n, upto) /\ LineOf(m) = upto[n] \o rest
  BY <1>1, <1>2, <1>3, LineEquation
<1>5. PICK line : line = LineOf(m)
  OBVIOUS
<1>6. Laid(ws, n, upto, rest, line)
  BY <1>2, <1>3, <1>4, <1>5 DEF Laid
<1>7. Len(line) \in Nat
  <2>1. line \in Seq(Glyphs)
    BY <1>6, LaidIsText
  <2>2. QED
    BY <2>1
<1>8. PICK from : /\ Splits(line, from)
                  /\ Args(line) = SubSeq(from[1], 1, Min({MaxArgs, Len(from[1])}))
  BY <1>7, ArgsEquation
<1>9. PICK q : q = from[1]
  OBVIOUS
<1>10. q \in Seq(Seq(Char)) /\ Len(q) = n /\ \A k \in 1 .. n : q[k] = ws[k].text
  <2>1. TextsFrom(q, ws, n, 1)
    BY <1>6, <1>8, <1>9, AllTexts
  <2>2. PICK i : i = 1 /\ TextsFrom(q, ws, n, i)
    BY <2>1
  <2>3. n - i + 1 = n /\ \A k \in 1 .. n : i + k - 1 = k
    BY <2>2
  <2>4. QED
    BY <2>2, <2>3 DEF TextsFrom
<1>11. MaxArgs \in Nat
  BY ArgumentLimits
<1>12. PICK M \in 0 .. n : M = Min({MaxArgs, n})
  <2>1. {MaxArgs, n} \in SUBSET Nat
    BY <1>11
  <2>2. Min({MaxArgs, n}) \in {MaxArgs, n} /\ \A y \in {MaxArgs, n} : Min({MaxArgs, n}) <= y
    BY <2>1, MinIsLeast
  <2>3. PICK g : g = Min({MaxArgs, n})
    OBVIOUS
  <2>4. (g = MaxArgs \/ g = n) /\ g <= n
    BY <2>2, <2>3
  <2>5. g \in 0 .. n
    BY <1>11, <2>4
  <2>6. QED
    BY <2>3, <2>5
<1>13. Meant(m) = [k \in 1 .. M |-> ws[k].text]
  <2>1. {Len(m.words), MaxArgs} = {MaxArgs, n}
    BY <1>1, <1>3
  <2>2. Meant(m) = [k \in 1 .. Min({Len(m.words), MaxArgs}) |-> m.words[k].text]
    BY DEF Meant
  <2>3. QED
    BY <1>1, <1>12, <2>1, <2>2, Zenon
<1>14. PICK u : u = SubSeq(q, 1, M)
  OBVIOUS
<1>15. u \in Seq(Seq(Char)) /\ Len(u) = M /\ \A k \in 1 .. M : u[k] = q[k]
  <2>1. PICK i \in Nat, e \in Nat : i = 1 /\ e = M + 1
    OBVIOUS
  <2>2. i \in 1 .. n + 1 /\ e \in i .. n + 1 /\ e - i = M /\ e - 1 = M
        /\ \A k \in 1 .. M : i + k - 1 = k
    BY <2>1
  <2>3. PICK w : w = SubSeq(q, i, e - 1)
    OBVIOUS
  <2>4. /\ w \in Seq(Seq(Char)) /\ Len(w) = e - i
        /\ \A k \in 1 .. e - i : w[k] = q[i + k - 1]
    BY <1>10, <2>2, <2>3, CutOut
  <2>5. w = u
    BY <1>14, <2>1, <2>2, <2>3
  <2>6. QED
    BY <2>2, <2>4, <2>5
<1>16. u = [k \in 1 .. M |-> ws[k].text]
  <2>1. u = [k \in 1 .. M |-> u[k]]
    BY <1>15
  <2>2. \A k \in 1 .. M : k \in 1 .. n
    OBVIOUS
  <2>3. \A k \in 1 .. M : u[k] = ws[k].text
    BY <1>10, <1>15, <2>2
  <2>4. QED
    BY <2>1, <2>3
<1>17. Args(line) = u
  BY <1>8, <1>9, <1>10, <1>12, <1>14, Zenon
<1>18. QED
  BY <1>5, <1>13, <1>16, <1>17

\* Nothing is meant by a line without characters.
LEMMA NothingTyped == Args(<<>>) = <<>>
<1>1. PICK line : line = <<>>
  OBVIOUS
<1>2. Len(line) = 0
  BY <1>1
<1>3. PICK from : /\ Splits(line, from)
                  /\ Args(line) = SubSeq(from[1], 1, Min({MaxArgs, Len(from[1])}))
  <2>1. Len(line) \in Nat
    BY <1>2
  <2>2. QED
    BY <2>1, ArgsEquation
<1>4. PICK i \in Nat : i = 1
  OBVIOUS
<1>5. i \in 1 .. Len(line) + 1
  BY <1>2, <1>4
<1>6. Skipped(line, i) > Len(line)
  BY <1>2, <1>4, <1>5, SkippedFacts
<1>7. from[1] = <<>>
  BY <1>3, <1>4, <1>5, <1>6 DEF Splits
<1>8. PICK z \in Nat : z = Len(<<>>) /\ z = 0
  OBVIOUS
<1>9. Min({MaxArgs, z}) = z
  <2>1. {MaxArgs, z} \in SUBSET Nat /\ z \in {MaxArgs, z} /\ \A j \in {MaxArgs, z} : z <= j
    BY <1>8, ArgumentLimits
  <2>2. QED
    BY <2>1, MinIs
<1>10. SubSeq(<<>>, 1, z) = <<>>
  <2>1. PICK q : q = <<>>
    OBVIOUS
  <2>2. q \in Seq({}) /\ Len(q) = 0
    BY <2>1, EmptySeq
  <2>3. PICK s \in Nat, e \in Nat : s = 1 /\ e = 1
    OBVIOUS
  <2>4. s \in 1 .. Len(q) + 1 /\ e \in s .. Len(q) + 1 /\ e - s = 0 /\ e - 1 = z
    BY <1>8, <2>2, <2>3
  <2>5. PICK u : u = SubSeq(q, s, e - 1)
    OBVIOUS
  <2>6. u \in Seq({}) /\ Len(u) = 0
    BY <2>2, <2>4, <2>5, CutOut
  <2>7. u = <<>>
    BY <2>6, EmptySeq
  <2>8. QED
    BY <2>1, <2>3, <2>4, <2>5, <2>7
<1>11. QED
  BY <1>1, <1>3, <1>7, <1>8, <1>9, <1>10, Zenon

\* Every command speaks of its own words.
LEMMA DispatchNames ==
  ASSUME NEW args, Dispatch(args)
  PROVE  said'.args = args
<1>1. ASSUME NEW message, Says(args, message) PROVE said'.args = args
  BY <1>1 DEF Says, Said
<1>2. ASSUME NEW shown, Shows(args, shown) PROVE said'.args = args
  BY <1>2 DEF Shows, Said
<1>3. ASSUME NEW n, NEW message, Missing(args, n, message) PROVE said'.args = args
  BY <1>1, <1>3 DEF Missing
<1>4. ASSUME NEW yes, NEW no, Tells(args, yes, no) PROVE said'.args = args
  BY <1>1, <1>4 DEF Tells
<1>5. ASSUME NEW kinds, Listed(args, kinds) PROVE said'.args = args
  BY <1>1, <1>2, <1>5 DEF Listed
<1>6. MakeDir(args) \/ NewFile(args) => said'.args = args
  BY <1>3, <1>4 DEF MakeDir, NewFile
<1>7. Write(args) => said'.args = args
  BY <1>1, <1>3, <1>4 DEF Write
<1>8. Erase(args) => said'.args = args
  BY <1>1, <1>3, <1>4 DEF Erase
<1>9. CopyFile(args) \/ MoveNode(args) \/ Change(args) => said'.args = args
  BY <1>3, <1>4 DEF CopyFile, MoveNode, Change
<1>10. ASSUME NEW path, Go(args, path) PROVE said'.args = args
  BY <1>1, <1>10 DEF Go
<1>11. Where(args) => said'.args = args
  BY <1>1, <1>2 DEF Where
<1>12. Show(args) => said'.args = args
  BY <1>1, <1>2, <1>3 DEF Show
<1>13. Disk(args) \/ Other(args) => said'.args = args
  BY <1>1, <1>2 DEF Disk, Other
<1>14. \/ MakeDir(args) \/ NewFile(args) \/ Write(args) \/ Erase(args) \/ CopyFile(args)
       \/ MoveNode(args) \/ Change(args) \/ Where(args) \/ Show(args) \/ Disk(args) \/ Other(args)
       \/ \E kinds : Listed(args, kinds)
       \/ \E message : Missing(args, 2, message)
       \/ \E path : Go(args, path)
  BY DEF Dispatch
<1>15. QED
  BY <1>3, <1>5, <1>6, <1>7, <1>8, <1>9, <1>10, <1>11, <1>12, <1>13, <1>14

\* What is meant by a line, words plain or in quotes with blanks between and behind
\* them, is what its command gets, for every text within the limits of split_args.
THEOREM WordsArrive == CommandSpec => ArgumentsArrive
<1>1. ASSUME CommandNext, NEW h \in Heard, entered' = h.line
      PROVE  said'.args = h.args
  <2>1. PICK m \in Meanings : h = [line |-> LineOf(m), args |-> Meant(m)]
    BY DEF Heard
  <2>2. entered' = LineOf(m) /\ h.args = Args(LineOf(m))
    BY <1>1, <2>1, LineIsUnderstood
  <2>3. CASE \E line \in Typed : Execute(line)
    <3>1. PICK line \in Typed : Execute(line)
      BY <2>3
    <3>2. PICK args : args = Args(line)
      OBVIOUS
    <3>3. Dispatch(args) /\ entered' = line
      BY <3>1, <3>2 DEF Execute, Split
    <3>4. said'.args = args
      BY <3>3, DispatchNames
    <3>5. QED
      BY <2>2, <3>2, <3>3, <3>4, Zenon
  <2>4. CASE Called
    <3>1. entered' = <<>> /\ said'.args = <<>>
      BY <2>4 DEF Called, Silence, Said
    <3>2. QED
      BY <2>2, <3>1, NothingTyped, Zenon
  <2>5. QED
    BY <1>1, <2>3, <2>4 DEF CommandNext
<1> DEFINE A == \A h \in Heard : entered' = h.line => said'.args = h.args
<1>2. [CommandNext]_<<vars, entered, said>> => [A]_<<vars, entered, said>>
  BY <1>1
<1>3. CommandSpec => [][A]_<<vars, entered, said>>
  BY <1>2, PTL DEF CommandSpec
<1>4. QED
  BY <1>3 DEF ArgumentsArrive

----------------------------------------------------------------------------
(* What the commands say.                                                  *)

\* What WordAssumption says of the words of one line.
Spoken(args) ==
  /\ Len(args) >= 2 => PathOf(args[2]) \in PathStrings
  /\ Len(args) >= 3 => PathOf(args[2]) \in PathStrings /\ PathOf(args[3]) \in PathStrings
  /\ Codes(Joined(args, 3)) \in Seq(Bytes \ {0})

\* No file, folder or content is another than before.
Unharmed ==
  /\ cwd' = cwd
  /\ \A i \in Used : i \in Used' /\ nodes'[i] = nodes[i] /\ Content(i)' = Content(i)

\* A step and its message are true together when each claim the message may make is.
LEMMA ClaimsTold ==
  ASSUME NEW args, NEW message, NEW shown, said' = Said(args, message, shown),
         message = "Folder created" => IsDir(Resolve(PathOf(args[2])))',
         message = "File created" => IsFile(Resolve(PathOf(args[2])))',
         message = "Written" /\ (Len(args) >= 3 \/ ok') =>
           (/\ IsFile(Resolve(PathOf(args[2])))
            /\ Content(Resolve(PathOf(args[2]))) = Given(args))',
         message = "Deleted" => Resolve(PathOf(args[2])) \in Used \ Used',
         message = "Copied" => \A p, q : p = PathOf(args[2]) /\ q = PathOf(args[3]) => CopyArrives(p, q),
         message = "Moved" => \A p, q : p = PathOf(args[2]) /\ q = PathOf(args[3]) => MoveArrives(p, q),
         message \in Refusals => Unharmed
  PROVE  TellsTrue
<1>1. said'.args = args /\ said'.message = message
  BY DEF Said
<1>2. SuccessIsTrue'
  BY <1>1 DEF SuccessIsTrue
<1>3. QED
  BY <1>1, <1>2 DEF TellsTrue, Unharmed

\* A message that is none of success or failure claims nothing.
LEMMA NothingClaimed ==
  ASSUME NEW args, NEW message, NEW shown, said' = Said(args, message, shown),
         message \notin {"Folder created", "File created", "Written", "Deleted", "Copied", "Moved"},
         message \notin Refusals
  PROVE  TellsTrue
BY ClaimsTold

\* One of failure claims that nothing is harmed.
LEMMA RefusalTold ==
  ASSUME NEW args, NEW message, NEW shown, said' = Said(args, message, shown),
         message \in Refusals, Unharmed
  PROVE  TellsTrue
<1>1. message \notin {"Folder created", "File created", "Written", "Deleted", "Copied", "Moved"}
  BY DEF Refusals
<1>2. QED
  BY <1>1, ClaimsTold

LEMMA SameUnharmed ==
  ASSUME UNCHANGED <<nodes, data, size, cwd>>
  PROVE  Unharmed
BY DEF Unharmed, Content, Used

\* create_node harms nothing, whether it finds a slot or not.
LEMMA CreationUnharmed ==
  ASSUME Tree, NEW p \in PathStrings, BaseFits(p), NEW dir \in BOOLEAN,
         nodes' = AfterCreate(p, dir), UNCHANGED <<data, cwd>>,
         size' = SizeAfterCreate(p) \/ size' = size
  PROVE  Unharmed
<1>1. ASSUME NEW i \in Used
      PROVE  i \in Used' /\ nodes'[i] = nodes[i] /\ Content(i)' = Content(i)
  <2>1. i \in DOMAIN AfterCreate(p, dir) /\ AfterCreate(p, dir)[i] = nodes[i]
    BY AfterCreateFacts DEF Tree
  <2>2. size'[i] = size[i]
    BY <2>1, SizeCreated
  <2>3. QED
    BY <2>1, <2>2 DEF Used, Content
<1>2. QED
  BY <1>1 DEF Unharmed

\* A call of fs_make_file or fs_make_dir that succeeds leaves a node of the kind asked
\* for where its path leads, whether it is new or was there.
LEMMA MadeIsThere ==
  ASSUME Tree, Tree', NEW p \in PathStrings, NEW dir \in BOOLEAN, Make(p, dir), ok'
  PROVE  (Resolve(p) # None /\ nodes[Resolve(p)].dir = dir)'
<1>1. /\ BaseFits(p) /\ nodes' = AfterCreate(p, dir) /\ cwd' = cwd
      /\ CreateIdx(p, dir) # None
  BY DEF Make
<1>2. CASE Creates(p)
  <2>1. PICK new : new = FreeSlot /\ new = Resolve(p)'
    BY <1>1, <1>2, CreatedIsFound
  <2>2. /\ new \in Slots \ Used
        /\ nodes'[new] = [dir |-> dir, name |-> BaseOf(p), parent |-> Resolve(ParentPath(p))]
    BY <1>1, <1>2, <2>1, CreatedTarget DEF Tree
  <2>3. new # None /\ nodes'[new].dir = dir
    BY <2>2, SlotsAreNats
  <2>4. QED
    BY <2>1, <2>3
<1>3. CASE ~Creates(p)
  <2>1. Resolve(p) # None /\ nodes[Resolve(p)].dir = dir
    BY <1>1, <1>3 DEF CreateIdx
  <2>2. nodes' = nodes
    BY <1>1, <1>3 DEF AfterCreate
  <2>3. Resolve(p)' = Resolve(p)
    BY <1>1, <2>1, <2>2, ResolvedAsBefore
  <2>4. QED
    BY <2>1, <2>2, <2>3
<1>4. QED
  BY <1>2, <1>3

\* A write that succeeds leaves its text where its path leads.
LEMMA WrittenIsThere ==
  ASSUME Tree, Tree', NEW p \in PathStrings, NEW text \in Seq(Bytes \ {0}),
         WriteFile(p, text), ok'
  PROVE  (IsFile(Resolve(p)) /\ Content(Resolve(p)) = text)'
<1>1. PICK d : /\ d = Target(p) /\ d = Resolve(p)' /\ d \in Slots /\ d # None
               /\ ~nodes'[d].dir /\ Len(text) < MaxData
               /\ data' = [data EXCEPT ![d] = Overlay(text, @)]
               /\ size' = [size EXCEPT ![d] = Len(text)]
  BY WrittenIsFound
<1>2. /\ data[d] \in [1 .. MaxData -> Bytes] /\ text \in Seq(Bytes)
      /\ data'[d] = Overlay(text, data[d]) /\ size'[d] = Len(text)
  BY <1>1 DEF Tree, TypeOK
<1>3. Content(d)' = SubSeq(Overlay(text, data[d]), 1, Len(text))
  BY <1>2 DEF Content
<1>4. Content(d)' = text
  BY <1>1, <1>2, <1>3, OverlayReads
<1>5. QED
  BY <1>1, <1>4 DEF IsFile

\* One that fails harms nothing.
LEMMA UnwrittenUnharmed ==
  ASSUME Tree, NEW p \in PathStrings, NEW text, WriteFile(p, text), ~ok'
  PROVE  Unharmed
<1>1. /\ BaseFits(p) /\ nodes' = AfterCreate(p, FALSE)
      /\ data' = data /\ size' = SizeAfterCreate(p) /\ cwd' = cwd
  BY DEF WriteFile
<1>2. QED
  BY <1>1, CreationUnharmed

\* A file that a call writes to is where its path leads afterwards.
LEMMA TargetIsFound ==
  ASSUME Tree, Tree', NEW t \in PathStrings, BaseFits(t),
         nodes' = AfterCreate(t, FALSE), cwd' = cwd, Target(t) # None
  PROVE  Resolve(t)' = Target(t)
<1>1. CASE Creates(t)
  <2>1. Resolve(t)' = FreeSlot
    BY <1>1, CreatedIsFound
  <2>2. QED
    BY <1>1, <2>1, CreatedTarget DEF Tree
<1>2. CASE ~Creates(t)
  <2>1. Resolve(t) # None /\ Target(t) = Resolve(t)
    BY <1>2 DEF Target, CreateIdx
  <2>2. nodes' = nodes
    BY <1>2 DEF AfterCreate
  <2>3. QED
    BY <2>1, <2>2, ResolvedAsBefore
<1>3. QED
  BY <1>1, <1>2

\* A copy that succeeds leaves at its destination a file with the content that its
\* source had, and one that fails harms nothing.
LEMMA CopyTold ==
  ASSUME Tree, Tree', NEW p \in PathStrings, NEW q \in PathStrings, Copy(p, q)
  PROVE  /\ ok' => CopyArrives(p, q)
         /\ ~ok' => Unharmed
<1>1. CASE Fail
  BY <1>1, SameUnharmed DEF Fail
<1>2. CASE IsFile(Resolve(p)) /\ \E t \in CopyTargets(p, q) : CopyTo(Resolve(p), t)
  <2>1. PICK t \in CopyTargets(p, q) : CopyTo(Resolve(p), t)
    BY <1>2
  <2> DEFINE s == Resolve(p)
             d == Target(t)
             fits == d # None /\ ~AfterCreate(t, FALSE)[d].dir
  <2>2. s \in Used /\ s \in Slots /\ t \in PathStrings /\ BaseFits(t)
    BY <1>2, <2>1, CopyTargetFacts DEF Tree, Copy
  <2>3. /\ data' = IF fits THEN [data EXCEPT ![d] = Overlay(Content(s), @)] ELSE data
        /\ size' = IF fits THEN [size EXCEPT ![d] = size[s]] ELSE size
        /\ nodes' = AfterCreate(t, FALSE) /\ cwd' = cwd /\ ok' = fits
    BY <2>1 DEF CopyTo
  <2>4. ASSUME ok'
        PROVE  CopyArrives(p, q)
    <3>1. PICK i : i = d
      OBVIOUS
    <3>2. i \in DOMAIN AfterCreate(t, FALSE) /\ DOMAIN AfterCreate(t, FALSE) \subseteq Slots
      BY <2>2, <2>3, <2>4, <3>1, TargetFacts, AfterCreateFacts DEF Tree
    <3>3. i \in Used' /\ i \in Slots /\ ~nodes'[i].dir
      BY <2>3, <2>4, <3>1, <3>2 DEF Used
    <3>4. Content(s) \in Seq(Bytes) /\ Len(Content(s)) = size[s] /\ size[s] < MaxData
      BY <2>2, ContentLength DEF Tree
    <3>5. /\ data'[i] = Overlay(Content(s), data[i]) /\ size'[i] = size[s]
          /\ data[i] \in [1 .. MaxData -> Bytes]
      BY <2>3, <2>4, <3>1, <3>3 DEF Tree, TypeOK
    <3>6. Content(i)' = SubSeq(Overlay(Content(s), data[i]), 1, Len(Content(s)))
      BY <3>4, <3>5 DEF Content
    <3>7. Content(i)' = Content(s)
      BY <3>4, <3>5, <3>6, OverlayReads
    <3>8. Resolve(t)' = i
      BY <2>2, <2>3, <2>4, <3>1, TargetIsFound
    <3>9. i # None
      BY <3>3, SlotsAreNats
    <3>10. IsFile(Resolve(t))' /\ Content(Resolve(t))' = Content(s)
      BY <3>3, <3>7, <3>8, <3>9 DEF IsFile
    <3>11. QED
      BY <2>1, <3>10 DEF CopyArrives
  <2>5. ASSUME ~ok' PROVE Unharmed
    <3>1. data' = data /\ size' = size
      BY <2>3, <2>5
    <3>2. QED
      BY <2>2, <2>3, <3>1, CreationUnharmed
  <2>6. QED
    BY <2>4, <2>5
<1>3. QED
  BY <1>1, <1>2 DEF Copy

\* A node s hangs in directory e under name b, where the file d was, if there was one.
Rehung(s, e, b, d) ==
  /\ s \in Used \ {Root} /\ e \in Used /\ nodes[e].dir /\ b \in Names /\ d # s
  /\ Used' = Used \ {d}
  /\ d # None => d \in Used /\ ~nodes[d].dir /\ d = ChildOf(e, b)
  /\ \A j \in Used' : j # s => nodes'[j] = nodes[j]
  /\ s \in Used' /\ nodes'[s] = [dir |-> nodes[s].dir, name |-> b, parent |-> e]
  /\ UNCHANGED <<data, size, cwd>>

\* The only entry of its name is the one that child_of finds.
LEMMA OnlyChild ==
  ASSUME Tree', SiblingsDistinct', NEW x, NEW b,
         NEW y \in Used', nodes'[y].parent = x, nodes'[y].name = b
  PROVE  ChildOf(x, b)' = y
<1>1. {j \in Children(x)' : nodes'[j].name = b} = {y}
  BY DEF SiblingsDistinct, Children
<1>2. y \in Nat
  BY SlotsAreNats DEF Tree, TypeOK
<1>3. Min({y}) = y
  BY <1>2, MinIsLeast
<1>4. QED
  BY <1>1, <1>3 DEF ChildOf

\* Every step but those to and from the node that moves goes where it went, the moved
\* node standing for the file it replaces.
LEMMA RehungFollows ==
  ASSUME Tree, Tree', SiblingsDistinct', NEW s, NEW e, NEW b, NEW d, Rehung(s, e, b, d),
         NEW f, f = [x \in Used |-> IF x = d THEN s ELSE x]
  PROVE  Follows(f, {s})
<1>1. f \in [Used -> Used']
  BY DEF Rehung
<1>2. {Dot, DotDot, TooLong} \cap Names = {} /\ Used \subseteq Nat /\ None \notin Used
  BY NameAssumption, SlotsAreNats DEF Tree, TypeOK
<1>3. ASSUME NEW x \in Used \ {s}, NEW t \in Tokens, NEW y, y = StepTo(x, t), y # s, y # None
      PROVE  StepTo(f[x], t)' = f[y]
  <2>0. PICK z : z = f[x]
    OBVIOUS
  <2>1. x # None /\ z # None /\ t # TooLong /\ y \in Used
    <3>1. x # None /\ z # None
      BY <1>1, <1>2, <2>0 DEF Rehung
    <3>2. t # TooLong
      BY <1>3 DEF StepTo
    <3>3. y \in Used
      BY <1>3, StepUsed DEF Tree
    <3>4. QED
      BY <3>1, <3>2, <3>3
  <2>2. CASE t = Dot
    <3>1. y = x /\ StepTo(z, t)' = z
      BY <1>3, <2>1, <2>2 DEF StepTo
    <3>2. QED
      BY <2>0, <3>1
  <2>3. CASE t = DotDot
    <3>1. y = ParentOf(x) /\ StepTo(z, t)' = ParentOf(z)'
      BY <1>3, <2>1, <2>3 DEF StepTo, Dot, DotDot, TooLong
    <3>2. CASE x = d
      <4>1. d \in Children(e) /\ d # None
        BY <1>2, <2>1, <3>2, ChildOfFacts DEF Rehung, Tree
      <4>2. y = e /\ z = s /\ e # d /\ e # None
        BY <1>2, <2>0, <3>1, <3>2, <4>1 DEF ParentOf, Children, Rehung
      <4>3. ParentOf(z)' = e
        BY <4>2 DEF ParentOf, Rehung
      <4>4. QED
        BY <2>0, <2>1, <3>1, <4>2, <4>3
    <3>3. CASE x # d
      <4>1. z = x /\ x \in Used' /\ nodes'[x] = nodes[x]
        BY <2>0, <3>3 DEF Rehung
      <4>2. ParentOf(z)' = y
        BY <3>1, <4>1 DEF ParentOf
      <4>3. y # d
        BY <1>2, <3>1, <3>3 DEF ParentOf, Tree, TreeShape, Rehung
      <4>4. QED
        BY <2>0, <2>1, <3>1, <4>2, <4>3
    <3>4. QED
      BY <3>2, <3>3
  <2>4. CASE t \notin {Dot, DotDot}
    <3>1. y = ChildOf(x, t) /\ StepTo(z, t)' = ChildOf(z, t)'
      BY <1>3, <2>1, <2>4 DEF StepTo
    <3>2. y \in Used /\ nodes[y].parent = x /\ nodes[y].name = t
      <4>1. PICK found : found = {j \in Children(x) : nodes[j].name = t}
        OBVIOUS
      <4>2. found # {} /\ y = Min(found)
        BY <1>3, <3>1, <4>1 DEF ChildOf
      <4>3. found \in SUBSET Nat
        BY <1>2, <4>1 DEF Children
      <4>4. y \in found
        BY <4>2, <4>3, MinIsLeast
      <4>5. QED
        BY <4>1, <4>4 DEF Children
    <3>3. nodes[x].dir /\ z = x
      <4>1. y # Root
        BY <1>2, <3>2 DEF Tree, TreeShape
      <4>2. nodes[x].dir
        BY <3>2, <4>1 DEF Tree, TreeShape
      <4>3. x # d
        BY <1>2, <4>2 DEF Rehung
      <4>4. QED
        BY <2>0, <4>2, <4>3
    <3>4. CASE y = d
      <4>1. d \in Children(e) /\ nodes[d].name = b
        <5>1. PICK found : found = {j \in Children(e) : nodes[j].name = b}
          OBVIOUS
        <5>2. found # {} /\ d = Min(found)
          BY <1>3, <3>4, <5>1 DEF ChildOf, Rehung
        <5>3. found \in SUBSET Nat
          BY <1>2, <5>1 DEF Children
        <5>4. d \in found
          BY <5>2, <5>3, MinIsLeast
        <5>5. QED
          BY <5>1, <5>4
      <4>2. x = e /\ t = b
        BY <3>2, <3>4, <4>1 DEF Children
      <4>3. ChildOf(z, t)' = s
        <5>1. s \in Used' /\ nodes'[s].parent = z /\ nodes'[s].name = t
          BY <3>3, <4>2 DEF Rehung
        <5>2. QED
          BY <5>1, OnlyChild
      <4>4. QED
        BY <2>0, <2>1, <3>1, <3>4, <4>3
    <3>5. CASE y # d
      <4>1. y \in Used' /\ nodes'[y].parent = z /\ nodes'[y].name = t
        BY <1>3, <3>2, <3>3, <3>5 DEF Rehung
      <4>2. ChildOf(z, t)' = y
        BY <4>1, OnlyChild
      <4>3. QED
        BY <2>0, <2>1, <3>1, <3>5, <4>2
    <3>6. QED
      BY <3>4, <3>5
  <2>5. QED
    BY <2>0, <2>2, <2>3, <2>4
<1>4. QED
  BY <1>1, <1>3 DEF Follows

\* The way to the destination leads to the directory the node is put in, so that the
\* path leads to the node.
LEMMA RehungIsFound ==
  ASSUME Tree, Tree', SiblingsDistinct', NEW s, NEW e, NEW b, NEW d, Rehung(s, e, b, d),
         NEW t \in PathStrings, HasBase(t), b = BaseOf(t), e = Resolve(ParentPath(t)),
         ~Through(t, s)
  PROVE  Resolve(t)' = s
<1>1. PICK f : f = [x \in Used |-> IF x = d THEN s ELSE x]
  OBVIOUS
<1>2. Follows(f, {s})
  BY <1>1, RehungFollows
<1>3. PICK start, way :
        /\ start = Start(t) /\ way = ParentPath(t).toks
        /\ way \in Seq(Tokens) /\ ParentPath(t).abs = t.abs
  <2>1. ParentPath(t) \in PathStrings
    BY ResolveLast DEF Tree
  <2>2. ParentPath(t).toks \in Seq(Tokens) /\ ParentPath(t).abs = t.abs
    BY <2>1 DEF PathStrings, ParentPath
  <2>3. QED
    BY <2>2
<1>4. start \in Used /\ nodes[start].dir /\ start = Start(t)'
  BY <1>3 DEF Start, Tree, TreeShape, Rehung
<1>5. e \in Used /\ f[start] = start /\ f[e] = e /\ e # None
  <2>1. d # None => ~nodes[d].dir
    BY DEF Rehung
  <2>2. e \in Used /\ nodes[e].dir /\ None \notin Used
    BY SlotsAreNats DEF Rehung, Tree, TypeOK
  <2>3. QED
    BY <1>1, <1>4, <2>1, <2>2
<1>6. Walk(start, way)[Len(way)] = e
  BY <1>3 DEF Resolve, Start
<1>7. \A k \in 0 .. Len(way) : Walk(start, way)[k] \notin {s}
  BY <1>3 DEF Through, Start
<1>8. (Walk(start, way)[Len(way)])' = f[Walk(start, way)[Len(way)]]
  <2>1. Walk(start, way)[Len(way)] # None
    BY <1>5, <1>6
  <2>2. QED
    BY <1>2, <1>3, <1>4, <1>5, <1>7, <2>1, WalkFollowed
<1>9. Resolve(ParentPath(t))' = e
  BY <1>3, <1>4, <1>5, <1>6, <1>8 DEF Resolve, Start
<1>10. Resolve(t)' = StepTo(e, b)'
  <2>1. Tree' => LastSteps'
    BY LastStepTaken, PTL
  <2>2. Resolve(t)' = StepTo(Resolve(ParentPath(t)), BaseOf(t))'
    BY <2>1 DEF LastSteps
  <2>3. QED
    BY <1>9, <2>2
<1>11. StepTo(e, b)' = ChildOf(e, b)'
  BY <1>5, NameAssumption DEF StepTo, Rehung
<1>12. ChildOf(e, b)' = s
  <2>1. s \in Used' /\ nodes'[s].parent = e /\ nodes'[s].name = b
    BY DEF Rehung
  <2>2. QED
    BY <2>1, OnlyChild
<1>13. QED
  BY <1>10, <1>11, <1>12

\* A move that succeeds keeps its node and puts it where it is meant to go.
LEMMA MoveTold ==
  ASSUME Tree, Tree', NEW p \in PathStrings, NEW q \in PathStrings, Move(p, q), ok'
  PROVE  MoveArrives(p, q)
<1> SUFFICES ASSUME NEW s, s = Resolve(p), NEW t, t = Destination(s, q),
                    Resolve(q) # s \/ IsDir(s)
             PROVE  /\ s \in Used' /\ nodes'[s].dir = nodes[s].dir /\ Content(s)' = Content(s)
                    /\ SiblingsDistinct' /\ ~Through(t, s) => Resolve(t)' = s
  BY DEF MoveArrives
<1>1. s \in Used \ {Root} /\ nodes[s].name \in Names /\ nodes \in [Used -> Node] /\ BaseFits(q)
  <2>1. s \notin {None, Root} /\ BaseFits(q)
    BY DEF Move, Fail
  <2>2. s \in Used
    BY <2>1, ResolveUsed DEF Tree
  <2>3. QED
    BY <2>1, <2>2 DEF Tree, TypeOK, TreeShape
<1>2. None \notin Used
  BY SlotsAreNats DEF Tree, TypeOK
<1>3. \E e, b, d :
        Rehung(s, e, b, d) /\ t \in PathStrings /\ HasBase(t) /\ b = BaseOf(t) /\ e = Resolve(ParentPath(t))
  <2>1. PICK at : at = Resolve(q) /\ at \in Used \cup {None}
    BY ResolveUsed DEF Tree
  <2>2. CASE IsDir(at)
    <3>1. MoveInto(s, at) /\ at \in Used /\ nodes[at].dir
      BY <1>1, <2>1, <2>2 DEF Move, Fail, IsDir
    <3>2. PICK b, toks : b = nodes[s].name /\ toks = Append(q.toks, b)
      OBVIOUS
    <3>3. /\ q.toks \in Seq(Tokens) /\ b \in Tokens /\ b \in Names
          /\ t = [abs |-> q.abs, toks |-> toks, slash |-> FALSE] /\ q.abs \in BOOLEAN
      BY <1>1, <2>1, <2>2, <3>2 DEF Destination, PathStrings, Tokens
    <3>4. /\ toks \in Seq(Tokens) /\ toks # <<>> /\ toks[Len(toks)] = b
          /\ SubSeq(toks, 1, Len(toks) - 1) = q.toks
      BY <3>2, <3>3
    <3>5. t \in PathStrings /\ HasBase(t) /\ BaseOf(t) = b
      BY <3>3, <3>4 DEF PathStrings, HasBase, BaseOf
    <3>6. ParentPath(t).toks = q.toks /\ ParentPath(t).abs = q.abs
      BY <3>3, <3>4, <3>5 DEF ParentPath
    <3>7. Resolve(ParentPath(t)) = at
      BY <2>1, <3>6 DEF Resolve
    <3>8. Rehung(s, at, b, None)
      <4>1. /\ Used' = Used /\ UNCHANGED <<data, size, cwd>>
            /\ \A j \in Used : j # s => nodes'[j] = nodes[j]
            /\ nodes'[s] = [nodes[s] EXCEPT !.parent = at]
        BY <1>1, <3>1 DEF MoveInto, Used
      <4>2. nodes'[s] = [dir |-> nodes[s].dir, name |-> b, parent |-> at]
        BY <1>1, <3>2, <4>1 DEF Node
      <4>3. QED
        BY <1>1, <1>2, <3>1, <3>3, <4>1, <4>2 DEF Rehung
    <3>9. QED
      BY <3>5, <3>7, <3>8
  <2>3. CASE ~IsDir(at)
    <3>1. PICK e, b : e = Resolve(ParentPath(q)) /\ b = BaseOf(q)
      OBVIOUS
    <3>2. HasBase(q) /\ IsDir(e) /\ MoveOnto(s, at, e, b) /\ t = q
      BY <1>1, <2>1, <2>3, <3>1 DEF Move, Fail, Destination
    <3>3. /\ e \in Used /\ nodes[e].dir /\ e # None /\ b \in Names /\ at = StepTo(e, b)
      <4>1. ParentPath(q) \in PathStrings /\ at = StepTo(e, b)
        BY <2>1, <3>1, <3>2, ResolveLast DEF Tree
      <4>2. e \in Used /\ nodes[e].dir /\ e # None
        BY <3>1, <3>2, <4>1, ResolveUsed DEF Tree, IsDir
      <4>3. b \in Names
        BY <1>1, <2>1, <2>3, <3>1, <3>2, BaseIsName DEF Tree
      <4>4. QED
        BY <4>1, <4>2, <4>3
    <3>4. at # s
      BY <1>1, <1>2, <2>1, <2>3
    <3>5. at # None => at \in Used /\ ~nodes[at].dir /\ at = ChildOf(e, b)
      <4>1. at = ChildOf(e, b)
        BY <3>3, NameAssumption DEF StepTo
      <4>2. QED
        BY <2>1, <2>3, <4>1 DEF IsDir
    <3>6. Rehung(s, e, b, at)
      <4>1. /\ Used' = Used \ {at} /\ UNCHANGED <<data, size, cwd>>
            /\ \A j \in Used' : nodes'[j] = IF j = s THEN [nodes[s] EXCEPT !.parent = e, !.name = b]
                                             ELSE nodes[j]
        BY <3>2 DEF MoveOnto, Used
      <4>2. s \in Used'
        BY <1>1, <3>4, <4>1
      <4>3. nodes'[s] = [dir |-> nodes[s].dir, name |-> b, parent |-> e]
        BY <1>1, <4>1, <4>2 DEF Node
      <4>4. QED
        BY <1>1, <3>3, <3>4, <3>5, <4>1, <4>2, <4>3 DEF Rehung
    <3>7. QED
      BY <3>1, <3>2, <3>6
  <2>4. QED
    BY <2>2, <2>3
<1>4. PICK e, b, d :
        Rehung(s, e, b, d) /\ t \in PathStrings /\ HasBase(t) /\ b = BaseOf(t) /\ e = Resolve(ParentPath(t))
  BY <1>3
<1>5. s \in Used' /\ nodes'[s].dir = nodes[s].dir /\ Content(s)' = Content(s)
  BY <1>4 DEF Rehung, Content
<1>6. SiblingsDistinct' /\ ~Through(t, s) => Resolve(t)' = s
  BY <1>4, RehungIsFound
<1>7. QED
  BY <1>5, <1>6

\* A delete that comes back either has freed the node its path led to or changes
\* nothing.
LEMMA DeleteTold ==
  ASSUME Tree, NEW p \in PathStrings, Delete(p), ~hung'
  PROVE  /\ ok' => Resolve(p) \in Used \ Used'
         /\ ~ok' => Unharmed
<1>1. CASE Fail
  BY <1>1, SameUnharmed DEF Fail
<1>2. CASE /\ Resolve(p) \notin {None, Root}
           /\ nodes' = Restrict(nodes, Used \ Freed(Resolve(p))) /\ ok' = TRUE
  <2>1. PICK i : i = Resolve(p)
    OBVIOUS
  <2>2. i \in Used
    BY <1>2, <2>1, ResolveUsed DEF Tree
  <2>3. i \in Freed(i)
    BY <2>2, SubtreeFacts DEF Tree, Freed
  <2>4. Used' = Used \ Freed(i)
    BY <1>2, <2>1 DEF Restrict, Used
  <2>5. QED
    BY <1>2, <2>1, <2>2, <2>3, <2>4
<1>3. QED
  BY <1>1, <1>2 DEF Delete

\* What a command keeps and tells.
Told == Tree' /\ TellsTrue

LEMMA StillTold ==
  ASSUME Tree, UNCHANGED vars, TellsTrue
  PROVE  Told
BY DEF Told, Tree, TypeOK, TreeShape, vars, Used

LEMMA MissingTold ==
  ASSUME Tree, NEW args, NEW n, NEW message, Missing(args, n, message),
         message \in {"Missing file name", "Usage", "Missing name", "Missing folder",
                      "Missing folder name"}
  PROVE  Told
<1>1. TellsTrue
  BY NothingClaimed DEF Missing, Says, Refusals
<1>2. QED
  BY <1>1, StillTold DEF Missing

LEMMA MakeTold ==
  ASSUME Tree, NEW args, Spoken(args), Len(args) >= 2, NEW dir \in BOOLEAN,
         NEW yes, NEW no, Make(PathOf(args[2]), dir), Tells(args, yes, no),
         yes = IF dir THEN "Folder created" ELSE "File created",
         no \in {"Cannot create folder", "Cannot create file"}
  PROVE  Told
<1>1. PICK p \in PathStrings : p = PathOf(args[2])
  BY DEF Spoken
<1>2. Tree'
  BY <1>1, MakeStep DEF Tree
<1>3. CASE ok'
  <2>1. (Resolve(p) # None /\ nodes[Resolve(p)].dir = dir)'
    BY <1>1, <1>2, <1>3, MadeIsThere
  <2>2. said' = Said(args, yes, {})
    BY <1>3 DEF Tells, Says
  <2>3. CASE dir
    <3>1. yes = "Folder created" /\ IsDir(Resolve(p))'
      BY <2>1, <2>3 DEF IsDir
    <3>2. QED
      BY <1>1, <1>2, <2>2, <3>1, ClaimsTold DEF Told, Refusals
  <2>4. CASE ~dir
    <3>1. yes = "File created" /\ IsFile(Resolve(p))'
      BY <2>1, <2>4 DEF IsFile
    <3>2. QED
      BY <1>1, <1>2, <2>2, <3>1, ClaimsTold DEF Told, Refusals
  <2>5. QED
    BY <2>3, <2>4
<1>4. CASE ~ok'
  <2>1. /\ BaseFits(p) /\ nodes' = AfterCreate(p, dir) /\ size' = SizeAfterCreate(p)
        /\ UNCHANGED <<data, cwd>>
    BY <1>1 DEF Make
  <2>2. Unharmed
    BY <2>1, CreationUnharmed
  <2>3. said' = Said(args, no, {}) /\ no \in Refusals
    BY <1>4 DEF Tells, Says, Refusals
  <2>4. QED
    BY <1>2, <2>2, <2>3, RefusalTold DEF Told
<1>5. QED
  BY <1>3, <1>4

LEMMA MakeDirTold ==
  ASSUME Tree, NEW args, Spoken(args), Len(args) >= 2, MakeDir(args)
  PROVE  Told
BY MakeTold DEF MakeDir

LEMMA NewFileTold ==
  ASSUME Tree, NEW args, Spoken(args), NewFile(args)
  PROVE  Told
<1>1. CASE Missing(args, 2, "Missing file name")
  BY <1>1, MissingTold
<1>2. CASE /\ Len(args) >= 2 /\ Make(PathOf(args[2]), FALSE)
           /\ Tells(args, "File created", "Cannot create file")
  BY <1>2, MakeTold
<1>3. QED
  BY <1>1, <1>2 DEF NewFile

LEMMA WriteTold ==
  ASSUME Tree, NEW args, Spoken(args), Write(args)
  PROVE  Told
<1>1. CASE Missing(args, 2, "Usage")
  BY <1>1, MissingTold
<1>2. CASE /\ Len(args) = 2 /\ WriteFile(PathOf(args[2]), <<>>) /\ Says(args, "Written")
  <2>1. PICK p \in PathStrings, text \in Seq(Bytes \ {0}) :
          p = PathOf(args[2]) /\ text = <<>> /\ text = Given(args)
    <3>1. PathOf(args[2]) \in PathStrings /\ <<>> \in Seq(Bytes \ {0})
      BY <1>2 DEF Spoken
    <3>2. Given(args) = <<>>
      BY <1>2 DEF Given
    <3>3. QED
      BY <3>1, <3>2
  <2>2. Tree'
    BY <1>2, <2>1, WriteStep DEF Tree
  <2>3. ok' => (/\ IsFile(Resolve(PathOf(args[2])))
                /\ Content(Resolve(PathOf(args[2]))) = Given(args))'
    BY <1>2, <2>1, <2>2, WrittenIsThere
  <2>4. said' = Said(args, "Written", {}) /\ ~(Len(args) >= 3)
    BY <1>2 DEF Says
  <2>5. TellsTrue
    BY <2>3, <2>4, ClaimsTold DEF Refusals
  <2>6. QED
    BY <2>2, <2>5 DEF Told
<1>3. CASE /\ Len(args) >= 3 /\ WriteFile(PathOf(args[2]), Codes(Joined(args, 3)))
           /\ Tells(args, "Written", "Cannot write")
  <2>1. PICK p \in PathStrings, text \in Seq(Bytes \ {0}) :
          p = PathOf(args[2]) /\ text = Codes(Joined(args, 3)) /\ text = Given(args)
    BY <1>3 DEF Spoken, Given
  <2>2. Tree'
    BY <1>3, <2>1, WriteStep DEF Tree
  <2>3. CASE ok'
    <3>1. (IsFile(Resolve(p)) /\ Content(Resolve(p)) = text)'
      BY <1>3, <2>1, <2>2, <2>3, WrittenIsThere
    <3>2. said' = Said(args, "Written", {})
      BY <1>3, <2>3 DEF Tells, Says
    <3>3. (/\ IsFile(Resolve(PathOf(args[2])))
           /\ Content(Resolve(PathOf(args[2]))) = Given(args))'
      BY <2>1, <3>1
    <3>4. TellsTrue
      BY <3>2, <3>3, ClaimsTold DEF Refusals
    <3>5. QED
      BY <2>2, <3>4 DEF Told
  <2>4. CASE ~ok'
    <3>1. Unharmed
      BY <1>3, <2>1, <2>4, UnwrittenUnharmed
    <3>2. said' = Said(args, "Cannot write", {}) /\ "Cannot write" \in Refusals
      BY <1>3, <2>4 DEF Tells, Says, Refusals
    <3>3. QED
      BY <2>2, <3>1, <3>2, RefusalTold DEF Told
  <2>5. QED
    BY <2>3, <2>4
<1>4. QED
  BY <1>1, <1>2, <1>3 DEF Write

LEMMA EraseTold ==
  ASSUME Tree, NEW args, Spoken(args), Erase(args)
  PROVE  Told
<1>1. CASE Missing(args, 2, "Missing name")
  BY <1>1, MissingTold
<1>2. CASE /\ Len(args) >= 2 /\ Delete(PathOf(args[2]))
           /\ IF hung' THEN Says(args, "") ELSE Tells(args, "Deleted", "Cannot delete")
  <2>1. PICK p \in PathStrings : p = PathOf(args[2])
    BY <1>2 DEF Spoken
  <2>2. Tree'
    BY <1>2, <2>1, DeleteStep DEF Tree
  <2>3. CASE hung'
    <3>1. TellsTrue
      BY <1>2, <2>3, NothingClaimed DEF Says, Refusals
    <3>2. QED
      BY <2>2, <3>1 DEF Told
  <2>4. CASE ~hung' /\ ok'
    <3>1. Resolve(PathOf(args[2])) \in Used \ Used'
      BY <1>2, <2>1, <2>4, DeleteTold
    <3>2. said' = Said(args, "Deleted", {})
      BY <1>2, <2>4 DEF Tells, Says
    <3>3. TellsTrue
      BY <3>1, <3>2, ClaimsTold DEF Refusals
    <3>4. QED
      BY <2>2, <3>3 DEF Told
  <2>5. CASE ~hung' /\ ~ok'
    <3>1. Unharmed
      BY <1>2, <2>1, <2>5, DeleteTold
    <3>2. said' = Said(args, "Cannot delete", {}) /\ "Cannot delete" \in Refusals
      BY <1>2, <2>5 DEF Tells, Says, Refusals
    <3>3. QED
      BY <2>2, <3>1, <3>2, RefusalTold DEF Told
  <2>6. QED
    BY <2>3, <2>4, <2>5
<1>3. QED
  BY <1>1, <1>2 DEF Erase

LEMMA CopyFileTold ==
  ASSUME Tree, NEW args, Spoken(args), CopyFile(args)
  PROVE  Told
<1>1. CASE Missing(args, 3, "Usage")
  BY <1>1, MissingTold
<1>2. CASE /\ Len(args) >= 3 /\ Copy(PathOf(args[2]), PathOf(args[3]))
           /\ Tells(args, "Copied", "Cannot copy")
  <2>1. PICK p \in PathStrings, q \in PathStrings : p = PathOf(args[2]) /\ q = PathOf(args[3])
    BY <1>2 DEF Spoken
  <2>2. Tree'
    BY <1>2, <2>1, CopyStep DEF Tree
  <2>3. CASE ok'
    <3>1. CopyArrives(p, q)
      BY <1>2, <2>1, <2>2, <2>3, CopyTold
    <3>2. said' = Said(args, "Copied", {})
      BY <1>2, <2>3 DEF Tells, Says
    <3>3. TellsTrue
      BY <2>1, <3>1, <3>2, ClaimsTold DEF Refusals
    <3>4. QED
      BY <2>2, <3>3 DEF Told
  <2>4. CASE ~ok'
    <3>1. Unharmed
      BY <1>2, <2>1, <2>2, <2>4, CopyTold
    <3>2. said' = Said(args, "Cannot copy", {}) /\ "Cannot copy" \in Refusals
      BY <1>2, <2>4 DEF Tells, Says, Refusals
    <3>3. QED
      BY <2>2, <3>1, <3>2, RefusalTold DEF Told
  <2>5. QED
    BY <2>3, <2>4
<1>3. QED
  BY <1>1, <1>2 DEF CopyFile

LEMMA MoveNodeTold ==
  ASSUME Tree, NEW args, Spoken(args), MoveNode(args)
  PROVE  Told
<1>1. CASE Missing(args, 3, "Usage")
  BY <1>1, MissingTold
<1>2. CASE /\ Len(args) >= 3 /\ Move(PathOf(args[2]), PathOf(args[3]))
           /\ Tells(args, "Moved", "Cannot move")
  <2>1. PICK p \in PathStrings, q \in PathStrings : p = PathOf(args[2]) /\ q = PathOf(args[3])
    BY <1>2 DEF Spoken
  <2>2. Tree'
    BY <1>2, <2>1, MoveStep DEF Tree
  <2>3. CASE ok'
    <3>1. MoveArrives(p, q)
      BY <1>2, <2>1, <2>2, <2>3, MoveTold
    <3>2. said' = Said(args, "Moved", {})
      BY <1>2, <2>3 DEF Tells, Says
    <3>3. TellsTrue
      BY <2>1, <3>1, <3>2, ClaimsTold DEF Refusals
    <3>4. QED
      BY <2>2, <3>3 DEF Told
  <2>4. CASE ~ok'
    <3>1. Fail
      BY <1>2, <2>1, <2>4 DEF Move, MoveInto, MoveOnto
    <3>2. Unharmed
      BY <3>1, SameUnharmed DEF Fail
    <3>3. said' = Said(args, "Cannot move", {}) /\ "Cannot move" \in Refusals
      BY <1>2, <2>4 DEF Tells, Says, Refusals
    <3>4. QED
      BY <2>2, <3>2, <3>3, RefusalTold DEF Told
  <2>5. QED
    BY <2>3, <2>4
<1>3. QED
  BY <1>1, <1>2 DEF MoveNode

LEMMA ChangeTold ==
  ASSUME Tree, NEW args, Spoken(args), Change(args)
  PROVE  Told
<1>1. CASE Missing(args, 2, "Missing folder")
  BY <1>1, MissingTold
<1>2. CASE /\ Len(args) >= 2 /\ Chdir(PathOf(args[2]))
           /\ Tells(args, "", "Cannot change folder")
  <2>1. PICK p \in PathStrings : p = PathOf(args[2])
    BY <1>2 DEF Spoken
  <2>2. Tree'
    BY <1>2, <2>1, ChdirStep DEF Tree
  <2>3. CASE ok'
    <3>1. TellsTrue
      BY <1>2, <2>3, NothingClaimed DEF Tells, Says, Refusals
    <3>2. QED
      BY <2>2, <3>1 DEF Told
  <2>4. CASE ~ok'
    <3>1. Unharmed
      BY <1>2, <2>4, SameUnharmed DEF Chdir, Fail
    <3>2. said' = Said(args, "Cannot change folder", {}) /\ "Cannot change folder" \in Refusals
      BY <1>2, <2>4 DEF Tells, Says, Refusals
    <3>3. QED
      BY <2>2, <3>1, <3>2, RefusalTold DEF Told
  <2>5. QED
    BY <2>3, <2>4
<1>3. QED
  BY <1>1, <1>2 DEF Change

LEMMA GoTold ==
  ASSUME Tree, NEW args, NEW path \in PathStrings, Go(args, path)
  PROVE  Told
<1>1. Tree'
  BY ChdirStep DEF Go, Tree
<1>2. TellsTrue
  BY NothingClaimed DEF Go, Says, Refusals
<1>3. QED
  BY <1>1, <1>2 DEF Told

\* A command that only shows something.
LEMMA ShownTold ==
  ASSUME NEW args, NEW shown, Shows(args, shown) \/ Says(args, "")
  PROVE  TellsTrue
BY NothingClaimed DEF Shows, Says, Refusals

LEMMA WhereTold ==
  ASSUME Tree, NEW args, Where(args)
  PROVE  Told
<1>1. Tree'
  BY DEF Where, Cwd, Tree, TypeOK, TreeShape, Used
<1>2. TellsTrue
  BY ShownTold DEF Where
<1>3. QED
  BY <1>1, <1>2 DEF Told

LEMMA ListedTold ==
  ASSUME Tree, NEW args, NEW kinds, Listed(args, kinds)
  PROVE  Told
<1>1. CASE Says(args, "Entries behind the array")
  BY <1>1, NothingClaimed, StillTold DEF Listed, Says, Refusals
<1>2. CASE Shows(args, {i \in Children(cwd) : nodes[i].dir \in kinds})
  BY <1>2, ShownTold, StillTold DEF Listed
<1>3. QED
  BY <1>1, <1>2 DEF Listed

LEMMA ShowTold ==
  ASSUME Tree, NEW args, Show(args)
  PROVE  Told
<1>1. CASE Missing(args, 2, "Missing file name")
  BY <1>1, MissingTold
<1>2. CASE UNCHANGED vars /\ Shows(args, ReadFile(PathOf(args[2]), MaxData + 1))
  BY <1>2, ShownTold, StillTold
<1>3. CASE UNCHANGED vars /\ Says(args, "Cannot read")
  <2>1. Unharmed
    BY <1>3, SameUnharmed DEF vars
  <2>2. TellsTrue
    BY <1>3, <2>1, RefusalTold DEF Says, Refusals
  <2>3. QED
    BY <1>3, <2>2, StillTold
<1>4. QED
  BY <1>1, <1>2, <1>3 DEF Show

LEMMA DiskTold ==
  ASSUME Tree, NEW args, Disk(args) \/ Other(args)
  PROVE  Told
BY ShownTold, StillTold DEF Disk, Other

LEMMA DispatchTold ==
  ASSUME Tree, NEW args, Spoken(args), Dispatch(args)
  PROVE  Told
<1>1. {PathOf(<<".", ".">>), PathOf(<<"/">>)} \subseteq PathStrings
  BY WordAssumption
<1>2. \/ Len(args) >= 2 /\ MakeDir(args)
      \/ Listed(args, {TRUE}) \/ Listed(args, BOOLEAN) \/ Listed(args, {FALSE})
      \/ Missing(args, 2, "Missing folder name")
      \/ NewFile(args) \/ Write(args) \/ Erase(args) \/ CopyFile(args) \/ MoveNode(args)
      \/ Change(args) \/ Go(args, PathOf(<<".", ".">>)) \/ Go(args, PathOf(<<"/">>))
      \/ Where(args) \/ Show(args) \/ Disk(args) \/ Other(args)
  BY DEF Dispatch
<1>3. CASE Listed(args, {TRUE}) \/ Listed(args, BOOLEAN) \/ Listed(args, {FALSE})
  BY <1>3, ListedTold
<1>4. CASE Go(args, PathOf(<<".", ".">>)) \/ Go(args, PathOf(<<"/">>))
  BY <1>1, <1>4, GoTold
<1>5. CASE Missing(args, 2, "Missing folder name")
  BY <1>5, MissingTold
<1>6. QED
  BY <1>2, <1>3, <1>4, <1>5, MakeDirTold, NewFileTold, WriteTold, EraseTold, CopyFileTold,
     MoveNodeTold, ChangeTold, WhereTold, ShowTold, DiskTold

\* The tree is kept by commands and by direct calls alike, and no command tells
\* anything but the truth.
LEMMA CommandTold ==
  ASSUME Tree, [CommandNext]_<<vars, entered, said>>
  PROVE  Tree' /\ [TellsTrue]_<<vars, said>>
<1>1. ASSUME NEW line \in Typed, Execute(line) PROVE Told
  <2>1. PICK args : args = Args(line)
    OBVIOUS
  <2>2. Dispatch(args)
    BY <1>1, <2>1 DEF Execute, Split
  <2>3. Spoken(args)
    BY <2>1, WordAssumption DEF Spoken
  <2>4. QED
    BY <2>2, <2>3, DispatchTold
<1>2. CASE Called
  <2>1. Tree'
    BY <1>2, NextTree DEF Called
  <2>2. TellsTrue
    BY <1>2, NothingClaimed DEF Called, Silence, Refusals
  <2>3. QED
    BY <2>1, <2>2
<1>3. CASE UNCHANGED <<vars, entered, said>>
  BY <1>3, NextTree
<1>4. QED
  BY <1>1, <1>2, <1>3 DEF CommandNext, Told

\* What a command prints of success is so on the disk that it leaves, and what it
\* prints of failure means that nothing there was harmed, for every set of lines,
\* whatever programs do to the disk in between.  Nothing is claimed where the code's
\* message is untrue: of a write without a text that failed, and of a file that was
\* moved onto itself.
THEOREM MessagesTrue == CommandSpec => MessagesAreTrue
<1>1. CommandInit => Tree
  BY InitTree DEF CommandInit
<1>2. Tree /\ [CommandNext]_<<vars, entered, said>> => Tree' /\ [TellsTrue]_<<vars, said>>
  BY CommandTold
<1>3. CommandSpec => [][TellsTrue]_<<vars, said>>
  BY <1>1, <1>2, PTL DEF CommandSpec
<1>4. QED
  BY <1>3 DEF MessagesAreTrue
=============================================================================
