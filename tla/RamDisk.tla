------------------------------ MODULE RamDisk ------------------------------
(***************************************************************************)
(* The in-memory file system of src/drivers/storage/ramdisk.c: a table of  *)
(* MaxNodes slots, each a file or a directory that names its parent slot,  *)
(* a current directory, and the fs_* calls the shell and Yakka make.       *)
(*                                                                         *)
(* nodes is a partial function: its domain is the set of slots whose       *)
(* `used' flag is set.  create_node rewrites every field of a slot it      *)
(* takes, except the data bytes, so a free slot keeps only those.          *)
(***************************************************************************)
EXTENDS Integers, Sequences, FiniteSetsExt

CONSTANTS MaxNodes,     \* slots of the table
          MaxData,      \* bytes of one slot's data array
          Names,        \* entry names a path may use
          Bytes,        \* byte values, NUL among them
          Paths,        \* the path arguments callers pass
          Texts         \* the strings callers write

None    == -1
Root    == 0
Slots   == 0 .. MaxNodes - 1
Dot     == "."
DotDot  == ".."
TooLong == "TooLong"    \* any path component of MAX_NAME bytes or more
Tokens  == Names \cup {Dot, DotDot, TooLong}

\* A path string: leading slash, components, trailing slash.  The empty
\* string is the relative path of no component, "/" the absolute one.
PathStrings == [abs : BOOLEAN, toks : Seq(Tokens), slash : BOOLEAN]

ASSUME SlotAssumption == MaxNodes \in Nat \ {0} /\ MaxData \in Nat \ {0}
ASSUME NameAssumption == {Dot, DotDot, TooLong, "/"} \cap Names = {}
ASSUME ByteAssumption == Bytes \subseteq 0 .. 255 /\ 0 \in Bytes
ASSUME PathAssumption == Paths \subseteq PathStrings
ASSUME TextAssumption == Texts \subseteq Seq(Bytes \ {0})

VARIABLES nodes,        \* used slot -> [dir, name, parent]
          data, size,   \* per slot: the data array, the file size
          cwd,          \* the current directory's slot
          ok,           \* the last call returned a value >= 0
          hung          \* a recursion that does not end has run

vars == <<nodes, data, size, cwd, ok, hung>>

Node == [dir : BOOLEAN, name : Names \cup {"/"}, parent : Slots \cup {None}]

Used == DOMAIN nodes

----------------------------------------------------------------------------
\* Looking things up.

Children(i) == {j \in Used : nodes[j].parent = i}

\* Mutant: the parent is not compared.
AnyOfThatName(i, name) ==
  LET found == {j \in Used : nodes[j].name = name}
  IN  IF found = {} THEN None ELSE Min(found)

ChildOf(i, name) ==
  LET found == {j \in Children(i) : nodes[j].name = name}
  IN  IF found = {} THEN None ELSE Min(found)

ParentOf(i) == IF nodes[i].parent = None THEN i ELSE nodes[i].parent

\* Mutant: "." is looked up like a name.
DotIsAName(cur, tok) ==
  IF cur = None \/ tok = TooLong THEN None
  ELSE IF tok = DotDot THEN ParentOf(cur)
  ELSE ChildOf(cur, tok)

\* One turn of resolve's loop.
StepTo(cur, tok) ==
  IF cur = None \/ tok = TooLong THEN None
  ELSE IF tok = Dot THEN cur
  ELSE IF tok = DotDot THEN ParentOf(cur)
  ELSE ChildOf(cur, tok)

Walk(start, toks) ==
  LET at[k \in 0 .. Len(toks)] ==
        IF k = 0 THEN start ELSE StepTo(at[k - 1], toks[k])
  IN  at

Resolve(p) ==
  Walk(IF p.abs THEN Root ELSE cwd, p.toks)[Len(p.toks)]

IsDir(i)  == i # None /\ nodes[i].dir
IsFile(i) == i # None /\ ~nodes[i].dir

\* split_path.  The base of a path that ends in a slash is empty.
EmptyPath(p)  == ~p.abs /\ p.toks = <<>>
HasBase(p)    == p.toks # <<>> /\ ~p.slash
BaseOf(p)     == p.toks[Len(p.toks)]
ParentPath(p) ==
  IF HasBase(p) THEN [p EXCEPT !.toks = SubSeq(@, 1, Len(@) - 1)] ELSE p

\* kstrcpy into base[MAX_NAME] overflows on a longer base: callers do not
\* pass such a path to a call that splits it.
BaseFits(p) == HasBase(p) => BaseOf(p) # TooLong

\* The nodes delete_node visits below and including i.
Subtree(i) ==
  {j \in Used : \A S \in SUBSET Used :
      i \in S /\ (\A k \in S : Children(k) \subseteq S) => j \in S}

Connected == Subtree(Root)

\* i is its own ancestor: going down from i comes back to i.
OnLoop(i) == nodes[i].parent \in Subtree(i)

----------------------------------------------------------------------------
\* create_node: whether it takes a slot, the slot it returns (or None), and
\* the table it leaves.

\* Mutant: create_node does not look for an existing entry.
CreatesAgain(p) ==
  HasBase(p) /\ IsDir(Resolve(ParentPath(p))) /\ Slots \ Used # {}

Creates(p) ==
  /\ Resolve(p) = None
  /\ HasBase(p)
  /\ IsDir(Resolve(ParentPath(p)))
  /\ Slots \ Used # {}

FreeSlot == Min(Slots \ Used)

CreateIdx(p, dir) ==
  IF Creates(p) THEN FreeSlot
  ELSE IF /\ Resolve(p) # None /\ ~EmptyPath(p)
          /\ nodes[Resolve(p)].dir = dir
       THEN Resolve(p) ELSE None

AfterCreate(p, dir) ==
  IF Creates(p)
  THEN [j \in Used \cup {FreeSlot} |->
          IF j = FreeSlot
          THEN [dir    |-> dir, name |-> BaseOf(p),
                parent |-> Resolve(ParentPath(p))]
          ELSE nodes[j]]
  ELSE nodes

\* The slot a writer works on: the one the path names, or a new file.
Target(p) == IF Resolve(p) # None THEN Resolve(p) ELSE CreateIdx(p, FALSE)

\* Mutants: the size of the slot's last owner stays; an existing file is
\* truncated before the write is known to succeed.
StaleSize(p) == size
Truncated(p) == IF Target(p) # None THEN [size EXCEPT ![Target(p)] = 0] ELSE size

SizeAfterCreate(p) == IF Creates(p) THEN [size EXCEPT ![FreeSlot] = 0] ELSE size

\* Mutant: the array's last byte is not kept for the NUL.
FitsExactly(text) == Len(text) <= MaxData

Fits(text) == Len(text) < MaxData

\* Mutant: the NUL lands on the last byte of the text.
OverlayShort(text, buf) ==
  [j \in 1 .. Len(buf) |-> IF j < Len(text) THEN text[j]
                           ELSE IF j = Len(text) THEN 0 ELSE buf[j]]

\* kmemcpy of text into a data array and the NUL written after it.
Overlay(text, buf) ==
  [j \in 1 .. Len(buf) |-> IF j <= Len(text) THEN text[j]
                           ELSE IF j = Len(text) + 1 THEN 0 ELSE buf[j]]

Content(i) == SubSeq(data[i], 1, size[i])

\* What fs_read_file copies out for a buffer of buflen > 0 bytes.
ReadFile(p, buflen) ==
  SubSeq(data[Resolve(p)], 1, Min({size[Resolve(p)], buflen - 1}))

\* Above[k] is the current directory's k-th ancestor: build_path climbs to the root.
Above[k \in 0 .. MaxNodes] == IF k = 0 THEN cwd ELSE ParentOf(Above[k - 1])
Depth == Min({k \in 0 .. MaxNodes : Above[k] = Root})

\* Mutant: build_path appends the name before it recurses.
PwdPathBackwards ==
  [abs |-> TRUE, slash |-> FALSE, toks |-> [j \in 1 .. Depth |-> nodes[Above[j - 1]].name]]

\* The path from the root that fs_cwd prints.
PwdPath ==
  [abs |-> TRUE, slash |-> FALSE, toks |-> [j \in 1 .. Depth |-> nodes[Above[Depth - j]].name]]

----------------------------------------------------------------------------
Init ==
  /\ nodes = [i \in {Root} |-> [dir |-> TRUE, name |-> "/", parent |-> None]]
  /\ data = [i \in Slots |-> [j \in 1 .. MaxData |-> 0]]
  /\ size = [i \in Slots |-> 0]
  /\ cwd = Root
  /\ ok = TRUE
  /\ hung = FALSE

Fail == ok' = FALSE /\ UNCHANGED <<nodes, data, size, cwd, hung>>

\* fs_make_file and fs_make_dir.
Make(p, dir) ==
  /\ ~hung /\ BaseFits(p)
  /\ nodes' = AfterCreate(p, dir)
  /\ size' = SizeAfterCreate(p)
  /\ ok' = (CreateIdx(p, dir) # None)
  /\ UNCHANGED <<data, cwd, hung>>

\* fs_write_file: a missing file is created before the length is checked.
WriteFile(p, text) ==
  LET i    == Target(p)
      fits == i # None /\ ~AfterCreate(p, FALSE)[i].dir /\ Fits(text)
  IN  /\ ~hung /\ BaseFits(p)
      /\ nodes' = AfterCreate(p, FALSE)
      /\ data' = IF fits THEN [data EXCEPT ![i] = Overlay(text, @)] ELSE data
      /\ size' = IF fits THEN [size EXCEPT ![i] = Len(text)]
                 ELSE SizeAfterCreate(p)
      /\ ok' = fits
      /\ UNCHANGED <<cwd, hung>>

\* The paths fs_copy may write to.  It reads target[-1] when dst is empty, so
\* whether a slash is put before the name is then anyone's guess.
CopyTargets(p, q) ==
  IF IsDir(Resolve(q))
  THEN {[abs |-> a, toks |-> Append(q.toks, nodes[Resolve(p)].name), slash |-> FALSE] :
          a \in IF EmptyPath(q) THEN BOOLEAN ELSE {q.abs}}
  ELSE {q}

\* fs_copy once it has settled on a target path.
CopyTo(s, t) ==
  LET d    == Target(t)
      fits == d # None /\ ~AfterCreate(t, FALSE)[d].dir
  IN  /\ nodes' = AfterCreate(t, FALSE)
      /\ data' = IF fits THEN [data EXCEPT ![d] = Overlay(Content(s), @)] ELSE data
      /\ size' = IF fits THEN [size EXCEPT ![d] = size[s]] ELSE size
      /\ ok' = fits
      /\ UNCHANGED <<cwd, hung>>

Copy(p, q) ==
  /\ ~hung /\ BaseFits(q)
  /\ \/ ~IsFile(Resolve(p)) /\ Fail
     \/ IsFile(Resolve(p)) /\ \E t \in CopyTargets(p, q) : CopyTo(Resolve(p), t)

\* What delete_node frees.  Mutant: only the node it is called for.
FreedAlone(i) == {i}
Freed(i) == Subtree(i)

\* Mutant: the current directory moves only when it is the node deleted.
CwdWithoutTop(i) == IF cwd = i THEN nodes[i].parent ELSE cwd

\* The current directory once delete_node has gone through a subtree.
CwdWithout(i) == IF cwd \in Subtree(i) THEN nodes[i].parent ELSE cwd

\* fs_delete.  On a loop delete_node recurses until the stack is gone.
Delete(p) ==
  LET i == Resolve(p)
  IN  /\ ~hung
      /\ \/ i \in {None, Root} /\ Fail
         \/ /\ i \notin {None, Root} /\ OnLoop(i)
            /\ hung' = TRUE
            /\ UNCHANGED <<nodes, data, size, cwd, ok>>
         \/ /\ i \notin {None, Root} /\ ~OnLoop(i)
            /\ nodes' = Restrict(nodes, Used \ Freed(i))
            /\ cwd' = CwdWithout(i)
            /\ ok' = TRUE
            /\ UNCHANGED <<data, size, hung>>

\* fs_move (and fs_rename, the same call).  Into a directory it only changes
\* the parent; onto a file it first frees that file, which has no children.
MoveInto(s, d) ==
  /\ nodes' = [nodes EXCEPT ![s].parent = d]
  /\ ok' = TRUE
  /\ UNCHANGED <<data, size, cwd, hung>>

MoveOnto(s, d, parent, name) ==
  /\ nodes' = [j \in Used \ {d} |->
                 IF j = s THEN [nodes[s] EXCEPT !.parent = parent, !.name = name]
                 ELSE nodes[j]]
  /\ ok' = TRUE
  /\ UNCHANGED <<data, size, cwd, hung>>

Move(p, q) ==
  LET s == Resolve(p)
      d == Resolve(q)
      parent == Resolve(ParentPath(q))
  IN  /\ ~hung /\ BaseFits(q)
      /\ \/ s \in {None, Root} /\ Fail
         \/ s \notin {None, Root} /\ IsDir(d) /\ MoveInto(s, d)
         \/ /\ s \notin {None, Root} /\ ~IsDir(d)
            /\ ~(HasBase(q) /\ IsDir(parent))
            /\ Fail
         \/ /\ s \notin {None, Root} /\ ~IsDir(d)
            /\ HasBase(q) /\ IsDir(parent)
            /\ MoveOnto(s, d, parent, BaseOf(q))

\* fs_chdir.
Chdir(p) ==
  /\ ~hung
  /\ \/ IsDir(Resolve(p)) /\ cwd' = Resolve(p) /\ ok' = TRUE
        /\ UNCHANGED <<nodes, data, size, hung>>
     \/ ~IsDir(Resolve(p)) /\ Fail

\* fs_cwd.  build_path climbs until the root, which a loop never meets.
Cwd ==
  /\ ~hung
  /\ hung' = (cwd \notin Connected)
  /\ ok' = TRUE
  /\ UNCHANGED <<nodes, data, size, cwd>>

Next ==
  \/ \E p \in Paths, dir \in BOOLEAN : Make(p, dir)
  \/ \E p \in Paths, text \in Texts : WriteFile(p, text)
  \/ \E p, q \in Paths : Copy(p, q)
  \/ \E p, q \in Paths : Move(p, q)
  \/ \E p \in Paths : Delete(p)
  \/ \E p \in Paths : Chdir(p)
  \/ Cwd

Spec == Init /\ [][Next]_vars

----------------------------------------------------------------------------
\* Types.  No node is called "." or "..", because Names holds neither and
\* only the root keeps the name the initialisation gives it.
TypeOK ==
  /\ Used \subseteq Slots
  /\ nodes \in [Used -> Node]
  /\ data \in [Slots -> [1 .. MaxData -> Bytes]]
  /\ size \in [Slots -> 0 .. MaxData - 1]
  /\ cwd \in Slots
  /\ ok \in BOOLEAN
  /\ hung \in BOOLEAN

\* No call leaves a node whose parent slot is free or a file, none makes the
\* current directory a free slot or a file, and none touches the root: the
\* parent chain every other function follows is never dangling, whatever
\* deletes, moves and slot reuse came before.
TreeShape ==
  /\ Root \in Used /\ nodes[Root].dir /\ nodes[Root].parent = None
  /\ \A i \in Used \ {Root} :
       /\ nodes[i].parent \in Used
       /\ nodes[nodes[i].parent].dir
       /\ nodes[i].name \in Names
  /\ cwd \in Used /\ nodes[cwd].dir

\* The table is a tree but for loops, and nothing in it dangles.
TreeSound == TypeOK /\ TreeShape

\* The endless recursions of delete_node and build_path are met only by a
\* session that has moved its own current directory out of the tree: as long
\* as the current directory hangs off the root, every path leads nowhere or
\* to a node that does too.
LoopsOutOfReach ==
  /\ hung => cwd \notin Connected
  /\ cwd \in Connected =>
       \A p \in Paths : Resolve(p) \in Connected \cup {None}

SiblingsDistinct ==
  \A i, j \in Used : i # j /\ nodes[i].parent = nodes[j].parent
                     => nodes[i].name # nodes[j].name

\* What pwd prints leads back to the directory it was printed for, unless a
\* namesake shadows one of the names on the way.
PwdRoundTrip ==
  cwd \in Connected /\ SiblingsDistinct => Resolve(PwdPath) = cwd

----------------------------------------------------------------------------
\* Two entries of one directory get the same name only when fs_move puts a
\* node into a directory that already has an entry of that name.
NamesStayDistinct ==
  [][SiblingsDistinct /\ ~SiblingsDistinct' =>
       \E s \in Used, d \in Used :
         /\ nodes[d].dir /\ nodes'[s].parent = d /\ nodes[s].parent # d
         /\ nodes'[s].name = nodes[s].name
         /\ ChildOf(d, nodes[s].name) # None]_vars

\* A node drops off the tree only when fs_move gives some directory a parent
\* inside that directory's own subtree.
LoopOnlyBySelfMove ==
  [][nodes' # nodes /\ Connected = Used /\ Connected' # Used' =>
       \E i \in Used \cap Used' :
         nodes'[i].parent # nodes[i].parent /\ nodes'[i].parent \in Subtree(i)]_vars

\* A write that reports success is read back whole through the same path,
\* by the buffers the callers have.
ReadBack ==
  [][ok' => \A p \in Paths, text \in Texts :
       WriteFile(p, text) => /\ IsFile(Resolve(p))'
                             /\ ReadFile(p, MaxData + 1)' = text]_vars

\* The content of a file, an empty one when the slot was free before, changes
\* only by a write or a copy that ends at that file: reusing a slot shows no
\* byte of the file that had it, and moves and deletes lose none.
OnlyWritersChangeContent ==
  [][\A i \in Used' :
       ~nodes'[i].dir /\ Content(i)' # (IF i \in Used THEN Content(i) ELSE <<>>)
       => \/ \E p \in Paths, text \in Texts :
               WriteFile(p, text) /\ Target(p) = i /\ Content(i)' = text
          \/ \E p, q \in Paths :
               /\ Copy(p, q) /\ Content(i)' = Content(Resolve(p))
               /\ \E t \in CopyTargets(p, q) : Target(t) = i]_vars

\* A call that reports failure has changed nothing, with one exception: an
\* oversize write to a missing file leaves that file behind, empty.
FailuresChangeNothing ==
  [][~ok' =>
       /\ data' = data /\ cwd' = cwd
       /\ \/ nodes' = nodes /\ size' = size
          \/ \E p \in Paths, text \in Texts :
               /\ Creates(p) /\ Len(text) >= MaxData /\ WriteFile(p, text)
               /\ size'[FreeSlot] = 0]_vars

\* Claim of the shell's rename command ("Usage: rename old new", "Renamed"):
\* a file renamed with success exists under its new name.
RenameKeepsTheFile ==
  [][\A p, q \in Paths :
       IsFile(Resolve(p)) /\ ~EmptyPath(q) /\ Move(p, q) /\ ok'
       => Resolve(q)' # None]_vars
=============================================================================
