------------------------------ MODULE Commands ------------------------------
(***************************************************************************)
(* The commands of the shell, src/terminal/commands/commands.cpp, over the *)
(* RAM disk they work on: a line is split into arguments, its first word   *)
(* picks a call of the disk, and what the call returned picks the message. *)
(* The programs and self tests that call the disk directly are in Next of  *)
(* RamDisk.                                                                *)
(***************************************************************************)
EXTENDS RamDisk, Characters

CONSTANTS Typed,         \* lines entered, as sequences of characters
          MaxArgs,       \* arguments of a line, 8
          ArgLen,        \* characters of one, 63
          MaxName,       \* MAX_NAME: characters from which a component is too long
          MaxList,       \* entries the array of print_list holds, 32
          Meanings       \* what may be meant by a line: words and blanks

ASSUME CommandAssumption == {MaxArgs, ArgLen, MaxName, MaxList} \subseteq Nat \ {0}

VARIABLES entered,       \* the last line entered
          said           \* its arguments and what was printed for it

----------------------------------------------------------------------------
(* split_args and join_args.                                               *)

Spaces == {" ", "\t"}

Skipped(line, i) ==
  Min({j \in i .. Len(line) + 1 : j > Len(line) \/ line[j] \notin Spaces})

\* The argument that starts at i.  One that is cut at its limit ends there, and
\* its closing quote is then still ahead.  Mutant: the limit is one character less.
ArgumentShort(line, i) ==
  LET quoted == line[i] = Quote
      start  == IF quoted THEN i + 1 ELSE i
      stop   == Min({j \in start .. Len(line) + 1 :
                       \/ j > Len(line) \/ j = start + ArgLen - 1
                       \/ IF quoted THEN line[j] = Quote ELSE line[j] \in Spaces})
  IN  [text |-> SubSeq(line, start, stop - 1),
       to   |-> IF quoted /\ stop <= Len(line) /\ stop < start + ArgLen - 1 THEN stop + 1 ELSE stop]

Argument(line, i) ==
  LET quoted == line[i] = Quote
      start  == IF quoted THEN i + 1 ELSE i
      stop   == Min({j \in start .. Len(line) + 1 :
                       \/ j > Len(line) \/ j = start + ArgLen
                       \/ IF quoted THEN line[j] = Quote ELSE line[j] \in Spaces})
  IN  [text |-> SubSeq(line, start, stop - 1),
       to   |-> IF quoted /\ stop <= Len(line) /\ stop < start + ArgLen THEN stop + 1 ELSE stop]

\* split_args.
Args(line) ==
  LET from[i \in 1 .. Len(line) + 1] ==
        LET at == Skipped(line, i)
        IN  IF at > Len(line) THEN <<>>
            ELSE LET a == Argument(line, at) IN <<a.text>> \o from[a.to]
      all == from[1]
  IN  SubSeq(all, 1, Min({MaxArgs, Len(all)}))

\* join_args, from an argument on.
Joined(args, start) ==
  FoldLeft(LAMBDA out, n : out \o (IF n > start THEN <<" ">> ELSE <<>>) \o args[n],
           <<>>, [k \in 1 .. Len(args) - start + 1 |-> start + k - 1])

----------------------------------------------------------------------------
(* The path a word is for resolve and split_path.                          *)

Components(s) ==
  LET cuts  == {0, Len(s) + 1} \cup {j \in 1 .. Len(s) : s[j] = "/"}
      next(i) == Min({j \in cuts : j > i})
      from[i \in 0 .. Len(s) + 1] ==
        IF i = Len(s) + 1 THEN <<>>
        ELSE LET part == SubSeq(s, i + 1, next(i) - 1)
             IN  (IF part = <<>> THEN <<>>
                  ELSE << IF Len(part) < MaxName THEN Spelled(part) ELSE TooLong >>)
                 \o from[next(i)]
  IN  from[0]

PathOf(s) ==
  LET toks == Components(s)
  IN  [abs   |-> s # <<>> /\ s[1] = "/",
       toks  |-> toks,
       slash |-> toks # <<>> /\ s[Len(s)] = "/"]

\* Names and Bytes hold what lines spell: the first two words behind the command
\* are paths, and what follows the first of them is a text.
ASSUME WordAssumption ==
  /\ {PathOf(<<".", ".">>), PathOf(<<"/">>)} \subseteq PathStrings
  /\ \A line \in Typed :
       LET args == Args(line)
       IN  /\ Len(args) >= 2 => PathOf(args[2]) \in PathStrings
           /\ Len(args) >= 3 => {PathOf(args[2]), PathOf(args[3])} \subseteq PathStrings
           /\ Codes(Joined(args, 3)) \in Seq(Bytes \ {0})

----------------------------------------------------------------------------
(* command_execute.                                                        *)

Said(args, message, shown) == [args |-> args, message |-> message, shown |-> shown]
Silence == Said(<<>>, "", {})

\* A command prints a message or shows a part of the disk.
Says(args, message) == said' = Said(args, message, {})
Shows(args, shown)  == said' = Said(args, "", shown)

\* A call of the disk and what is printed for its result.
Tells(args, yes, no) == Says(args, IF ok' THEN yes ELSE no)

Missing(args, n, message) ==
  /\ Len(args) < n
  /\ Says(args, message)
  /\ UNCHANGED vars

MakeDir(args) ==
  /\ Make(PathOf(args[2]), TRUE)
  /\ Tells(args, "Folder created", "Cannot create folder")

NewFile(args) ==
  \/ Missing(args, 2, "Missing file name")
  \/ /\ Len(args) >= 2
     /\ Make(PathOf(args[2]), FALSE)
     /\ Tells(args, "File created", "Cannot create file")

\* Without a text the result is not looked at.  Mutant: nor with one.
WriteUnasked(args) ==
  \/ Missing(args, 2, "Usage")
  \/ /\ Len(args) >= 2
     /\ WriteFile(PathOf(args[2]), Codes(Joined(args, 3)))
     /\ Says(args, "Written")

Write(args) ==
  \/ Missing(args, 2, "Usage")
  \/ /\ Len(args) = 2
     /\ WriteFile(PathOf(args[2]), <<>>)
     /\ Says(args, "Written")
  \/ /\ Len(args) >= 3
     /\ WriteFile(PathOf(args[2]), Codes(Joined(args, 3)))
     /\ Tells(args, "Written", "Cannot write")

Erase(args) ==
  \/ Missing(args, 2, "Missing name")
  \/ /\ Len(args) >= 2
     /\ Delete(PathOf(args[2]))
     /\ IF hung' THEN Says(args, "") ELSE Tells(args, "Deleted", "Cannot delete")

CopyFile(args) ==
  \/ Missing(args, 3, "Usage")
  \/ /\ Len(args) >= 3
     /\ Copy(PathOf(args[2]), PathOf(args[3]))
     /\ Tells(args, "Copied", "Cannot copy")

\* move and rename make the same call; "Moved" stands for "Renamed" as well.
MoveNode(args) ==
  \/ Missing(args, 3, "Usage")
  \/ /\ Len(args) >= 3
     /\ Move(PathOf(args[2]), PathOf(args[3]))
     /\ Tells(args, "Moved", "Cannot move")

Change(args) ==
  \/ Missing(args, 2, "Missing folder")
  \/ /\ Len(args) >= 2
     /\ Chdir(PathOf(args[2]))
     /\ Tells(args, "", "Cannot change folder")

Go(args, path) == Chdir(path) /\ Says(args, "")

Where(args) ==
  /\ Cwd
  /\ IF hung' THEN Says(args, "") ELSE Shows(args, PwdPath)

\* print_list asks fs_list for as many entries as the directory has.
Listed(args, kinds) ==
  /\ IF Cardinality(Children(cwd)) <= MaxList
     THEN Shows(args, {i \in Children(cwd) : nodes[i].dir \in kinds})
     ELSE Says(args, "Entries behind the array")
  /\ UNCHANGED vars

\* read_file, and run, which hands the content to Yakka.
Show(args) ==
  \/ Missing(args, 2, "Missing file name")
  \/ /\ Len(args) >= 2
     /\ LET p == PathOf(args[2])
        IN  IF IsFile(Resolve(p)) THEN Shows(args, ReadFile(p, MaxData + 1))
                                  ELSE Says(args, "Cannot read")
     /\ UNCHANGED vars

Disk(args) ==
  LET files == {i \in Used : ~nodes[i].dir}
  IN  /\ Shows(args, [bytes |-> MapThenSumSet(LAMBDA i : size[i], files),
                      files |-> Cardinality(files), folders |-> Cardinality(Used \ files)])
      /\ UNCHANGED vars

\* Lines that only print, those for Yakka, and empty ones.
Other(args) == Says(args, "") /\ UNCHANGED vars

Known == {"folder", "mkdir", "new", "make", "write", "delete", "copy", "move", "rename", "cd",
          "goto", "back", "home", "pwd", "list", "files", "read", "open", "run", "disk"}

Dispatch(args) ==
  LET cmd == IF args = <<>> THEN "" ELSE Spelled(args[1])
  IN
  \/ cmd \in {"folder", "mkdir"} /\ Len(args) >= 2 /\ MakeDir(args)
  \/ cmd = "folder" /\ Len(args) < 2 /\ Listed(args, {TRUE})
  \/ cmd = "mkdir" /\ Missing(args, 2, "Missing folder name")
  \/ cmd \in {"new", "make"} /\ NewFile(args)
  \/ cmd = "write" /\ Write(args)
  \/ cmd = "delete" /\ Erase(args)
  \/ cmd = "copy" /\ CopyFile(args)
  \/ cmd \in {"move", "rename"} /\ MoveNode(args)
  \/ cmd \in {"cd", "goto"} /\ Change(args)
  \/ cmd = "back" /\ Go(args, PathOf(<<".", ".">>))
  \/ cmd = "home" /\ Go(args, PathOf(<<"/">>))
  \/ cmd = "pwd" /\ Where(args)
  \/ cmd = "list" /\ Listed(args, BOOLEAN)
  \/ cmd = "files" /\ Listed(args, {FALSE})
  \/ cmd \in {"read", "open", "run"} /\ Show(args)
  \/ cmd = "disk" /\ Disk(args)
  \/ cmd \notin Known /\ Other(args)

\* The lines as they are split.
Split == [line \in Typed |-> Args(line)]

Execute(line) == ~hung /\ Dispatch(Split[line]) /\ entered' = line

\* What Yakka's library and the self tests call without a command.
Called == Next /\ entered' = <<>> /\ said' = Silence

CommandInit == Init /\ entered = <<>> /\ said = Silence
CommandNext == (\E line \in Typed : Execute(line)) \/ Called
CommandSpec == CommandInit /\ [][CommandNext]_<<vars, entered, said>>

\* Nothing reads what was printed.
TheDisk == vars

----------------------------------------------------------------------------
(* What is meant by a line: words behind blanks, plain or in quotes.       *)

Word == [before : Seq(Spaces), quoted : BOOLEAN, text : Seq(Char)]

\* What the quotes, the blanks and the limit let through.
Sayable(w) ==
  /\ w.quoted => Len(w.text) < ArgLen /\ \A k \in DOMAIN w.text : w.text[k] # Quote
  /\ ~w.quoted => /\ w.text # <<>> /\ w.text[1] # Quote /\ Len(w.text) <= ArgLen
                  /\ \A k \in DOMAIN w.text : w.text[k] \notin Spaces

\* Words stand apart.
ASSUME MeaningAssumption ==
  \A m \in Meanings :
    /\ m.words \in Seq(Word) /\ m.rest \in Seq(Spaces)
    /\ \A n \in DOMAIN m.words : Sayable(m.words[n]) /\ (n > 1 => m.words[n].before # <<>>)

Typing(w) == w.before \o IF w.quoted THEN <<Quote>> \o w.text \o <<Quote>> ELSE w.text

LineOf(m) ==
  LET upto[n \in 0 .. Len(m.words)] ==
        IF n = 0 THEN <<>> ELSE upto[n - 1] \o Typing(m.words[n])
  IN  upto[Len(m.words)] \o m.rest

Meant(m) == [n \in 1 .. Min({Len(m.words), MaxArgs}) |-> m.words[n].text]

Heard == {[line |-> LineOf(m), args |-> Meant(m)] : m \in Meanings}

----------------------------------------------------------------------------
(* Properties.                                                             *)

\* The text that a line gives for a file.
Given(args) == IF Len(args) >= 3 THEN Codes(Joined(args, 3)) ELSE <<>>

\* What a message of success says of the disk it is printed over.  "Written" for a
\* line without a text is printed whatever the call returned.
SuccessIsTrue ==
  LET args == said.args
      at   == Resolve(PathOf(args[2]))
  IN  /\ said.message = "Folder created" => IsDir(at)
      /\ said.message = "File created" => IsFile(at)
      /\ said.message = "Written" /\ (Len(args) >= 3 \/ ok) =>
           IsFile(at) /\ Content(at) = Given(args)

Refusals == {"Cannot create folder", "Cannot create file", "Cannot write", "Cannot delete",
             "Cannot copy", "Cannot move", "Cannot change folder", "Cannot read"}

\* The destination of a copy, a file, has the content that the source had.
CopyArrives(p, q) ==
  \E t \in CopyTargets(p, q) : IsFile(Resolve(t))' /\ Content(Resolve(t))' = Content(Resolve(p))

\* Where a node is to be found that is moved to q: under its own name in a directory,
\* and under a new one otherwise.
Destination(s, q) ==
  IF IsDir(Resolve(q)) THEN [abs |-> q.abs, toks |-> Append(q.toks, nodes[s].name), slash |-> FALSE]
  ELSE q

\* The way to a path's last component goes through a node.
Through(p, s) ==
  LET way == ParentPath(p).toks
  IN  \E k \in 0 .. Len(way) : Walk(IF p.abs THEN Root ELSE cwd, way)[k] = s

\* A moved node is in use with the content it had, unless it was a file moved onto
\* itself, and it is at its destination, unless that path went through the node
\* or leads to a namesake.
MoveArrives(p, q) ==
  \A s \in {Resolve(p)}, t \in {Destination(Resolve(p), q)} :
    Resolve(q) # s \/ IsDir(s) =>
      /\ s \in Used' /\ nodes'[s].dir = nodes[s].dir /\ Content(s)' = Content(s)
      /\ SiblingsDistinct' /\ ~Through(t, s) => Resolve(t)' = s

TellsTrue ==
  LET at       == Resolve(PathOf(said'.args[2]))
      named(n) == {PathOf(said'.args[n])}
  IN
  /\ SuccessIsTrue'
  /\ said'.message = "Deleted" => at \in Used \ Used'
  /\ said'.message = "Copied" => \A p \in named(2), q \in named(3) : CopyArrives(p, q)
  /\ said'.message = "Moved" => \A p \in named(2), q \in named(3) : MoveArrives(p, q)
  /\ said'.message \in Refusals =>
       /\ cwd' = cwd
       /\ \A i \in Used : i \in Used' /\ nodes'[i] = nodes[i] /\ Content(i)' = Content(i)

\* What is meant by a line is what its command gets: words of up to 63 characters
\* and texts in quotes of up to 62, in order, with any blanks between and within
\* them, and of more than eight the first eight.  (A text of 63 characters in
\* quotes is followed by an empty argument.)
ArgumentsArrive ==
  [][\A h \in Heard : entered' = h.line => said'.args = h.args]_<<vars, entered, said>>

\* The messages are true: one of success of the disk it leaves, and one of failure
\* means that no file, folder or content is another than before.  Two of success
\* are not: "Written" for a line without a text, whose result command_execute does
\* not look at, promises nothing when the call failed, and "Moved" or "Renamed"
\* nothing when a file was moved onto itself, which frees it.  A node moved to a path
\* through itself, or to a namesake, is kept, but the path need not lead to it.
MessagesAreTrue == [][TellsTrue]_<<vars, said>>
=============================================================================
