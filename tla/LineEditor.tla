----------------------------- MODULE LineEditor -----------------------------
(***************************************************************************)
(* The line editor of the shell, src/terminal/shell/shell.cpp: one line    *)
(* being typed, the history behind it, completion of file names, and what  *)
(* all of this draws on the screen.  The keys arrive as Keyboard delivers  *)
(* them; a line is handed on by Enter, to a command that may print, change *)
(* the directory's entries, or ask for a line of its own (Yakka's input).  *)
(***************************************************************************)
EXTENDS Screen

CONSTANTS Size,            \* bytes of the line's buffer, 128
          HistorySize,     \* lines of the history, 16
          ListSize,        \* entries the completion's array holds, 32
          Letters,         \* printable characters other than the space
          Prompt,          \* what is printed before a line
          Outputs,         \* what a command may print
          Listings,        \* what a directory may hold: sequences of names
          MaxKeys          \* bound on the keys of a session

KeyEnter     == 10
KeyUp        == 256
KeyDown      == 257
Printable    == Letters \cup {Blank}

ASSUME EditorAssumption ==
  /\ Size \in 1 .. Width * (Height - 1)   \* a line never fills the screen: 128, 1920
  /\ HistorySize \in Nat \ {0} /\ ListSize \in Nat /\ MaxKeys \in Nat
  /\ Letters \subseteq 33 .. 126 /\ Listings \subseteq Seq(Seq(Printable))
  /\ Prompt \in Seq(0 .. 255) /\ Outputs \subseteq Seq(0 .. 255)

VARIABLES screen,             \* the screen
          buf,             \* the line: the characters before its NUL
          history,         \* the lines remembered, oldest first
          hist_index,      \* lines of the history before the one shown
          entries,         \* names in the current directory
          asking,          \* a command asks for the line, not the shell
          undefined,       \* the code has left its arrays
          entered,         \* all lines entered at the shell so far
          key, keys        \* the last key, and their number

shown == <<screen, buf>>
editor  == <<screen, buf, history, hist_index, entries, asking, undefined, entered, key, keys>>

----------------------------------------------------------------------------
\* history_add.  Mutant: a full history drops the line before the new one.
HistoryAddOverLast(line) ==
  IF line = <<>> \/ (history # <<>> /\ Last(history) = line) THEN history
  ELSE IF Len(history) < HistorySize THEN Append(history, line)
  ELSE Append(Front(history), line)

HistoryAdd(line) ==
  IF line = <<>> \/ (history # <<>> /\ Last(history) = line) THEN history
  ELSE IF Len(history) < HistorySize THEN Append(history, line)
  ELSE Append(Tail(history), line)

\* redraw_line: the current row is blanked for as long as the old line was, from
\* its first column on, where the prompt stood.  Mutant: nothing is blanked.
RedrawnOver(line, old) == Write(Put(screen, Return), line)
Redrawn(line, old) ==
  LET blanked == Write(Put(screen, Return), [k \in 1 .. old |-> Blank])
  IN  Write(Put(blanked, Return), line)

Show(line) == buf' = line /\ screen' = Redrawn(line, Len(buf))

----------------------------------------------------------------------------
(* autocomplete.                                                           *)

\* Where the last word starts: behind the last space or, if there is none, at the
\* end of the line, so that the words of commands are never completed.
WordStart ==
  IF Blank \in ToSet(buf) THEN Max({k \in DOMAIN buf : buf[k] = Blank}) ELSE Len(buf)

Word    == SubSeq(buf, WordStart + 1, Len(buf))

\* Mutant: the word's last character is not compared.
MatchesLess ==
  {k \in DOMAIN entries : Word = <<>> \/ IsPrefix(Front(Word), entries[k])}
Matches == {k \in DOMAIN entries : IsPrefix(Word, entries[k])}

\* A line must leave room for a character and a blank.  Mutant: only for its NUL.
MayCompleteAtEnd == Len(buf) # 0 /\ Len(buf) < Size
MayComplete      == Len(buf) # 0 /\ Len(buf) + 2 < Size

\* The first entry that starts with the word replaces it, whether or not the buffer
\* has room for its name, the blank and the NUL.  The loop runs over all entries there
\* are, also those the array had no room for.  From either on nothing is certain.
Complete ==
  IF ~MayComplete \/ (Matches = {} /\ Len(entries) <= ListSize)
  THEN UNCHANGED <<shown, undefined>>
  ELSE IF Matches = {} \/ Min(Matches) > ListSize
  THEN undefined' = TRUE /\ UNCHANGED shown
  ELSE LET line == SubSeq(buf, 1, WordStart) \o entries[Min(Matches)] \o <<Blank>>
       IN  Show(line) /\ undefined' = (Len(line) >= Size)

----------------------------------------------------------------------------
(* terminal_getline, one key at a time.                                    *)

\* Mutant: there is room for a character in the last byte.
HasRoomForNul == Len(buf) < Size
HasRoom       == Len(buf) + 1 < Size

Character(c) ==
  /\ c \in Printable
  /\ IF HasRoom THEN buf' = Append(buf, c) /\ screen' = Put(screen, c) ELSE UNCHANGED shown
  /\ UNCHANGED <<hist_index, undefined>>

\* Mutant: the last cell is not blanked but left behind.
RubOutOnce == screen' = Write(screen, <<Backspace, Blank>>)
RubOut     == screen' = Write(screen, <<Backspace, Blank, Backspace>>)

Erase ==
  /\ IF buf # <<>> THEN buf' = Front(buf) /\ RubOut ELSE UNCHANGED shown
  /\ UNCHANGED <<hist_index, undefined>>

TabKey == Complete /\ UNCHANGED hist_index

Up ==
  /\ IF hist_index > 0
     THEN hist_index' = hist_index - 1 /\ Show(history[hist_index])
     ELSE UNCHANGED <<hist_index, shown>>
  /\ UNCHANGED undefined

\* Behind the last line of the history there is an empty one.  Mutant: the last
\* line is skipped.
NewestShort == hist_index < Len(history) - 2
Newest      == hist_index < Len(history) - 1

Down ==
  /\ IF Newest
     THEN hist_index' = hist_index + 1 /\ Show(history[hist_index + 2])
     ELSE hist_index' = Len(history) /\ Show(<<>>)
  /\ UNCHANGED undefined

Edit ==
  /\ \/ \E c \in Printable : key' = c /\ Character(c)
     \/ key' = Backspace /\ Erase
     \/ key' = Tab /\ TabKey
     \/ key' = KeyUp /\ Up
     \/ key' = KeyDown /\ Down
  /\ UNCHANGED <<history, entries, asking, entered>>

----------------------------------------------------------------------------
(* shell_run around it.                                                    *)

\* The screen after Enter and what a command prints.
Printed(output) == Write(Put(screen, Newline), output)

\* The next call of terminal_getline: a prompt, a line without characters, and
\* the history from its end.
Ready(page, now) == screen' = Write(page, Prompt) /\ buf' = <<>> /\ hist_index' = Len(now)

\* Enter at the shell.  An empty line is no command, and one command clears the
\* screen.  The others print, may have changed the directory, and may ask.
EnterCommand ==
  /\ ~asking
  /\ history' = HistoryAdd(buf)
  /\ entered' = Append(entered, buf)
  /\ \/ buf = <<>> /\ Ready(Printed(<<>>), history) /\ UNCHANGED <<entries, asking>>
     \/ buf # <<>> /\ Ready(Cleared, history') /\ UNCHANGED <<entries, asking>>
     \/ buf # <<>> /\ \E output \in Outputs : Ready(Printed(output), history')
                   /\ entries' \in Listings /\ asking' \in BOOLEAN

\* Enter in an answer, which no history keeps.
EnterAnswer ==
  /\ asking
  /\ \E output \in Outputs : Ready(Printed(output), history)
  /\ asking' \in BOOLEAN /\ entries' \in Listings
  /\ UNCHANGED <<history, entered>>

Enter == key' = KeyEnter /\ (EnterCommand \/ EnterAnswer) /\ UNCHANGED undefined

----------------------------------------------------------------------------
\* The first prompt is in any row, below what the kernel printed before it.
EditorInit ==
  /\ \E above \in 0 .. Height - 1 :
       screen = Write(Write(Cleared, [k \in 1 .. above |-> Newline]), Prompt)
  /\ buf = <<>>
  /\ history = <<>> /\ hist_index = 0 /\ entries \in Listings
  /\ asking = FALSE /\ undefined = FALSE /\ entered = <<>>
  /\ key = KeyEnter /\ keys = 0

EditorNext ==
  /\ ~undefined /\ keys < MaxKeys
  /\ keys' = keys + 1
  /\ Edit \/ Enter

EditorSpec == EditorInit /\ [][EditorNext]_editor

----------------------------------------------------------------------------
\* A completion that wrote past the buffer: what was typed left room for a character
\* and a blank, so the line is out by no more than the name is long.
Overrun ==
  /\ undefined /\ key = Tab
  /\ \E k \in DOMAIN entries :
       /\ k <= ListSize /\ IsSuffix(entries[k] \o <<Blank>>, buf)
       /\ Len(buf) <= Size - 2 + Len(entries[k])

\* The line fits the buffer, unless a completion has just overrun it, and the history
\* its arrays.
LineFits ==
  /\ buf \in Seq(Printable) /\ (Len(buf) < Size \/ Overrun)
  /\ history \in Seq(Seq(Printable)) /\ Len(history) <= HistorySize
  /\ \A k \in DOMAIN history : Len(history[k]) \in 1 .. Size - 1
  /\ hist_index \in 0 .. Len(history)

EditorTypes ==
  /\ screen.cells \in [Cells -> Printable \cup ToSet(Prompt) \cup UNION {ToSet(o) : o \in Outputs}]
  /\ screen.row \in 0 .. Height - 1 /\ screen.col \in 0 .. Width - 1
  /\ LineFits
  /\ entries \in Listings /\ asking \in BOOLEAN /\ undefined \in BOOLEAN

\* What stands before the cursor is the line, whatever was typed, rubbed out,
\* recalled or completed, and however often the row wrapped or the screen
\* scrolled: the editor never shows one line of its buffer and hands on another.
LineBeforeCursor ==
  Len(buf) < Size =>
    /\ At(screen) >= Len(buf)
    /\ \A k \in DOMAIN buf : screen.cells[At(screen) - Len(buf) + k - 1] = buf[k]

\* Redrawing blanks as many columns as the old line had, starting where the prompt
\* was, so the old line's end can stay visible behind the cursor; never more of
\* it than the prompt is wide, and never anything else, as long as commands end
\* their lines.
Leftovers == {i \in Cells : i >= At(screen) /\ screen.cells[i] # Blank}
LeftoversArePromptWide == Len(buf) < Size => Cardinality(Leftovers) <= Len(Prompt)

\* The line leaves its buffer only by a completion, and while it fits, it and its
\* picture agree.
LineSound == EditorTypes /\ LineBeforeCursor /\ LeftoversArePromptWide

\* The entered lines that are not empty, and those of them that do not repeat the
\* one before.
Told      == {k \in DOMAIN entered : entered[k] # <<>>}
Before(k) == {j \in Told : j < k}
Distinct  ==
  {k \in Told : Before(k) = {} \/ entered[Max(Before(k))] # entered[k]}

\* The history is the last HistorySize lines entered at the shell, in order,
\* without empty lines and immediate repeats; answers are not in it.
HistoryIsLastLines ==
  LET newest(n) == CHOOSE k \in Distinct : Cardinality({j \in Distinct : j > k}) = n
      kept      == Min({HistorySize, Cardinality(Distinct)})
  IN  history = [k \in 1 .. kept |-> entered[newest(kept - k)]]

\* Up and Down walk the history line by line and show the line they stop at:
\* behind the last one, and only there, the line is empty.
RecallShowsHistory ==
  [][key' \in {KeyUp, KeyDown} =>
       \/ hist_index' = hist_index /\ hist_index = 0 /\ key' = KeyUp /\ buf' = buf
       \/ /\ hist_index' = IF key' = KeyUp THEN hist_index - 1
                           ELSE Min({hist_index + 1, Len(history)})
          /\ buf' = IF hist_index' = Len(history) THEN <<>> ELSE history[hist_index' + 1]]_editor

\* Completion never takes back what was typed: a tab adds the rest of an entry's
\* name and a space, or nothing, also where that overruns the buffer.
CompletionOnlyAdds ==
  [][key' = Tab /\ buf' # buf =>
       /\ IsPrefix(buf, buf') /\ Last(buf') = Blank
       /\ \E k \in DOMAIN entries : IsSuffix(entries[k] \o <<Blank>>, buf')]_editor
=============================================================================
