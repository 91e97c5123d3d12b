------------------------------ MODULE Console -------------------------------
(***************************************************************************)
(* The console as everything in the kernel uses it: characters put on the  *)
(* text screen one after the other (src/drivers/display/vga.c).  Rows that *)
(* leave the screen at the top are kept in a history variable, which the   *)
(* code does not have; with them the screen is the end of a growing text.  *)
(***************************************************************************)
EXTENDS Screen

CONSTANTS Glyphs,          \* printable characters
          MaxAbove         \* bound on the rows that leave the screen

ASSUME GlyphAssumption == Blank \in Glyphs /\ Glyphs \cap {Backspace, Tab, Newline, Return} = {}

VARIABLES scr,             \* the screen
          above            \* the rows that have left it

vars == <<scr, above>>

RowOf(s, r) == [k \in 1 .. Width |-> s.cells[r * Width + k - 1]]
Rows(s)     == [r \in 1 .. Height |-> RowOf(s, r - 1)]

\* terminal_init.
Init == scr = Cleared /\ above = <<>>

\* Whether a character makes the screen scroll: in the last row, the end of the
\* line or what takes the cursor past the last column.
Scrolls(c) ==
  /\ scr.row = Height - 1
  /\ \/ c = Newline
     \/ c = Tab /\ (scr.col \div TabStop + 1) * TabStop >= Width
     \/ c \in Glyphs /\ scr.col = Width - 1

PutChar(c) ==
  /\ Scrolls(c) => Len(above) < MaxAbove
  /\ scr' = Put(scr, c)
  /\ above' = IF Scrolls(c)
              THEN Append(above, RowOf(IF c \in Glyphs THEN PutEntry(scr, c) ELSE scr, 0))
              ELSE above

\* terminal_clear.  Mutant: the cursor stays where it is.
ClearCells == scr' = [scr EXCEPT !.cells = Cleared.cells] /\ above' = <<>>
Clear      == scr' = Cleared /\ above' = <<>>

Next == (\E c \in Glyphs \cup {Newline, Return, Tab, Backspace} : PutChar(c)) \/ Clear

Spec == Init /\ [][Next]_vars

----------------------------------------------------------------------------
TypeOK ==
  /\ scr.cells \in [Cells -> Glyphs]
  /\ scr.row \in 0 .. Height - 1 /\ scr.col \in 0 .. Width - 1
  /\ above \in Seq([1 .. Width -> Glyphs])

\* A backspace takes back the character typed before it, also over the end of
\* a row, and after the screen has scrolled for it: the cursor is where it was in
\* the text and the place is blank.
BackspaceTakesBack ==
  \A g \in Glyphs :
    LET typed == Put(scr, g)
        back  == Put(typed, Backspace)
    IN  back = IF Scrolls(g)
               THEN [Scrolled(PutEntry(scr, Blank)) EXCEPT !.row = Height - 2, !.col = Width - 1]
               ELSE PutEntry(scr, Blank)

\* The cursor is on the screen, and can step back.
ScreenSound == TypeOK /\ BackspaceTakesBack

\* The screen is the last Height lines of a text to which every character was
\* added in order and from which only backspaces and clearing take away.
P == INSTANCE Paper WITH lines <- above \o Rows(scr), at <- Len(above) + scr.row + 1, col <- scr.col

IsPaper == P!Spec
=============================================================================
