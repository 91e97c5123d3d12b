------------------------------- MODULE Screen -------------------------------
(***************************************************************************)
(* The text screen, src/drivers/display/vga.c, as operators on a record of *)
(* its cells and its cursor.  Cells are numbered row by row, as the video  *)
(* memory is.  Characters are their codes.                                 *)
(***************************************************************************)
EXTENDS Integers, SequencesExt

CONSTANTS Width, Height,   \* VGA_WIDTH, VGA_HEIGHT
          TabStop          \* 8

ASSUME ScreenAssumption ==
  Width \in Nat \ {0} /\ Height \in Nat \ {0, 1} /\ TabStop \in Nat \ {0}

Backspace == 8
Tab       == 9
Newline   == 10
Return    == 13
Blank     == 32

Cells   == 0 .. Width * Height - 1
Cleared == [cells |-> [i \in Cells |-> Blank], row |-> 0, col |-> 0]

\* The cell under the cursor.
At(s) == s.row * Width + s.col

PutEntry(s, c) == [s EXCEPT !.cells[At(s)] = c]

\* All rows move up by one and the last one is blank.
Scrolled(s) ==
  [s EXCEPT !.row = Height - 1,
            !.cells = [i \in Cells |-> IF i < Width * (Height - 1) THEN s.cells[i + Width]
                                                                   ELSE Blank]]

\* Mutant: the row is looked at before it is counted.
LateScroll(s) ==
  IF s.row = Height THEN Scrolled([s EXCEPT !.col = 0]) ELSE [s EXCEPT !.col = 0, !.row = @ + 1]

LineDown(s) ==
  LET down == [s EXCEPT !.col = 0, !.row = @ + 1]
  IN  IF down.row = Height THEN Scrolled(down) ELSE down

\* Mutant: the cursor stops at the left edge.
StepBackInRow(s) == PutEntry([s EXCEPT !.col = IF s.col > 0 THEN s.col - 1 ELSE 0], Blank)

StepBack(s) ==
  LET back == IF s.col > 0 THEN [s EXCEPT !.col = @ - 1]
              ELSE IF s.row > 0 THEN [s EXCEPT !.row = @ - 1, !.col = Width - 1]
              ELSE s
  IN  PutEntry(back, Blank)

Tabbed(s) ==
  LET stop == (s.col \div TabStop + 1) * TabStop
  IN  IF stop >= Width THEN LineDown(s) ELSE [s EXCEPT !.col = stop]

Shown(s, c) ==
  LET put == PutEntry(s, c)
  IN  IF s.col + 1 = Width THEN LineDown(put) ELSE [put EXCEPT !.col = @ + 1]

\* terminal_putchar.
Put(s, c) ==
  CASE c = Newline   -> LineDown(s)
    [] c = Return    -> [s EXCEPT !.col = 0]
    [] c = Tab       -> Tabbed(s)
    [] c = Backspace -> StepBack(s)
    [] OTHER         -> Shown(s, c)

\* terminal_write.
Write(s, text) ==
  LET after[n \in 0 .. Len(text)] == IF n = 0 THEN s ELSE Put(after[n - 1], text[n])
  IN  after[Len(text)]
=============================================================================
