-------------------------------- MODULE Paper -------------------------------
(***************************************************************************)
(* What the console promises: a sheet of paper that grows at its lower end *)
(* and keeps every line that was written.  The pen is on one of the last   *)
(* Height lines and cannot be moved above them.                            *)
(***************************************************************************)
EXTENDS Integers, Sequences

CONSTANTS Width, Height, TabStop, Glyphs, Blank

VARIABLES lines,   \* the lines, each a sequence of Width characters
          at,      \* the line the pen is on
          col      \* the column, counted from 0

paper == <<lines, at, col>>

BlankLine == [k \in 1 .. Width |-> Blank]
Lowest    == Len(lines) - Height + 1

Init == lines = [k \in 1 .. Height |-> BlankLine] /\ at = 1 /\ col = 0

\* The lines with one more below if the pen would leave them.
Room(ls) == IF at = Len(ls) THEN Append(ls, BlankLine) ELSE ls

NewLine == lines' = Room(lines) /\ at' = at + 1 /\ col' = 0

Return == col' = 0 /\ UNCHANGED <<lines, at>>

TabOn ==
  \E stop \in {n \in col + 1 .. col + TabStop : n % TabStop = 0} :
    IF stop >= Width THEN NewLine ELSE col' = stop /\ UNCHANGED <<lines, at>>

WriteGlyph(g) ==
  LET written == [lines EXCEPT ![at][col + 1] = g]
  IN  IF col + 1 < Width
      THEN lines' = written /\ col' = col + 1 /\ UNCHANGED at
      ELSE lines' = Room(written) /\ at' = at + 1 /\ col' = 0

\* The pen goes back one place and rubs out what stands there; at the first place
\* it can reach it stays.
RubOut ==
  /\ \/ col > 0 /\ col' = col - 1 /\ at' = at
     \/ col = 0 /\ at > Lowest /\ col' = Width - 1 /\ at' = at - 1
     \/ col = 0 /\ at = Lowest /\ UNCHANGED <<at, col>>
  /\ lines' = [lines EXCEPT ![at'][col' + 1] = Blank]

\* A new sheet.
Clear == lines' = [k \in 1 .. Height |-> BlankLine] /\ at' = 1 /\ col' = 0

Next == NewLine \/ Return \/ TabOn \/ (\E g \in Glyphs : WriteGlyph(g)) \/ RubOut \/ Clear

Spec == Init /\ [][Next]_paper
=============================================================================
