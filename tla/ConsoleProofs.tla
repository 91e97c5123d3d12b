--------------------------- MODULE ConsoleProofs ----------------------------
(***************************************************************************)
(* Proofs about what the user sees and types, for every screen of at least *)
(* two rows and every size of the line and of the history.                 *)
(*                                                                         *)
(* The console: the cursor stays on the screen, a backspace takes back the *)
(* character before it, and the cells are the end of the paper the console *)
(* promises.  The step that matters is LineDown: it is related to the      *)
(* paper once, and the characters that end a row cite it.                  *)
(*                                                                         *)
(* The line editor: the line and the history fit their arrays, completion  *)
(* only adds, the arrows walk the history, and the history is the last     *)
(* distinct lines entered.  The line is also what the screen shows before  *)
(* the cursor, because all that a character put does to the cells is said  *)
(* once (ShownShot), and text carries it along (WriteInduct, WriteGrows).  *)
(***************************************************************************)
EXTENDS Console, LineEditor, BasicFacts, FiniteSetTheorems

Line    == [1 .. Width -> Glyphs]
Screens == [cells : [Cells -> Glyphs], row : 0 .. Height - 1, col : 0 .. Width - 1]

Inv == scr \in Screens /\ above \in Seq(Line)

----------------------------------------------------------------------------
(* Cells, rows and columns.                                                *)

LEMMA Sizes == Width \in Nat \ {0} /\ Height \in Nat \ {0, 1} /\ TabStop \in Nat \ {0}
BY ScreenAssumption

\* A row and a column name a cell, and no two pairs the same one.
LEMMA Place ==
  ASSUME NEW r \in 0 .. Height - 1, NEW k \in 0 .. Width - 1
  PROVE  /\ r * Width + k \in Cells
         /\ \A q \in 0 .. Height - 1, j \in 0 .. Width - 1 :
              q * Width + j = r * Width + k => q = r /\ j = k
<1> USE Sizes
<1>1. ASSUME NEW a \in Nat, NEW b \in Nat, a < b
      PROVE  a * Width + Width <= b * Width
  <2>1. b * Width >= (a + 1) * Width
    BY <1>1, TimesMonotone
  <2>2. (a + 1) * Width = a * Width + Width
    OBVIOUS
  <2>. QED BY <2>1, <2>2
<1>2. /\ r \in Nat /\ Height \in Nat /\ r < Height
      /\ r * Width \in Nat /\ Height * Width \in Nat /\ Width * Height = Height * Width
  OBVIOUS
<1>3. r * Width + Width <= Height * Width
  BY <1>1, <1>2
<1>4. r * Width + k \in Cells
  BY <1>2, <1>3 DEF Cells
<1>5. ASSUME NEW q \in 0 .. Height - 1, NEW j \in 0 .. Width - 1,
             q * Width + j = r * Width + k
      PROVE  q = r /\ j = k
  <2>1. q \in Nat /\ q * Width \in Nat
    OBVIOUS
  <2>2. ~(q < r)
    <3>1. q < r => q * Width + Width <= r * Width
      BY <1>1, <1>2, <2>1
    <3>. QED BY <1>2, <1>5, <2>1, <3>1
  <2>3. ~(r < q)
    <3>1. r < q => r * Width + Width <= q * Width
      BY <1>1, <1>2, <2>1
    <3>. QED BY <1>2, <1>5, <2>1, <3>1
  <2>. QED BY <1>2, <1>5, <2>1, <2>2, <2>3
<1>. QED BY <1>4, <1>5

\* The last row starts at Width * (Height - 1).
LEMMA LastRow ==
  /\ Width * (Height - 1) = (Height - 1) * Width
  /\ Width * Height = Width * (Height - 1) + Width
  /\ Width * (Height - 1) \in Nat
<1> USE Sizes
<1>1. Width * Height = Width * (Height - 1) + Width
  OBVIOUS
<1>. QED BY <1>1

LEMMA BlankGlyph == Blank \in Glyphs
BY GlyphAssumption

\* The rows of a screen are lines of the paper.
LEMMA RowsType ==
  ASSUME NEW s, s.cells \in [Cells -> Glyphs]
  PROVE  /\ Rows(s) \in Seq(Line) /\ Len(Rows(s)) = Height
         /\ \A r \in 0 .. Height - 1 : RowOf(s, r) \in Line
<1> USE Sizes
<1>1. ASSUME NEW r \in 0 .. Height - 1
      PROVE  RowOf(s, r) \in Line
  <2>1. ASSUME NEW k \in 1 .. Width
        PROVE  r * Width + k - 1 \in Cells
    <3>1. k - 1 \in 0 .. Width - 1
      OBVIOUS
    <3>2. r * Width + (k - 1) \in Cells
      BY <3>1, Place
    <3>3. r * Width \in Int
      OBVIOUS
    <3>4. r * Width + (k - 1) = r * Width + k - 1
      BY <3>3
    <3>. QED BY <3>2, <3>4
  <2>. QED BY <2>1 DEF RowOf, Line
<1>2. Rows(s) \in [1 .. Height -> Line]
  <2>1. \A r \in 1 .. Height : r - 1 \in 0 .. Height - 1
    OBVIOUS
  <2>. QED BY <1>1, <2>1 DEF Rows
<1>3. Rows(s) \in Seq(Line) /\ Len(Rows(s)) = Height
  BY <1>2
<1>. QED BY <1>1, <1>3

----------------------------------------------------------------------------
(* The operations of the screen, seen as changes of its rows.              *)

\* Writing a cell changes one place of one row.
LEMMA EntryRows ==
  ASSUME NEW s \in Screens, NEW c \in Glyphs
  PROVE  /\ PutEntry(s, c) \in Screens
         /\ PutEntry(s, c).row = s.row /\ PutEntry(s, c).col = s.col
         /\ At(s) \in Cells
         /\ Rows(PutEntry(s, c)) = [Rows(s) EXCEPT ![s.row + 1][s.col + 1] = c]
<1> USE Sizes
<1> DEFINE w == PutEntry(s, c)
<1>1. /\ s.row \in 0 .. Height - 1 /\ s.col \in 0 .. Width - 1 /\ s.cells \in [Cells -> Glyphs]
  BY DEF Screens
<1>2. At(s) \in Cells
  BY <1>1, Place DEF At
<1>3. /\ w \in Screens /\ w.row = s.row /\ w.col = s.col
      /\ w.cells = [s.cells EXCEPT ![At(s)] = c]
  BY <1>1, <1>2 DEF Screens, PutEntry
<1> HIDE DEF w
<1>4. ASSUME NEW r \in 1 .. Height
      PROVE  Rows(w)[r] = [Rows(s) EXCEPT ![s.row + 1][s.col + 1] = c][r]
  <2>1. r - 1 \in 0 .. Height - 1
    OBVIOUS
  <2>2. ASSUME NEW k \in 1 .. Width
        PROVE  /\ (r - 1) * Width + k - 1 \in Cells
               /\ (r - 1) * Width + k - 1 = At(s) <=> r - 1 = s.row /\ k - 1 = s.col
    <3>1. k - 1 \in 0 .. Width - 1
      OBVIOUS
    <3>2. (r - 1) * Width + (k - 1) \in Cells
      BY <2>1, <3>1, Place
    <3>3. (r - 1) * Width + (k - 1) = s.row * Width + s.col => r - 1 = s.row /\ k - 1 = s.col
      BY <1>1, <2>1, <3>1, Place
    <3>4. (r - 1) * Width + (k - 1) = (r - 1) * Width + k - 1
      <4>1. (r - 1) * Width \in Int
        OBVIOUS
      <4>. QED BY <4>1
    <3>. QED BY <3>2, <3>3, <3>4 DEF At
  <2>3. /\ Rows(w)[r] = RowOf(w, r - 1) /\ Rows(s)[r] = RowOf(s, r - 1)
        /\ DOMAIN Rows(s) = 1 .. Height
    BY DEF Rows
  <2>4. CASE r = s.row + 1
    <3>1. [Rows(s) EXCEPT ![s.row + 1][s.col + 1] = c][r] = [RowOf(s, r - 1) EXCEPT ![s.col + 1] = c]
      BY <2>3, <2>4
    <3>2. RowOf(w, r - 1) = [RowOf(s, r - 1) EXCEPT ![s.col + 1] = c]
      <4>1. ASSUME NEW k \in 1 .. Width
            PROVE  w.cells[(r - 1) * Width + k - 1]
                     = IF k = s.col + 1 THEN c ELSE s.cells[(r - 1) * Width + k - 1]
        BY <1>1, <1>2, <1>3, <2>2, <2>4
      <4>. QED BY <4>1 DEF RowOf
    <3>. QED BY <2>3, <3>1, <3>2
  <2>5. CASE r # s.row + 1
    <3>1. [Rows(s) EXCEPT ![s.row + 1][s.col + 1] = c][r] = RowOf(s, r - 1)
      BY <2>3, <2>5
    <3>2. ASSUME NEW k \in 1 .. Width
          PROVE  w.cells[(r - 1) * Width + k - 1] = s.cells[(r - 1) * Width + k - 1]
      <4>1. r - 1 # s.row
        BY <1>1, <2>5
      <4>. QED BY <1>1, <1>2, <1>3, <2>2, <4>1
    <3>3. RowOf(w, r - 1) = RowOf(s, r - 1)
      BY <3>2 DEF RowOf
    <3>. QED BY <2>3, <3>1, <3>3
  <2>. QED BY <2>4, <2>5
<1>5. Rows(w) = [Rows(s) EXCEPT ![s.row + 1][s.col + 1] = c]
  <2>1. DOMAIN Rows(w) = 1 .. Height /\ DOMAIN Rows(s) = 1 .. Height
    BY DEF Rows
  <2>2. Rows(w) = [r \in 1 .. Height |-> Rows(w)[r]]
    BY DEF Rows
  <2> DEFINE e == [Rows(s) EXCEPT ![s.row + 1][s.col + 1] = c]
  <2>3. e = [r \in 1 .. Height |-> e[r]]
    BY <2>1
  <2> HIDE DEF e
  <2>4. \A r \in 1 .. Height : Rows(w)[r] = e[r]
    BY <1>4 DEF e
  <2>5. Rows(w) = e
    BY <2>2, <2>3, <2>4
  <2>. QED BY <2>5 DEF e
<1>6. QED
  BY <1>2, <1>3, <1>5 DEF w

BlankRow == [k \in 1 .. Width |-> Blank]

\* Scrolling drops the first row and adds a blank one.
LEMMA ScrolledRows ==
  ASSUME NEW s \in [cells : [Cells -> Glyphs], row : 0 .. Height, col : 0 .. Width - 1]
  PROVE  /\ Scrolled(s) \in Screens
         /\ Scrolled(s).row = Height - 1 /\ Scrolled(s).col = s.col
         /\ \A r \in 1 .. Height :
              Rows(Scrolled(s))[r] = IF r < Height THEN Rows(s)[r + 1] ELSE BlankRow
<1> USE Sizes
<1> DEFINE w == Scrolled(s)
<1>1. s.cells \in [Cells -> Glyphs] /\ s.col \in 0 .. Width - 1
  OBVIOUS
<1>2. ASSUME NEW i \in Cells, i < Width * (Height - 1)
      PROVE  i + Width \in Cells
  BY <1>2, LastRow DEF Cells
<1>3. /\ w.cells = [i \in Cells |-> IF i < Width * (Height - 1) THEN s.cells[i + Width] ELSE Blank]
      /\ w.row = Height - 1 /\ w.col = s.col
      /\ w = [cells |-> w.cells, row |-> w.row, col |-> w.col]
  <2>1. s = [cells |-> s.cells, row |-> s.row, col |-> s.col]
    OBVIOUS
  <2>2. w = [cells |-> [i \in Cells |-> IF i < Width * (Height - 1) THEN s.cells[i + Width] ELSE Blank],
             row |-> Height - 1, col |-> s.col]
    <3> DEFINE cells == [i \in Cells |-> IF i < Width * (Height - 1) THEN s.cells[i + Width] ELSE Blank]
    <3>1. w = [s EXCEPT !.row = Height - 1, !.cells = cells]
      BY Zenon DEF Scrolled
    <3> HIDE DEF cells, w
    <3>. QED BY <2>1, <3>1 DEF cells
  <2>. QED BY <2>2
<1> HIDE DEF w
<1>4. w.cells \in [Cells -> Glyphs]
  BY <1>1, <1>2, <1>3, BlankGlyph
<1>5. w \in Screens
  <2>1. w.row \in 0 .. Height - 1 /\ w.col \in 0 .. Width - 1
    BY <1>1, <1>3
  <2>. QED BY <1>3, <1>4, <2>1 DEF Screens
<1>6. ASSUME NEW r \in 1 .. Height
      PROVE  Rows(w)[r] = IF r < Height THEN Rows(s)[r + 1] ELSE BlankRow
  <2>1. r - 1 \in 0 .. Height - 1 /\ (r - 1) * Width \in Nat /\ r * Width = (r - 1) * Width + Width
    OBVIOUS
  <2>2. ASSUME NEW k \in 1 .. Width
        PROVE  (r - 1) * Width + k - 1 \in Cells
    <3>1. k - 1 \in 0 .. Width - 1
      OBVIOUS
    <3>2. (r - 1) * Width + (k - 1) \in Cells
      BY <2>1, <3>1, Place
    <3>. QED BY <2>1, <3>2
  <2>3. Rows(w)[r] = [k \in 1 .. Width |-> w.cells[(r - 1) * Width + k - 1]]
    BY DEF Rows, RowOf
  <2>4. CASE r < Height
    <3>1. Rows(s)[r + 1] = [k \in 1 .. Width |-> s.cells[r * Width + k - 1]]
      <4>1. r + 1 \in 1 .. Height /\ r + 1 - 1 = r
        BY <2>4
      <4>. QED BY <4>1 DEF Rows, RowOf
    <3>2. r * Width <= Width * (Height - 1)
      <4>1. Height - 1 \in Nat /\ r \in Nat /\ Height - 1 >= r
        BY <2>4
      <4>2. (Height - 1) * Width >= r * Width
        BY <4>1, TimesMonotone
      <4>. QED BY <2>1, <4>2, LastRow
    <3>3. ASSUME NEW k \in 1 .. Width
          PROVE  w.cells[(r - 1) * Width + k - 1] = s.cells[r * Width + k - 1]
      <4>1. (r - 1) * Width + k - 1 < Width * (Height - 1)
        BY <2>1, <3>2, LastRow
      <4>2. (r - 1) * Width + k - 1 + Width = r * Width + k - 1
        BY <2>1
      <4>. QED BY <1>3, <2>2, <4>1, <4>2
    <3>. QED BY <2>3, <2>4, <3>1, <3>3
  <2>5. CASE ~(r < Height)
    <3>1. r = Height
      BY <2>5
    <3>2. ASSUME NEW k \in 1 .. Width
          PROVE  w.cells[(r - 1) * Width + k - 1] = Blank
      <4>1. ~((r - 1) * Width + k - 1 < Width * (Height - 1))
        BY <2>1, <3>1, LastRow
      <4>. QED BY <1>3, <2>2, <4>1
    <3>. QED BY <2>3, <2>5, <3>2 DEF BlankRow
  <2>. QED BY <2>4, <2>5
<1>. QED BY <1>3, <1>5, <1>6 DEF w

----------------------------------------------------------------------------
(* The paper: the rows that have left the screen and the screen.           *)

Text(a, s) == a \o Rows(s)

\* The lines of the paper, one by one.
LEMMA TextLines ==
  ASSUME NEW a \in Seq(Line), NEW s \in Screens
  PROVE  /\ Text(a, s) \in Seq(Line) /\ Len(Text(a, s)) = Len(a) + Height
         /\ Len(a) \in Nat
         /\ \A j \in 1 .. Len(a) : Text(a, s)[j] = a[j]
         /\ \A r \in 1 .. Height : Text(a, s)[Len(a) + r] = Rows(s)[r]
<1>1. s.cells \in [Cells -> Glyphs]
  BY DEF Screens
<1>2. Rows(s) \in Seq(Line) /\ Len(Rows(s)) = Height
  BY <1>1, RowsType
<1>3. Len(a) \in Nat
  BY LenProperties
<1>4. ASSUME NEW b \in Seq(Line)
      PROVE  /\ a \o b \in Seq(Line) /\ Len(a \o b) = Len(a) + Len(b)
             /\ \A j \in 1 .. Len(a) : (a \o b)[j] = a[j]
             /\ \A j \in 1 .. Len(b) : (a \o b)[Len(a) + j] = b[j]
  BY ConcatFacts
<1>. QED BY <1>2, <1>3, <1>4 DEF Text

\* Writing a cell writes the place of the line the cursor stands for.
LEMMA TextEntry ==
  ASSUME NEW a \in Seq(Line), NEW s \in Screens, NEW c \in Glyphs
  PROVE  Text(a, PutEntry(s, c)) = [Text(a, s) EXCEPT ![Len(a) + s.row + 1][s.col + 1] = c]
<1> USE Sizes
<1> DEFINE w == PutEntry(s, c)
           t == Text(a, s)
           n == Len(a) + s.row + 1
<1>1. /\ s.row \in 0 .. Height - 1 /\ s.cells \in [Cells -> Glyphs]
      /\ w \in Screens /\ w.cells \in [Cells -> Glyphs]
      /\ Rows(w) = [Rows(s) EXCEPT ![s.row + 1][s.col + 1] = c]
  BY EntryRows DEF Screens
<1>2. /\ t \in Seq(Line) /\ Len(t) = Len(a) + Height /\ Len(a) \in Nat
      /\ \A j \in 1 .. Len(a) : t[j] = a[j]
      /\ \A r \in 1 .. Height : t[Len(a) + r] = Rows(s)[r]
  BY <1>1, TextLines
<1>3. /\ Text(a, w) \in Seq(Line) /\ Len(Text(a, w)) = Len(a) + Height
      /\ \A j \in 1 .. Len(a) : Text(a, w)[j] = a[j]
      /\ \A r \in 1 .. Height : Text(a, w)[Len(a) + r] = Rows(w)[r]
  BY <1>1, TextLines
<1>4. DOMAIN Rows(s) = 1 .. Height /\ DOMAIN t = 1 .. Len(a) + Height
  BY <1>2, LenProperties DEF Rows
<1> HIDE DEF w, t
<1> DEFINE e == [t EXCEPT ![n][s.col + 1] = c]
<1>5. ASSUME NEW j \in 1 .. Len(a) + Height
      PROVE  Text(a, w)[j] = e[j]
  <2>1. CASE j <= Len(a)
    <3>1. j \in 1 .. Len(a) /\ j # n
      BY <1>1, <1>2, <2>1
    <3>. QED BY <1>2, <1>3, <1>4, <3>1
  <2>2. CASE ~(j <= Len(a))
    <3>1. PICK r \in 1 .. Height : r = j - Len(a)
      BY <1>2, <2>2
    <3>2. j = Len(a) + r /\ (j = n <=> r = s.row + 1)
      <4>1. j = Len(a) + r
        BY <1>2, <3>1
      <4>2. s.row \in Int /\ Len(a) \in Int /\ r \in Int
        BY <1>1, <1>2
      <4>3. Len(a) + r = Len(a) + s.row + 1 <=> r = s.row + 1
        BY <4>2
      <4>. QED BY <4>1, <4>3
    <3>3. Text(a, w)[j] = Rows(w)[r] /\ t[j] = Rows(s)[r]
      BY <1>2, <1>3, <3>2
    <3>4. CASE r = s.row + 1
      <4>1. e[j] = [t[j] EXCEPT ![s.col + 1] = c]
        BY <1>4, <3>2, <3>4
      <4>2. Rows(w)[r] = [Rows(s)[r] EXCEPT ![s.col + 1] = c]
        BY <1>1, <1>4, <3>4
      <4>. QED BY <3>3, <4>1, <4>2
    <3>5. CASE r # s.row + 1
      <4>1. e[j] = t[j]
        BY <1>4, <3>2, <3>5
      <4>2. Rows(w)[r] = Rows(s)[r]
        BY <1>1, <1>4, <3>5
      <4>. QED BY <3>3, <4>1, <4>2
    <3>. QED BY <3>4, <3>5
  <2>. QED BY <2>1, <2>2
<1>6. Text(a, w) = [j \in 1 .. Len(a) + Height |-> Text(a, w)[j]]
  BY <1>3
<1>7. e = [j \in 1 .. Len(a) + Height |-> e[j]]
  BY <1>4
<1> HIDE DEF e, n
<1>8. Text(a, w) = e
  BY <1>5, <1>6, <1>7
<1>. QED BY <1>8 DEF e, w, t, n

\* What has left the screen after a step down.
AboveAfter(a, s) == IF s.row = Height - 1 THEN Append(a, RowOf(s, 0)) ELSE a

\* A line down is the next line of the paper, a blank one at its end.
LEMMA LineDownText ==
  ASSUME NEW a \in Seq(Line), NEW s \in Screens
  PROVE  /\ LineDown(s) \in Screens /\ LineDown(s).col = 0
         /\ AboveAfter(a, s) \in Seq(Line)
         /\ Len(AboveAfter(a, s)) + LineDown(s).row = Len(a) + s.row + 1
         /\ Text(AboveAfter(a, s), LineDown(s))
              = IF s.row = Height - 1 THEN Append(Text(a, s), BlankRow) ELSE Text(a, s)
<1> USE Sizes
<1> DEFINE down == [s EXCEPT !.col = 0, !.row = @ + 1]
           w == LineDown(s)
           b == AboveAfter(a, s)
<1>1. /\ s.row \in 0 .. Height - 1 /\ s.col \in 0 .. Width - 1 /\ s.cells \in [Cells -> Glyphs]
      /\ s = [cells |-> s.cells, row |-> s.row, col |-> s.col]
  BY DEF Screens
<1>2. /\ down \in [cells : [Cells -> Glyphs], row : 0 .. Height, col : 0 .. Width - 1]
      /\ down.cells = s.cells /\ down.row = s.row + 1 /\ down.col = 0
  <2>1. s.row + 1 \in 0 .. Height /\ 0 \in 0 .. Width - 1
    BY <1>1
  <2>2. down \in [cells : [Cells -> Glyphs], row : 0 .. Height, col : 0 .. Width - 1]
    BY <1>1, <2>1
  <2>3. down.cells = s.cells /\ down.row = s.row + 1 /\ down.col = 0
    BY <1>1
  <2>. QED BY <2>2, <2>3
<1>3. w = IF down.row = Height THEN Scrolled(down) ELSE down
  BY DEF LineDown
<1>4. Rows(down) = Rows(s)
  BY <1>2 DEF Rows, RowOf
<1>5. RowOf(s, 0) \in Line
  BY <1>1, RowsType
<1>6. /\ Text(a, s) \in Seq(Line) /\ Len(Text(a, s)) = Len(a) + Height
      /\ Len(a) \in Nat
      /\ \A j \in 1 .. Len(a) : Text(a, s)[j] = a[j]
      /\ \A r \in 1 .. Height : Text(a, s)[Len(a) + r] = Rows(s)[r]
  BY TextLines
<1> HIDE DEF down, w, b
<1>7. CASE s.row # Height - 1
  <2>1. w = down /\ b = a
    BY <1>1, <1>2, <1>3, <1>7 DEF AboveAfter, b
  <2>2. w \in Screens
    <3>1. s.row + 1 \in 0 .. Height - 1
      BY <1>1, <1>7
    <3>. QED BY <1>2, <2>1, <3>1 DEF Screens
  <2>3. Text(b, w) = Text(a, s)
    BY <1>4, <2>1 DEF Text
  <2>4. Len(b) + w.row = Len(a) + s.row + 1
    BY <1>1, <1>2, <1>6, <2>1
  <2>. QED BY <1>2, <1>7, <2>1, <2>2, <2>3, <2>4 DEF b, w
<1>8. CASE s.row = Height - 1
  <2>1. w = Scrolled(down) /\ b = Append(a, RowOf(s, 0))
    BY <1>1, <1>2, <1>3, <1>8 DEF AboveAfter, b
  <2>2. /\ w \in Screens /\ w.row = Height - 1 /\ w.col = 0
        /\ \A r \in 1 .. Height : Rows(w)[r] = IF r < Height THEN Rows(s)[r + 1] ELSE BlankRow
    BY <1>2, <1>4, <2>1, ScrolledRows
  <2>3. /\ b \in Seq(Line) /\ Len(b) = Len(a) + 1
        /\ \A j \in 1 .. Len(a) : b[j] = a[j]
        /\ b[Len(a) + 1] = RowOf(s, 0)
    BY <1>5, <2>1, AppendProperties
  <2>4. Len(b) + w.row = Len(a) + s.row + 1
    BY <1>6, <1>8, <2>2, <2>3
  <2>5. BlankRow \in Line
    BY BlankGlyph DEF BlankRow, Line
  <2> DEFINE t == Text(a, s)
             u == Append(t, BlankRow)
             v == Text(b, w)
  <2>6. /\ v \in Seq(Line) /\ Len(v) = Len(b) + Height
        /\ \A j \in 1 .. Len(b) : v[j] = b[j]
        /\ \A r \in 1 .. Height : v[Len(b) + r] = Rows(w)[r]
    BY <2>2, <2>3, TextLines
  <2>7. /\ u \in Seq(Line) /\ Len(u) = Len(t) + 1
        /\ \A j \in 1 .. Len(t) : u[j] = t[j]
        /\ u[Len(t) + 1] = BlankRow
    <3>1. t \in Seq(Line)
      BY <1>6
    <3> HIDE DEF t
    <3>. QED BY <2>5, <3>1, AppendProperties
  <2> HIDE DEF u, v
  <2>8. Len(u) = Len(v)
    BY <1>6, <2>3, <2>6, <2>7
  <2>9. ASSUME NEW j \in 1 .. Len(u)
        PROVE  u[j] = v[j]
    <3>1. CASE j <= Len(a)
      <4>1. j \in 1 .. Len(a) /\ j \in 1 .. Len(b) /\ j \in 1 .. Len(t)
        BY <1>6, <2>3, <3>1
      <4>. QED BY <1>6, <2>3, <2>6, <2>7, <4>1
    <3>2. CASE j = Len(a) + 1
      <4>1. v[j] = RowOf(s, 0)
        <5>1. j \in 1 .. Len(b)
          BY <1>6, <2>3, <3>2
        <5>. QED BY <2>3, <2>6, <3>2, <5>1
      <4>2. u[j] = Rows(s)[1]
        <5>1. j \in 1 .. Len(t) /\ 1 \in 1 .. Height
          BY <1>6, <3>2
        <5>. QED BY <1>6, <2>7, <3>2, <5>1
      <4>3. Rows(s)[1] = RowOf(s, 0)
        BY DEF Rows
      <4>. QED BY <4>1, <4>2, <4>3
    <3>3. CASE j > Len(a) + 1
      <4>1. PICK r \in 1 .. Height : r = j - (Len(a) + 1)
        <5>1. j - (Len(a) + 1) \in 1 .. Height
          BY <1>6, <2>7, <3>3
        <5>. QED BY <5>1
      <4>2. j = Len(b) + r /\ j = Len(a) + (r + 1)
        BY <1>6, <2>3, <4>1
      <4>3. v[j] = IF r < Height THEN Rows(s)[r + 1] ELSE BlankRow
        <5>1. v[j] = Rows(w)[r]
          BY <2>6, <4>2
        <5>. QED BY <2>2, <5>1
      <4>4. CASE r < Height
        <5>1. r + 1 \in 1 .. Height /\ j \in 1 .. Len(t)
          BY <1>6, <4>2, <4>4
        <5>2. u[j] = Rows(s)[r + 1]
          BY <1>6, <2>7, <4>2, <5>1
        <5>. QED BY <4>3, <4>4, <5>2
      <4>5. CASE r = Height
        <5>1. j = Len(t) + 1
          BY <1>6, <4>2, <4>5
        <5>. QED BY <2>7, <4>3, <4>5, <5>1
      <4>. QED BY <4>4, <4>5
    <3>. QED BY <1>6, <3>1, <3>2, <3>3
  <2>10. v = u
    BY <2>6, <2>7, <2>8, <2>9, SeqEqual
  <2>11. Text(b, w) = Append(Text(a, s), BlankRow)
    BY <2>10 DEF u, v
  <2>. QED BY <1>8, <2>2, <2>3, <2>4, <2>11 DEF b, w
<1>. QED BY <1>7, <1>8

----------------------------------------------------------------------------
(* What each character does.                                               *)

LEMMA Controls ==
  /\ \A g \in Glyphs : g # Backspace /\ g # Tab /\ g # Newline /\ g # Return
  /\ {Backspace, Tab, Newline, Return} \cap Glyphs = {}
  /\ Newline # Return /\ Newline # Tab /\ Newline # Backspace
  /\ Return # Tab /\ Return # Backspace /\ Tab # Backspace
<1>1. \A g \in Glyphs : g # Backspace /\ g # Tab /\ g # Newline /\ g # Return
  BY GlyphAssumption
<1>. QED BY <1>1 DEF Backspace, Tab, Newline, Return

\* The cleared screen is a new sheet.
LEMMA ClearedText ==
  /\ Cleared \in Screens /\ Cleared.row = 0 /\ Cleared.col = 0
  /\ <<>> \in Seq(Line)
  /\ <<>> \o Rows(Cleared) = [k \in 1 .. Height |-> BlankRow]
<1> USE Sizes
<1>1. Cleared \in Screens /\ Cleared.row = 0 /\ Cleared.col = 0
  <2>1. 0 \in 0 .. Height - 1 /\ 0 \in 0 .. Width - 1
    OBVIOUS
  <2>. QED BY <2>1, BlankGlyph DEF Cleared, Screens
<1>2. Cleared.cells = [i \in Cells |-> Blank]
  BY DEF Cleared
<1>3. ASSUME NEW r \in 1 .. Height
      PROVE  RowOf(Cleared, r - 1) = BlankRow
  <2>1. ASSUME NEW k \in 1 .. Width
        PROVE  (r - 1) * Width + k - 1 \in Cells
    <3>1. r - 1 \in 0 .. Height - 1 /\ k - 1 \in 0 .. Width - 1 /\ (r - 1) * Width \in Int
      OBVIOUS
    <3>2. (r - 1) * Width + (k - 1) \in Cells
      BY <3>1, Place
    <3>. QED BY <3>1, <3>2
  <2>. QED BY <1>2, <2>1 DEF RowOf, BlankRow
<1>4. Rows(Cleared) = [k \in 1 .. Height |-> BlankRow]
  BY <1>3 DEF Rows
<1>5. Rows(Cleared) \in Seq(Line)
  BY <1>1, RowsType DEF Screens
<1>6. <<>> \o Rows(Cleared) = Rows(Cleared)
  BY <1>5, ConcatEmptySeq
<1>. QED BY <1>1, <1>4, <1>6

\* A newline, and whatever ends a row like one.
LEMMA NewLineStep ==
  ASSUME Inv, scr' = LineDown(scr), above' = AboveAfter(above, scr)
  PROVE  Inv' /\ P!NewLine
<1> USE Sizes
<1> DEFINE t == Text(above, scr)
<1>1. /\ scr' \in Screens /\ scr'.col = 0 /\ above' \in Seq(Line)
      /\ Len(above') + scr'.row = Len(above) + scr.row + 1
      /\ Text(above', scr') = IF scr.row = Height - 1 THEN Append(t, BlankRow) ELSE t
  BY LineDownText DEF Inv
<1>2. Len(t) = Len(above) + Height /\ Len(above) \in Nat /\ scr.row \in 0 .. Height - 1
  BY TextLines DEF Inv, Screens
<1>3. Len(above) + scr.row + 1 = Len(t) <=> scr.row = Height - 1
  BY <1>2
<1>4. Text(above', scr') = P!Room(t)
  BY <1>1, <1>3 DEF P!Room, P!BlankLine, BlankRow, Text
<1>5. Len(above') + scr'.row + 1 = Len(above) + scr.row + 1 + 1
  <2>1. Len(above') \in Int /\ scr'.row \in Int
    BY <1>1, LenProperties DEF Screens
  <2>. QED BY <1>1, <1>2, <2>1
<1>. QED BY <1>1, <1>4, <1>5 DEF Inv, P!NewLine, Text

\* A printable character.
LEMMA GlyphStep ==
  ASSUME Inv, NEW g \in Glyphs, PutChar(g)
  PROVE  Inv' /\ P!WriteGlyph(g)
<1> USE Sizes
<1> DEFINE put == PutEntry(scr, g)
           t == Text(above, scr)
           written == [t EXCEPT ![Len(above) + scr.row + 1][scr.col + 1] = g]
<1>1. /\ scr \in Screens /\ above \in Seq(Line)
      /\ scr.row \in 0 .. Height - 1 /\ scr.col \in 0 .. Width - 1
  BY DEF Inv, Screens
<1>2. put \in Screens /\ put.row = scr.row /\ put.col = scr.col
  BY <1>1, EntryRows
<1>3. Text(above, put) = written
  BY <1>1, TextEntry
<1>4. scr' = IF scr.col + 1 = Width THEN LineDown(put) ELSE [put EXCEPT !.col = @ + 1]
  BY Controls DEF PutChar, Put, Shown
<1>5. Scrolls(g) <=> scr.row = Height - 1 /\ scr.col = Width - 1
  BY Controls DEF Scrolls
<1>6. above' = IF Scrolls(g) THEN Append(above, RowOf(put, 0)) ELSE above
  BY DEF PutChar
<1>7. Len(written) = Len(above) + Height /\ Len(above) \in Nat
  BY <1>1, <1>2, <1>3, TextLines
<1> HIDE DEF put, t, written
<1>8. CASE scr.col + 1 = Width
  <2>1. scr' = LineDown(put) /\ above' = AboveAfter(above, put)
    BY <1>1, <1>2, <1>4, <1>5, <1>6, <1>8 DEF AboveAfter
  <2>2. /\ scr' \in Screens /\ scr'.col = 0 /\ above' \in Seq(Line)
        /\ Len(above') + scr'.row = Len(above) + scr.row + 1
        /\ Text(above', scr') = IF scr.row = Height - 1 THEN Append(written, BlankRow) ELSE written
    BY <1>1, <1>2, <1>3, <2>1, LineDownText
  <2>3. Len(above) + scr.row + 1 = Len(written) <=> scr.row = Height - 1
    BY <1>1, <1>7
  <2>4. Text(above', scr') = P!Room(written)
    BY <2>2, <2>3 DEF P!Room, P!BlankLine, BlankRow
  <2>5. Len(above') + scr'.row + 1 = Len(above) + scr.row + 1 + 1
    <3>1. Len(above') \in Int /\ scr'.row \in Int
      BY <2>2, LenProperties DEF Screens
    <3>. QED BY <1>1, <1>7, <2>2, <3>1
  <2>6. ~(scr.col + 1 < Width)
    BY <1>8
  <2>. QED BY <2>2, <2>4, <2>5, <2>6 DEF Inv, P!WriteGlyph, Text, t, written
<1>9. CASE scr.col + 1 # Width
  <2>1. scr.col + 1 < Width /\ ~Scrolls(g)
    BY <1>1, <1>5, <1>9
  <2>2. scr' = [put EXCEPT !.col = put.col + 1] /\ above' = above
    BY <1>4, <1>6, <1>9, <2>1
  <2>3. put.col + 1 \in 0 .. Width - 1
    BY <1>1, <1>2, <2>1
  <2>4. scr' \in Screens
    BY <1>2, <2>2, <2>3 DEF Screens
  <2>5. scr'.col = scr.col + 1 /\ scr'.row = scr.row /\ scr'.cells = put.cells
    BY <1>2, <2>2 DEF Screens
  <2>6. Rows(scr') = Rows(put)
    BY <2>5 DEF Rows, RowOf
  <2>7. above' \o Rows(scr') = written
    BY <1>3, <2>2, <2>6 DEF Text
  <2>. QED BY <1>1, <2>1, <2>2, <2>4, <2>5, <2>7 DEF Inv, P!WriteGlyph, Text, t, written
<1>. QED BY <1>8, <1>9

LEMMA ReturnStep ==
  ASSUME Inv, PutChar(Return)
  PROVE  Inv' /\ P!Return
<1> USE Sizes
<1>1. scr' = [scr EXCEPT !.col = 0] /\ above' = above
  BY Controls DEF PutChar, Put, Scrolls
<1>2. scr' \in Screens /\ scr'.col = 0 /\ scr'.row = scr.row /\ scr'.cells = scr.cells
  <2>1. 0 \in 0 .. Width - 1
    OBVIOUS
  <2>. QED BY <1>1, <2>1 DEF Inv, Screens
<1>3. Rows(scr') = Rows(scr)
  BY <1>2 DEF Rows, RowOf
<1>4. UNCHANGED (above \o Rows(scr))
  BY <1>1, <1>3
<1>. QED BY <1>1, <1>2, <1>4 DEF Inv, P!Return

\* The next tab stop.
LEMMA NextStop ==
  ASSUME NEW n \in Nat
  PROVE  LET stop == (n \div TabStop + 1) * TabStop
         IN  stop \in n + 1 .. n + TabStop /\ stop % TabStop = 0
<1> USE Sizes
<1> DEFINE q == n \div TabStop
           stop == (q + 1) * TabStop
<1>1. /\ q \in Nat /\ q * TabStop <= n
      /\ \A m \in Nat : m > q => m * TabStop > n
  BY DivFacts
<1> HIDE DEF q
<1>2. /\ stop = q * TabStop + TabStop /\ q * TabStop \in Nat /\ stop \in Nat
  BY <1>1
<1>3. stop > n
  BY <1>1
<1>4. stop % TabStop = 0
  BY <1>1
<1>. QED BY <1>1, <1>2, <1>3, <1>4 DEF q

LEMMA TabStep ==
  ASSUME Inv, PutChar(Tab)
  PROVE  Inv' /\ P!TabOn
<1> USE Sizes
<1> DEFINE stop == (scr.col \div TabStop + 1) * TabStop
<1>1. scr \in Screens /\ scr.row \in 0 .. Height - 1 /\ scr.col \in 0 .. Width - 1
  BY DEF Inv, Screens
<1>2. stop \in scr.col + 1 .. scr.col + TabStop /\ stop % TabStop = 0
  <2>1. PICK n \in Nat : n = scr.col
    BY <1>1
  <2>2. LET m == (n \div TabStop + 1) * TabStop
        IN  m \in n + 1 .. n + TabStop /\ m % TabStop = 0
    BY NextStop
  <2>. QED BY <2>1, <2>2
<1>3. Put(scr, Tab) = Tabbed(scr)
  BY Controls DEF Put
<1>4. Scrolls(Tab) <=> scr.row = Height - 1 /\ stop >= Width
  BY Controls DEF Scrolls
<1>5. scr' = (IF stop >= Width THEN LineDown(scr) ELSE [scr EXCEPT !.col = stop])
  BY <1>3 DEF PutChar, Tabbed
<1>6. above' = IF Scrolls(Tab) THEN Append(above, RowOf(scr, 0)) ELSE above
  BY Controls DEF PutChar
<1> HIDE DEF stop
<1>7. CASE stop >= Width
  <2>1. above' = AboveAfter(above, scr)
    BY <1>4, <1>6, <1>7 DEF AboveAfter
  <2>2. Inv' /\ P!NewLine
    BY <1>5, <1>7, <2>1, NewLineStep
  <2>. QED BY <1>2, <1>7, <2>2 DEF P!TabOn
<1>8. CASE ~(stop >= Width)
  <2>1. scr' = [scr EXCEPT !.col = stop] /\ above' = above
    BY <1>4, <1>5, <1>6, <1>8
  <2>2. stop \in 0 .. Width - 1
    BY <1>1, <1>2, <1>8
  <2>3. scr' \in Screens /\ scr'.col = stop /\ scr'.row = scr.row /\ scr'.cells = scr.cells
    BY <1>1, <2>1, <2>2 DEF Screens
  <2>4. Rows(scr') = Rows(scr)
    BY <2>3 DEF Rows, RowOf
  <2>5. UNCHANGED (above \o Rows(scr))
    BY <2>1, <2>4
  <2>. QED BY <1>2, <1>8, <2>1, <2>3, <2>5 DEF Inv, P!TabOn
<1>. QED BY <1>7, <1>8

\* Where a backspace takes the cursor.
BackOf(s) == IF s.col > 0 THEN [s EXCEPT !.col = @ - 1]
             ELSE IF s.row > 0 THEN [s EXCEPT !.row = @ - 1, !.col = Width - 1]
             ELSE s

LEMMA BackFacts ==
  ASSUME NEW s \in Screens
  PROVE  /\ StepBack(s) = PutEntry(BackOf(s), Blank)
         /\ BackOf(s) \in Screens
         /\ BackOf(s).cells = s.cells
         /\ \/ s.col > 0 /\ BackOf(s).col = s.col - 1 /\ BackOf(s).row = s.row
            \/ s.col = 0 /\ s.row > 0 /\ BackOf(s).col = Width - 1 /\ BackOf(s).row = s.row - 1
            \/ s.col = 0 /\ s.row = 0 /\ BackOf(s) = s
<1> USE Sizes
<1>1. s.row \in 0 .. Height - 1 /\ s.col \in 0 .. Width - 1
  BY DEF Screens
<1>2. StepBack(s) = PutEntry(BackOf(s), Blank)
  BY DEF StepBack, BackOf
<1>3. CASE s.col > 0
  <2>1. BackOf(s) = [s EXCEPT !.col = s.col - 1] /\ s.col - 1 \in 0 .. Width - 1
    BY <1>1, <1>3 DEF BackOf
  <2>2. /\ BackOf(s) \in Screens /\ BackOf(s).col = s.col - 1 /\ BackOf(s).row = s.row
        /\ BackOf(s).cells = s.cells
    BY <2>1 DEF Screens
  <2>. QED BY <1>2, <1>3, <2>2
<1>4. CASE ~(s.col > 0) /\ s.row > 0
  <2>1. BackOf(s) = [s EXCEPT !.row = s.row - 1, !.col = Width - 1]
    BY <1>4 DEF BackOf
  <2>2. s.row - 1 \in 0 .. Height - 1 /\ Width - 1 \in 0 .. Width - 1
    BY <1>1, <1>4
  <2>3. /\ BackOf(s) \in Screens /\ BackOf(s).row = s.row - 1 /\ BackOf(s).col = Width - 1
        /\ BackOf(s).cells = s.cells
    <3>1. BackOf(s) \in Screens
      BY <2>1, <2>2 DEF Screens
    <3>2. BackOf(s).row = s.row - 1 /\ BackOf(s).col = Width - 1 /\ BackOf(s).cells = s.cells
      BY <2>1 DEF Screens
    <3>. QED BY <3>1, <3>2
  <2>. QED BY <1>1, <1>2, <1>4, <2>3
<1>5. CASE ~(s.col > 0) /\ ~(s.row > 0)
  <2>1. BackOf(s) = s
    BY <1>5 DEF BackOf
  <2>. QED BY <1>1, <1>2, <1>5, <2>1
<1>. QED BY <1>3, <1>4, <1>5

LEMMA BackspaceStep ==
  ASSUME Inv, PutChar(Backspace)
  PROVE  Inv' /\ P!RubOut
<1> USE Sizes
<1> DEFINE b == BackOf(scr)
           t == above \o Rows(scr)
<1>1. /\ scr \in Screens /\ above \in Seq(Line)
      /\ scr.row \in 0 .. Height - 1 /\ scr.col \in 0 .. Width - 1
  BY DEF Inv, Screens
<1>2. scr' = StepBack(scr) /\ above' = above
  BY Controls DEF PutChar, Put, Scrolls
<1>3. /\ scr' = PutEntry(b, Blank) /\ b \in Screens /\ b.cells = scr.cells
      /\ \/ scr.col > 0 /\ b.col = scr.col - 1 /\ b.row = scr.row
         \/ scr.col = 0 /\ scr.row > 0 /\ b.col = Width - 1 /\ b.row = scr.row - 1
         \/ scr.col = 0 /\ scr.row = 0 /\ b = scr
  BY <1>1, <1>2, BackFacts
<1> HIDE DEF b
<1>4. scr' \in Screens /\ scr'.row = b.row /\ scr'.col = b.col
  BY <1>3, BlankGlyph, EntryRows
<1>5. Rows(b) = Rows(scr)
  BY <1>3 DEF Rows, RowOf
<1>6. Text(above, scr') = [t EXCEPT ![Len(above) + b.row + 1][b.col + 1] = Blank]
  <2>1. Text(above, PutEntry(b, Blank)) = [Text(above, b) EXCEPT ![Len(above) + b.row + 1][b.col + 1] = Blank]
    BY <1>1, <1>3, BlankGlyph, TextEntry
  <2>2. Text(above, b) = t
    BY <1>5 DEF Text
  <2>. QED BY <1>3, <2>1, <2>2
<1>7. above' \o Rows(scr')
        = [t EXCEPT ![Len(above') + scr'.row + 1][scr'.col + 1] = Blank]
  BY <1>2, <1>4, <1>6 DEF Text
<1>8. P!Lowest = Len(above) + 1 /\ Len(above) \in Nat
  <2>1. Len(t) = Len(above) + Height /\ Len(above) \in Nat
    BY <1>1, TextLines DEF Text
  <2>. QED BY <2>1 DEF P!Lowest
<1>9. \/ scr.col > 0 /\ scr'.col = scr.col - 1
         /\ Len(above') + scr'.row + 1 = Len(above) + scr.row + 1
      \/ scr.col = 0 /\ Len(above) + scr.row + 1 > P!Lowest /\ scr'.col = Width - 1
         /\ Len(above') + scr'.row + 1 = (Len(above) + scr.row + 1) - 1
      \/ scr.col = 0 /\ Len(above) + scr.row + 1 = P!Lowest
         /\ scr'.col = scr.col /\ Len(above') + scr'.row + 1 = Len(above) + scr.row + 1
  <2>1. CASE scr.col > 0 /\ b.col = scr.col - 1 /\ b.row = scr.row
    BY <1>2, <1>4, <2>1
  <2>2. CASE scr.col = 0 /\ scr.row > 0 /\ b.col = Width - 1 /\ b.row = scr.row - 1
    BY <1>1, <1>2, <1>4, <1>8, <2>2
  <2>3. CASE scr.col = 0 /\ scr.row = 0 /\ b = scr
    BY <1>1, <1>2, <1>4, <1>8, <2>3
  <2>. QED BY <1>3, <2>1, <2>2, <2>3
<1> HIDE DEF t
<1>10. P!RubOut
  BY <1>7, <1>9 DEF P!RubOut, t
<1>. QED BY <1>1, <1>2, <1>4, <1>10 DEF Inv

----------------------------------------------------------------------------
(* The theorems.                                                           *)

LEMMA InitSteps == Init => Inv /\ P!Init
<1> SUFFICES ASSUME Init PROVE Inv /\ P!Init
  OBVIOUS
<1>1. scr = Cleared /\ above = <<>>
  BY DEF Init
<1>2. Inv
  BY <1>1, ClearedText DEF Inv
<1>3. above \o Rows(scr) = [k \in 1 .. Height |-> P!BlankLine]
  BY <1>1, ClearedText DEF P!BlankLine, BlankRow
<1>4. Len(above) + scr.row + 1 = 1 /\ scr.col = 0
  BY <1>1, ClearedText
<1>. QED BY <1>2, <1>3, <1>4 DEF P!Init

LEMMA ClearStep ==
  ASSUME Clear
  PROVE  Inv' /\ P!Clear
<1>1. scr' = Cleared /\ above' = <<>>
  BY DEF Clear
<1>2. Inv'
  BY <1>1, ClearedText DEF Inv
<1>3. above' \o Rows(scr') = [k \in 1 .. Height |-> P!BlankLine]
  BY <1>1, ClearedText DEF P!BlankLine, BlankRow
<1>4. Len(above') + scr'.row + 1 = 1 /\ scr'.col = 0
  BY <1>1, ClearedText
<1>. QED BY <1>2, <1>3, <1>4 DEF P!Clear

LEMMA NextSteps == Inv /\ Next => Inv' /\ P!Next
<1> SUFFICES ASSUME Inv, Next PROVE Inv' /\ P!Next
  OBVIOUS
<1>1. CASE Clear
  BY <1>1, ClearStep DEF P!Next
<1>2. ASSUME NEW c \in Glyphs \cup {Newline, Return, Tab, Backspace}, PutChar(c)
      PROVE  Inv' /\ P!Next
  <2>1. CASE c \in Glyphs
    <3>1. Inv' /\ P!WriteGlyph(c)
      BY <1>2, <2>1, GlyphStep
    <3>. QED BY <2>1, <3>1 DEF P!Next
  <2>2. CASE c = Newline
    <3>1. scr' = LineDown(scr)
      BY <1>2, <2>2, Controls DEF PutChar, Put
    <3>2. above' = AboveAfter(above, scr)
      BY <1>2, <2>2, Controls DEF PutChar, Scrolls, AboveAfter
    <3>. QED BY <3>1, <3>2, NewLineStep DEF P!Next
  <2>3. CASE c = Return
    BY <1>2, <2>3, ReturnStep DEF P!Next
  <2>4. CASE c = Tab
    BY <1>2, <2>4, TabStep DEF P!Next
  <2>5. CASE c = Backspace
    BY <1>2, <2>5, BackspaceStep DEF P!Next
  <2>. QED BY <2>1, <2>2, <2>3, <2>4, <2>5
<1>. QED BY <1>1, <1>2 DEF Next

LEMMA InvHolds == Spec => []Inv
<1>1. Inv /\ UNCHANGED vars => Inv'
  BY DEF Inv, vars
<1>. QED BY <1>1, InitSteps, NextSteps, PTL DEF Spec

\* Two screens with the same cells and cursor are one.
LEMMA SameScreen ==
  ASSUME NEW s \in Screens, NEW t \in Screens,
         s.cells = t.cells, s.row = t.row, s.col = t.col
  PROVE  s = t
BY DEF Screens

\* The second character on a place replaces the first.
LEMMA EntryTwice ==
  ASSUME NEW s \in Screens, NEW c \in Glyphs, NEW d \in Glyphs
  PROVE  PutEntry(PutEntry(s, c), d) = PutEntry(s, d)
<1> DEFINE v == PutEntry(s, c)
           w == PutEntry(v, d)
           u == PutEntry(s, d)
<1>1. v \in Screens /\ v.row = s.row /\ v.col = s.col /\ At(s) \in Cells
  BY EntryRows
<1>2. u \in Screens /\ u.row = s.row /\ u.col = s.col
  BY EntryRows
<1>3. w \in Screens /\ w.row = v.row /\ w.col = v.col
  BY <1>1, EntryRows
<1>4. v.cells = [s.cells EXCEPT ![At(s)] = c] /\ u.cells = [s.cells EXCEPT ![At(s)] = d]
  BY DEF PutEntry, Screens
<1>5. At(v) = At(s)
  BY <1>1 DEF At
<1>6. w.cells = [v.cells EXCEPT ![At(v)] = d]
  BY <1>1 DEF PutEntry, Screens
<1>7. s.cells \in [Cells -> Glyphs]
  BY DEF Screens
<1> HIDE DEF u, v, w
<1>8. w.cells = u.cells
  BY <1>1, <1>4, <1>5, <1>6, <1>7
<1>9. w = u
  BY <1>1, <1>2, <1>3, <1>8, SameScreen
<1>. QED BY <1>9 DEF u, v, w

\* Where a line down leaves the cursor, and the cells.
LEMMA DownFacts ==
  ASSUME NEW s \in Screens
  PROVE  /\ s.row # Height - 1 =>
              LineDown(s).row = s.row + 1 /\ LineDown(s).cells = s.cells
         /\ s.row = Height - 1 =>
              /\ LineDown(s).row = Height - 1
              /\ LineDown(s).cells = [i \in Cells |-> IF i < Width * (Height - 1)
                                                      THEN s.cells[i + Width] ELSE Blank]
<1> USE Sizes
<1> DEFINE down == [s EXCEPT !.col = 0, !.row = @ + 1]
<1>1. s.row \in 0 .. Height - 1
  BY DEF Screens
<1>2. down.row = s.row + 1 /\ down.cells = s.cells
  BY DEF Screens
<1>3. LineDown(s) = IF down.row = Height THEN Scrolled(down) ELSE down
  BY DEF LineDown
<1>4. 0 \in 0 .. Width - 1 /\ s.row + 1 \in 0 .. Height
  BY <1>1
<1>5. down \in [cells : [Cells -> Glyphs], row : 0 .. Height, col : 0 .. Width - 1]
  BY <1>4 DEF Screens
<1>6. Scrolled(down).cells = [i \in Cells |-> IF i < Width * (Height - 1)
                                             THEN down.cells[i + Width] ELSE Blank]
  BY <1>5 DEF Scrolled
<1>7. Scrolled(down).row = Height - 1
  BY <1>5, ScrolledRows
<1> HIDE DEF down
<1>8. CASE s.row # Height - 1
  BY <1>1, <1>2, <1>3, <1>8
<1>9. CASE s.row = Height - 1
  BY <1>1, <1>2, <1>3, <1>6, <1>7, <1>9
<1>. QED BY <1>8, <1>9

\* After a character and a backspace the cursor stands where the character stood,
\* and the place is blank, also when the character ended the last row.
LEMMA TakenBack == Inv => BackspaceTakesBack
<1> USE Sizes
<1> SUFFICES ASSUME Inv, NEW g \in Glyphs
             PROVE  Put(Put(scr, g), Backspace)
                      = IF Scrolls(g)
                        THEN [Scrolled(PutEntry(scr, Blank)) EXCEPT !.row = Height - 2, !.col = Width - 1]
                        ELSE PutEntry(scr, Blank)
  BY Zenon DEF BackspaceTakesBack
<1>1. /\ scr \in Screens /\ scr.row \in 0 .. Height - 1 /\ scr.col \in 0 .. Width - 1
  BY DEF Inv, Screens
<1> DEFINE p == PutEntry(scr, g)
           t == Put(scr, g)
           e == PutEntry(scr, Blank)
<1>2. p \in Screens /\ p.row = scr.row /\ p.col = scr.col /\ At(scr) \in Cells
  BY <1>1, EntryRows
<1>3. e \in Screens /\ e = PutEntry(p, Blank)
  BY <1>1, BlankGlyph, EntryRows, EntryTwice
<1>4. t = IF scr.col + 1 = Width THEN LineDown(p) ELSE [p EXCEPT !.col = @ + 1]
  BY Controls DEF Put, Shown
<1>5. Scrolls(g) <=> scr.row = Height - 1 /\ scr.col = Width - 1
  BY Controls DEF Scrolls
<1>6. Put(t, Backspace) = StepBack(t)
  BY Controls DEF Put
<1> HIDE DEF p, t, e
<1>7. CASE scr.col + 1 # Width
  <2>1. p.col + 1 \in 0 .. Width - 1
    BY <1>1, <1>2, <1>7
  <2>2. t \in Screens /\ t.row = p.row /\ t.col = p.col + 1 /\ t.cells = p.cells
    BY <1>2, <1>4, <1>7, <2>1 DEF Screens
  <2>3. BackOf(t) \in Screens /\ BackOf(t).cells = p.cells /\ BackOf(t).row = p.row /\ BackOf(t).col = p.col
    BY <1>1, <1>2, <2>1, <2>2, BackFacts
  <2>4. BackOf(t) = p
    BY <1>2, <2>3, SameScreen
  <2>5. StepBack(t) = e
    BY <1>3, <2>2, <2>4, BackFacts
  <2>6. ~Scrolls(g)
    BY <1>1, <1>5, <1>7
  <2>. QED BY <1>6, <2>5, <2>6 DEF e, t
<1>8. CASE scr.col + 1 = Width /\ scr.row # Height - 1
  <2>1. t \in Screens /\ t.row = p.row + 1 /\ t.col = 0 /\ t.cells = p.cells
    <3>1. <<>> \in Seq(Line)
      OBVIOUS
    <3>. QED BY <1>2, <1>4, <1>8, <3>1, LineDownText, DownFacts
  <2>2. BackOf(t) \in Screens /\ BackOf(t).cells = p.cells /\ BackOf(t).row = p.row /\ BackOf(t).col = p.col
    BY <1>1, <1>2, <1>8, <2>1, BackFacts
  <2>3. BackOf(t) = p
    BY <1>2, <2>2, SameScreen
  <2>4. StepBack(t) = e
    BY <1>3, <2>1, <2>3, BackFacts
  <2>5. ~Scrolls(g)
    BY <1>5, <1>8
  <2>. QED BY <1>6, <2>4, <2>5 DEF e, t
<1>9. CASE scr.col + 1 = Width /\ scr.row = Height - 1
  <2> DEFINE z == Scrolled(e)
             x == [z EXCEPT !.row = Height - 2, !.col = Width - 1]
             b == BackOf(t)
  <2>1. /\ t \in Screens /\ t.row = Height - 1 /\ t.col = 0
        /\ t.cells = [i \in Cells |-> IF i < Width * (Height - 1) THEN p.cells[i + Width] ELSE Blank]
    <3>1. <<>> \in Seq(Line)
      OBVIOUS
    <3>. QED BY <1>2, <1>4, <1>9, <3>1, LineDownText, DownFacts
  <2>2. b \in Screens /\ b.cells = t.cells /\ b.row = Height - 2 /\ b.col = Width - 1
    BY <2>1, BackFacts
  <2>3. StepBack(t) = PutEntry(b, Blank)
    BY <2>1, BackFacts
  <2>4. e \in [cells : [Cells -> Glyphs], row : 0 .. Height, col : 0 .. Width - 1]
    BY <1>3 DEF Screens
  <2>5. z \in Screens
    BY <2>4, ScrolledRows
  <2>6. z.cells = [i \in Cells |-> IF i < Width * (Height - 1) THEN e.cells[i + Width] ELSE Blank]
    BY <2>4 DEF Scrolled
  <2> HIDE DEF z, b
  <2>7. Height - 2 \in 0 .. Height - 1 /\ Width - 1 \in 0 .. Width - 1
    OBVIOUS
  <2>8. x \in Screens
    BY <2>5, <2>7 DEF Screens
  <2>9. x.row = Height - 2 /\ x.col = Width - 1 /\ x.cells = z.cells
    BY <2>5 DEF Screens
  <2>10. /\ PutEntry(b, Blank) \in Screens /\ PutEntry(b, Blank).row = b.row
         /\ PutEntry(b, Blank).col = b.col /\ At(b) \in Cells
    BY <2>2, BlankGlyph, EntryRows
  <2>11. PutEntry(b, Blank).cells = [b.cells EXCEPT ![At(b)] = Blank]
    BY <2>2 DEF PutEntry, Screens
  <2>12. /\ p.cells = [scr.cells EXCEPT ![At(scr)] = g]
         /\ e.cells = [scr.cells EXCEPT ![At(scr)] = Blank]
         /\ scr.cells \in [Cells -> Glyphs]
    BY <1>1 DEF p, e, PutEntry, Screens
  <2>13. At(scr) = At(b) + Width /\ At(b) \in Int
    <3>1. At(b) = (Height - 2) * Width + (Width - 1)
      BY <2>2 DEF At
    <3>2. At(scr) = (Height - 1) * Width + (Width - 1)
      BY <1>1, <1>9 DEF At
    <3>3. (Height - 1) * Width = (Height - 2) * Width + Width /\ (Height - 2) * Width \in Int
      OBVIOUS
    <3>. QED BY <3>1, <3>2, <3>3
  <2>14. ASSUME NEW i \in Cells
         PROVE  PutEntry(b, Blank).cells[i] = z.cells[i]
    <3>1. i \in Int /\ (i < Width * (Height - 1) => i + Width \in Cells)
      BY LastRow DEF Cells
    <3>2. CASE ~(i < Width * (Height - 1))
      BY <2>1, <2>2, <2>6, <2>10, <2>11, <3>2
    <3>3. CASE i < Width * (Height - 1) /\ i = At(b)
      <4>1. z.cells[i] = e.cells[At(scr)]
        BY <2>6, <2>13, <3>3
      <4>. QED BY <1>2, <2>1, <2>2, <2>11, <2>12, <3>3, <4>1
    <3>4. CASE i < Width * (Height - 1) /\ i # At(b)
      <4>1. i + Width # At(scr) /\ i + Width \in Cells
        BY <2>13, <3>1, <3>4
      <4>2. z.cells[i] = scr.cells[i + Width]
        BY <2>6, <2>12, <3>4, <4>1
      <4>3. t.cells[i] = scr.cells[i + Width]
        BY <2>1, <2>12, <3>4, <4>1
      <4>. QED BY <2>2, <2>1, <2>11, <3>4, <4>2, <4>3
    <3>. QED BY <3>2, <3>3, <3>4
  <2>15. PutEntry(b, Blank).cells = x.cells
    <3>1. PutEntry(b, Blank).cells \in [Cells -> Glyphs] /\ z.cells \in [Cells -> Glyphs]
      BY <2>5, <2>10 DEF Screens
    <3>. QED BY <2>9, <2>14, <3>1
  <2>16. PutEntry(b, Blank) = x
    BY <2>2, <2>8, <2>9, <2>10, <2>15, SameScreen
  <2>17. Scrolls(g)
    BY <1>1, <1>5, <1>9
  <2>. QED BY <1>6, <2>3, <2>16, <2>17 DEF e, t, z
<1>. QED BY <1>7, <1>8, <1>9

\* The cursor never leaves the screen, and a backspace takes back what was typed
\* before it wherever the row ended.
THEOREM ConsoleSafe == Spec => []ScreenSound
<1>1. Inv => TypeOK
  BY DEF Inv, TypeOK, Screens, Line
<1>. QED BY <1>1, TakenBack, InvHolds, PTL DEF ScreenSound

\* The console is a window on the end of the paper.
THEOREM ConsoleIsPaper == Spec => IsPaper
<1>1. UNCHANGED vars => UNCHANGED P!paper
  BY DEF vars, P!paper
<1>. QED BY <1>1, InitSteps, NextSteps, InvHolds, PTL DEF Spec, IsPaper, P!Spec

----------------------------------------------------------------------------
(* The line editor: buffer, history and completion.                        *)

Texts == Seq(Printable)

Fits == LineFits /\ entries \in Listings /\ entered \in Seq(Texts)

\* The sizes of the editor's arrays, and what a directory holds.
LEMMA EditorSizes ==
  /\ Size \in Nat /\ Size >= 1 /\ Size <= Width * (Height - 1)
  /\ HistorySize \in Nat /\ HistorySize >= 1 /\ ListSize \in Nat
  /\ Listings \subseteq Seq(Texts)
BY EditorAssumption, LastRow DEF Texts

\* No character is an arrow, a tab or Enter.
LEMMA PrintableFacts ==
  ASSUME NEW c \in Printable
  PROVE  c \in Nat /\ c >= 32 /\ c < 127
BY EditorAssumption DEF Printable, Blank

LEMMA BlankPrintable == Blank \in Printable
BY DEF Printable

\* history_add keeps the sizes.
LEMMA HistoryAddFacts ==
  ASSUME Fits, Len(buf) < Size
  PROVE  /\ HistoryAdd(buf) \in Seq(Texts)
         /\ Len(HistoryAdd(buf)) <= HistorySize
         /\ \A k \in 1 .. Len(HistoryAdd(buf)) : Len(HistoryAdd(buf)[k]) \in 1 .. Size - 1
<1> DEFINE n == Len(history)
           OK(h) == /\ h \in Seq(Texts) /\ Len(h) <= HistorySize
                    /\ \A k \in 1 .. Len(h) : Len(h[k]) \in 1 .. Size - 1
<1>1. /\ history \in Seq(Texts) /\ n <= HistorySize /\ n \in Nat /\ buf \in Texts
      /\ Len(buf) < Size /\ Len(buf) \in Nat
      /\ \A k \in 1 .. n : Len(history[k]) \in 1 .. Size - 1
  BY DEF Fits, LineFits, Texts
<1>2. OK(history)
  BY <1>1
<1>3. ASSUME buf # <<>>, n < HistorySize
      PROVE  OK(Append(history, buf))
  <2>1. Len(buf) \in 1 .. Size - 1
    BY <1>1, <1>3, EmptySeq, EditorSizes DEF Texts
  <2>2. /\ Append(history, buf) \in Seq(Texts) /\ Len(Append(history, buf)) = n + 1
        /\ \A k \in 1 .. n : Append(history, buf)[k] = history[k]
        /\ Append(history, buf)[n + 1] = buf
    BY <1>1, AppendProperties
  <2>. QED BY <1>1, <1>3, <2>1, <2>2, EditorSizes
<1>4. ASSUME buf # <<>>, ~(n < HistorySize)
      PROVE  OK(Append(Tail(history), buf))
  <2> DEFINE t == Tail(history)
  <2>1. Len(buf) \in 1 .. Size - 1
    BY <1>1, <1>4, EmptySeq, EditorSizes DEF Texts
  <2>2. n = HistorySize /\ n >= 1 /\ history # <<>>
    BY <1>1, <1>4, EditorSizes
  <2>3. /\ t \in Seq(Texts) /\ Len(t) = n - 1
        /\ \A k \in 1 .. n - 1 : t[k] = history[k + 1]
    BY <1>1, <2>2, HeadTailProperties
  <2> HIDE DEF t
  <2>4. /\ Append(t, buf) \in Seq(Texts) /\ Len(Append(t, buf)) = n
        /\ \A k \in 1 .. n - 1 : Append(t, buf)[k] = t[k]
        /\ Append(t, buf)[n] = buf
    BY <1>1, <2>2, <2>3, AppendProperties
  <2>5. \A k \in 1 .. n : Len(Append(t, buf)[k]) \in 1 .. Size - 1
    <3> SUFFICES ASSUME NEW k \in 1 .. n PROVE Len(Append(t, buf)[k]) \in 1 .. Size - 1
      OBVIOUS
    <3>1. CASE k = n
      BY <2>1, <2>4, <3>1
    <3>2. CASE k # n
      <4>1. k \in 1 .. n - 1 /\ k + 1 \in 1 .. n
        BY <1>1, <3>2
      <4>. QED BY <1>1, <2>3, <2>4, <4>1
    <3>. QED BY <3>1, <3>2
  <2>6. OK(Append(t, buf))
    BY <2>2, <2>4, <2>5
  <2>. QED BY <2>6 DEF t
<1>5. HistoryAdd(buf) = history \/ (buf # <<>> /\ n < HistorySize /\ HistoryAdd(buf) = Append(history, buf))
      \/ (buf # <<>> /\ ~(n < HistorySize) /\ HistoryAdd(buf) = Append(Tail(history), buf))
  BY DEF HistoryAdd
<1>6. OK(HistoryAdd(buf))
  BY <1>2, <1>3, <1>4, <1>5
<1>. QED BY <1>6

\* Where the last word starts.
LEMMA WordStartFacts ==
  ASSUME Fits
  PROVE  WordStart \in 0 .. Len(buf)
<1>1. buf \in Texts /\ Len(buf) \in Nat
  BY DEF Fits, LineFits, Texts
<1>2. CASE Blank \in ToSet(buf)
  <2> DEFINE S == {k \in DOMAIN buf : buf[k] = Blank}
  <2>1. DOMAIN buf = 1 .. Len(buf)
    BY <1>1 DEF Texts
  <2>2. S # {} /\ S \in SUBSET (0 .. Len(buf))
    BY <1>1, <1>2, <2>1 DEF ToSet
  <2> HIDE DEF S
  <2>3. Max(S) \in S
    BY <1>1, <2>2, MaxIsGreatest
  <2>. QED BY <1>2, <2>2, <2>3 DEF WordStart, S
<1>3. CASE Blank \notin ToSet(buf)
  BY <1>1, <1>3 DEF WordStart
<1>. QED BY <1>2, <1>3

\* A sequence is a prefix of one that agrees with it as far as it goes, and of no
\* other.
LEMMA PrefixFacts ==
  ASSUME NEW T, NEW s \in Seq(T), NEW t \in Seq(T)
  PROVE  IsPrefix(s, t) <=> Len(s) <= Len(t) /\ \A i \in 1 .. Len(s) : s[i] = t[i]
<1>1. Len(s) \in Nat /\ Len(t) \in Nat
  OBVIOUS
<1>2. CASE Len(s) <= Len(t)
  <2> DEFINE p == SubSeq(s, 1, Len(s))
             q == SubSeq(t, 1, Len(s))
  <2>1. /\ p \in Seq(T) /\ Len(p) = Len(s) /\ \A i \in 1 .. Len(s) : p[i] = s[i]
        /\ q \in Seq(T) /\ Len(q) = Len(s) /\ \A i \in 1 .. Len(s) : q[i] = t[i]
    <3>1. (\A i \in 1 .. Len(s) : s[i] \in T) /\ (\A i \in 1 .. Len(s) : t[i] \in T)
      BY <1>1, <1>2, ElementOfSeq
    <3>. QED BY <1>1, <3>1, SubSeqProperties
  <2> HIDE DEF p, q
  <2>2. p = q <=> \A i \in 1 .. Len(s) : s[i] = t[i]
    <3>1. ASSUME \A i \in 1 .. Len(s) : s[i] = t[i] PROVE p = q
      <4>1. Len(p) = Len(q) /\ \A i \in 1 .. Len(p) : p[i] = q[i]
        BY <2>1, <3>1
      <4>. QED BY <2>1, <4>1, SeqEqual
    <3>2. ASSUME p = q PROVE \A i \in 1 .. Len(s) : s[i] = t[i]
      BY <2>1, <3>2
    <3>. QED BY <3>1, <3>2
  <2>. QED BY <1>2, <2>2 DEF IsPrefix, p, q
<1>3. CASE ~(Len(s) <= Len(t))
  BY <1>3 DEF IsPrefix
<1>. QED BY <1>2, <1>3

\* A sequence is a suffix of one that ends with it.
LEMMA SuffixFacts ==
  ASSUME NEW T, NEW s \in Seq(T), NEW t \in Seq(T), Len(s) <= Len(t),
         \A i \in 1 .. Len(s) : s[i] = t[Len(t) - Len(s) + i]
  PROVE  IsSuffix(s, t)
<1> DEFINE p == Reverse(s)
           q == Reverse(t)
           m == Len(s)
           n == Len(t)
<1>1. m \in Nat /\ n \in Nat
  OBVIOUS
<1>2. /\ p \in Seq(T) /\ Len(p) = m /\ \A i \in 1 .. m : p[i] = s[(m - i) + 1]
      /\ q \in Seq(T) /\ Len(q) = n /\ \A i \in 1 .. n : q[i] = t[(n - i) + 1]
  <2>1. ASSUME NEW r \in Seq(T)
        PROVE  /\ Reverse(r) \in Seq(T) /\ Len(Reverse(r)) = Len(r)
               /\ \A i \in 1 .. Len(r) : Reverse(r)[i] = r[(Len(r) - i) + 1]
    <3>1. Reverse(r) = [i \in 1 .. Len(r) |-> r[(Len(r) - i) + 1]]
      BY DEF Reverse
    <3>2. Len(r) \in Nat /\ \A i \in 1 .. Len(r) : r[(Len(r) - i) + 1] \in T
      <4>1. Len(r) \in Nat /\ \A i \in 1 .. Len(r) : (Len(r) - i) + 1 \in 1 .. Len(r)
        OBVIOUS
      <4>. QED BY <4>1, ElementOfSeq
    <3>. QED BY <3>1, <3>2
  <2>. QED BY <2>1
<1>3. \A i \in 1 .. m : p[i] = q[i]
  <2> SUFFICES ASSUME NEW i \in 1 .. m PROVE p[i] = q[i]
    OBVIOUS
  <2>1. /\ i \in 1 .. n /\ (m - i) + 1 \in 1 .. m
        /\ n - m + ((m - i) + 1) = (n - i) + 1
    BY <1>1
  <2>. QED BY <1>2, <2>1
<1> HIDE DEF p, q
<1>4. IsPrefix(p, q)
  BY <1>2, <1>3, PrefixFacts
<1>. QED BY <1>4 DEF IsSuffix, p, q

\* What completion makes of the line: the line, the rest of an entry's name and a
\* blank.
LEMMA Completed ==
  ASSUME Fits, Complete, buf' # buf
  PROVE  /\ buf' \in Texts /\ IsPrefix(buf, buf') /\ Last(buf') = Blank
         /\ undefined' = (Len(buf') >= Size)
         /\ \E k \in DOMAIN entries :
              /\ k <= ListSize /\ IsSuffix(entries[k] \o <<Blank>>, buf')
              /\ Len(buf') <= Size - 2 + Len(entries[k])
<1> DEFINE ws == WordStart
           m == Min(Matches)
           e == entries[m]
           a == SubSeq(buf, 1, ws)
           b == <<Blank>>
           line == a \o e \o b
<1>1. /\ Matches # {} /\ buf' = line /\ undefined' = (Len(line) >= Size)
      /\ ~(m > ListSize) /\ Len(buf) + 2 < Size
  BY DEF Complete, MayComplete, Show, shown
<1>2. /\ buf \in Texts /\ Len(buf) \in Nat /\ ws \in 0 .. Len(buf) /\ entries \in Seq(Texts)
  BY WordStartFacts, EditorSizes DEF Fits, LineFits, Texts
<1>3. m \in DOMAIN entries /\ IsPrefix(Word, e)
  <2>1. Matches \in SUBSET Nat
    BY <1>2 DEF Matches
  <2>2. m \in Matches
    BY <1>1, <2>1, MinIsLeast
  <2>. QED BY <2>2 DEF Matches
<1>4. e \in Texts
  BY <1>2, <1>3
<1> HIDE DEF ws, m, e
<1> DEFINE w == Word
<1>5. /\ a \in Texts /\ Len(a) = ws /\ \A i \in 1 .. ws : a[i] = buf[i]
  BY <1>2, SubSeqProperties DEF Texts
<1>6. /\ w \in Texts /\ Len(w) = Len(buf) - ws /\ \A i \in 1 .. Len(buf) - ws : w[i] = buf[ws + i]
  <2>1. w = SubSeq(buf, ws + 1, Len(buf))
    BY DEF Word, ws
  <2>. QED BY <1>2, <2>1, SubSeqProperties DEF Texts
<1>7. Len(e) \in Nat /\ b \in Texts /\ Len(b) = 1 /\ b[1] = Blank
  BY <1>4, BlankPrintable DEF Texts
<1>8. IsPrefix(w, e)
  BY <1>3
<1> HIDE DEF w, a, b
<1>9. Len(w) <= Len(e) /\ \A i \in 1 .. Len(w) : w[i] = e[i]
  BY <1>8, <1>4, <1>6, PrefixFacts DEF Texts
<1> DEFINE ae == a \o e
           eb == e \o b
           l  == ae \o b
<1>10. /\ ae \in Texts /\ Len(ae) = ws + Len(e)
       /\ \A j \in 1 .. ws : ae[j] = a[j]
       /\ \A j \in 1 .. Len(e) : ae[ws + j] = e[j]
  <2>1. a \in Seq(Printable) /\ e \in Seq(Printable)
    BY <1>4, <1>5 DEF Texts
  <2>2. /\ ae \in Seq(Printable) /\ Len(ae) = Len(a) + Len(e)
        /\ \A j \in 1 .. Len(a) : ae[j] = a[j]
        /\ \A j \in 1 .. Len(e) : ae[Len(a) + j] = e[j]
    BY <2>1, ConcatFacts
  <2>. QED BY <1>5, <2>2 DEF Texts
<1>11. /\ eb \in Texts /\ Len(eb) = Len(e) + 1
       /\ \A j \in 1 .. Len(e) : eb[j] = e[j]
       /\ \A j \in 1 .. 1 : eb[Len(e) + j] = b[j]
  <2>1. e \in Seq(Printable) /\ b \in Seq(Printable)
    BY <1>4, <1>7 DEF Texts
  <2>2. /\ eb \in Seq(Printable) /\ Len(eb) = Len(e) + Len(b)
        /\ \A j \in 1 .. Len(e) : eb[j] = e[j]
        /\ \A j \in 1 .. Len(b) : eb[Len(e) + j] = b[j]
    BY <2>1, ConcatFacts
  <2>. QED BY <1>7, <2>2 DEF Texts
<1> HIDE DEF ae, eb
<1>12. /\ l \in Texts /\ Len(l) = ws + Len(e) + 1
       /\ \A j \in 1 .. Len(ae) : l[j] = ae[j]
       /\ \A j \in 1 .. 1 : l[Len(ae) + j] = b[j]
  <2>1. ae \in Seq(Printable) /\ b \in Seq(Printable)
    BY <1>10, <1>7 DEF Texts
  <2>2. /\ l \in Seq(Printable) /\ Len(l) = Len(ae) + Len(b)
        /\ \A j \in 1 .. Len(ae) : l[j] = ae[j]
        /\ \A j \in 1 .. Len(b) : l[Len(ae) + j] = b[j]
    BY <2>1, ConcatFacts
  <2>. QED BY <1>10, <1>7, <2>2 DEF Texts
<1> HIDE DEF l
<1>13. buf' = l
  BY <1>1 DEF l, ae, a, b, e, m, ws
<1>14. Last(l) = Blank
  <2>1. 1 \in 1 .. 1
    OBVIOUS
  <2>. QED BY <1>2, <1>10, <1>12, <1>7, <2>1 DEF Last
<1>15. IsPrefix(buf, l)
  <2>1. \A i \in 1 .. Len(buf) : buf[i] = l[i]
    <3> SUFFICES ASSUME NEW i \in 1 .. Len(buf) PROVE buf[i] = l[i]
      OBVIOUS
    <3>1. CASE i <= ws
      BY <1>2, <1>5, <1>10, <1>12, <1>7, <3>1
    <3>2. CASE ~(i <= ws)
      <4>1. i - ws \in 1 .. Len(w) /\ i = ws + (i - ws) /\ i - ws \in 1 .. Len(e) /\ i \in 1 .. Len(ae)
        BY <1>2, <1>6, <1>10, <1>7, <1>9, <3>2
      <4>2. l[i] = e[i - ws]
        BY <1>10, <1>12, <4>1
      <4>3. w[i - ws] = buf[i]
        BY <1>6, <4>1
      <4>. QED BY <1>9, <4>1, <4>2, <4>3
    <3>. QED BY <3>1, <3>2
  <2>2. Len(buf) <= Len(l)
    BY <1>2, <1>6, <1>12, <1>7, <1>9
  <2>. QED BY <1>2, <1>12, <2>1, <2>2, PrefixFacts DEF Texts
<1>16. IsSuffix(eb, l)
  <2>1. Len(eb) <= Len(l) /\ Len(l) - Len(eb) = ws
    BY <1>2, <1>11, <1>12, <1>7
  <2>2. \A i \in 1 .. Len(eb) : eb[i] = l[ws + i]
    <3> SUFFICES ASSUME NEW i \in 1 .. Len(eb) PROVE eb[i] = l[ws + i]
      OBVIOUS
    <3>1. CASE i \in 1 .. Len(e)
      <4>1. ws + i \in 1 .. Len(ae)
        BY <1>2, <1>10, <1>7, <3>1
      <4>. QED BY <1>10, <1>11, <1>12, <3>1, <4>1
    <3>2. CASE i = Len(e) + 1
      <4>1. 1 \in 1 .. 1 /\ Len(ae) + 1 = ws + i
        BY <1>2, <1>10, <1>7, <3>2
      <4>. QED BY <1>11, <1>12, <3>2, <4>1
    <3>. QED BY <1>11, <1>7, <3>1, <3>2
  <2>. QED BY <1>11, <1>12, <2>1, <2>2, SuffixFacts DEF Texts
<1>17. eb = entries[m] \o <<Blank>>
  BY DEF eb, e, b
<1>18. m \in Nat /\ m <= ListSize
  BY <1>1, <1>2, <1>3, EditorSizes
<1>19. Len(l) <= Size - 2 + Len(e)
  BY <1>1, <1>2, <1>7, <1>12, EditorSizes
<1>20. \E k \in DOMAIN entries :
         /\ k <= ListSize /\ IsSuffix(entries[k] \o <<Blank>>, l)
         /\ Len(l) <= Size - 2 + Len(entries[k])
  BY <1>3, <1>16, <1>17, <1>18, <1>19 DEF e
<1>21. undefined' = (Len(l) >= Size)
  BY <1>1, <1>13
<1>. QED BY <1>12, <1>13, <1>14, <1>15, <1>20, <1>21

\* The editor starts with an empty line and an empty history.
LEMMA FitsInit == EditorInit => Fits
<1> SUFFICES ASSUME EditorInit PROVE Fits
  OBVIOUS
<1>1. buf = <<>> /\ history = <<>> /\ hist_index = 0 /\ entries \in Listings /\ entered = <<>>
  BY DEF EditorInit
<1>. QED BY <1>1, EditorSizes, EmptySeq DEF Fits, LineFits, Texts

\* Keys are taken only while the line fits.
LEMMA StillFits ==
  ASSUME Fits, EditorNext
  PROVE  Len(buf) < Size
BY DEF Fits, LineFits, Overrun, EditorNext

\* A line that does not leave its buffer but by a completion.
FitsOrOverruns == buf \in Texts /\ (Len(buf) < Size \/ Overrun)

\* No key but a tab makes the line outgrow its array, and none the history.
LEMMA FitsNext == Fits /\ [EditorNext]_editor => Fits'
<1> SUFFICES ASSUME Fits, [EditorNext]_editor PROVE Fits'
  OBVIOUS
<1>1. /\ FitsOrOverruns /\ buf \in Texts /\ Len(buf) \in Nat
      /\ history \in Seq(Texts) /\ Len(history) <= HistorySize /\ Len(history) \in Nat
      /\ \A k \in 1 .. Len(history) : Len(history[k]) \in 1 .. Size - 1
      /\ hist_index \in 0 .. Len(history) /\ entries \in Listings /\ entered \in Seq(Texts)
  BY DEF Fits, LineFits, Texts, FitsOrOverruns
<1>2. ASSUME FitsOrOverruns', hist_index' \in 0 .. Len(history),
             UNCHANGED <<history, entries, entered>>
      PROVE  Fits'
  BY <1>1, <1>2 DEF Fits, LineFits, Texts, FitsOrOverruns
<1>3. CASE EditorNext /\ Edit
  <2>1. UNCHANGED <<history, entries, entered>> /\ Len(buf) < Size
    BY <1>3, StillFits DEF Edit
  <2>2. ASSUME NEW c \in Printable, Character(c)
        PROVE  buf' \in Texts /\ Len(buf') < Size /\ hist_index' = hist_index
    <3>1. CASE HasRoom
      <4>1. buf' = Append(buf, c) /\ hist_index' = hist_index /\ Len(buf) + 1 < Size
        BY <2>2, <3>1 DEF Character, HasRoom
      <4>2. Append(buf, c) \in Texts /\ Len(Append(buf, c)) = Len(buf) + 1
        BY <1>1, AppendProperties DEF Texts
      <4>. QED BY <4>1, <4>2
    <3>2. CASE ~HasRoom
      BY <1>1, <2>1, <2>2, <3>2 DEF Character, shown
    <3>. QED BY <3>1, <3>2
  <2>3. ASSUME Erase
        PROVE  buf' \in Texts /\ Len(buf') < Size /\ hist_index' = hist_index
    <3>1. CASE buf # <<>>
      <4>1. buf' = SubSeq(buf, 1, Len(buf) - 1) /\ hist_index' = hist_index
        BY <2>3, <3>1 DEF Erase, Front
      <4>2. Len(buf) >= 1
        BY <1>1, <3>1, EmptySeq DEF Texts
      <4>3. PICK n \in Int : n = Len(buf) - 1
        BY <1>1
      <4>4. SubSeq(buf, 1, n) \in Seq(Printable) /\ Len(SubSeq(buf, 1, n)) = n
        <5>1. \A i \in 1 .. n : buf[i] \in Printable
          BY <1>1, <4>3 DEF Texts
        <5>2. 1 \in Int /\ n \in Int /\ n >= 0
          BY <1>1, <4>2, <4>3
        <5>. QED BY <5>1, <5>2, SubSeqProperties
      <4>5. buf' = SubSeq(buf, 1, n)
        BY <4>1, <4>3, Zenon
      <4>6. n < Size
        BY <1>1, <2>1, <4>3, EditorSizes
      <4>. QED BY <4>1, <4>4, <4>5, <4>6 DEF Texts
    <3>2. CASE buf = <<>>
      BY <1>1, <2>1, <2>3, <3>2 DEF Erase, shown
    <3>. QED BY <3>1, <3>2
  <2>4. ASSUME key' = Tab, TabKey
        PROVE  FitsOrOverruns' /\ hist_index' = hist_index
    <3>1. hist_index' = hist_index /\ Complete /\ entries' = entries
      BY <1>3, <2>4 DEF TabKey, Edit
    <3>2. CASE buf' = buf
      BY <1>1, <2>1, <3>1, <3>2 DEF FitsOrOverruns
    <3>3. CASE buf' # buf
      <4>1. /\ buf' \in Texts /\ undefined' = (Len(buf') >= Size)
            /\ \E k \in DOMAIN entries :
                 /\ k <= ListSize /\ IsSuffix(entries[k] \o <<Blank>>, buf')
                 /\ Len(buf') <= Size - 2 + Len(entries[k])
        BY <3>1, <3>3, Completed
      <4>2. CASE Len(buf') < Size
        BY <3>1, <4>1, <4>2 DEF FitsOrOverruns
      <4>3. CASE ~(Len(buf') < Size)
        <5>1. Len(buf') \in Nat
          BY <4>1 DEF Texts
        <5>2. Len(buf') >= Size
          BY <4>3, <5>1, EditorSizes
        <5>3. undefined'
          BY <4>1, <5>2, Zenon
        <5>. QED BY <2>4, <3>1, <4>1, <5>3 DEF FitsOrOverruns, Overrun
      <4>. QED BY <4>2, <4>3
    <3>. QED BY <3>2, <3>3
  <2>5. ASSUME Up
        PROVE  buf' \in Texts /\ Len(buf') < Size /\ hist_index' \in 0 .. Len(history)
    <3>1. CASE hist_index > 0
      <4>1. hist_index' = hist_index - 1 /\ buf' = history[hist_index] /\ hist_index \in 1 .. Len(history)
        BY <1>1, <2>5, <3>1 DEF Up, Show
      <4>2. Len(history[hist_index]) \in 1 .. Size - 1 /\ history[hist_index] \in Texts
        BY <1>1, <4>1
      <4>. QED BY <1>1, <4>1, <4>2, EditorSizes
    <3>2. CASE ~(hist_index > 0)
      BY <1>1, <2>1, <2>5, <3>2 DEF Up, shown
    <3>. QED BY <3>1, <3>2
  <2>6. ASSUME Down
        PROVE  buf' \in Texts /\ Len(buf') < Size /\ hist_index' \in 0 .. Len(history)
    <3>1. CASE Newest
      <4>1. /\ hist_index' = hist_index + 1 /\ buf' = history[hist_index + 2]
            /\ hist_index + 2 \in 1 .. Len(history)
        BY <1>1, <2>6, <3>1 DEF Down, Show, Newest
      <4>2. Len(history[hist_index + 2]) \in 1 .. Size - 1 /\ history[hist_index + 2] \in Texts
        BY <1>1, <4>1
      <4>. QED BY <1>1, <4>1, <4>2, EditorSizes
    <3>2. CASE ~Newest
      <4>1. hist_index' = Len(history) /\ buf' = <<>>
        BY <2>6, <3>2 DEF Down, Show
      <4>. QED BY <1>1, <4>1, EditorSizes, EmptySeq DEF Texts
    <3>. QED BY <3>1, <3>2
  <2>7. \/ \E c \in Printable : Character(c)
        \/ Erase \/ (key' = Tab /\ TabKey) \/ Up \/ Down
    BY <1>3 DEF Edit
  <2>8. FitsOrOverruns' /\ hist_index' \in 0 .. Len(history)
    BY <1>1, <2>2, <2>3, <2>4, <2>5, <2>6, <2>7 DEF FitsOrOverruns
  <2>. QED BY <1>2, <2>1, <2>8
<1>4. CASE EditorNext /\ Enter
  <2>1. buf' = <<>> /\ Len(buf) < Size
    BY <1>4, StillFits DEF Enter, EnterCommand, EnterAnswer, Ready
  <2>2. CASE EnterCommand
    <3>1. /\ history' = HistoryAdd(buf) /\ entered' = Append(entered, buf)
          /\ hist_index' = Len(history') /\ entries' \in Listings
      <4>1. buf = <<>> => HistoryAdd(buf) = history
        BY DEF HistoryAdd
      <4>. QED BY <1>1, <2>2, <4>1 DEF EnterCommand, Ready
    <3>2. entered' \in Seq(Texts)
      BY <1>1, <3>1, AppendProperties
    <3>3. /\ history' \in Seq(Texts) /\ Len(history') <= HistorySize /\ Len(history') \in Nat
          /\ \A k \in 1 .. Len(history') : Len(history'[k]) \in 1 .. Size - 1
      BY <2>1, <3>1, HistoryAddFacts
    <3>4. hist_index' \in 0 .. Len(history')
      BY <3>1, <3>3
    <3>5. buf' \in Texts /\ Len(buf') < Size
      BY <2>1, EditorSizes, EmptySeq DEF Texts
    <3>. QED BY <3>1, <3>2, <3>3, <3>4, <3>5 DEF Fits, LineFits, Texts
  <2>3. CASE EnterAnswer
    <3>1. UNCHANGED <<history, entered>> /\ hist_index' = Len(history) /\ entries' \in Listings
      BY <2>3 DEF EnterAnswer, Ready
    <3>2. buf' \in Texts /\ Len(buf') < Size
      BY <2>1, EditorSizes, EmptySeq DEF Texts
    <3>. QED BY <1>1, <3>1, <3>2 DEF Fits, LineFits, Texts
  <2>. QED BY <1>4, <2>2, <2>3 DEF Enter
<1>5. CASE UNCHANGED editor
  <2>1. FitsOrOverruns'
    BY <1>1, <1>5 DEF editor, FitsOrOverruns, Overrun
  <2>. QED BY <1>1, <1>2, <1>5, <2>1 DEF editor
<1>. QED BY <1>3, <1>4, <1>5 DEF EditorNext

LEMMA FitsHolds == EditorSpec => []Fits
BY FitsInit, FitsNext, PTL DEF EditorSpec

\* The line leaves its array only by a completion, and then by no more than the
\* completed name is long; the history fits its arrays, whatever is typed, recalled
\* or completed, and recall stays in it.
THEOREM EditorFits == EditorSpec => []LineFits
<1>1. Fits => LineFits
  BY DEF Fits
<1>. QED BY <1>1, FitsHolds, PTL

\* A tab adds to the line and takes nothing from it.
THEOREM CompletionAdds == EditorSpec => CompletionOnlyAdds
<1>1. ASSUME Fits, [EditorNext]_editor, key' = Tab, buf' # buf
      PROVE  /\ IsPrefix(buf, buf') /\ Last(buf') = Blank
             /\ \E k \in DOMAIN entries : IsSuffix(entries[k] \o <<Blank>>, buf')
  <2>1. EditorNext
    BY <1>1 DEF editor
  <2>2. Complete
    <3>1. Tab \notin Printable
      BY PrintableFacts DEF Tab
    <3>2. Tab # Backspace /\ Tab # KeyUp /\ Tab # KeyDown /\ Tab # KeyEnter
      BY DEF Tab, Backspace, KeyUp, KeyDown, KeyEnter
    <3>. QED BY <1>1, <2>1, <3>1, <3>2 DEF EditorNext, Edit, Enter, TabKey
  <2>. QED BY <1>1, <2>2, Completed
<1>2. ASSUME Fits, [EditorNext]_editor
      PROVE  [key' = Tab /\ buf' # buf =>
                /\ IsPrefix(buf, buf') /\ Last(buf') = Blank
                /\ \E k \in DOMAIN entries : IsSuffix(entries[k] \o <<Blank>>, buf')]_editor
  BY <1>1, <1>2
<1>. QED BY <1>2, FitsHolds, PTL DEF EditorSpec, CompletionOnlyAdds

\* The arrows walk the history one line at a time and show the line they stop at.
THEOREM RecallShows == EditorSpec => RecallShowsHistory
<1> DEFINE Walked ==
      \/ hist_index' = hist_index /\ hist_index = 0 /\ key' = KeyUp /\ buf' = buf
      \/ /\ hist_index' = IF key' = KeyUp THEN hist_index - 1
                          ELSE Min({hist_index + 1, Len(history)})
         /\ buf' = IF hist_index' = Len(history) THEN <<>> ELSE history[hist_index' + 1]
<1>1. ASSUME Fits, EditorNext, key' \in {KeyUp, KeyDown}
      PROVE  Walked
  <2>1. hist_index \in 0 .. Len(history) /\ Len(history) \in Nat
    BY <1>1 DEF Fits, LineFits
  <2>2. (key' = KeyUp /\ Up) \/ (key' = KeyDown /\ Down)
    <3>1. KeyUp \notin Printable /\ KeyDown \notin Printable
      BY PrintableFacts DEF KeyUp, KeyDown
    <3>2. /\ KeyUp \notin {Backspace, Tab, KeyEnter, KeyDown}
          /\ KeyDown \notin {Backspace, Tab, KeyEnter, KeyUp}
      BY DEF Tab, Backspace, KeyUp, KeyDown, KeyEnter
    <3>. QED BY <1>1, <3>1, <3>2 DEF EditorNext, Edit, Enter
  <2>3. CASE key' = KeyUp /\ Up
    <3>1. CASE hist_index > 0
      <4>1. hist_index' = hist_index - 1 /\ buf' = history[hist_index]
        BY <2>3, <3>1 DEF Up, Show
      <4>2. hist_index' # Len(history) /\ hist_index' + 1 = hist_index
        BY <2>1, <4>1
      <4>. QED BY <2>3, <4>1, <4>2
    <3>2. CASE ~(hist_index > 0)
      BY <2>1, <2>3, <3>2 DEF Up, shown
    <3>. QED BY <3>1, <3>2
  <2>4. CASE key' = KeyDown /\ Down
    <3>1. Min({hist_index + 1, Len(history)})
            = IF hist_index + 1 <= Len(history) THEN hist_index + 1 ELSE Len(history)
      BY <2>1, MinMaxOfTwo
    <3>2. KeyDown # KeyUp
      BY DEF KeyUp, KeyDown
    <3>3. CASE Newest
      <4>1. hist_index' = hist_index + 1 /\ buf' = history[hist_index + 2] /\ hist_index < Len(history) - 1
        BY <2>4, <3>3 DEF Down, Show, Newest
      <4>2. /\ hist_index' = Min({hist_index + 1, Len(history)})
            /\ hist_index' # Len(history) /\ hist_index' + 1 = hist_index + 2
        BY <2>1, <3>1, <4>1
      <4>. QED BY <2>4, <3>2, <4>1, <4>2
    <3>4. CASE ~Newest
      <4>1. hist_index' = Len(history) /\ buf' = <<>> /\ ~(hist_index < Len(history) - 1)
        BY <2>4, <3>4 DEF Down, Show, Newest
      <4>2. hist_index' = Min({hist_index + 1, Len(history)})
        BY <2>1, <3>1, <4>1
      <4>. QED BY <2>4, <3>2, <4>1, <4>2
    <3>. QED BY <3>3, <3>4
  <2>. QED BY <2>2, <2>3, <2>4
<1>2. ASSUME Fits, [EditorNext]_editor
      PROVE  [key' \in {KeyUp, KeyDown} => Walked]_editor
  BY <1>1, <1>2
<1>. QED BY <1>2, FitsHolds, PTL DEF EditorSpec, RecallShowsHistory

----------------------------------------------------------------------------
(* The history as the last distinct lines.  What Told and Distinct say of  *)
(* entered, as operators of any sequence of lines e; a number in a set of   *)
(* numbers is named by how many of the set are above it.                    *)

NonEmpty(e) == {k \in DOMAIN e : e[k] # <<>>}
Prior(e, k) == {j \in NonEmpty(e) : j < k}
Fresh(e)    == {k \in NonEmpty(e) : Prior(e, k) = {} \/ e[Max(Prior(e, k))] # e[k]}

Above(D, d) == {j \in D : j > d}

Room(n) == IF n <= HistorySize THEN n ELSE HistorySize

\* h lists the last lines of e among those numbered in D, as many as there is
\* room for.
Recalls(h, e, D) ==
  /\ Len(h) = Room(Cardinality(D))
  /\ \A k \in 1 .. Len(h) :
       \E d \in D : Cardinality(Above(D, d)) = Len(h) - k /\ h[k] = e[d]

\* Bounded sets of numbers and their parts are finite.
LEMMA CountFacts ==
  ASSUME NEW n \in Nat, NEW D \in SUBSET (1 .. n)
  PROVE  /\ IsFiniteSet(D) /\ Cardinality(D) \in Nat
         /\ \A d \in D : IsFiniteSet(Above(D, d)) /\ Cardinality(Above(D, d)) \in Nat
<1>1. IsFiniteSet(D)
  <2>1. 1 \in Int /\ n \in Int
    OBVIOUS
  <2>2. IsFiniteSet(1 .. n)
    BY <2>1, FS_Interval
  <2>. QED BY <2>2, FS_Subset
<1>2. \A d \in D : Above(D, d) \in SUBSET D
  BY DEF Above
<1>. QED BY <1>1, <1>2, FS_Subset, FS_CardinalityType

\* No two numbers of a set have as many of the set above them.
LEMMA CountsDiffer ==
  ASSUME NEW n \in Nat, NEW D \in SUBSET (1 .. n), NEW c \in D, NEW d \in D,
         Cardinality(Above(D, c)) = Cardinality(Above(D, d))
  PROVE  c = d
<1>1. ASSUME NEW a \in D, NEW b \in D, a < b,
             Cardinality(Above(D, a)) = Cardinality(Above(D, b))
      PROVE  FALSE
  <2>1. Above(D, b) \in SUBSET Above(D, a) /\ b \in Above(D, a) /\ b \notin Above(D, b)
    <3>1. \A j \in D : j > b => j > a
      BY <1>1
    <3>2. b > a /\ ~(b > b)
      BY <1>1
    <3>. QED BY <3>1, <3>2 DEF Above
  <2>2. IsFiniteSet(Above(D, a))
    BY CountFacts
  <2>3. Above(D, a) = Above(D, b)
    BY <1>1, <2>1, <2>2, FS_Subset
  <2>. QED BY <2>1, <2>3
<1>2. c \in Nat /\ d \in Nat
  OBVIOUS
<1>. QED BY <1>1, <1>2

\* A number above all others counts once more for each of them.
LEMMA CountsAdd ==
  ASSUME NEW n \in Nat, NEW D \in SUBSET (1 .. n)
  PROVE  LET E == D \cup {n + 1}
         IN  /\ Cardinality(E) = Cardinality(D) + 1
             /\ Cardinality(Above(E, n + 1)) = 0
             /\ \A d \in D : Cardinality(Above(E, d)) = Cardinality(Above(D, d)) + 1
<1> DEFINE E == D \cup {n + 1}
<1>1. IsFiniteSet(D) /\ \A d \in D : IsFiniteSet(Above(D, d))
  BY CountFacts
<1>2. n + 1 \notin D /\ ~(n + 1 > n + 1) /\ \A d \in D : n + 1 > d /\ ~(d > n + 1)
  OBVIOUS
<1>3. Cardinality(E) = Cardinality(D) + 1
  BY <1>1, <1>2, FS_AddElement
<1>4. Above(E, n + 1) = {}
  BY <1>2 DEF Above
<1>5. ASSUME NEW d \in D
      PROVE  Cardinality(Above(E, d)) = Cardinality(Above(D, d)) + 1
  <2>1. Above(E, d) = Above(D, d) \cup {n + 1}
    BY <1>2 DEF Above
  <2>2. n + 1 \notin Above(D, d)
    BY <1>2 DEF Above
  <2>. QED BY <1>1, <2>1, <2>2, FS_AddElement
<1>. QED BY <1>3, <1>4, <1>5, FS_EmptySet

\* Another line at the end of e, not numbered in D, changes nothing.
LEMMA RecallsSame ==
  ASSUME NEW e \in Seq(Texts), NEW b \in Texts, NEW h \in Seq(Texts),
         NEW D \in SUBSET (1 .. Len(e)), Recalls(h, e, D)
  PROVE  Recalls(h, Append(e, b), D)
<1>1. \A d \in D : Append(e, b)[d] = e[d]
  BY AppendProperties
<1>. QED BY <1>1 DEF Recalls

\* Numbered, it comes last, and a full history loses its first line.
LEMMA RecallsMore ==
  ASSUME NEW e \in Seq(Texts), NEW b \in Texts, NEW h \in Seq(Texts),
         NEW D \in SUBSET (1 .. Len(e)), Recalls(h, e, D), Len(h) <= HistorySize
  PROVE  Recalls(IF Len(h) < HistorySize THEN Append(h, b) ELSE Append(Tail(h), b),
                 Append(e, b), D \cup {Len(e) + 1})
<1> DEFINE n == Len(e)
           m == Len(h)
           f == Append(e, b)
           E == D \cup {n + 1}
           Up1(d) == Cardinality(Above(E, d))
<1>1. n \in Nat /\ m \in Nat /\ HistorySize \in Nat /\ HistorySize >= 1
  BY EditorSizes
<1>2. (\A d \in D : f[d] = e[d]) /\ f[n + 1] = b
  BY AppendProperties
<1>3. /\ Cardinality(E) = Cardinality(D) + 1 /\ Up1(n + 1) = 0
      /\ \A d \in D : Up1(d) = Cardinality(Above(D, d)) + 1
  BY <1>1, CountsAdd
<1>4. Cardinality(D) \in Nat /\ \A d \in D : Cardinality(Above(D, d)) \in Nat
  BY <1>1, CountFacts
<1>5. /\ m = Room(Cardinality(D))
      /\ \A k \in 1 .. m : \E d \in D : Cardinality(Above(D, d)) = m - k /\ h[k] = e[d]
  BY DEF Recalls
<1>6. n + 1 \in E /\ D \subseteq E
  OBVIOUS
<1> HIDE DEF n, m, f, E
<1>7. CASE m < HistorySize
  <2> DEFINE g == Append(h, b)
  <2>1. Len(g) = m + 1 /\ (\A k \in 1 .. m : g[k] = h[k]) /\ g[m + 1] = b
    BY AppendProperties DEF m
  <2> HIDE DEF g
  <2>2. Len(g) = Room(Cardinality(E))
    BY <1>1, <1>3, <1>4, <1>5, <1>7, <2>1 DEF Room
  <2>3. ASSUME NEW k \in 1 .. m + 1
        PROVE  \E d \in E : Up1(d) = (m + 1) - k /\ g[k] = f[d]
    <3>1. CASE k = m + 1
      BY <1>1, <1>2, <1>3, <1>6, <2>1, <3>1
    <3>2. CASE k # m + 1
      <4>1. k \in 1 .. m
        BY <1>1, <3>2
      <4>2. PICK d \in D : Cardinality(Above(D, d)) = m - k /\ h[k] = e[d]
        BY <1>5, <4>1
      <4>3. Up1(d) = (m + 1) - k
        BY <1>1, <1>3, <4>1, <4>2
      <4>4. g[k] = f[d]
        BY <1>2, <2>1, <4>1, <4>2
      <4>. QED BY <1>6, <4>3, <4>4
    <3>. QED BY <3>1, <3>2
  <2>4. \A k \in 1 .. Len(g) :
          \E d \in E : Cardinality(Above(E, d)) = Len(g) - k /\ g[k] = f[d]
    <3> DEFINE Holds(l) == \A k \in 1 .. l : \E d \in E : Up1(d) = l - k /\ g[k] = f[d]
    <3>1. Holds(m + 1)
      BY <2>3
    <3> HIDE DEF Holds
    <3>2. Holds(Len(g))
      BY <2>1, <3>1
    <3>. QED BY <3>2 DEF Holds
  <2>5. Recalls(g, f, E)
    BY <2>2, <2>4 DEF Recalls
  <2>. QED BY <1>7, <2>5 DEF g, f, E, m, n
<1>8. CASE ~(m < HistorySize)
  <2> DEFINE t == Tail(h)
             g == Append(t, b)
  <2>1. m = HistorySize /\ m >= 1
    BY <1>1, <1>8 DEF m
  <2>2. t \in Seq(Texts) /\ Len(t) = m - 1 /\ \A k \in 1 .. m - 1 : t[k] = h[k + 1]
    <3>1. h # <<>>
      BY <2>1, EmptySeq DEF m
    <3>. QED BY <3>1, HeadTailProperties DEF m
  <2> HIDE DEF t
  <2>3. Len(g) = m /\ (\A k \in 1 .. m - 1 : g[k] = t[k]) /\ g[m] = b
    BY <1>1, <2>2, AppendProperties
  <2> HIDE DEF g
  <2>4. Len(g) = Room(Cardinality(E))
    BY <1>1, <1>3, <1>4, <1>5, <2>1, <2>3 DEF Room
  <2>5. ASSUME NEW k \in 1 .. m
        PROVE  \E d \in E : Up1(d) = m - k /\ g[k] = f[d]
    <3>1. CASE k = m
      BY <1>1, <1>2, <1>3, <1>6, <2>3, <3>1
    <3>2. CASE k # m
      <4>1. k \in 1 .. m - 1 /\ k + 1 \in 1 .. m
        BY <1>1, <3>2
      <4>2. PICK d \in D : Cardinality(Above(D, d)) = m - (k + 1) /\ h[k + 1] = e[d]
        BY <1>5, <4>1
      <4>3. Up1(d) = m - k
        BY <1>1, <1>3, <4>1, <4>2
      <4>4. g[k] = f[d]
        BY <1>2, <2>2, <2>3, <4>1, <4>2
      <4>. QED BY <1>6, <4>3, <4>4
    <3>. QED BY <3>1, <3>2
  <2>6. Recalls(g, f, E)
    BY <2>3, <2>4, <2>5 DEF Recalls
  <2>. QED BY <1>8, <2>6 DEF g, t, f, E, m, n
<1>. QED BY <1>7, <1>8

\* What recalls the lines is that list of lines.
LEMMA RecallsIsList ==
  ASSUME NEW e \in Seq(Texts), NEW h \in Seq(Texts), NEW D \in SUBSET (1 .. Len(e)),
         Recalls(h, e, D)
  PROVE  LET newest(n) == CHOOSE k \in D : Cardinality(Above(D, k)) = n
             kept      == Min({HistorySize, Cardinality(D)})
         IN  h = [k \in 1 .. kept |-> e[newest(kept - k)]]
<1> DEFINE newest(n) == CHOOSE k \in D : Cardinality(Above(D, k)) = n
           kept      == Min({HistorySize, Cardinality(D)})
<1>1. Len(e) \in Nat /\ Len(h) \in Nat /\ HistorySize \in Nat /\ Cardinality(D) \in Nat
  <2>1. Len(e) \in Nat /\ Len(h) \in Nat
    OBVIOUS
  <2>. QED BY <2>1, EditorSizes, CountFacts
<1>2. Len(h) = kept
  <2>1. kept = IF HistorySize <= Cardinality(D) THEN HistorySize ELSE Cardinality(D)
    BY <1>1, MinMaxOfTwo
  <2>2. Len(h) = Room(Cardinality(D))
    BY DEF Recalls
  <2>. QED BY <1>1, <2>1, <2>2 DEF Room
<1> HIDE DEF kept
<1>3. ASSUME NEW k \in 1 .. kept
      PROVE  h[k] = e[newest(kept - k)]
  <2>1. PICK d \in D : Cardinality(Above(D, d)) = kept - k /\ h[k] = e[d]
    BY <1>2 DEF Recalls
  <2>2. newest(kept - k) \in D /\ Cardinality(Above(D, newest(kept - k))) = kept - k
    BY <2>1
  <2> HIDE DEF newest
  <2>3. newest(kept - k) = d
    BY <1>1, <2>1, <2>2, CountsDiffer
  <2>. QED BY <2>1, <2>3
<1>4. h = [k \in 1 .. Len(h) |-> h[k]]
  OBVIOUS
<1>. QED BY <1>2, <1>3, <1>4 DEF kept

\* A line is entered: it is told when it is not empty, and new when it is not the
\* told line before it again.
LEMMA OneMoreLine ==
  ASSUME NEW e \in Seq(Texts), NEW b \in Texts
  PROVE  LET f == Append(e, b)
             new == b # <<>> /\ (NonEmpty(e) = {} \/ e[Max(NonEmpty(e))] # b)
         IN  /\ NonEmpty(f) = NonEmpty(e) \cup (IF b # <<>> THEN {Len(e) + 1} ELSE {})
             /\ b # <<>> => Max(NonEmpty(f)) = Len(e) + 1
             /\ Fresh(f) = Fresh(e) \cup (IF new THEN {Len(e) + 1} ELSE {})
<1> DEFINE n == Len(e)
           f == Append(e, b)
           last == IF b # <<>> THEN {n + 1} ELSE {}
<1>1. n \in Nat /\ DOMAIN e = 1 .. n /\ NonEmpty(e) \in SUBSET (1 .. n)
  BY DEF NonEmpty
<1>2. DOMAIN f = 1 .. n + 1 /\ (\A k \in 1 .. n : f[k] = e[k]) /\ f[n + 1] = b
  BY AppendProperties
<1> HIDE DEF n, f
<1>3. NonEmpty(f) = NonEmpty(e) \cup last
  <2>1. 1 .. n + 1 = (1 .. n) \cup {n + 1}
    BY <1>1
  <2>. QED BY <1>1, <1>2, <2>1 DEF NonEmpty
<1>4. b # <<>> => Max(NonEmpty(f)) = n + 1
  <2> SUFFICES ASSUME b # <<>> PROVE Max(NonEmpty(f)) = n + 1
    OBVIOUS
  <2>1. NonEmpty(f) \in SUBSET (0 .. n + 1) /\ n + 1 \in NonEmpty(f)
    BY <1>1, <1>3
  <2>2. n + 1 \in Nat /\ NonEmpty(f) # {}
    BY <1>1, <2>1
  <2>3. Max(NonEmpty(f)) \in NonEmpty(f) /\ \A y \in NonEmpty(f) : Max(NonEmpty(f)) >= y
    BY <2>1, <2>2, MaxIsGreatest
  <2>. QED BY <1>1, <2>1, <2>3
<1>5. ASSUME NEW k \in NonEmpty(e)
      PROVE  /\ k \in 1 .. n /\ k \in NonEmpty(f) /\ f[k] = e[k] /\ Prior(f, k) = Prior(e, k)
             /\ Prior(e, k) # {} => f[Max(Prior(e, k))] = e[Max(Prior(e, k))]
  <2>1. k \in 1 .. n /\ ~(n + 1 < k)
    BY <1>1
  <2>2. Prior(f, k) = Prior(e, k)
    BY <1>1, <1>3, <2>1 DEF Prior
  <2>3. Prior(e, k) \in SUBSET (0 .. n) /\ Prior(e, k) \in SUBSET (1 .. n)
    BY <1>1 DEF Prior
  <2>4. Prior(e, k) # {} => Max(Prior(e, k)) \in 1 .. n
    BY <1>1, <2>3, MaxIsGreatest
  <2>. QED BY <1>2, <1>3, <2>1, <2>2, <2>4
<1>6. Prior(f, n + 1) = NonEmpty(e)
  <2>1. (\A j \in NonEmpty(e) : j < n + 1) /\ ~(n + 1 < n + 1)
    BY <1>1
  <2>. QED BY <1>3, <2>1 DEF Prior
<1>7. NonEmpty(e) # {} => f[Max(NonEmpty(e))] = e[Max(NonEmpty(e))]
  <2>1. NonEmpty(e) # {} => Max(NonEmpty(e)) \in 1 .. n
    <3>1. NonEmpty(e) \in SUBSET (0 .. n)
      BY <1>1
    <3>. QED BY <1>1, <3>1, MaxIsGreatest
  <2>. QED BY <1>2, <2>1
<1> DEFINE new == b # <<>> /\ (NonEmpty(e) = {} \/ e[Max(NonEmpty(e))] # b)
<1>8. Fresh(f) = Fresh(e) \cup (IF new THEN {n + 1} ELSE {})
  <2>1. ASSUME NEW k \in NonEmpty(e)
        PROVE  k \in Fresh(f) <=> k \in Fresh(e)
    BY <1>5 DEF Fresh
  <2>2. n + 1 \in Fresh(f) <=> new
    <3>1. n + 1 \in NonEmpty(f) <=> b # <<>>
      <4>1. n + 1 \notin NonEmpty(e)
        BY <1>1
      <4>. QED BY <1>3, <4>1
    <3>. QED BY <1>2, <1>6, <1>7, <3>1 DEF Fresh
  <2>3. Fresh(f) \subseteq NonEmpty(e) \cup {n + 1} /\ Fresh(e) \subseteq NonEmpty(e)
    BY <1>3 DEF Fresh
  <2>4. \A k : k \in Fresh(f) <=> k \in Fresh(e) \/ (k = n + 1 /\ new)
    <3>1. n + 1 \notin NonEmpty(e)
      BY <1>1
    <3>. QED BY <2>1, <2>2, <2>3, <3>1
  <2>. QED BY <2>4
<1>. QED BY <1>3, <1>4, <1>8 DEF n, f

\* The history keeps the lines numbered by Distinct, and ends with the last line
\* told, which is all that history_add compares with.
Kept ==
  /\ Told = {} => history = <<>>
  /\ Told # {} => history # <<>> /\ Last(history) = entered[Max(Told)]
  /\ Recalls(history, entered, Distinct)

LEMMA TellsAsDefined == Told = NonEmpty(entered) /\ Distinct = Fresh(entered)
<1>1. Told = NonEmpty(entered) /\ \A k : Before(k) = Prior(entered, k)
  BY DEF Told, NonEmpty, Before, Prior
<1>. QED BY <1>1 DEF Distinct, Fresh

LEMMA TellsNext == Told' = NonEmpty(entered') /\ Distinct' = Fresh(entered')
<1>1. Told' = NonEmpty(entered') /\ \A k : Before(k)' = Prior(entered', k)
  BY DEF Told, NonEmpty, Before, Prior
<1>. QED BY <1>1 DEF Distinct, Fresh

LEMMA KeptInit == EditorInit => Kept
<1> SUFFICES ASSUME EditorInit PROVE Kept
  OBVIOUS
<1>1. history = <<>> /\ entered = <<>> /\ DOMAIN entered = {}
  BY DEF EditorInit
<1>2. Told = {} /\ Distinct = {}
  BY <1>1, TellsAsDefined DEF NonEmpty, Fresh
<1>3. Len(history) = 0 /\ Room(0) = 0
  BY <1>1, EditorSizes DEF Room
<1>4. Recalls(history, entered, {})
  <2>1. Cardinality({}) = 0
    BY FS_EmptySet
  <2>. QED BY <1>3, <2>1 DEF Recalls
<1>. QED BY <1>1, <1>2, <1>4 DEF Kept

LEMMA KeptNext == Fits /\ Kept /\ [EditorNext]_editor => Kept'
<1> SUFFICES ASSUME Fits, Kept, [EditorNext]_editor PROVE Kept'
  OBVIOUS
<1>1. CASE UNCHANGED <<history, entered>>
  <2>1. /\ Told = NonEmpty(entered) /\ Distinct = Fresh(entered)
        /\ Told' = NonEmpty(entered') /\ Distinct' = Fresh(entered')
    BY TellsAsDefined, TellsNext
  <2>2. Told' = Told /\ Distinct' = Distinct /\ history' = history /\ entered' = entered
    BY <1>1, <2>1
  <2>. QED BY <2>2 DEF Kept
<1>2. CASE EnterCommand
  <2>1. history' = HistoryAdd(buf) /\ entered' = Append(entered, buf)
    BY <1>2 DEF EnterCommand
  <2>2. /\ buf \in Texts /\ history \in Seq(Texts) /\ Len(history) <= HistorySize
        /\ entered \in Seq(Texts) /\ Len(entered) \in Nat /\ Len(history) \in Nat
    BY DEF Fits, LineFits, Texts
  <2> DEFINE n == Len(entered)
             new == buf # <<>> /\ (Told = {} \/ entered[Max(Told)] # buf)
  <2>3. Told' = NonEmpty(entered') /\ Distinct' = Fresh(entered')
    BY TellsNext
  <2>4. /\ Told' = Told \cup (IF buf # <<>> THEN {n + 1} ELSE {})
        /\ buf # <<>> => Max(Told') = n + 1
        /\ Distinct' = Distinct \cup (IF new THEN {n + 1} ELSE {})
    BY <2>1, <2>2, <2>3, OneMoreLine, TellsAsDefined
  <2>5. Told \in SUBSET (1 .. n) /\ Distinct \in SUBSET (1 .. n)
    BY <2>2, TellsAsDefined DEF NonEmpty, Fresh
  <2>6. (\A k \in 1 .. n : entered'[k] = entered[k]) /\ entered'[n + 1] = buf
    BY <2>1, <2>2, AppendProperties
  <2> HIDE DEF n
  <2>7. Told # {} => entered'[Max(Told)] = entered[Max(Told)]
    <3>1. n \in Nat /\ Told \in SUBSET (0 .. n)
      BY <2>2, <2>5 DEF n
    <3>2. Told # {} => Max(Told) \in 1 .. n
      BY <2>5, <3>1, MaxIsGreatest
    <3>. QED BY <2>6, <3>2
  <2>8. CASE new
    <3>1. HistoryAdd(buf) = IF Len(history) < HistorySize THEN Append(history, buf)
                            ELSE Append(Tail(history), buf)
      BY <2>8 DEF Kept, HistoryAdd
    <3>2. Recalls(history', entered', Distinct')
      <4>1. Recalls(history, entered, Distinct)
        BY DEF Kept
      <4>2. Distinct' = Distinct \cup {Len(entered) + 1}
        BY <2>4, <2>8 DEF n
      <4>3. Distinct \in SUBSET (1 .. Len(entered))
        BY <2>5 DEF n
      <4> HIDE DEF new
      <4>4. Recalls(IF Len(history) < HistorySize THEN Append(history, buf)
                    ELSE Append(Tail(history), buf),
                    Append(entered, buf), Distinct \cup {Len(entered) + 1})
        BY <2>2, <4>1, <4>3, RecallsMore
      <4>. QED BY <2>1, <3>1, <4>2, <4>4
    <3>3. history' # <<>> /\ Last(history') = buf
      <4>1. ASSUME NEW g \in Seq(Texts)
            PROVE  Append(g, buf) # <<>> /\ Last(Append(g, buf)) = buf
        <5>1. /\ Len(Append(g, buf)) = Len(g) + 1 /\ Append(g, buf)[Len(g) + 1] = buf
              /\ Len(g) \in Nat
          BY <2>2, AppendProperties
        <5>2. Len(Append(g, buf)) # 0
          BY <5>1
        <5>. QED BY <5>1, <5>2 DEF Last
      <4>2. history # <<>> => Tail(history) \in Seq(Texts)
        BY <2>2
      <4>3. ~(Len(history) < HistorySize) => history # <<>>
        BY <2>2, EditorSizes
      <4>. QED BY <2>1, <2>2, <3>1, <4>1, <4>2, <4>3
    <3>4. Told' # {} /\ entered'[Max(Told')] = buf
      BY <2>4, <2>6, <2>8
    <3>. QED BY <3>2, <3>3, <3>4 DEF Kept
  <2>9. CASE ~new
    <3>1. HistoryAdd(buf) = history
      BY <2>9 DEF Kept, HistoryAdd
    <3>2. Recalls(history', entered', Distinct')
      <4>1. Recalls(history, entered, Distinct)
        BY DEF Kept
      <4>2. Recalls(history, Append(entered, buf), Distinct)
        BY <2>2, <2>5, <4>1, RecallsSame DEF n
      <4>3. Distinct' = Distinct
        BY <2>4, <2>9
      <4>. QED BY <2>1, <3>1, <4>2, <4>3
    <3>3. CASE buf = <<>>
      <4>1. Told' = Told
        BY <2>4, <3>3
      <4>2. history' = history
        BY <2>1, <3>1
      <4>. QED BY <2>7, <3>2, <4>1, <4>2 DEF Kept
    <3>4. CASE buf # <<>>
      <4>1. Told # {} /\ entered[Max(Told)] = buf
        BY <2>9, <3>4
      <4>2. history' = history /\ history # <<>> /\ Last(history) = buf
        BY <2>1, <3>1, <4>1 DEF Kept
      <4>3. Told' # {} /\ entered'[Max(Told')] = buf
        BY <2>4, <2>6, <3>4
      <4>. QED BY <3>2, <4>2, <4>3 DEF Kept
    <3>. QED BY <3>3, <3>4
  <2>. QED BY <2>8, <2>9
<1>3. EnterCommand \/ UNCHANGED <<history, entered>>
  BY DEF EditorNext, Edit, Enter, EnterAnswer, editor
<1>. QED BY <1>1, <1>2, <1>3

\* The history is the last lines entered at the shell, in order, without empty
\* ones and immediate repeats, and never one that answered a command.
THEOREM HistoryKept == EditorSpec => []HistoryIsLastLines
<1>1. Fits /\ Kept => HistoryIsLastLines
  <2> SUFFICES ASSUME Fits, Kept PROVE HistoryIsLastLines
    OBVIOUS
  <2>1. history \in Seq(Texts) /\ entered \in Seq(Texts) /\ Distinct \in SUBSET (1 .. Len(entered))
    BY TellsAsDefined DEF Fits, LineFits, Texts, NonEmpty, Fresh
  <2>2. Recalls(history, entered, Distinct)
    BY DEF Kept
  <2>. QED BY <2>1, <2>2, RecallsIsList DEF HistoryIsLastLines, Above
<1>2. EditorInit => Fits /\ Kept
  BY FitsInit, KeptInit
<1>3. Fits /\ Kept /\ [EditorNext]_editor => (Fits /\ Kept)'
  BY FitsNext, KeptNext
<1>. QED BY <1>1, <1>2, <1>3, PTL DEF EditorSpec

----------------------------------------------------------------------------
(* The line on the screen.  A screen here is one with any characters K, for *)
(* what commands print is not limited to Glyphs.                            *)

Codes(K) == K \cup {Newline, Return, Tab, Backspace}

Shots(K) == [cells : [Cells -> K], row : 0 .. Height - 1, col : 0 .. Width - 1]

\* The characters of t stand right before the cursor.
Shows(s, t) ==
  /\ At(s) >= Len(t)
  /\ \A k \in 1 .. Len(t) : s.cells[At(s) - Len(t) + k - 1] = t[k]

LEMMA CellNumbers == \A i \in Cells : i \in Nat /\ i < Width * Height
BY Sizes, LastRow DEF Cells

LEMMA AtFacts ==
  ASSUME NEW K, NEW s \in Shots(K)
  PROVE  /\ s.row \in 0 .. Height - 1 /\ s.col \in 0 .. Width - 1 /\ s.cells \in [Cells -> K]
         /\ At(s) = s.row * Width + s.col /\ s.row * Width \in Nat
         /\ At(s) \in Cells /\ At(s) \in Nat /\ At(s) < Width * Height
         /\ s.row = Height - 1 => At(s) = Width * (Height - 1) + s.col
<1> USE Sizes
<1>1. s.row \in 0 .. Height - 1 /\ s.col \in 0 .. Width - 1 /\ s.cells \in [Cells -> K]
  BY DEF Shots
<1>2. At(s) = s.row * Width + s.col /\ s.row * Width \in Nat
  BY <1>1 DEF At
<1>3. At(s) \in Cells
  BY <1>1, <1>2, Place
<1>4. At(s) \in Nat /\ At(s) < Width * Height
  BY <1>3, LastRow DEF Cells
<1>. QED BY <1>1, <1>2, <1>3, <1>4, LastRow

\* LineDown goes to the first column of the next row, or moves the rows up.
LEMMA DownShot ==
  ASSUME NEW K, Blank \in K, NEW s \in Shots(K)
  PROVE  /\ LineDown(s) \in Shots(K) /\ LineDown(s).col = 0
         /\ s.row # Height - 1 =>
              LineDown(s).row = s.row + 1 /\ LineDown(s).cells = s.cells
         /\ s.row = Height - 1 =>
              /\ LineDown(s).row = Height - 1
              /\ LineDown(s).cells = [i \in Cells |-> IF i < Width * (Height - 1)
                                                      THEN s.cells[i + Width] ELSE Blank]
<1> USE Sizes
<1> DEFINE down == [s EXCEPT !.col = 0, !.row = @ + 1]
           up   == Scrolled(down)
<1>1. s.row \in 0 .. Height - 1 /\ s.col \in 0 .. Width - 1 /\ s.cells \in [Cells -> K]
  BY DEF Shots
<1>2. /\ down.row = s.row + 1 /\ down.col = 0 /\ down.cells = s.cells
      /\ down \in [cells : [Cells -> K], row : 0 .. Height, col : 0 .. Width - 1]
  <2>1. 0 \in 0 .. Width - 1 /\ s.row + 1 \in 0 .. Height
    BY <1>1
  <2>. QED BY <2>1 DEF Shots
<1>3. LineDown(s) = IF down.row = Height THEN up ELSE down
  BY DEF LineDown
<1>4. /\ up.row = Height - 1 /\ up.col = down.col
      /\ up.cells = [i \in Cells |-> IF i < Width * (Height - 1)
                                     THEN down.cells[i + Width] ELSE Blank]
  BY <1>2 DEF Scrolled
<1>5. CASE s.row # Height - 1
  <2>1. LineDown(s) = down /\ s.row + 1 \in 0 .. Height - 1
    BY <1>1, <1>2, <1>3, <1>5
  <2>2. down \in Shots(K)
    BY <1>2, <2>1 DEF Shots
  <2>. QED BY <1>2, <1>5, <2>1, <2>2
<1>6. CASE s.row = Height - 1
  <2>1. LineDown(s) = up
    BY <1>1, <1>2, <1>3, <1>6
  <2>2. up.cells \in [Cells -> K]
    <3>1. ASSUME NEW i \in Cells, i < Width * (Height - 1)
          PROVE  i + Width \in Cells
      BY <3>1, LastRow DEF Cells
    <3>. QED BY <1>1, <1>2, <1>4, <3>1
  <2>3. up = [down EXCEPT !.row = Height - 1, !.cells = up.cells]
    BY <1>4 DEF Scrolled
  <2>4. Height - 1 \in 0 .. Height - 1
    OBVIOUS
  <2> HIDE DEF up, down
  <2>5. up \in Shots(K)
    BY <1>2, <2>2, <2>3, <2>4 DEF Shots
  <2>. QED BY <1>2, <1>4, <1>6, <2>1, <2>5
<1>. QED BY <1>5, <1>6

\* A character shown stands behind what stood before the cursor; d is how far the
\* screen moved for it.
LEMMA ShownShot ==
  ASSUME NEW K, Blank \in K, NEW s \in Shots(K), NEW c \in K
  PROVE  /\ Shown(s, c) \in Shots(K)
         /\ \E d \in {0, Width} :
              /\ At(Shown(s, c)) = At(s) + 1 - d
              /\ d = Width => At(Shown(s, c)) = Width * (Height - 1) /\ At(s) = Width * Height - 1
              /\ \A i \in 0 .. At(Shown(s, c)) - 1 :
                   Shown(s, c).cells[i] = IF i + d = At(s) THEN c ELSE s.cells[i + d]
              /\ \A i \in Cells : i >= At(Shown(s, c)) =>
                   Shown(s, c).cells[i] = IF d = Width THEN Blank ELSE s.cells[i]
<1> USE Sizes
<1> DEFINE put == PutEntry(s, c)
           new == Shown(s, c)
<1>1. /\ s.row \in 0 .. Height - 1 /\ s.col \in 0 .. Width - 1 /\ s.cells \in [Cells -> K]
      /\ At(s) = s.row * Width + s.col /\ s.row * Width \in Nat
      /\ At(s) \in Cells /\ At(s) \in Nat /\ At(s) < Width * Height
      /\ s.row = Height - 1 => At(s) = Width * (Height - 1) + s.col
  BY AtFacts
<1>2. /\ put \in Shots(K) /\ put.row = s.row /\ put.col = s.col
      /\ put.cells = [s.cells EXCEPT ![At(s)] = c]
  BY <1>1 DEF PutEntry, Shots
<1>3. new = IF s.col + 1 = Width THEN LineDown(put) ELSE [put EXCEPT !.col = s.col + 1]
  <2>1. new = IF s.col + 1 = Width THEN LineDown(put) ELSE [put EXCEPT !.col = put.col + 1]
    BY DEF Shown
  <2>. QED BY <1>2, <2>1
<1>4. \A i \in Cells : put.cells[i] = IF i = At(s) THEN c ELSE s.cells[i]
  BY <1>1, <1>2
<1> HIDE DEF put, new
<1>5. CASE s.col + 1 # Width
  <2>1. new = [put EXCEPT !.col = s.col + 1] /\ s.col + 1 \in 0 .. Width - 1
    BY <1>1, <1>3, <1>5
  <2>2. /\ new \in Shots(K) /\ new.row = s.row /\ new.col = s.col + 1
        /\ new.cells = put.cells
    BY <1>2, <2>1 DEF Shots
  <2>3. At(new) = At(s) + 1
    BY <1>1, <2>2 DEF At
  <2>4. \A i \in 0 .. At(new) - 1 : i \in Cells /\ i + 0 = i
    BY <1>1, <2>3, LastRow DEF Cells
  <2>5. \A i \in 0 .. At(new) - 1 : new.cells[i] = IF i + 0 = At(s) THEN c ELSE s.cells[i + 0]
    BY <1>4, <2>2, <2>4
  <2>6. At(new) = At(s) + 1 - 0 /\ 0 # Width
    BY <1>1, <2>3
  <2>7. \A i \in Cells : i >= At(new) => new.cells[i] = s.cells[i]
    <3>1. \A i \in Cells : i >= At(s) + 1 => i # At(s)
      BY <1>1, CellNumbers
    <3>. QED BY <1>4, <2>2, <2>3, <3>1
  <2>. QED BY <2>2, <2>5, <2>6, <2>7 DEF new
<1>6. CASE s.col + 1 = Width /\ s.row # Height - 1
  <2>1. new = LineDown(put)
    BY <1>3, <1>6
  <2>2. /\ new \in Shots(K) /\ new.row = s.row + 1 /\ new.col = 0
        /\ new.cells = put.cells
    BY <1>2, <1>6, <2>1, DownShot
  <2>3. At(new) = At(s) + 1
    <3>1. (s.row + 1) * Width = s.row * Width + Width
      BY <1>1
    <3>. QED BY <1>1, <1>6, <2>2, <3>1 DEF At
  <2>4. \A i \in 0 .. At(new) - 1 : i \in Cells /\ i + 0 = i
    BY <1>1, <2>3, LastRow DEF Cells
  <2>5. \A i \in 0 .. At(new) - 1 : new.cells[i] = IF i + 0 = At(s) THEN c ELSE s.cells[i + 0]
    BY <1>4, <2>2, <2>4
  <2>6. At(new) = At(s) + 1 - 0 /\ 0 # Width
    BY <1>1, <2>3
  <2>7. \A i \in Cells : i >= At(new) => new.cells[i] = s.cells[i]
    <3>1. \A i \in Cells : i >= At(s) + 1 => i # At(s)
      BY <1>1, CellNumbers
    <3>. QED BY <1>4, <2>2, <2>3, <3>1
  <2>. QED BY <2>2, <2>5, <2>6, <2>7 DEF new
<1>7. CASE s.col + 1 = Width /\ s.row = Height - 1
  <2>1. new = LineDown(put)
    BY <1>3, <1>7
  <2>2. /\ new \in Shots(K) /\ new.row = Height - 1 /\ new.col = 0
        /\ new.cells = [i \in Cells |-> IF i < Width * (Height - 1)
                                        THEN put.cells[i + Width] ELSE Blank]
    BY <1>2, <1>7, <2>1, DownShot
  <2>3. At(new) = Width * (Height - 1) /\ At(new) = At(s) + 1 - Width /\ At(s) = Width * Height - 1
    BY <1>1, <1>7, <2>2, LastRow DEF At
  <2>4. \A i \in 0 .. At(new) - 1 : i \in Cells /\ i + Width \in Cells /\ i < Width * (Height - 1)
    BY <2>3, LastRow DEF Cells
  <2>5. \A i \in 0 .. At(new) - 1 :
          new.cells[i] = IF i + Width = At(s) THEN c ELSE s.cells[i + Width]
    BY <1>4, <2>2, <2>4
  <2>6. \A i \in Cells : i >= At(new) => new.cells[i] = Blank
    BY <2>2, <2>3, LastRow DEF Cells
  <2>. QED BY <2>2, <2>3, <2>5, <2>6 DEF new
<1>. QED BY <1>5, <1>6, <1>7

\* A step back blanks the cell before the cursor and no other.
LEMMA BackShot ==
  ASSUME NEW K, Blank \in K, NEW s \in Shots(K)
  PROVE  /\ StepBack(s) \in Shots(K)
         /\ At(s) >= 1 =>
              /\ At(StepBack(s)) = At(s) - 1
              /\ \A i \in Cells :
                   StepBack(s).cells[i] = IF i = At(s) - 1 THEN Blank ELSE s.cells[i]
<1> USE Sizes
<1> DEFINE back == BackOf(s)
<1>1. /\ s.row \in 0 .. Height - 1 /\ s.col \in 0 .. Width - 1 /\ s.cells \in [Cells -> K]
      /\ At(s) = s.row * Width + s.col /\ s.row * Width \in Nat
      /\ At(s) \in Cells /\ At(s) \in Nat
  BY AtFacts
<1>2. StepBack(s) = PutEntry(back, Blank)
  BY DEF StepBack, BackOf
<1>3. /\ back \in Shots(K) /\ back.cells = s.cells
      /\ At(s) >= 1 => At(back) = At(s) - 1
  <2>1. CASE s.col > 0
    <3>1. back = [s EXCEPT !.col = s.col - 1] /\ s.col - 1 \in 0 .. Width - 1
      BY <1>1, <2>1 DEF BackOf
    <3>2. back \in Shots(K) /\ back.cells = s.cells /\ back.row = s.row /\ back.col = s.col - 1
      BY <3>1 DEF Shots
    <3>. QED BY <1>1, <3>2 DEF At
  <2>2. CASE ~(s.col > 0) /\ s.row > 0
    <3>1. back = [s EXCEPT !.row = s.row - 1, !.col = Width - 1]
      BY <2>2 DEF BackOf
    <3>2. s.row - 1 \in 0 .. Height - 1 /\ Width - 1 \in 0 .. Width - 1
      BY <1>1, <2>2
    <3>3. back \in Shots(K)
      BY <3>1, <3>2 DEF Shots
    <3>4. back.cells = s.cells /\ back.row = s.row - 1 /\ back.col = Width - 1
      BY <3>1 DEF Shots
    <3>5. (s.row - 1) * Width = s.row * Width - Width
      BY <1>1
    <3>. QED BY <1>1, <2>2, <3>3, <3>4, <3>5 DEF At
  <2>3. CASE ~(s.col > 0) /\ ~(s.row > 0)
    <3>1. back = s /\ s.row = 0 /\ s.col = 0
      BY <1>1, <2>3 DEF BackOf
    <3>. QED BY <1>1, <3>1
  <2>. QED BY <2>1, <2>2, <2>3
<1> HIDE DEF back
<1>4. At(back) \in Cells /\ back.cells \in [Cells -> K]
  BY <1>3, AtFacts
<1>5. /\ StepBack(s) \in Shots(K) /\ StepBack(s).row = back.row /\ StepBack(s).col = back.col
      /\ StepBack(s).cells = [back.cells EXCEPT ![At(back)] = Blank]
  BY <1>2, <1>3, <1>4 DEF PutEntry, Shots
<1>6. At(StepBack(s)) = At(back)
  BY <1>5 DEF At
<1>7. At(s) >= 1 => \A i \in Cells :
        StepBack(s).cells[i] = IF i = At(s) - 1 THEN Blank ELSE s.cells[i]
  BY <1>3, <1>4, <1>5
<1>. QED BY <1>3, <1>5, <1>6, <1>7

\* Whatever is put, the cursor stays on the screen.
LEMMA PutShot ==
  ASSUME NEW K, Blank \in K, NEW s \in Shots(K), NEW c \in Codes(K)
  PROVE  Put(s, c) \in Shots(K)
<1> USE Sizes
<1>1. s.row \in 0 .. Height - 1 /\ s.col \in 0 .. Width - 1
  BY AtFacts
<1>2. LineDown(s) \in Shots(K)
  BY DownShot
<1>3. [s EXCEPT !.col = 0] \in Shots(K)
  <2>1. 0 \in 0 .. Width - 1
    OBVIOUS
  <2>. QED BY <2>1 DEF Shots
<1>4. Tabbed(s) \in Shots(K)
  <2> DEFINE stop == (s.col \div TabStop + 1) * TabStop
  <2>1. stop \in Nat
    <3>1. PICK n \in Nat : n = s.col
      BY <1>1
    <3>2. LET m == (n \div TabStop + 1) * TabStop
          IN  m \in n + 1 .. n + TabStop /\ m % TabStop = 0
      BY NextStop
    <3>. QED BY <3>1, <3>2
  <2>2. Tabbed(s) = IF stop >= Width THEN LineDown(s) ELSE [s EXCEPT !.col = stop]
    BY DEF Tabbed
  <2> HIDE DEF stop
  <2>3. ~(stop >= Width) => [s EXCEPT !.col = stop] \in Shots(K)
    BY <2>1 DEF Shots
  <2>. QED BY <1>2, <2>2, <2>3
<1>5. StepBack(s) \in Shots(K)
  BY BackShot
<1>6. c \in K => Shown(s, c) \in Shots(K)
  BY ShownShot
<1>. QED BY <1>2, <1>3, <1>4, <1>5, <1>6 DEF Put, Codes

LEMMA PutShown ==
  ASSUME NEW s, NEW c \in Nat, c >= 32
  PROVE  Put(s, c) = Shown(s, c)
<1>1. c # Newline /\ c # Return /\ c # Tab /\ c # Backspace
  BY DEF Newline, Return, Tab, Backspace
<1>. QED BY <1>1 DEF Put

\* A line of printable characters grows by one.
LEMMA PutPrintable ==
  ASSUME NEW K, Printable \subseteq K, NEW s \in Shots(K), NEW c \in Printable, NEW t \in Texts,
         Shows(s, t), Len(t) + 1 < Size
  PROVE  Put(s, c) \in Shots(K) /\ Shows(Put(s, c), Append(t, c))
<1> USE Sizes
<1> DEFINE new == Shown(s, c)
           L   == Len(t)
<1>1. Put(s, c) = new
  BY PrintableFacts, PutShown
<1>2. Blank \in K /\ c \in K
  BY BlankPrintable
<1>3. PICK d \in {0, Width} :
        /\ At(new) = At(s) + 1 - d
        /\ d = Width => At(new) = Width * (Height - 1) /\ At(s) = Width * Height - 1
        /\ \A i \in 0 .. At(new) - 1 : new.cells[i] = IF i + d = At(s) THEN c ELSE s.cells[i + d]
  BY <1>2, ShownShot
<1>4. new \in Shots(K)
  BY <1>2, ShownShot
<1>5. At(s) \in Nat /\ At(new) \in Nat /\ L \in Nat /\ d \in Nat
  BY <1>4, AtFacts DEF Texts
<1>6. /\ Len(Append(t, c)) = L + 1 /\ \A k \in 1 .. L : Append(t, c)[k] = t[k]
      /\ Append(t, c)[L + 1] = c
  BY AppendProperties DEF Texts
<1>7. At(s) >= L /\ \A k \in 1 .. L : s.cells[At(s) - L + k - 1] = t[k]
  BY DEF Shows
<1> HIDE DEF new, L
<1>8. At(new) >= L + 1
  <2>1. CASE d = Width
    BY <1>3, <1>5, <2>1, EditorSizes, LastRow DEF L
  <2>2. CASE d # Width
    <3>1. d = 0
      BY <2>2
    <3>. QED BY <1>3, <1>5, <1>7, <3>1
  <2>. QED BY <2>1, <2>2
<1>9. ASSUME NEW k \in 1 .. L + 1
      PROVE  new.cells[At(new) - (L + 1) + k - 1] = Append(t, c)[k]
  <2> DEFINE i == At(new) - (L + 1) + k - 1
  <2>1. i \in 0 .. At(new) - 1 /\ i + d = At(s) - L + k - 1
    <3>1. At(new) = At(s) + 1 - d
      BY <1>3
    <3>2. k \in Nat /\ k >= 1 /\ k <= L + 1
      BY <1>5
    <3>3. PICK p \in Nat, q \in Nat : p = At(new) /\ q = At(s)
      BY <1>5
    <3>4. p = q + 1 - d /\ p >= L + 1
      BY <1>8, <3>1, <3>3
    <3>5. /\ p - (L + 1) + k - 1 \in 0 .. p - 1
          /\ p - (L + 1) + k - 1 + d = q - L + k - 1
      BY <1>5, <3>2, <3>4
    <3>. QED BY <3>3, <3>5
  <2>2. new.cells[i] = IF i + d = At(s) THEN c ELSE s.cells[i + d]
    BY <1>3, <2>1
  <2>3. CASE k = L + 1
    <3>1. i + d = At(s)
      BY <1>5, <2>1, <2>3
    <3>. QED BY <1>6, <2>2, <2>3, <3>1
  <2>4. CASE k # L + 1
    <3>1. k \in 1 .. L /\ i + d # At(s)
      BY <1>5, <2>1, <2>4
    <3>. QED BY <1>6, <1>7, <2>1, <2>2, <3>1
  <2>. QED BY <2>3, <2>4
<1>. QED BY <1>1, <1>4, <1>6, <1>8, <1>9 DEF Shows

\* The recursive function in Write satisfies its defining equation.
LEMMA WriteEquation ==
  ASSUME NEW s, NEW text, Len(text) \in Nat
  PROVE  \E a : /\ a[0] = s /\ \A k \in 1 .. Len(text) : a[k] = Put(a[k - 1], text[k])
                /\ Write(s, text) = a[Len(text)]
<1> DEFINE N == Len(text)
           Good(m, g) == g[0] = s /\ \A k \in 1 .. m : g[k] = Put(g[k - 1], text[k])
           S == {m \in Nat : \E g : g = [k \in 0 .. m |-> g[k]] /\ Good(m, g)}
<1>1. 0 \in S
  <2> DEFINE h == [k \in 0 .. 0 |-> s]
  <2>1. Good(0, h) /\ h = [k \in 0 .. 0 |-> h[k]]
    OBVIOUS
  <2> HIDE DEF h
  <2>. QED BY <2>1
<1>2. ASSUME NEW m \in S PROVE m + 1 \in S
  <2>1. PICK g : Good(m, g)
    OBVIOUS
  <2> DEFINE h == [k \in 0 .. m + 1 |-> IF k <= m THEN g[k] ELSE Put(g[m], text[k])]
  <2>2. h[0] = s
    BY <2>1
  <2>3. ASSUME NEW k \in 1 .. m + 1 PROVE h[k] = Put(h[k - 1], text[k])
    <3>1. CASE k <= m
      <4>1. h[k] = g[k] /\ h[k - 1] = g[k - 1]
        BY <3>1
      <4>. QED BY <2>1, <3>1, <4>1
    <3>2. CASE k = m + 1
      BY <3>2
    <3>. QED BY <3>1, <3>2
  <2>4. h = [k \in 0 .. m + 1 |-> h[k]]
    OBVIOUS
  <2> HIDE DEF h
  <2>5. Good(m + 1, h)
    BY <2>2, <2>3
  <2>6. m + 1 \in Nat /\ \E i : i = [k \in 0 .. m + 1 |-> i[k]] /\ Good(m + 1, i)
    <3> HIDE DEF Good
    <3>1. m \in Nat
      OBVIOUS
    <3>. QED BY <2>4, <2>5, <3>1
  <2>. QED BY <2>6
<1>3. S = Nat
  <2> HIDE DEF S
  <2>1. S \in SUBSET Nat
    BY DEF S
  <2>. QED BY <1>1, <1>2, <2>1, SetInduction
<1>4. PICK g : g = [k \in 0 .. N |-> g[k]] /\ Good(N, g)
  <2> HIDE DEF Good
  <2>1. N \in S
    <3> HIDE DEF S
    <3>. QED BY <1>3
  <2>. QED BY <2>1
<1> DEFINE F(a) == [k \in 0 .. N |-> IF k = 0 THEN s ELSE Put(a[k - 1], text[k])]
           after == CHOOSE a : a = F(a)
<1>5. g = F(g)
  <2>1. \A k \in 0 .. N : g[k] = IF k = 0 THEN s ELSE Put(g[k - 1], text[k])
    <3>1. g[0] = s /\ \A k \in 1 .. N : g[k] = Put(g[k - 1], text[k])
      BY <1>4
    <3>2. \A k \in 0 .. N : k = 0 \/ k \in 1 .. N
      OBVIOUS
    <3>. QED BY <3>1, <3>2
  <2>2. [k \in 0 .. N |-> g[k]] = F(g)
    BY <2>1
  <2>. QED BY <1>4, <2>2, Zenon
<1>6. after = F(after)
  BY <1>5, Zenon
<1>7. Write(s, text) = after[N]
  BY DEF Write
<1> HIDE DEF after
<1>8. after[0] = s /\ \A k \in 1 .. N : after[k] = Put(after[k - 1], text[k])
  <2>1. after = [k \in 0 .. N |-> IF k = 0 THEN s ELSE Put(after[k - 1], text[k])]
    BY <1>6
  <2>. QED BY <2>1
<1>. QED BY <1>7, <1>8

\* What holds before the first character, and after each for how many were written,
\* holds after the text.  A set of pairs stands for what holds.
LEMMA WriteInduct ==
  ASSUME NEW S, NEW s, NEW text, Len(text) \in Nat, <<0, s>> \in S,
         \A m \in 0 .. Len(text) - 1 : \A q :
           <<m, q>> \in S => <<m + 1, Put(q, text[m + 1])>> \in S
  PROVE  <<Len(text), Write(s, text)>> \in S
<1> DEFINE N == Len(text)
<1>1. PICK a : /\ a[0] = s /\ \A k \in 1 .. N : a[k] = Put(a[k - 1], text[k])
               /\ Write(s, text) = a[N]
  BY WriteEquation, ZenonT(60)
<1> DEFINE T == {m \in Nat : m <= N => <<m, a[m]>> \in S}
<1>2. 0 \in T
  BY <1>1
<1>3. ASSUME NEW m \in T PROVE m + 1 \in T
  <2>1. CASE m + 1 <= N
    <3>1. <<m, a[m]>> \in S /\ m \in 0 .. N - 1 /\ m + 1 \in 1 .. N /\ m = (m + 1) - 1
      BY <2>1
    <3>2. a[m + 1] = Put(a[m], text[m + 1])
      BY <1>1, <3>1
    <3>. QED BY <3>1, <3>2
  <2>2. CASE ~(m + 1 <= N)
    BY <2>2
  <2>. QED BY <2>1, <2>2
<1>4. T = Nat
  <2>1. T \in SUBSET Nat
    OBVIOUS
  <2> HIDE DEF T
  <2>. QED BY <1>2, <1>3, <2>1, SetInduction
<1>5. N \in T
  <2> HIDE DEF T
  <2>. QED BY <1>4
<1>. QED BY <1>1, <1>5

\* Text leaves the cursor on the screen.
LEMMA WriteShot ==
  ASSUME NEW K, Blank \in K, NEW s \in Shots(K), NEW text \in Seq(Codes(K))
  PROVE  Write(s, text) \in Shots(K)
<1> DEFINE N == Len(text)
           S == (0 .. N) \X Shots(K)
<1>1. N \in Nat /\ \A k \in 1 .. N : text[k] \in Codes(K)
  OBVIOUS
<1>2. <<0, s>> \in S
  BY <1>1
<1>3. ASSUME NEW m \in 0 .. N - 1, NEW q, <<m, q>> \in S
      PROVE  <<m + 1, Put(q, text[m + 1])>> \in S
  <2>1. q \in Shots(K) /\ m + 1 \in 1 .. N /\ m + 1 \in 0 .. N
    BY <1>1, <1>3
  <2>2. Put(q, text[m + 1]) \in Shots(K)
    BY <1>1, <2>1, PutShot
  <2>. QED BY <2>1, <2>2
<1>4. <<N, Write(s, text)>> \in S
  <2> HIDE DEF S
  <2>. QED BY <1>1, <1>2, <1>3, WriteInduct
<1>. QED BY <1>4

\* What one more character keeps, for a screen and the line on it, a line keeps.
LEMMA WriteGrows ==
  ASSUME NEW R, NEW s, NEW line \in Texts, Len(line) < Size,
         \A e \in Texts : Len(e) = 0 => <<s, e>> \in R,
         \A q : \A t \in Texts : \A c \in Printable :
           <<q, t>> \in R /\ Len(t) + 1 < Size => <<Put(q, c), Append(t, c)>> \in R
  PROVE  <<Write(s, line), line>> \in R
<1> DEFINE N == Len(line)
           t(m) == SubSeq(line, 1, m)
<1>1. N \in Nat /\ N < Size /\ Size \in Nat /\ \A k \in 1 .. N : line[k] \in Printable
  BY EditorSizes DEF Texts
<1>2. PICK a : /\ a[0] = s /\ \A k \in 1 .. N : a[k] = Put(a[k - 1], line[k])
               /\ Write(s, line) = a[N]
  BY <1>1, WriteEquation, ZenonT(60)
<1>3. ASSUME NEW m \in 0 .. N
      PROVE  t(m) \in Texts /\ Len(t(m)) = m /\ \A k \in 1 .. m : t(m)[k] = line[k]
  <2>1. m \in Int /\ 1 \in Int /\ \A k \in 1 .. m : line[k] \in Printable
    BY <1>1
  <2>2. /\ SubSeq(line, 1, m) \in Seq(Printable)
        /\ Len(SubSeq(line, 1, m)) = IF 1 <= m THEN m - 1 + 1 ELSE 0
        /\ \A k \in 1 .. m - 1 + 1 : SubSeq(line, 1, m)[k] = line[1 + k - 1]
    BY <2>1, SubSeqProperties
  <2>3. \A k \in 1 .. m : k \in 1 .. m - 1 + 1 /\ 1 + k - 1 = k
    OBVIOUS
  <2>. QED BY <1>1, <2>2, <2>3 DEF Texts
<1> HIDE DEF N, t
<1> DEFINE S == {m \in Nat : m <= N => <<a[m], t(m)>> \in R}
<1>4. 0 \in S
  <2>1. 0 \in 0 .. N
    BY <1>1
  <2>. QED BY <1>2, <1>3, <2>1
<1>5. ASSUME NEW m \in S PROVE m + 1 \in S
  <2>1. CASE m + 1 <= N
    <3>1. /\ <<a[m], t(m)>> \in R /\ m + 1 \in 1 .. N /\ m = (m + 1) - 1
          /\ m \in 0 .. N /\ m + 1 \in 0 .. N /\ m + 1 < Size
      BY <1>1, <2>1
    <3>2. a[m + 1] = Put(a[m], line[m + 1]) /\ line[m + 1] \in Printable
      BY <1>1, <1>2, <3>1
    <3>3. t(m) \in Texts /\ Len(t(m)) = m
      BY <1>3, <3>1
    <3>4. <<a[m + 1], Append(t(m), line[m + 1])>> \in R
      BY <3>1, <3>2, <3>3
    <3>5. Append(t(m), line[m + 1]) = t(m + 1)
      <4> DEFINE u == Append(t(m), line[m + 1])
      <4>1. /\ u \in Texts /\ Len(u) = m + 1 /\ u[m + 1] = line[m + 1]
            /\ \A k \in 1 .. m : u[k] = t(m)[k]
        BY <3>2, <3>3, AppendProperties DEF Texts
      <4> HIDE DEF u
      <4>2. /\ t(m + 1) \in Texts /\ Len(t(m + 1)) = m + 1
            /\ \A k \in 1 .. m + 1 : t(m + 1)[k] = line[k]
        BY <1>3, <3>1
      <4>3. \A k \in 1 .. m : t(m)[k] = line[k]
        BY <1>3, <3>1
      <4>4. \A k \in 1 .. m + 1 : u[k] = line[k]
        <5>1. \A k \in 1 .. m + 1 : k = m + 1 \/ k \in 1 .. m
          BY <3>1
        <5>. QED BY <4>1, <4>3, <5>1
      <4>5. u = t(m + 1)
        BY <4>1, <4>2, <4>4, SeqEqual DEF Texts
      <4>. QED BY <4>5 DEF u
    <3>. QED BY <3>1, <3>4, <3>5
  <2>2. CASE ~(m + 1 <= N)
    BY <2>2
  <2>. QED BY <2>1, <2>2
<1>6. S = Nat
  <2>1. S \in SUBSET Nat
    OBVIOUS
  <2> HIDE DEF S
  <2>. QED BY <1>4, <1>5, <2>1, SetInduction
<1>7. N \in S
  <2> HIDE DEF S
  <2>. QED BY <1>1, <1>6
<1>8. t(N) = line
  <2>1. N \in 0 .. N
    BY <1>1
  <2>2. t(N) \in Texts /\ Len(t(N)) = N /\ \A k \in 1 .. N : t(N)[k] = line[k]
    BY <1>3, <2>1
  <2>. QED BY <2>2, SeqEqual DEF Texts, N
<1>. QED BY <1>1, <1>2, <1>7, <1>8

\* A line written from anywhere stands before the cursor, through wraps and scrolls.
LEMMA WriteLine ==
  ASSUME NEW K, Printable \subseteq K, NEW s \in Shots(K), NEW line \in Texts, Len(line) < Size
  PROVE  Write(s, line) \in Shots(K) /\ Shows(Write(s, line), line)
<1> DEFINE R == {x \in Shots(K) \X Texts : Shows(x[1], x[2])}
<1>1. ASSUME NEW e \in Texts, Len(e) = 0
      PROVE  <<s, e>> \in R
  <2>1. At(s) >= 0
    BY AtFacts
  <2>. QED BY <1>1, <2>1 DEF Shows
<1>2. ASSUME NEW q, NEW t \in Texts, NEW c \in Printable, <<q, t>> \in R, Len(t) + 1 < Size
      PROVE  <<Put(q, c), Append(t, c)>> \in R
  <2>1. q \in Shots(K) /\ Shows(q, t)
    BY <1>2
  <2>2. Put(q, c) \in Shots(K) /\ Shows(Put(q, c), Append(t, c))
    BY <1>2, <2>1, PutPrintable
  <2>3. Append(t, c) \in Texts
    BY AppendProperties DEF Texts
  <2>. QED BY <2>2, <2>3
<1>3. <<Write(s, line), line>> \in R
  <2> HIDE DEF R
  <2>. QED BY <1>1, <1>2, WriteGrows
<1>. QED BY <1>3

LEMMA WriteThree ==
  ASSUME NEW s, NEW x, NEW y, NEW z
  PROVE  Write(s, <<x, y, z>>) = Put(Put(Put(s, x), y), z)
<1>1. PICK text : text = <<x, y, z>>
  OBVIOUS
<1>2. Len(text) = 3 /\ text[1] = x /\ text[2] = y /\ text[3] = z
  BY <1>1
<1>3. Len(text) \in Nat
  BY <1>2
<1>4. PICK a : /\ a[0] = s /\ \A k \in 1 .. Len(text) : a[k] = Put(a[k - 1], text[k])
               /\ Write(s, text) = a[Len(text)]
  BY <1>3, WriteEquation, ZenonT(60)
<1>5. a[1] = Put(a[0], text[1]) /\ a[2] = Put(a[1], text[2]) /\ a[3] = Put(a[2], text[3])
  <2>1. \A k \in 1 .. 3 : a[k] = Put(a[k - 1], text[k])
    BY <1>2, <1>4
  <2>2. 1 \in 1 .. 3 /\ 2 \in 1 .. 3 /\ 3 \in 1 .. 3 /\ 1 - 1 = 0 /\ 2 - 1 = 1 /\ 3 - 1 = 2
    OBVIOUS
  <2>. QED BY <2>1, <2>2
<1>. QED BY <1>1, <1>2, <1>4, <1>5

\* Rubbing out takes the last character off the line and off the screen.
LEMMA RubbedOut ==
  ASSUME NEW K, Blank \in K, NEW s \in Shots(K), NEW t \in Texts, t # <<>>, Shows(s, t)
  PROVE  LET w == Write(s, <<Backspace, Blank, Backspace>>)
         IN  /\ w \in Shots(K) /\ At(w) = At(s) - 1
             /\ \A i \in Cells : i >= At(w) => w.cells[i] = IF i = At(w) THEN Blank ELSE s.cells[i]
             /\ \A u \in Texts : Len(u) = Len(t) - 1 /\ (\A k \in 1 .. Len(u) : u[k] = t[k])
                                   => Shows(w, u)
<1> USE Sizes
<1> DEFINE text == <<Backspace, Blank, Backspace>>
           L == Len(t)
           b == StepBack(s)
           c == Shown(b, Blank)
           w == StepBack(c)
<1>1. Write(s, text) = w
  <2>1. Write(s, text) = Put(Put(Put(s, Backspace), Blank), Backspace)
    BY WriteThree
  <2>2. \A q : Put(q, Backspace) = StepBack(q) /\ Put(q, Blank) = Shown(q, Blank)
    BY DEF Put, Backspace, Blank, Newline, Return, Tab
  <2>. QED BY <2>1, <2>2
<1>2. L \in Nat /\ L >= 1 /\ At(s) >= L /\ At(s) \in Nat /\ At(s) < Width * Height
      /\ \A k \in 1 .. L : s.cells[At(s) - L + k - 1] = t[k]
  <2>1. L \in Nat /\ L # 0
    BY EmptySeq DEF Texts
  <2>. QED BY <2>1, AtFacts DEF Shows
<1>3. /\ b \in Shots(K) /\ At(b) = At(s) - 1
      /\ \A i \in Cells : b.cells[i] = IF i = At(s) - 1 THEN Blank ELSE s.cells[i]
  BY <1>2, BackShot
<1> HIDE DEF b, L, text
<1>4. /\ c \in Shots(K) /\ At(c) = At(s) /\ \A i \in 0 .. At(s) - 2 : c.cells[i] = s.cells[i]
      /\ \A i \in Cells : i >= At(s) => c.cells[i] = s.cells[i]
  <2>1. c \in Shots(K)
    BY <1>3, ShownShot
  <2>2. PICK d \in {0, Width} :
          /\ At(c) = At(b) + 1 - d
          /\ d = Width => At(c) = Width * (Height - 1) /\ At(b) = Width * Height - 1
          /\ \A i \in 0 .. At(c) - 1 : c.cells[i] = IF i + d = At(b) THEN Blank ELSE b.cells[i + d]
          /\ \A i \in Cells : i >= At(c) => c.cells[i] = IF d = Width THEN Blank ELSE b.cells[i]
    BY <1>3, ShownShot
  <2> HIDE DEF c
  <2>3. d = 0
    <3>1. At(b) # Width * Height - 1
      BY <1>2, <1>3, LastRow
    <3>. QED BY <2>2, <3>1
  <2>4. At(c) = At(s)
    BY <1>2, <1>3, <2>2, <2>3
  <2>5. ASSUME NEW i \in 0 .. At(s) - 2
        PROVE  c.cells[i] = s.cells[i]
    <3>1. i \in 0 .. At(c) - 1 /\ i + d = i /\ i # At(b) /\ i # At(s) - 1 /\ i \in Cells
      BY <1>2, <1>3, <2>3, <2>4, LastRow DEF Cells
    <3>. QED BY <1>3, <2>2, <3>1
  <2>6. \A i \in Cells : i >= At(s) => c.cells[i] = s.cells[i]
    <3>1. d # Width
      BY <2>3
    <3>. QED BY <1>2, <1>3, <2>2, <2>4, <3>1 DEF Cells
  <2>. QED BY <2>1, <2>4, <2>5, <2>6
<1> HIDE DEF c
<1>5. /\ w \in Shots(K) /\ At(w) = At(s) - 1
      /\ \A i \in Cells : w.cells[i] = IF i = At(s) - 1 THEN Blank ELSE c.cells[i]
  BY <1>2, <1>4, BackShot
<1> HIDE DEF w
<1>6. ASSUME NEW u \in Texts, Len(u) = L - 1, \A k \in 1 .. Len(u) : u[k] = t[k]
      PROVE  Shows(w, u)
  <2>1. At(w) >= Len(u)
    BY <1>2, <1>5, <1>6
  <2>2. ASSUME NEW k \in 1 .. Len(u)
        PROVE  w.cells[At(w) - Len(u) + k - 1] = u[k]
    <3> DEFINE i == At(s) - L + k - 1
    <3>1. /\ At(w) - Len(u) + k - 1 = i /\ i \in 0 .. At(s) - 2 /\ i # At(s) - 1
          /\ k \in 1 .. L
      BY <1>2, <1>5, <1>6
    <3>2. i \in Cells
      BY <1>2, <3>1, LastRow DEF Cells
    <3> HIDE DEF i
    <3>3. w.cells[i] = s.cells[i]
      BY <1>4, <1>5, <3>1, <3>2
    <3>4. s.cells[i] = t[k]
      BY <1>2, <3>1 DEF i
    <3>. QED BY <1>6, <3>1, <3>3, <3>4
  <2>. QED BY <2>1, <2>2 DEF Shows
<1>7. \A i \in Cells : i >= At(w) => w.cells[i] = IF i = At(w) THEN Blank ELSE s.cells[i]
  <2>1. ASSUME NEW i \in Cells, i >= At(s) - 1, i # At(s) - 1
        PROVE  i >= At(s)
    <3>1. PICK p \in Nat : p = At(s)
      BY <1>2
    <3>2. i \in Nat
      BY CellNumbers
    <3>. QED BY <2>1, <3>1, <3>2
  <2>. QED BY <1>4, <1>5, <2>1
<1>. QED BY <1>1, <1>5, <1>6, <1>7 DEF L, text

\* All that can stand on the screen.
Inked == Printable \cup ToSet(Prompt) \cup UNION {ToSet(o) : o \in Outputs}

LEMMA Inks ==
  /\ Printable \subseteq Inked /\ Blank \in Inked
  /\ Prompt \in Seq(Codes(Inked)) /\ Outputs \subseteq Seq(Codes(Inked))
<1>1. ASSUME NEW T, NEW o \in Seq(T), ToSet(o) \subseteq Inked
      PROVE  o \in Seq(Codes(Inked))
  <2>1. \A k \in 1 .. Len(o) : o[k] \in Codes(Inked)
    BY <1>1 DEF ToSet, Codes
  <2>. QED BY <2>1
<1>2. Prompt \in Seq(0 .. 255) /\ Outputs \subseteq Seq(0 .. 255)
  BY EditorAssumption
<1>3. Prompt \in Seq(Codes(Inked))
  <2>1. ToSet(Prompt) \subseteq Inked
    BY DEF Inked
  <2>. QED BY <1>1, <1>2, <2>1
<1>4. ASSUME NEW o \in Outputs PROVE o \in Seq(Codes(Inked))
  <2>1. ToSet(o) \subseteq Inked
    BY DEF Inked
  <2>. QED BY <1>1, <1>2, <2>1
<1>. QED BY <1>3, <1>4, BlankPrintable DEF Inked

\* A line redrawn is the line shown, wherever the cursor was.
LEMMA RedrawnLine ==
  ASSUME screen \in Shots(Inked), NEW line \in Texts, NEW old \in Nat
  PROVE  /\ Redrawn(line, old) \in Shots(Inked)
         /\ Len(line) < Size => Shows(Redrawn(line, old), line)
<1> DEFINE blanks  == [k \in 1 .. old |-> Blank]
           start   == Put(screen, Return)
           blanked == Write(start, blanks)
           again   == Put(blanked, Return)
<1>1. Return \in Codes(Inked) /\ Blank \in Codes(Inked)
  BY Inks DEF Codes
<1>2. blanks \in Seq(Codes(Inked))
  BY <1>1
<1> HIDE DEF blanks
<1>3. start \in Shots(Inked)
  BY <1>1, Inks, PutShot
<1> HIDE DEF start
<1>4. blanked \in Shots(Inked)
  BY <1>2, <1>3, Inks, WriteShot
<1> HIDE DEF blanked
<1>5. again \in Shots(Inked)
  BY <1>1, <1>4, Inks, PutShot
<1> HIDE DEF again
<1>6. Write(again, line) \in Shots(Inked)
  <2>1. line \in Seq(Codes(Inked))
    BY Inks DEF Texts, Codes
  <2>. QED BY <1>5, <2>1, Inks, WriteShot
<1>7. Len(line) < Size => Shows(Write(again, line), line)
  BY <1>5, Inks, WriteLine
<1>8. Redrawn(line, old) = Write(again, line)
  BY DEF Redrawn, again, blanked, start, blanks
<1>. QED BY <1>6, <1>7, <1>8

\* Nothing is easy to show.
LEMMA ShowsNothing ==
  ASSUME NEW K, NEW s \in Shots(K)
  PROVE  Shows(s, <<>>)
<1>1. At(s) \in Nat
  BY AtFacts
<1>. QED BY <1>1 DEF Shows

\* A prompt after some output.
LEMMA Prompted ==
  ASSUME screen \in Shots(Inked), NEW output \in Seq(Codes(Inked))
  PROVE  Write(Write(Put(screen, Newline), output), Prompt) \in Shots(Inked)
<1>1. Put(screen, Newline) \in Shots(Inked)
  <2>1. Newline \in Codes(Inked)
    BY DEF Codes
  <2>. QED BY <2>1, Inks, PutShot
<1>2. Write(Put(screen, Newline), output) \in Shots(Inked)
  BY <1>1, Inks, WriteShot
<1>. QED BY <1>2, Inks, WriteShot

Pictured ==
  /\ screen \in Shots(Inked) /\ (Len(buf) < Size => Shows(screen, buf))
  /\ asking \in BOOLEAN /\ undefined \in BOOLEAN

LEMMA ClearedShot ==
  Cleared \in Shots(Inked) /\ Cleared.col = 0 /\ \A i \in Cells : Cleared.cells[i] = Blank
<1>1. 0 \in 0 .. Height - 1 /\ 0 \in 0 .. Width - 1
  BY Sizes
<1>. QED BY <1>1, Inks DEF Cleared, Shots

LEMMA PicturedInit == EditorInit => Pictured
<1> SUFFICES ASSUME EditorInit PROVE Pictured
  OBVIOUS
<1>1. Cleared \in Shots(Inked)
  BY ClearedShot
<1>2. PICK n \in 0 .. Height - 1 :
        screen = Write(Write(Cleared, [k \in 1 .. n |-> Newline]), Prompt)
  BY DEF EditorInit
<1> DEFINE lines == [k \in 1 .. n |-> Newline]
<1>3. lines \in Seq(Codes(Inked))
  <2>1. Newline \in Codes(Inked) /\ n \in Nat
    BY DEF Codes
  <2>. QED BY <2>1
<1> HIDE DEF lines
<1>4. Write(Cleared, lines) \in Shots(Inked)
  BY <1>1, <1>3, Inks, WriteShot
<1>5. screen \in Shots(Inked)
  <2>1. Write(Write(Cleared, lines), Prompt) \in Shots(Inked)
    BY <1>4, Inks, WriteShot
  <2>. QED BY <1>2, <2>1 DEF lines
<1>6. buf = <<>> /\ asking = FALSE /\ undefined = FALSE
  BY DEF EditorInit
<1>7. Shows(screen, buf)
  BY <1>5, <1>6, ShowsNothing
<1>. QED BY <1>5, <1>6, <1>7 DEF Pictured

\* Every key leaves the line and its picture agreeing.
LEMMA PicturedNext == Fits /\ Fits' /\ Pictured /\ [EditorNext]_editor => Pictured'
<1> SUFFICES ASSUME Fits, Fits', Pictured, EditorNext PROVE Pictured'
  <2>1. ASSUME Pictured, UNCHANGED editor PROVE Pictured'
    BY <2>1 DEF editor, Pictured, Shows, At
  <2>. QED BY <2>1
<1>1. /\ screen \in Shots(Inked) /\ Shows(screen, buf)
      /\ buf \in Texts /\ Len(buf) \in Nat /\ buf' \in Texts
  BY StillFits DEF Fits, LineFits, Texts, Pictured
<1>2. asking' \in BOOLEAN /\ undefined' \in BOOLEAN
  <2>1. CASE Edit
    <3>1. asking' = asking
      BY <2>1 DEF Edit
    <3>2. undefined' = undefined \/ undefined' = TRUE \/ undefined' \in BOOLEAN
      <4>1. ASSUME NEW n PROVE (n >= Size) \in BOOLEAN
        OBVIOUS
      <4>. QED BY <2>1, <4>1, Zenon DEF Edit, Character, Erase, TabKey, Complete, Up, Down
    <3>. QED BY <3>1, <3>2 DEF Pictured
  <2>2. CASE Enter
    <3>1. undefined' = undefined /\ (asking' = asking \/ asking' \in BOOLEAN)
      BY <2>2, Zenon DEF Enter, EnterCommand, EnterAnswer
    <3>. QED BY <3>1 DEF Pictured
  <2>. QED BY <2>1, <2>2 DEF EditorNext
<1>3. CASE UNCHANGED shown
  BY <1>1, <1>2, <1>3 DEF shown, Pictured
<1>4. CASE screen' = Redrawn(buf', Len(buf))
  BY <1>1, <1>2, <1>4, RedrawnLine DEF Pictured
<1>5. ASSUME NEW c \in Printable, Character(c) PROVE Pictured'
  <2>1. CASE HasRoom
    <3>1. buf' = Append(buf, c) /\ screen' = Put(screen, c) /\ Len(buf) + 1 < Size
      BY <1>5, <2>1 DEF Character, HasRoom
    <3>2. Put(screen, c) \in Shots(Inked) /\ Shows(Put(screen, c), Append(buf, c))
      BY <1>1, <3>1, Inks, PutPrintable
    <3>. QED BY <1>2, <3>1, <3>2 DEF Pictured
  <2>2. CASE ~HasRoom
    BY <1>3, <1>5, <2>2 DEF Character
  <2>. QED BY <2>1, <2>2
<1>6. CASE Erase
  <2>1. CASE buf # <<>>
    <3> DEFINE w == Write(screen, <<Backspace, Blank, Backspace>>)
    <3>1. buf' = SubSeq(buf, 1, Len(buf) - 1) /\ screen' = w
      BY <1>6, <2>1 DEF Erase, RubOut, Front
    <3>2. /\ w \in Shots(Inked)
          /\ \A u \in Texts : Len(u) = Len(buf) - 1 /\ (\A k \in 1 .. Len(u) : u[k] = buf[k])
                                => Shows(w, u)
      BY <1>1, <2>1, Inks, RubbedOut
    <3> HIDE DEF w
    <3>3. Len(buf') = Len(buf) - 1 /\ \A k \in 1 .. Len(buf') : buf'[k] = buf[k]
      <4>1. Len(buf) >= 1
        BY <1>1, <2>1, EmptySeq DEF Texts
      <4>2. PICK n \in Int : n = Len(buf) - 1 /\ n >= 0
        BY <1>1, <4>1
      <4>3. \A i \in 1 .. n : buf[i] \in Printable
        BY <1>1, <4>2 DEF Texts
      <4>4. 1 \in Int /\ n \in Int
        OBVIOUS
      <4>5. /\ Len(SubSeq(buf, 1, n)) = IF 1 <= n THEN n - 1 + 1 ELSE 0
            /\ \A i \in 1 .. n - 1 + 1 : SubSeq(buf, 1, n)[i] = buf[1 + i - 1]
        BY <4>3, <4>4, SubSeqProperties
      <4>6. buf' = SubSeq(buf, 1, n)
        BY <3>1, <4>2, Zenon
      <4>7. \A i \in 1 .. n : i \in 1 .. n - 1 + 1 /\ 1 + i - 1 = i
        BY <4>2
      <4>. QED BY <4>2, <4>5, <4>6, <4>7
    <3>. QED BY <1>1, <1>2, <3>1, <3>2, <3>3 DEF Pictured
  <2>2. CASE buf = <<>>
    BY <1>3, <1>6, <2>2 DEF Erase
  <2>. QED BY <2>1, <2>2
<1>7. ASSUME TabKey \/ Up \/ Down
      PROVE  UNCHANGED shown \/ screen' = Redrawn(buf', Len(buf))
  BY <1>7, Zenon DEF TabKey, Complete, Up, Down, Show, shown
<1>8. CASE Enter
  <2>1. buf' = <<>> /\ \/ screen' = Write(Cleared, Prompt)
                       \/ \E output \in Outputs \cup {<<>>} :
                            screen' = Write(Printed(output), Prompt)
    BY <1>8, Zenon DEF Enter, EnterCommand, EnterAnswer, Ready
  <2>2. ASSUME NEW output \in Outputs \cup {<<>>}
        PROVE  Write(Printed(output), Prompt) \in Shots(Inked)
    <3>1. output = <<>> => output \in Seq(Codes(Inked))
      BY EmptySeq
    <3>. QED BY <1>1, <3>1, Inks, Prompted DEF Printed
  <2>3. screen' \in Shots(Inked)
    BY <2>1, <2>2, Inks, ClearedShot, WriteShot
  <2>4. Shows(screen', buf')
    BY <2>1, <2>3, ShowsNothing
  <2>. QED BY <1>2, <2>3, <2>4 DEF Pictured
<1>9. CASE Edit
  BY <1>3, <1>4, <1>5, <1>6, <1>7, <1>9 DEF Edit
<1>. QED BY <1>8, <1>9 DEF EditorNext

LEMMA PicturedShown == Fits /\ Pictured => EditorTypes /\ LineBeforeCursor
<1> SUFFICES ASSUME Fits, Pictured PROVE EditorTypes /\ LineBeforeCursor
  OBVIOUS
<1>1. /\ screen \in Shots(Inked) /\ (Len(buf) < Size => Shows(screen, buf))
      /\ DOMAIN buf = 1 .. Len(buf)
  BY DEF Fits, LineFits, Pictured
<1>2. LineBeforeCursor
  BY <1>1 DEF LineBeforeCursor, Shows
<1>3. /\ screen.cells \in [Cells -> Inked]
      /\ screen.row \in 0 .. Height - 1 /\ screen.col \in 0 .. Width - 1
  BY <1>1 DEF Shots
<1>4. EditorTypes
  BY <1>3 DEF EditorTypes, Fits, Pictured, Inked
<1>. QED BY <1>2, <1>4

\* What stands before the cursor is the line that Enter hands on, while it fits its
\* buffer, on a screen of any size that the buffer fits, whatever commands print.
THEOREM LineIsShown == EditorSpec => [](EditorTypes /\ LineBeforeCursor)
<1>1. EditorInit => Fits /\ Pictured
  BY FitsInit, PicturedInit
<1>2. Fits /\ Pictured /\ [EditorNext]_editor => (Fits /\ Pictured)'
  BY FitsNext, PicturedNext
<1>. QED BY <1>1, <1>2, PicturedShown, PTL DEF EditorSpec

----------------------------------------------------------------------------
(* What stays visible behind the cursor.                                   *)

\* Text that only goes forward and ends its lines.
EndsLines(o) ==
  /\ \A k \in 1 .. Len(o) : o[k] # Return /\ o[k] # Backspace
  /\ Len(o) # 0 => o[Len(o)] = Newline

\* Outputs that leave the cursor in the first column, and a prompt that stays in
\* its row or wraps.
Tidy ==
  /\ \A k \in 1 .. Len(Prompt) : Prompt[k] >= Blank
  /\ \A o \in Outputs : EndsLines(o)

Behind(s) == {i \in Cells : i >= At(s) /\ s.cells[i] # Blank}

\* The line t starts in column c or, wrapped, further on; what an older line left
\* behind the cursor is in the row where t starts, and with c it is no wider than
\* the prompt.
Trails(s, t) ==
  \E r \in Int, c \in Nat :
    /\ At(s) - Len(t) = r * Width + c
    /\ Cardinality(Behind(s)) + c <= Len(Prompt)
    /\ \A i \in Behind(s) : i < r * Width + Width

LEMMA BehindFinite ==
  ASSUME NEW s
  PROVE  /\ IsFiniteSet(Behind(s)) /\ Cardinality(Behind(s)) \in Nat
         /\ \A T : T \subseteq Behind(s) => /\ IsFiniteSet(T) /\ Cardinality(T) \in Nat
                                            /\ Cardinality(T) <= Cardinality(Behind(s))
<1>1. IsFiniteSet(Cells)
  <2>1. 0 \in Int /\ Width * Height - 1 \in Int
    BY Sizes, LastRow
  <2>. QED BY <2>1, FS_Interval DEF Cells
<1>2. Behind(s) \in SUBSET Cells
  BY DEF Behind
<1>3. IsFiniteSet(Behind(s)) /\ Cardinality(Behind(s)) \in Nat
  BY <1>1, <1>2, FS_Subset, FS_CardinalityType
<1>4. ASSUME NEW T, T \subseteq Behind(s)
      PROVE  /\ IsFiniteSet(T) /\ Cardinality(T) \in Nat
             /\ Cardinality(T) <= Cardinality(Behind(s))
  <2>1. T \in SUBSET Behind(s)
    BY <1>4
  <2>. QED BY <1>3, <2>1, FS_Subset, FS_CardinalityType
<1>. QED BY <1>3, <1>4

\* One more character of the line covers what is behind it, or the screen moves up.
LEMMA TrailsPut ==
  ASSUME NEW K, Printable \subseteq K, NEW s \in Shots(K), NEW c \in Printable, NEW t \in Texts,
         Trails(s, t)
  PROVE  Trails(Put(s, c), Append(t, c))
<1> USE Sizes
<1> DEFINE new == Shown(s, c)
           L   == Len(t)
<1>1. Put(s, c) = new
  BY PrintableFacts, PutShown
<1>2. Blank \in K /\ c \in K
  BY BlankPrintable
<1>3. PICK d \in {0, Width} :
        /\ At(new) = At(s) + 1 - d
        /\ \A i \in Cells : i >= At(new) => new.cells[i] = IF d = Width THEN Blank ELSE s.cells[i]
  BY <1>2, ShownShot
<1>4. At(s) \in Nat /\ L \in Nat /\ Len(Append(t, c)) = L + 1
  BY AtFacts, AppendProperties DEF Texts
<1>5. PICK r \in Int, f \in Nat :
        /\ At(s) - L = r * Width + f
        /\ Cardinality(Behind(s)) + f <= Len(Prompt)
        /\ \A i \in Behind(s) : i < r * Width + Width
  BY DEF Trails
<1>6. Cardinality(Behind(s)) \in Nat /\ Len(Prompt) \in Nat /\ r * Width \in Int
  BY BehindFinite, EditorAssumption
<1> HIDE DEF new, L
<1>7. CASE d = Width
  <2>1. Behind(new) = {}
    BY <1>3, <1>7 DEF Behind
  <2>2. At(new) - (L + 1) = (r - 1) * Width + f
    <3>1. (r - 1) * Width = r * Width - Width
      OBVIOUS
    <3>2. At(new) = At(s) + 1 - Width
      BY <1>3, <1>7
    <3>. QED BY <1>4, <1>5, <1>6, <3>1, <3>2
  <2>3. Cardinality(Behind(new)) + f <= Len(Prompt)
    BY <1>5, <1>6, <2>1, FS_EmptySet
  <2>4. r - 1 \in Int /\ \A i \in Behind(new) : i < (r - 1) * Width + Width
    BY <2>1
  <2>. QED BY <1>1, <1>4, <2>2, <2>3, <2>4 DEF Trails
<1>8. CASE d # Width
  <2>1. At(new) = At(s) + 1
    BY <1>3, <1>4, <1>8
  <2>2. Behind(new) \subseteq Behind(s)
    <3>1. ASSUME NEW i \in Cells, i >= At(new) PROVE i >= At(s)
      <4>1. i \in Nat
        BY CellNumbers
      <4>. QED BY <1>4, <2>1, <3>1, <4>1
    <3>. QED BY <1>3, <1>8, <3>1 DEF Behind
  <2>3. At(new) - (L + 1) = r * Width + f
    BY <1>4, <1>5, <1>6, <2>1
  <2>4. Cardinality(Behind(new)) + f <= Len(Prompt)
    <3>1. Cardinality(Behind(new)) \in Nat /\ Cardinality(Behind(new)) <= Cardinality(Behind(s))
      BY <2>2, BehindFinite
    <3>. QED BY <1>5, <1>6, <3>1
  <2>. QED BY <1>1, <1>4, <1>5, <2>2, <2>3, <2>4 DEF Trails
<1>. QED BY <1>7, <1>8

\* Rubbing out leaves a blank behind the cursor.
LEMMA TrailsRub ==
  ASSUME NEW s, NEW w, NEW t \in Texts, NEW u \in Texts, Len(u) = Len(t) - 1,
         At(s) \in Nat, At(w) = At(s) - 1, Trails(s, t),
         \A i \in Cells : i >= At(w) => w.cells[i] = IF i = At(w) THEN Blank ELSE s.cells[i]
  PROVE  Trails(w, u)
<1>1. PICK r \in Int, f \in Nat :
        /\ At(s) - Len(t) = r * Width + f
        /\ Cardinality(Behind(s)) + f <= Len(Prompt)
        /\ \A i \in Behind(s) : i < r * Width + Width
  BY DEF Trails
<1>2. /\ Cardinality(Behind(s)) \in Nat /\ Len(Prompt) \in Nat /\ r * Width \in Int
      /\ Len(t) \in Nat
  BY Sizes, BehindFinite, EditorAssumption DEF Texts
<1>3. Behind(w) \subseteq Behind(s)
  <2>1. ASSUME NEW i \in Cells, i >= At(w), i # At(w) PROVE i >= At(s)
    <3>1. i \in Nat
      BY CellNumbers
    <3>. QED BY <2>1, <3>1
  <2>. QED BY <2>1 DEF Behind
<1>4. Cardinality(Behind(w)) \in Nat /\ Cardinality(Behind(w)) <= Cardinality(Behind(s))
  BY <1>3, BehindFinite
<1>5. At(w) - Len(u) = r * Width + f
  BY <1>1, <1>2
<1>6. Cardinality(Behind(w)) + f <= Len(Prompt)
  BY <1>1, <1>2, <1>4
<1>. QED BY <1>1, <1>3, <1>5, <1>6 DEF Trails

\* Blanks written blank as many cells, or all that is left of the last row.
LEMMA Blanked ==
  ASSUME NEW K, Blank \in K, NEW s \in Shots(K), NEW n \in Nat
  PROVE  LET w == Write(s, [k \in 1 .. n |-> Blank])
         IN  /\ w \in Shots(K)
             /\ \/ /\ At(w) = At(s) + n
                   /\ \A i \in Cells :
                        w.cells[i] = IF At(s) <= i /\ i < At(w) THEN Blank ELSE s.cells[i]
                \/ /\ At(w) >= Width * (Height - 1)
                   /\ \A i \in Cells : i >= Width * (Height - 1) => w.cells[i] = Blank
<1> USE Sizes
<1> DEFINE text == [k \in 1 .. n |-> Blank]
           Holds(m, q) ==
             \/ /\ At(q) = At(s) + m
                /\ \A i \in Cells :
                     q.cells[i] = IF At(s) <= i /\ i < At(q) THEN Blank ELSE s.cells[i]
             \/ /\ At(q) >= Width * (Height - 1)
                /\ \A i \in Cells : i >= Width * (Height - 1) => q.cells[i] = Blank
           S == {x \in (0 .. n) \X Shots(K) : Holds(x[1], x[2])}
<1>1. Len(text) = n /\ \A m \in 0 .. n - 1 : text[m + 1] = Blank
  OBVIOUS
<1> HIDE DEF text
<1>2. <<0, s>> \in S
  <2>1. Holds(0, s)
    <3>1. At(s) \in Nat /\ At(s) = At(s) + 0
      BY AtFacts
    <3>2. \A i \in Cells : ~(At(s) <= i /\ i < At(s))
      BY <3>1, CellNumbers
    <3>. QED BY <3>1, <3>2
  <2> HIDE DEF Holds
  <2>. QED BY <2>1
<1>3. ASSUME NEW m \in 0 .. n - 1, NEW q, <<m, q>> \in S
      PROVE  <<m + 1, Put(q, text[m + 1])>> \in S
  <2> DEFINE new == Shown(q, Blank)
  <2>1. Put(q, text[m + 1]) = new
    <3>1. Put(q, Blank) = new
      BY PutShown DEF Blank
    <3>. QED BY <1>1, <3>1
  <2>2. q \in Shots(K) /\ Holds(m, q)
    BY <1>3
  <2>3. new \in Shots(K) /\ At(new) \in Nat /\ At(q) \in Nat /\ At(s) \in Nat
    BY <2>2, ShownShot, AtFacts
  <2>4. PICK d \in {0, Width} :
          /\ At(new) = At(q) + 1 - d
          /\ d = Width => At(new) = Width * (Height - 1)
          /\ \A i \in 0 .. At(new) - 1 : new.cells[i] = IF i + d = At(q) THEN Blank ELSE q.cells[i + d]
          /\ \A i \in Cells : i >= At(new) => new.cells[i] = IF d = Width THEN Blank ELSE q.cells[i]
    BY <2>2, ShownShot
  <2> HIDE DEF new
  <2>5. CASE d = Width
    <3>1. /\ At(new) >= Width * (Height - 1)
          /\ \A i \in Cells : i >= Width * (Height - 1) => new.cells[i] = Blank
      BY <2>4, <2>5, LastRow
    <3>2. Holds(m + 1, new)
      BY <3>1
    <3> HIDE DEF Holds
    <3>. QED BY <2>1, <2>3, <3>2
  <2>6. CASE d # Width
    <3>1. At(new) = At(q) + 1 /\ d = 0
      BY <2>3, <2>4, <2>6
    <3>2. \A i \in Cells : new.cells[i] = IF i = At(q) THEN Blank ELSE q.cells[i]
      <4> SUFFICES ASSUME NEW i \in Cells
                   PROVE  new.cells[i] = IF i = At(q) THEN Blank ELSE q.cells[i]
        OBVIOUS
      <4>1. i \in Nat
        BY CellNumbers
      <4>2. CASE i < At(new)
        <5>1. i \in 0 .. At(new) - 1 /\ i + d = i
          BY <2>3, <3>1, <4>1, <4>2
        <5>. QED BY <2>4, <5>1
      <4>3. CASE ~(i < At(new))
        <5>1. i >= At(new) /\ i # At(q)
          BY <2>3, <3>1, <4>1, <4>3
        <5>. QED BY <2>4, <2>6, <5>1
      <4>. QED BY <4>2, <4>3
    <3>3. Holds(m + 1, new)
      <4>1. CASE /\ At(q) = At(s) + m
                 /\ \A i \in Cells :
                      q.cells[i] = IF At(s) <= i /\ i < At(q) THEN Blank ELSE s.cells[i]
        <5>1. At(new) = At(s) + (m + 1)
          BY <2>3, <3>1, <4>1
        <5>2. ASSUME NEW i \in Cells
              PROVE  new.cells[i] = IF At(s) <= i /\ i < At(new) THEN Blank ELSE s.cells[i]
          <6>1. i \in Nat
            BY CellNumbers
          <6>2. CASE i = At(q)
            <7>1. At(s) <= i /\ i < At(new)
              BY <2>3, <3>1, <4>1, <6>2
            <7>. QED BY <3>2, <6>2, <7>1
          <6>3. CASE i # At(q)
            <7>1. i < At(new) <=> i < At(q)
              BY <2>3, <3>1, <6>1, <6>3
            <7>. QED BY <3>2, <4>1, <6>3, <7>1
          <6>. QED BY <6>2, <6>3
        <5>. QED BY <5>1, <5>2
      <4>2. CASE /\ At(q) >= Width * (Height - 1)
                 /\ \A i \in Cells : i >= Width * (Height - 1) => q.cells[i] = Blank
        <5>1. At(new) >= Width * (Height - 1)
          BY <2>3, <3>1, <4>2, LastRow
        <5>2. \A i \in Cells : i >= Width * (Height - 1) => new.cells[i] = Blank
          BY <3>2, <4>2
        <5>. QED BY <5>1, <5>2
      <4>. QED BY <2>2, <4>1, <4>2
    <3> HIDE DEF Holds
    <3>4. m + 1 \in 0 .. n
      OBVIOUS
    <3>. QED BY <2>1, <2>3, <3>3, <3>4
  <2>. QED BY <2>5, <2>6
<1>4. <<n, Write(s, text)>> \in S
  <2> HIDE DEF S
  <2>. QED BY <1>1, <1>2, <1>3, WriteInduct
<1>5. Write(s, text) \in Shots(K) /\ Holds(n, Write(s, text))
  <2> HIDE DEF Holds
  <2>. QED BY <1>4
<1>. QED BY <1>5 DEF text

\* A row that starts no later than a place of row q is no later row.
LEMMA EarlierRow ==
  ASSUME NEW r \in Int, NEW q \in Nat, NEW k \in 0 .. Width - 1, r * Width <= q * Width + k
  PROVE  r <= q /\ r * Width <= q * Width
<1> USE Sizes
<1>1. r <= q
  <2> SUFFICES ASSUME r > q PROVE FALSE
    OBVIOUS
  <2>1. r \in Nat /\ q + 1 \in Nat /\ r >= q + 1 /\ Width \in Nat
    OBVIOUS
  <2>2. r * Width >= (q + 1) * Width
    BY <2>1, TimesMonotone
  <2>3. (q + 1) * Width = q * Width + Width
    OBVIOUS
  <2>4. r * Width \in Int /\ q * Width \in Int
    OBVIOUS
  <2>. QED BY <2>2, <2>3, <2>4
<1>2. CASE r >= 0
  BY <1>1, <1>2, TimesMonotone
<1>3. CASE r < 0
  <2>1. q * Width >= 0 * Width
    <3>1. 0 \in Nat /\ q >= 0 /\ Width \in Nat
      OBVIOUS
    <3>. QED BY <3>1, TimesMonotone
  <2>2. (0 - r) * Width >= 0 * Width
    <3>1. 0 - r \in Nat /\ 0 \in Nat /\ 0 - r >= 0 /\ Width \in Nat
      BY <1>3
    <3>. QED BY <3>1, TimesMonotone
  <2>3. (0 - r) * Width = 0 - r * Width /\ 0 * Width = 0
    OBVIOUS
  <2>4. r * Width \in Int /\ q * Width \in Int
    OBVIOUS
  <2>. QED BY <1>1, <2>1, <2>2, <2>3, <2>4
<1>. QED BY <1>1, <1>2, <1>3

\* Where the line that trails starts, seen from the cursor's row.
LEMMA TrailsFrom ==
  ASSUME NEW K, NEW s \in Shots(K), NEW t \in Texts, Trails(s, t)
  PROVE  /\ At(s) - Len(t) - s.row * Width + Cardinality(Behind(s)) <= Len(Prompt)
         /\ Cardinality(Behind(s)) <= Len(Prompt)
         /\ \A i \in Behind(s) : i < s.row * Width + Width
<1> USE Sizes
<1>1. PICK r \in Int, f \in Nat :
        /\ At(s) - Len(t) = r * Width + f
        /\ Cardinality(Behind(s)) + f <= Len(Prompt)
        /\ \A i \in Behind(s) : i < r * Width + Width
  BY DEF Trails
<1>2. /\ s.row \in Nat /\ s.col \in 0 .. Width - 1 /\ At(s) = s.row * Width + s.col
      /\ Len(t) \in Nat /\ Cardinality(Behind(s)) \in Nat /\ Len(Prompt) \in Nat
      /\ s.row * Width \in Nat /\ r * Width \in Int
  BY AtFacts, BehindFinite, EditorAssumption DEF Texts
<1>3. r * Width <= s.row * Width + s.col
  <2>1. PICK u \in Int, p \in Nat : u = r * Width /\ p = At(s)
    BY <1>2
  <2>2. p - Len(t) = u + f
    BY <1>1, <2>1
  <2>3. u <= p
    BY <1>2, <2>2
  <2>. QED BY <1>2, <2>1, <2>3
<1>4. r * Width <= s.row * Width
  BY <1>2, <1>3, EarlierRow
<1>5. \A i \in Behind(s) : i < s.row * Width + Width
  <2>1. ASSUME NEW i \in Behind(s) PROVE i < s.row * Width + Width
    <3>1. i \in Nat /\ i < r * Width + Width
      BY <1>1, CellNumbers DEF Behind
    <3>. QED BY <1>2, <1>4, <3>1
  <2>. QED BY <2>1
<1>6. PICK u \in Int, v \in Nat : u = r * Width /\ v = s.row * Width
  BY <1>2
<1>7. At(s) - Len(t) = u + f /\ u <= v
  BY <1>1, <1>4, <1>6
<1>8. At(s) - Len(t) - v + Cardinality(Behind(s)) <= Len(Prompt)
  <2>1. PICK p \in Nat : p = At(s)
    BY <1>2
  <2>2. p - Len(t) - v <= f
    BY <1>2, <1>7, <2>1
  <2>. QED BY <1>1, <1>2, <2>1, <2>2
<1>. QED BY <1>1, <1>2, <1>5, <1>6, <1>8

\* Nothing behind the cursor is a good start for a line in the first columns.
LEMMA TrailsStart ==
  ASSUME NEW K, NEW s \in Shots(K), NEW t \in Texts, NEW r \in Int, NEW f \in Nat,
         At(s) - Len(t) = r * Width + f, f <= Len(Prompt), Behind(s) = {}
  PROVE  Trails(s, t)
<1>1. Cardinality(Behind(s)) = 0
  BY FS_EmptySet
<1>2. Cardinality(Behind(s)) + f <= Len(Prompt)
  BY <1>1
<1>. QED BY <1>2 DEF Trails

\* The blanks of a redraw leave of the old line's end no more than the prompt's width.
LEMMA TrailsBlanked ==
  ASSUME NEW K, Blank \in K, NEW s \in Shots(K), NEW t \in Texts, Trails(s, t)
  PROVE  LET w == Write([s EXCEPT !.col = 0], [k \in 1 .. Len(t) |-> Blank])
         IN  /\ [w EXCEPT !.col = 0] \in Shots(K)
             /\ \A e \in Texts : Len(e) = 0 => Trails([w EXCEPT !.col = 0], e)
<1> USE Sizes
<1> DEFINE start == [s EXCEPT !.col = 0]
           L     == Len(t)
           w     == Write(start, [k \in 1 .. L |-> Blank])
           again == [w EXCEPT !.col = 0]
           low   == s.row * Width
<1>1. /\ s.row \in Nat /\ s.col \in 0 .. Width - 1 /\ At(s) = low + s.col /\ low \in Nat
      /\ L \in Nat /\ At(s) \in Nat
  BY AtFacts DEF Texts
<1>2. /\ At(s) - L - low + Cardinality(Behind(s)) <= Len(Prompt)
      /\ Cardinality(Behind(s)) <= Len(Prompt)
      /\ \A i \in Behind(s) : i < low + Width
  BY TrailsFrom
<1>3. /\ start \in Shots(K) /\ start.cells = s.cells /\ At(start) = low
  <2>1. 0 \in 0 .. Width - 1
    OBVIOUS
  <2>2. start \in Shots(K) /\ start.cells = s.cells /\ start.row = s.row /\ start.col = 0
    BY <2>1 DEF Shots
  <2>3. At(start) = low
    BY <1>1, <2>2 DEF At
  <2>. QED BY <2>2, <2>3
<1> HIDE DEF start
<1>4. /\ w \in Shots(K)
      /\ \/ /\ At(w) = low + L
            /\ \A i \in Cells : w.cells[i] = IF low <= i /\ i < At(w) THEN Blank ELSE s.cells[i]
         \/ /\ At(w) >= Width * (Height - 1)
            /\ \A i \in Cells : i >= Width * (Height - 1) => w.cells[i] = Blank
  <2> DEFINE good(x, at) ==
        /\ x \in Shots(K)
        /\ \/ /\ At(x) = at + L
              /\ \A i \in Cells : x.cells[i] = IF at <= i /\ i < At(x) THEN Blank ELSE start.cells[i]
           \/ /\ At(x) >= Width * (Height - 1)
              /\ \A i \in Cells : i >= Width * (Height - 1) => x.cells[i] = Blank
  <2>1. L \in Nat
    BY <1>1
  <2> HIDE DEF L
  <2>2. good(w, At(start))
    BY <1>3, <2>1, Blanked
  <2> HIDE DEF good, w
  <2>3. good(w, low)
    BY <1>3, <2>2
  <2>. QED BY <1>3, <2>3 DEF good
<1> HIDE DEF w
<1>5. /\ w.row \in 0 .. Height - 1 /\ w.col \in 0 .. Width - 1 /\ At(w) = w.row * Width + w.col
      /\ w.row * Width \in Nat
  BY <1>4, AtFacts
<1>6. again \in Shots(K) /\ again.cells = w.cells /\ At(again) = w.row * Width
  <2>1. 0 \in 0 .. Width - 1
    OBVIOUS
  <2>2. again \in Shots(K) /\ again.cells = w.cells /\ again.row = w.row /\ again.col = 0
    BY <1>4, <2>1 DEF Shots
  <2>3. At(again) = w.row * Width
    BY <1>5, <2>2 DEF At
  <2>. QED BY <2>2, <2>3
<1> HIDE DEF again
<1>7. PICK A \in Nat, Q \in Nat, p \in Nat : A = w.row * Width /\ Q = low /\ p = At(s)
  BY <1>1, <1>5
<1>8. CASE /\ At(w) = low + L
           /\ \A i \in Cells : w.cells[i] = IF low <= i /\ i < At(w) THEN Blank ELSE s.cells[i]
  <2>1. Q <= A
    <3>1. s.row * Width <= w.row * Width + w.col
      BY <1>1, <1>5, <1>8
    <3>2. w.row \in Nat /\ s.row \in Int
      BY <1>1, <1>5
    <3>. QED BY <1>5, <1>7, <3>1, <3>2, EarlierRow
  <2> DEFINE tail == (Q + L) .. (p - 1)
  <2>2. Behind(again) \subseteq tail \cup Behind(s)
    <3> SUFFICES ASSUME NEW i \in Behind(again), i \notin tail PROVE i \in Behind(s)
      OBVIOUS
    <3>1. i \in Cells /\ i \in Nat /\ i >= A /\ w.cells[i] # Blank
      BY <1>6, <1>7, CellNumbers DEF Behind
    <3>2. At(w) = Q + L
      BY <1>7, <1>8
    <3>3. ~(i < Q + L) /\ w.cells[i] = s.cells[i]
      <4>1. ~(low <= i /\ i < At(w)) /\ w.cells[i] = s.cells[i]
        BY <1>8, <3>1
      <4>2. low <= i
        BY <1>7, <2>1, <3>1
      <4>. QED BY <3>2, <4>1, <4>2
    <3>4. i >= p
      BY <1>1, <3>1, <3>3
    <3>. QED BY <1>7, <3>1, <3>3, <3>4 DEF Behind
  <2>3. /\ IsFiniteSet(tail) /\ Cardinality(tail) \in Nat
        /\ Cardinality(tail) = 0 \/ Cardinality(tail) = p - Q - L
    <3>1. Q + L \in Int /\ p - 1 \in Int
      BY <1>1
    <3>2. /\ IsFiniteSet(tail)
          /\ Cardinality(tail) = IF Q + L > p - 1 THEN 0 ELSE p - 1 - (Q + L) + 1
      BY <3>1, FS_Interval
    <3> HIDE DEF tail
    <3>. QED BY <1>1, <3>2
  <2> HIDE DEF tail
  <2>4. Cardinality(Behind(again)) <= Len(Prompt)
    <3>1. IsFiniteSet(Behind(s)) /\ Cardinality(Behind(s)) \in Nat
      BY BehindFinite
    <3>2. /\ IsFiniteSet(tail \cup Behind(s))
          /\ Cardinality(tail \cup Behind(s)) =
               Cardinality(tail) + Cardinality(Behind(s)) - Cardinality(tail \cap Behind(s))
      BY <2>3, <3>1, FS_Union
    <3>3. Cardinality(tail \cap Behind(s)) \in Nat
      <4>1. tail \cap Behind(s) \in SUBSET Behind(s)
        OBVIOUS
      <4>. QED BY <3>1, <4>1, FS_Subset, FS_CardinalityType
    <3>4. Cardinality(Behind(again)) <= Cardinality(tail \cup Behind(s))
      BY <2>2, <3>2, FS_Subset
    <3>5. Cardinality(Behind(again)) \in Nat /\ Len(Prompt) \in Nat
      BY BehindFinite, EditorAssumption
    <3>6. Cardinality(tail) + Cardinality(Behind(s)) <= Len(Prompt)
      BY <1>1, <1>2, <1>7, <2>3, <3>1, <3>5
    <3>. QED BY <2>3, <3>1, <3>2, <3>3, <3>4, <3>5, <3>6
  <2>5. \A i \in Behind(again) : i < A + Width
    <3> SUFFICES ASSUME NEW i \in Behind(again) PROVE i < A + Width
      OBVIOUS
    <3>1. i \in Nat
      BY CellNumbers DEF Behind
    <3>2. CASE i \in tail
      <4>1. i < p
        BY <1>1, <3>2 DEF tail
      <4>2. p < Q + Width
        BY <1>1, <1>7
      <4>. QED BY <2>1, <3>1, <4>1, <4>2
    <3>3. CASE i \in Behind(s)
      <4>1. i < Q + Width
        BY <1>2, <1>7, <3>3
      <4>. QED BY <2>1, <3>1, <4>1
    <3>. QED BY <2>2, <3>2, <3>3
  <2>6. ASSUME NEW e \in Texts, Len(e) = 0 PROVE Trails(again, e)
    <3>1. At(again) - Len(e) = w.row * Width + 0 /\ 0 \in Nat /\ w.row \in Int
      BY <1>5, <1>6, <2>6
    <3>2. Cardinality(Behind(again)) + 0 <= Len(Prompt)
      BY <2>4, BehindFinite
    <3>. QED BY <1>7, <2>5, <3>1, <3>2 DEF Trails
  <2>. QED BY <1>6, <2>6 DEF again, w, start, L
<1>9. CASE /\ At(w) >= Width * (Height - 1)
           /\ \A i \in Cells : i >= Width * (Height - 1) => w.cells[i] = Blank
  <2>1. A >= Width * (Height - 1)
    <3>1. (Height - 1) * Width <= w.row * Width + w.col
      BY <1>5, <1>9, LastRow
    <3>2. Height - 1 \in Int /\ w.row \in Nat
      BY <1>5
    <3>. QED BY <1>5, <1>7, <3>1, <3>2, EarlierRow, LastRow
  <2>2. Behind(again) = {}
    <3> SUFFICES ASSUME NEW i \in Behind(again) PROVE FALSE
      OBVIOUS
    <3>1. i \in Cells /\ i \in Nat /\ i >= A /\ w.cells[i] # Blank
      BY <1>6, <1>7, CellNumbers DEF Behind
    <3>. QED BY <1>9, <2>1, <3>1, LastRow
  <2>3. ASSUME NEW e \in Texts, Len(e) = 0 PROVE Trails(again, e)
    <3>1. At(again) - Len(e) = w.row * Width + 0 /\ w.row \in Int /\ 0 <= Len(Prompt)
      BY <1>5, <1>6, <2>3, EditorAssumption
    <3>. QED BY <1>6, <2>2, <3>1, TrailsStart
  <2>. QED BY <1>6, <2>3 DEF again, w, start, L
<1>. QED BY <1>4, <1>8, <1>9

LEMMA TrailsRedrawn ==
  ASSUME screen \in Shots(Inked), NEW line \in Texts, Len(line) < Size, buf \in Texts,
         Trails(screen, buf)
  PROVE  Trails(Redrawn(line, Len(buf)), line)
<1> DEFINE blanked == Write([screen EXCEPT !.col = 0], [k \in 1 .. Len(buf) |-> Blank])
           again   == [blanked EXCEPT !.col = 0]
           R == {x \in Shots(Inked) \X Texts : Trails(x[1], x[2])}
<1>1. \A q : Put(q, Return) = [q EXCEPT !.col = 0]
  BY DEF Put, Return, Newline, Tab, Backspace
<1>2. Redrawn(line, Len(buf)) = Write(again, line)
  BY <1>1 DEF Redrawn
<1>3. again \in Shots(Inked) /\ \A e \in Texts : Len(e) = 0 => Trails(again, e)
  BY Inks, TrailsBlanked
<1> HIDE DEF again
<1>4. \A e \in Texts : Len(e) = 0 => <<again, e>> \in R
  BY <1>3
<1>5. ASSUME NEW q, NEW t \in Texts, NEW c \in Printable, <<q, t>> \in R
      PROVE  <<Put(q, c), Append(t, c)>> \in R
  <2>1. q \in Shots(Inked) /\ Trails(q, t)
    BY <1>5
  <2>2. Trails(Put(q, c), Append(t, c))
    BY <2>1, Inks, TrailsPut
  <2>3. Put(q, c) \in Shots(Inked)
    <3>1. c \in Codes(Inked)
      BY Inks DEF Codes
    <3>. QED BY <2>1, <3>1, Inks, PutShot
  <2>4. Append(t, c) \in Texts
    BY AppendProperties DEF Texts
  <2>. QED BY <2>2, <2>3, <2>4
<1>6. <<Write(again, line), line>> \in R
  <2> HIDE DEF R
  <2>. QED BY <1>4, <1>5, WriteGrows
<1>. QED BY <1>2, <1>6

\* A new line leaves nothing behind the cursor, where all that stood there was in
\* its row.
LEMMA DownClears ==
  ASSUME NEW K, Blank \in K, NEW s \in Shots(K), \A i \in Behind(s) : i < s.row * Width + Width
  PROVE  Behind(LineDown(s)) = {}
<1> USE Sizes
<1> DEFINE new == LineDown(s)
<1>1. /\ new \in Shots(K) /\ new.col = 0
      /\ s.row # Height - 1 => new.row = s.row + 1 /\ new.cells = s.cells
      /\ s.row = Height - 1 =>
           /\ new.row = Height - 1
           /\ new.cells = [i \in Cells |-> IF i < Width * (Height - 1)
                                           THEN s.cells[i + Width] ELSE Blank]
  BY DownShot
<1>2. /\ s.row \in 0 .. Height - 1 /\ s.col \in 0 .. Width - 1
      /\ At(s) = s.row * Width + s.col /\ s.row * Width \in Nat
  BY AtFacts
<1> HIDE DEF new
<1> SUFFICES ASSUME NEW i \in Behind(new) PROVE FALSE
  BY DEF new
<1>3. i \in Cells /\ i \in Nat /\ i >= At(new) /\ new.cells[i] # Blank
  BY CellNumbers DEF Behind
<1>4. CASE s.row = Height - 1
  <2>1. At(new) = Width * (Height - 1)
    <3>1. new.row = Height - 1 /\ new.col = 0
      BY <1>1, <1>4
    <3>2. At(new) = (Height - 1) * Width + 0
      BY <3>1 DEF At
    <3>. QED BY <3>2, LastRow
  <2>. QED BY <1>1, <1>3, <1>4, <2>1, LastRow
<1>5. CASE s.row # Height - 1
  <2>1. At(new) = s.row * Width + Width
    <3>1. (s.row + 1) * Width = s.row * Width + Width
      BY <1>2
    <3>. QED BY <1>1, <1>2, <1>5, <3>1 DEF At
  <2>2. i \in Behind(s)
    <3>1. i >= At(s)
      BY <1>2, <1>3, <2>1
    <3>. QED BY <1>1, <1>3, <1>5, <3>1 DEF Behind
  <2>. QED BY <1>2, <1>3, <2>1, <2>2
<1>. QED BY <1>4, <1>5

\* What only goes forward keeps the rest of the screen blank.
LEMMA PutClear ==
  ASSUME NEW K, Blank \in K, NEW s \in Shots(K), NEW c \in Codes(K), c # Return, c # Backspace,
         Behind(s) = {}
  PROVE  Behind(Put(s, c)) = {} /\ (c = Newline => Put(s, c).col = 0)
<1> USE Sizes
<1>1. Behind(LineDown(s)) = {} /\ LineDown(s).col = 0
  BY DownClears, DownShot
<1>2. CASE c = Newline
  <2>1. Put(s, c) = LineDown(s)
    BY <1>2 DEF Put, Return, Newline, Tab, Backspace
  <2>. QED BY <1>1, <2>1
<1>3. CASE c = Tab
  <2> DEFINE stop == (s.col \div TabStop + 1) * TabStop
             new  == [s EXCEPT !.col = stop]
  <2>1. Put(s, c) = Tabbed(s) /\ c # Newline
    BY <1>3 DEF Put, Tab, Newline, Return
  <2>2. Tabbed(s) = IF stop >= Width THEN LineDown(s) ELSE new
    BY DEF Tabbed
  <2>3. /\ s.row \in 0 .. Height - 1 /\ s.col \in 0 .. Width - 1 /\ s.row * Width \in Nat
        /\ At(s) = s.row * Width + s.col
    BY AtFacts
  <2>4. stop \in Nat /\ stop >= s.col
    <3>1. PICK n \in Nat : n = s.col
      BY <2>3
    <3>2. LET m == (n \div TabStop + 1) * TabStop
          IN  m \in n + 1 .. n + TabStop /\ m % TabStop = 0
      BY NextStop
    <3>. QED BY <3>1, <3>2
  <2> HIDE DEF stop
  <2>5. At(new) >= At(s) /\ new.cells = s.cells /\ At(new) \in Nat /\ At(s) \in Nat
    <3>1. new.row = s.row /\ new.col = stop /\ new.cells = s.cells
      BY DEF Shots
    <3>2. At(new) = s.row * Width + stop
      BY <3>1 DEF At
    <3>. QED BY <2>3, <2>4, <3>1, <3>2
  <2> HIDE DEF new
  <2>6. Behind(new) = {}
    <3> SUFFICES ASSUME NEW i \in Behind(new) PROVE i \in Behind(s)
      OBVIOUS
    <3>1. i \in Cells /\ i \in Nat /\ i >= At(new) /\ new.cells[i] # Blank
      BY CellNumbers DEF Behind
    <3>2. i >= At(s)
      BY <2>5, <3>1
    <3>. QED BY <2>5, <3>1, <3>2 DEF Behind
  <2>. QED BY <1>1, <2>1, <2>2, <2>6
<1>4. CASE c # Newline /\ c # Tab
  <2>1. Put(s, c) = Shown(s, c) /\ c \in K
    BY <1>4 DEF Put, Codes
  <2> DEFINE new == Shown(s, c)
  <2>2. PICK d \in {0, Width} :
          /\ At(new) = At(s) + 1 - d
          /\ d = Width => At(new) = Width * (Height - 1) /\ At(s) = Width * Height - 1
          /\ \A i \in Cells : i >= At(new) => new.cells[i] = IF d = Width THEN Blank ELSE s.cells[i]
    BY <2>1, ShownShot
  <2>3. At(s) \in Nat
    BY AtFacts
  <2> HIDE DEF new
  <2>4. Behind(new) = {}
    <3> SUFFICES ASSUME NEW i \in Behind(new) PROVE FALSE
      OBVIOUS
    <3>1. i \in Cells /\ i \in Nat /\ i >= At(new) /\ new.cells[i] # Blank
      BY CellNumbers DEF Behind
    <3>2. d # Width /\ s.cells[i] # Blank
      BY <2>2, <3>1
    <3>3. i >= At(s)
      BY <2>2, <2>3, <3>1, <3>2
    <3>. QED BY <3>1, <3>2, <3>3 DEF Behind
  <2>. QED BY <1>4, <2>1, <2>4 DEF new
<1>. QED BY <1>2, <1>3, <1>4

\* So does a text that ends its lines, and it leaves the cursor in the first column.
LEMMA TextClear ==
  ASSUME NEW s \in Shots(Inked), NEW text \in Seq(Codes(Inked)), EndsLines(text),
         Behind(s) = {}, s.col = 0
  PROVE  LET w == Write(s, text) IN w \in Shots(Inked) /\ Behind(w) = {} /\ w.col = 0
<1> DEFINE N == Len(text)
           Holds(m, q) == /\ Behind(q) = {}
                          /\ m = 0 => q.col = 0
                          /\ m # 0 /\ text[m] = Newline => q.col = 0
           S == {x \in (0 .. N) \X Shots(Inked) : Holds(x[1], x[2])}
<1>1. N \in Nat /\ \A k \in 1 .. N : text[k] \in Codes(Inked)
  OBVIOUS
<1>2. <<0, s>> \in S
  BY <1>1
<1>3. ASSUME NEW m \in 0 .. N - 1, NEW q, <<m, q>> \in S
      PROVE  <<m + 1, Put(q, text[m + 1])>> \in S
  <2>1. q \in Shots(Inked) /\ Behind(q) = {}
    BY <1>3
  <2>2. /\ m + 1 \in 1 .. N /\ m + 1 \in 0 .. N /\ m + 1 # 0
        /\ text[m + 1] \in Codes(Inked) /\ text[m + 1] # Return /\ text[m + 1] # Backspace
    BY <1>1 DEF EndsLines
  <2>3. /\ Behind(Put(q, text[m + 1])) = {}
        /\ text[m + 1] = Newline => Put(q, text[m + 1]).col = 0
    BY <2>1, <2>2, Inks, PutClear
  <2>4. Put(q, text[m + 1]) \in Shots(Inked)
    BY <2>1, <2>2, Inks, PutShot
  <2>5. Holds(m + 1, Put(q, text[m + 1]))
    BY <2>2, <2>3
  <2> HIDE DEF Holds
  <2>. QED BY <2>2, <2>4, <2>5
<1>4. <<N, Write(s, text)>> \in S
  <2> HIDE DEF S
  <2>. QED BY <1>1, <1>2, <1>3, WriteInduct
<1>5. Write(s, text) \in Shots(Inked) /\ Holds(N, Write(s, text))
  <2> HIDE DEF Holds
  <2>. QED BY <1>4
<1>6. N # 0 => text[N] = Newline
  BY DEF EndsLines
<1>. QED BY <1>5, <1>6

\* The line after a prompt starts behind it.
LEMMA PromptTrails ==
  ASSUME Tidy, NEW s \in Shots(Inked), Behind(s) = {}, s.col = 0
  PROVE  Trails(Write(s, Prompt), <<>>)
<1> USE Sizes
<1> DEFINE N == Len(Prompt)
           Holds(m, q) == Behind(q) = {} /\ \E r \in Int : At(q) = r * Width + m
           S == {x \in (0 .. N) \X Shots(Inked) : Holds(x[1], x[2])}
<1>1. N \in Nat /\ \A k \in 1 .. N : Prompt[k] \in Inked /\ Prompt[k] \in Nat /\ Prompt[k] >= 32
  <2>1. PICK T \in SUBSET Nat : Prompt \in Seq(T) /\ DOMAIN Prompt = 1 .. N
    <3>1. Prompt \in Seq(0 .. 255) /\ 0 .. 255 \in SUBSET Nat
      BY EditorAssumption
    <3>2. PICK T \in SUBSET Nat : Prompt \in Seq(T)
      BY <3>1, Zenon
    <3>. QED BY <3>2
  <2>2. \A k \in 1 .. N : Prompt[k] \in Inked /\ Prompt[k] \in Nat
    <3> SUFFICES ASSUME NEW k \in 1 .. N PROVE Prompt[k] \in Inked /\ Prompt[k] \in Nat
      OBVIOUS
    <3>1. Prompt[k] \in T
      <4>1. Prompt \in Seq(T) /\ k \in 1 .. Len(Prompt)
        BY <2>1
      <4>. QED BY <4>1, ElementOfSeq
    <3>2. Prompt[k] \in ToSet(Prompt)
      BY <2>1, Zenon DEF ToSet
    <3>3. Prompt[k] \in Inked
      BY <3>2, Zenon DEF Inked
    <3>. QED BY <2>1, <3>1, <3>3
  <2>3. \A k \in 1 .. N : Prompt[k] >= 32
    BY Zenon DEF Tidy, Blank
  <2>. QED BY <2>1, <2>2, <2>3
<1>2. <<0, s>> \in S
  <2>1. s.row \in Int /\ At(s) = s.row * Width + 0
    BY AtFacts
  <2>2. Holds(0, s)
    BY <2>1
  <2> HIDE DEF Holds
  <2>. QED BY <1>1, <2>2
<1>3. ASSUME NEW m \in 0 .. N - 1, NEW q, <<m, q>> \in S
      PROVE  <<m + 1, Put(q, Prompt[m + 1])>> \in S
  <2> DEFINE c   == Prompt[m + 1]
             new == Shown(q, c)
  <2>1. q \in Shots(Inked) /\ Behind(q) = {} /\ \E r \in Int : At(q) = r * Width + m
    BY <1>3
  <2>2. PICK r \in Int : At(q) = r * Width + m
    BY <2>1
  <2>3. /\ m + 1 \in 1 .. N /\ m + 1 \in 0 .. N /\ m \in Nat
        /\ c \in Inked /\ c \in Nat /\ c >= 32
    BY <1>1
  <2> HIDE DEF c
  <2>4. Put(q, c) = new /\ new \in Shots(Inked) /\ c \in Codes(Inked)
    BY <2>1, <2>3, Inks, PutShown, ShownShot DEF Codes
  <2>5. PICK d \in {0, Width} : At(new) = At(q) + 1 - d
    BY <2>1, <2>3, Inks, ShownShot
  <2>6. Behind(Put(q, c)) = {}
    <3>1. c # Return /\ c # Backspace
      BY <2>3 DEF Return, Backspace
    <3>. QED BY <2>1, <2>4, <3>1, Inks, PutClear
  <2> HIDE DEF new
  <2>7. \E u \in Int : At(new) = u * Width + (m + 1)
    <3>1. PICK x \in Int : x = r * Width
      OBVIOUS
    <3>2. At(q) = x + m
      BY <2>2, <3>1
    <3>3. (r - 1) * Width = x - Width
      BY <3>1
    <3>4. CASE d = 0
      <4>1. At(new) = r * Width + (m + 1)
        BY <2>3, <2>5, <3>1, <3>2, <3>4
      <4>. QED BY <4>1
    <3>5. CASE d = Width
      <4>1. At(new) = (r - 1) * Width + (m + 1)
        BY <2>3, <2>5, <3>2, <3>3, <3>5
      <4>. QED BY <4>1
    <3>. QED BY <3>4, <3>5
  <2>8. Holds(m + 1, new)
    BY <2>4, <2>6, <2>7
  <2> HIDE DEF Holds
  <2>. QED BY <2>3, <2>4, <2>8 DEF c
<1>4. <<N, Write(s, Prompt)>> \in S
  <2> HIDE DEF S
  <2>. QED BY <1>1, <1>2, <1>3, WriteInduct
<1> DEFINE w == Write(s, Prompt)
<1>5. w \in Shots(Inked) /\ Holds(N, w)
  <2> HIDE DEF Holds, w
  <2>. QED BY <1>4 DEF w
<1> HIDE DEF w
<1>6. PICK r \in Int : At(w) = r * Width + N
  BY <1>5
<1>7. PICK e \in Texts : e = <<>> /\ Len(e) = 0
  BY EmptySeq DEF Texts
<1>8. At(w) - Len(e) = r * Width + N /\ Behind(w) = {}
  <2>1. At(w) \in Nat
    BY <1>5, AtFacts
  <2>. QED BY <1>5, <1>6, <1>7, <2>1
<1>9. N <= Len(Prompt)
  BY <1>1
<1> HIDE DEF N
<1>10. Trails(w, e)
  <2>1. N \in Nat /\ w \in Shots(Inked)
    BY <1>1, <1>5
  <2>. QED BY <1>8, <1>9, <2>1, TrailsStart
<1>. QED BY <1>7, <1>10 DEF w

LEMMA TrailsInit == Tidy /\ EditorInit => Trails(screen, buf)
<1> SUFFICES ASSUME Tidy, EditorInit PROVE Trails(screen, buf)
  OBVIOUS
<1>1. Cleared \in Shots(Inked) /\ Cleared.col = 0 /\ Behind(Cleared) = {}
  BY ClearedShot DEF Behind
<1>2. PICK n \in 0 .. Height - 1 :
        screen = Write(Write(Cleared, [k \in 1 .. n |-> Newline]), Prompt)
  BY DEF EditorInit
<1> DEFINE lines == [k \in 1 .. n |-> Newline]
<1>3. lines \in Seq(Codes(Inked)) /\ EndsLines(lines)
  <2>1. Newline \in Codes(Inked) /\ n \in Nat /\ Newline # Return /\ Newline # Backspace
    BY DEF Codes, Newline, Return, Backspace
  <2>2. lines \in Seq(Codes(Inked)) /\ Len(lines) = n /\ \A k \in 1 .. n : lines[k] = Newline
    BY <2>1
  <2> HIDE DEF lines
  <2>3. n # 0 => n \in 1 .. n
    BY <2>1
  <2>. QED BY <2>1, <2>2, <2>3 DEF EndsLines
<1> HIDE DEF lines
<1>4. LET w == Write(Cleared, lines) IN w \in Shots(Inked) /\ Behind(w) = {} /\ w.col = 0
  BY <1>1, <1>3, TextClear
<1>5. Trails(Write(Write(Cleared, lines), Prompt), <<>>)
  BY <1>4, PromptTrails
<1>. QED BY <1>2, <1>5 DEF lines, EditorInit

Trailing == Len(buf) < Size => Trails(screen, buf)

\* Every key leaves what is behind the line as narrow as the prompt.
LEMMA TrailsNext ==
  Tidy /\ Fits /\ Fits' /\ Pictured /\ Trailing /\ [EditorNext]_editor => Trailing'
<1> SUFFICES ASSUME Tidy, Fits, Fits', Pictured, Trailing, EditorNext, Len(buf') < Size
             PROVE  Trails(screen', buf')
  <2>1. ASSUME Trailing, UNCHANGED editor PROVE Trailing'
    BY <2>1 DEF editor, Trailing, Trails, Behind, At
  <2>2. ASSUME Len(buf') < Size => Trails(screen', buf') PROVE Trailing'
    BY <2>2 DEF Trailing, Trails, Behind, At
  <2>. QED BY <2>1, <2>2
<1>1. /\ screen \in Shots(Inked) /\ Shows(screen, buf) /\ Trails(screen, buf)
      /\ buf \in Texts /\ Len(buf) \in Nat /\ buf' \in Texts /\ Len(buf') < Size
  BY StillFits DEF Fits, LineFits, Texts, Pictured, Trailing
<1>2. CASE UNCHANGED shown
  BY <1>1, <1>2 DEF shown
<1>3. CASE screen' = Redrawn(buf', Len(buf))
  BY <1>1, <1>3, TrailsRedrawn
<1>4. ASSUME NEW c \in Printable, Character(c) PROVE Trails(screen', buf')
  <2>1. CASE HasRoom
    <3>1. buf' = Append(buf, c) /\ screen' = Put(screen, c)
      BY <1>4, <2>1 DEF Character
    <3>2. Trails(Put(screen, c), Append(buf, c))
      BY <1>1, Inks, TrailsPut
    <3>. QED BY <3>1, <3>2
  <2>2. CASE ~HasRoom
    BY <1>2, <1>4, <2>2 DEF Character
  <2>. QED BY <2>1, <2>2
<1>5. CASE Erase
  <2>1. CASE buf # <<>>
    <3> DEFINE w == Write(screen, <<Backspace, Blank, Backspace>>)
    <3>1. buf' = SubSeq(buf, 1, Len(buf) - 1) /\ screen' = w
      BY <1>5, <2>1 DEF Erase, RubOut, Front
    <3>2. /\ At(w) = At(screen) - 1
          /\ \A i \in Cells : i >= At(w) => w.cells[i] = IF i = At(w) THEN Blank ELSE screen.cells[i]
      BY <1>1, <2>1, Inks, RubbedOut
    <3> HIDE DEF w
    <3>3. Len(buf') = Len(buf) - 1
      <4>1. Len(buf) >= 1
        BY <1>1, <2>1, EmptySeq DEF Texts
      <4>2. PICK n \in Int : n = Len(buf) - 1 /\ n >= 0
        BY <1>1, <4>1
      <4>3. \A i \in 1 .. n : buf[i] \in Printable
        BY <1>1, <4>2 DEF Texts
      <4>4. 1 \in Int /\ n \in Int
        OBVIOUS
      <4>5. Len(SubSeq(buf, 1, n)) = IF 1 <= n THEN n - 1 + 1 ELSE 0
        BY <4>3, <4>4, SubSeqProperties
      <4>6. buf' = SubSeq(buf, 1, n)
        BY <3>1, <4>2, Zenon
      <4>. QED BY <4>2, <4>5, <4>6
    <3>4. At(screen) \in Nat
      BY <1>1, AtFacts
    <3>5. Trails(w, buf')
      BY <1>1, <3>2, <3>3, <3>4, TrailsRub
    <3>. QED BY <3>1, <3>5
  <2>2. CASE buf = <<>>
    BY <1>2, <1>5, <2>2 DEF Erase
  <2>. QED BY <2>1, <2>2
<1>6. ASSUME TabKey \/ Up \/ Down
      PROVE  UNCHANGED shown \/ screen' = Redrawn(buf', Len(buf))
  BY <1>6, Zenon DEF TabKey, Complete, Up, Down, Show, shown
<1>7. CASE Enter
  <2> SUFFICES ASSUME NEW output \in Outputs \cup {<<>>}
               PROVE  Trails(Write(Printed(output), Prompt), <<>>)
    <3>1. buf' = <<>> /\ \/ screen' = Write(Cleared, Prompt)
                         \/ \E output \in Outputs \cup {<<>>} :
                              screen' = Write(Printed(output), Prompt)
      BY <1>7, Zenon DEF Enter, EnterCommand, EnterAnswer, Ready
    <3>2. Trails(Write(Cleared, Prompt), <<>>)
      BY ClearedShot, PromptTrails DEF Behind
    <3>. QED BY <3>1, <3>2
  <2>1. output \in Seq(Codes(Inked)) /\ EndsLines(output)
    <3>1. output = <<>> => output \in Seq(Codes(Inked)) /\ EndsLines(output)
      BY EmptySeq DEF EndsLines
    <3>. QED BY <3>1, Inks DEF Tidy
  <2> DEFINE down == Put(screen, Newline)
  <2>2. down = LineDown(screen)
    BY DEF Put, Return, Newline, Tab, Backspace
  <2>3. down \in Shots(Inked) /\ down.col = 0 /\ Behind(down) = {}
    <3>1. \A i \in Behind(screen) : i < screen.row * Width + Width
      BY <1>1, TrailsFrom
    <3>. QED BY <1>1, <2>2, <3>1, Inks, DownShot, DownClears
  <2> HIDE DEF down
  <2>4. LET w == Write(down, output) IN w \in Shots(Inked) /\ Behind(w) = {} /\ w.col = 0
    BY <2>1, <2>3, TextClear
  <2>5. Trails(Write(Write(down, output), Prompt), <<>>)
    BY <2>4, PromptTrails
  <2>. QED BY <2>5 DEF down, Printed
<1>8. CASE Edit
  BY <1>2, <1>3, <1>4, <1>5, <1>6, <1>8 DEF Edit
<1>. QED BY <1>7, <1>8 DEF EditorNext

\* Where commands end their lines, the end of an older line that redraw_line does
\* not blank is never wider than the prompt: that, and the picture of the line, on a
\* screen of any size that the buffer fits.
THEOREM LineIsSound == ASSUME Tidy PROVE EditorSpec => []LineSound
<1>1. Fits /\ Pictured /\ Trailing => LineSound
  <2> SUFFICES ASSUME Fits, Pictured, Trailing PROVE LineSound
    OBVIOUS
  <2>1. EditorTypes /\ LineBeforeCursor
    BY PicturedShown
  <2>2. screen \in Shots(Inked) /\ buf \in Texts
    BY DEF Fits, LineFits, Texts, Pictured
  <2>3. Len(buf) < Size => Cardinality(Behind(screen)) <= Len(Prompt)
    BY <2>2, TrailsFrom DEF Trailing
  <2>. QED BY <2>1, <2>3 DEF LineSound, LeftoversArePromptWide, Leftovers, Behind
<1>2. EditorInit => Fits /\ Pictured /\ Trailing
  BY FitsInit, PicturedInit, TrailsInit DEF Trailing
<1>3. /\ Fits /\ Pictured /\ Trailing /\ [EditorNext]_editor
      => (Fits /\ Pictured /\ Trailing)'
  BY FitsNext, PicturedNext, TrailsNext
<1>. QED BY <1>1, <1>2, <1>3, PTL DEF EditorSpec

=============================================================================
