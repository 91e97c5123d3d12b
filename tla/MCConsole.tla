----------------------------- MODULE MCConsole ------------------------------
(* Three rows of four columns, two tab stops in a row, one printable character. *)
EXTENDS Console

MCGlyphs == {Blank, 97}
=============================================================================
