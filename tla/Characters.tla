----------------------------- MODULE Characters -----------------------------
(***************************************************************************)
(* Lines of text for the models of the lexer and of the shell's commands: *)
(* a line is a sequence of characters, each a string of length one.  The   *)
(* codes of the characters matter only by their order, which kstrcmp sees. *)
(***************************************************************************)
EXTENDS Integers, SequencesExt

Digit == << "0", "1", "2", "3", "4", "5", "6", "7", "8", "9" >>
Lower == << "a", "b", "c", "d", "e", "f", "g", "h", "i", "j", "k", "l", "m",
            "n", "o", "p", "q", "r", "s", "t", "u", "v", "w", "x", "y", "z" >>
Upper == << "A", "B", "C", "D", "E", "F", "G", "H", "I", "J", "K", "L", "M",
            "N", "O", "P", "Q", "R", "S", "T", "U", "V", "W", "X", "Y", "Z" >>

\* The characters of the models in the order of their codes.
Ascii == << "\t", "\r", " ", "!", "\"", "%", "(", ")", "*", "+", ",", "-", ".", "/" >>
           \o Digit \o << "<", "=", ">", "?" >> \o Upper \o << "_" >> \o Lower

Char  == ToSet(Ascii)
Quote == "\""

Code(c)  == CHOOSE n \in DOMAIN Ascii : Ascii[n] = c
Codes(s) == [i \in 1 .. Len(s) |-> Code(s[i])]

\* The word a sequence of characters spells, and the characters of a word.
Spelled(s) == FoldLeft(LAMBDA word, c : word \o c, "", s)
Chars(s)   == [i \in 1 .. Len(s) |-> SubSeq(s, i, i)]
=============================================================================
