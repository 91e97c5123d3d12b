----------------------------- MODULE MCCommands -----------------------------
(***************************************************************************)
(* Commands on a small disk, together with the direct calls.               *)
(***************************************************************************)
EXTENDS Commands

Rel(toks) == [abs |-> FALSE, toks |-> toks, slash |-> FALSE]
Abs(toks) == [abs |-> TRUE,  toks |-> toks, slash |-> FALSE]

DataPaths == {Rel(<<>>), Rel(<<"a">>), Rel(<<"b">>), Rel(<<"a", "b">>)}

DataTexts == {<<>>, Codes(<<"y", "y">>), Codes(<<"x", " ", "x">>)}
DataBytes == 0 .. Len(Ascii)

\* What the words of the lines spell, also if they are cut shorter.
DataNames == {"a", "b", "e", "r", "x", "yy", " ", " \t", " \ta"}

Sentences ==
  { Chars(s) : s \in
    { "mkdir b", "mkdir", "folder a", "folder", "new a", "make a/b", "make", "write a",
      "write  b \"yy\"", "write a x x", "write", "delete /a", "delete", "copy a b", "copy a",
      "move a b", "rename b a", "rename a a", "move b b/a", "cd a/", "cd aaaa", "goto ..", "cd", "back", "home", "pwd", "list",
      "files", "read a", "open b", "run", "disk", "help", "" } }

----------------------------------------------------------------------------
(* Words of up to ArgLen characters, and texts in quotes of one less.      *)

Shapes == {[quoted |-> FALSE, text |-> <<"a">>],
           [quoted |-> FALSE, text |-> <<"a", "b", "a", "\"", "a", "b">>],
           [quoted |-> TRUE,  text |-> <<>>],
           [quoted |-> TRUE,  text |-> <<" ">>],
           [quoted |-> TRUE,  text |-> <<"a", " ", " ", "b", "\t">>]}

Behind(blanks, shape) == [before |-> blanks, quoted |-> shape.quoted, text |-> shape.text]

\* A command with two words behind it, and five words of one kind.
Pairs == {<<Behind(<<>>, [quoted |-> FALSE, text |-> <<"h">>])>>
            \o [n \in 1 .. 2 |-> Behind(<<" ", "\t">>, pair[n])] : pair \in [1 .. 2 -> Shapes]}
Fives == {[n \in 1 .. 5 |-> Behind(<<" ">>, shape)] : shape \in Shapes}

MCMeanings ==
  [words : Pairs, rest : {<<>>}] \cup [words : Fives, rest : {<<>>, <<"\t">>}]

Entered == Sentences \cup {LineOf(m) : m \in MCMeanings}
=============================================================================
