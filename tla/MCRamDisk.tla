----------------------------- MODULE MCRamDisk -----------------------------
(***************************************************************************)
(* Small instances of RamDisk for TLC.                                     *)
(***************************************************************************)
EXTENDS RamDisk

Rel(toks) == [abs |-> FALSE, toks |-> toks, slash |-> FALSE]
Abs(toks) == [abs |-> TRUE,  toks |-> toks, slash |-> FALSE]

\* Both names from the current directory, the root, the parent, one level
\* down and up, with every odd spelling once.
TreePaths ==
  { Rel(<<>>), Rel(<<"a">>), Rel(<<"b">>), Rel(<<"..">>),
    Rel(<<"a", "a">>), Rel(<<"a", "b">>), Rel(<<"a", "..">>), Rel(<<"b", ".">>),
    Abs(<<>>), Abs(<<"a">>), Abs(<<"b", "a">>),
    [abs |-> FALSE, toks |-> <<"b">>, slash |-> TRUE],
    Rel(<<TooLong, "a">>) }

RenamePaths == {Rel(<<"a">>), Rel(<<"b">>)}

NoTexts   == {}
\* With room for the NUL only: the text that fits and one that does not.
TreeTexts == {<<>>, <<1>>}
=============================================================================
