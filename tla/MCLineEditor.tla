---------------------------- MODULE MCLineEditor ----------------------------
(* Two letters are enough for names that share a beginning, for a line that *)
(* is repeated and for one that is not.                                     *)
EXTENDS LineEditor

a == 97
b == 98

TwoLetters  == {a, b}
MCPrompt    == <<62, Blank>>
MCOutputs   == {<<>>, <<b, Newline>>}
\* Names that fit, that do not, that match late, and more names than the array holds.
MCListings  == { <<>>, <<<<b>>, <<a, b>>>>, <<<<a, b, a, b, a, b>>>>, <<<<b>>, <<b>>, <<a>>>> }
=============================================================================
