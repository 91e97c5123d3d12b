----------------------------- MODULE MCKeyboard -----------------------------
(***************************************************************************)
(* Small instances of Keyboard for TLC.  A PC keyboard in its first        *)
(* translated scan code set is the environment.                            *)
(***************************************************************************)
EXTENDS Keyboard

MCBase    == [code \in 0 .. 127 |-> IF code = 30 THEN 97 ELSE 0]
MCShifted == [code \in 0 .. 127 |-> IF code = 30 THEN 65 ELSE 0]

\* Code 55 behind a fake shift is the print screen key's.
MakeCodes ==
  [a |-> <<30>>, enter |-> <<28>>, lshift |-> <<42>>, rshift |-> <<54>>,
   up |-> <<224, 72>>, print |-> <<224, 42, 224, 55>>]
BreakCodes ==
  [a |-> <<158>>, enter |-> <<156>>, lshift |-> <<170>>, rshift |-> <<182>>,
   up |-> <<224, 200>>, print |-> <<224, 183, 224, 170>>]

Same(v) == [b \in BOOLEAN |-> v]
TypeTable ==
  [a |-> [b \in BOOLEAN |-> IF b THEN 65 ELSE 97], enter |-> Same(KeyEnter),
   lshift |-> Same(0), rshift |-> Same(0), up |-> Same(KeyUp), print |-> Same(0)]

Of(table) == [k \in Keys |-> table[k]]
MCMake  == Of(MakeCodes)
MCBreak == Of(BreakCodes)
MCTypes == Of(TypeTable)
=============================================================================
