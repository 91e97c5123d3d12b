------------------------------ MODULE MCStartup -----------------------------
(* Timer, keyboard and a device of the second controller; an exception with a *)
(* stub of its own and a page fault; two characters for every message.        *)
EXTENDS Startup

MCLines      == {0, 1, 14}
MCExceptions == {0, 14}
MCEnds       == [k \in 0 .. 10 |-> 2 * k]
=============================================================================
