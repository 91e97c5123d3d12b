------------------------------ MODULE KeyQueue ------------------------------
(***************************************************************************)
(* What the keyboard driver promises its reader: the keys come out in the  *)
(* order they went in, none twice, and the only keys ever lost are those   *)
(* that lie unread when one more than Capacity arrives, all at once.       *)
(***************************************************************************)
EXTENDS Integers, Sequences

CONSTANTS Capacity,     \* the most keys that lie unread, a positive number
          Values        \* the keys

VARIABLE q

Init == q = <<>>

Put(k) == q' = IF Len(q) < Capacity THEN Append(q, k) ELSE <<>>

Take == q # <<>> /\ q' = Tail(q)

Next == (\E k \in Values : Put(k)) \/ Take

Safe == Init /\ [][Next]_q
=============================================================================
