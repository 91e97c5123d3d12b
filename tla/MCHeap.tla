------------------------------- MODULE MCHeap -------------------------------
(***************************************************************************)
(* A heap of a few granules of four bytes and a size_t of 64 values.       *)
(***************************************************************************)
EXTENDS Heap

\* Nothing, part of a granule, one, just over one, three, and two sizes
\* whose rounding stays within the word and wraps.
SomeRequests == {0, 1, 4, 5, 12, 60, 61}
=============================================================================
