------------------------------- MODULE MCPmm -------------------------------
(***************************************************************************)
(* Pages of four bytes, six to ten of them, and a kernel that ends inside  *)
(* the second: the boot loader says nothing, has no map, or reports memory *)
(* below, within and above the two limits, with a hole, with a reserved    *)
(* region above the usable one, or with a region that wraps around.        *)
(***************************************************************************)
EXTENDS Pmm

Usable(from, to)   == [addr |-> from, len |-> to - from, usable |-> TRUE]
Unusable(from, to) == [addr |-> from, len |-> to - from, usable |-> FALSE]

Info(magic, map) == [magic |-> magic, mbi |-> TRUE, hasMap |-> TRUE, entries |-> map]

SomeBoots ==
  { [Info("mb2", {}) EXCEPT !.mbi = FALSE],
    [Info("mb1", {Usable(0, 32)}) EXCEPT !.hasMap = FALSE],
    Info("other", {Usable(0, 32)}),
    Info("mb1", {Usable(0, 30)}),
    Info("mb2", {Usable(4, 35), Unusable(35, 40)}),
    Info("mb2", {Usable(0, 12), Unusable(12, 16), Usable(16, 32)}),
    Info("mb2", {Usable(0, 16)}),
    Info("mb2", {Usable(0, 60)}),
    Info("mb2", {Usable(0, 36), [addr |-> 200, len |-> 60, usable |-> TRUE]}) }
=============================================================================
