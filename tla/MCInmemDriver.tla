---------------------------- MODULE MCInmemDriver ----------------------------
(* InmemDriver on a small instance: two owners, so that a reader and a     *)
(* writer, two readers and a stranger all meet; leases of one and two      *)
(* ticks, so that one hold of a record lapses before another.              *)
EXTENDS InmemDriver, TLC

CONSTANTS o1, o2, none

MCOwners == {o1, o2}
MCLeases == {1, 2}
MCSymmetry == Permutations(MCOwners)
=============================================================================
