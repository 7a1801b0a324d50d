----------------------------- MODULE MCLeaseLock -----------------------------
(* LeaseLock on a small instance: three owners, so that two readers and a  *)
(* writer who waits for both are possible.                                 *)
EXTENDS LeaseLock, TLC

CONSTANTS o1, o2, o3

MCOwners == {o1, o2, o3}
MCLeases == {1, 2}
MCSymmetry == Permutations(MCOwners)
=============================================================================
