---------------------------- MODULE MCRedisDriver ----------------------------
(* RedisDriver on two owners.  Agreeing clocks are interchangeable, so the *)
(* owners are symmetric in the runs with NoOffset; Ahead puts the clock of *)
(* a process one tick before that of the other.                            *)
EXTENDS RedisDriver, TLC

CONSTANTS o1, o2

NoOffset == [o \in Owners |-> 0]

Ahead == [o \in Owners |-> IF o = o1 THEN 0 ELSE 1]

OwnerSymmetry == Permutations(Owners)

=============================================================================
