-------------------------- MODULE MCPostgresDriver --------------------------
(* PostgresDriver on small instances.                                      *)
EXTENDS PostgresDriver, TLC

CONSTANTS o1, o2, c1, c2
=============================================================================
