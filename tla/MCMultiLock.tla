----------------------------- MODULE MCMultiLock -----------------------------
(* MultiLock on small instances.                                           *)
EXTENDS MultiLock

CONSTANTS g1, g2, g3, a, b

(* Three groups on two Keys, given in both orders and one of them twice.  *)
(* The first and the third share an owner token.                           *)
ThreeGroups == {g1, g2, g3}
Twisted     == (g1 :> <<2, 1>>) @@ (g2 :> <<1, 2, 1>>) @@ (g3 :> <<1, 2>>)
ThreeOwners == (g1 :> a) @@ (g2 :> b) @@ (g3 :> a)
ThreeLeases == [g \in ThreeGroups |-> 1]
NoneWatched == {}

(* Two groups that meet on both Keys.                                      *)
TwoGroups  == {g1, g2}
Crossed    == (g1 :> <<2, 1>>) @@ (g2 :> <<1, 2>>)
TwoOwners  == (g1 :> a) @@ (g2 :> b)
TwoLeases  == (g1 :> 2) @@ (g2 :> 1)
OneWatched == {g1}
=============================================================================
