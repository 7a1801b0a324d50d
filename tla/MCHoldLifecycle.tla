--------------------------- MODULE MCHoldLifecycle ---------------------------
(* HoldLifecycle on small instances.  The owners and the modes of the      *)
(* handles are what tells the runs apart.                                  *)
EXTENDS HoldLifecycle, TLC

CONSTANTS h1, h2, h3, a, b

(* Two handles of one owner, one of them watched, that reenter, and a      *)
(* reader of another owner, who takes over what lapses.                    *)
TrioHandles  == {h1, h2, h3}
TrioOwner    == (h1 :> a) @@ (h2 :> a) @@ (h3 :> b)
TrioMode     == (h1 :> "write") @@ (h2 :> "write") @@ (h3 :> "read")
TrioLease    == [h \in TrioHandles |-> 1]
TrioOps      == (h1 :> {"release", "downgrade"}) @@ (h2 :> {"release", "refresh"}) @@ (h3 :> {})
FirstWatched == {h1}

(* Two watched handles of two processes with one owner token.              *)
PairHandles == {h1, h2}
PairOwner   == [h \in PairHandles |-> a]
PairMode    == [h \in PairHandles |-> "write"]
PairLease   == (h1 :> 1) @@ (h2 :> 2)
PairOps     == (h1 :> {}) @@ (h2 :> {"release", "refresh", "downgrade"})

(* One handle alone, for what a handle owes to its own application.        *)
OneHandle    == {h1}
OneOwner     == h1 :> a
OneWrite     == h1 :> "write"
OneLease     == h1 :> 2
OneDowngrade == h1 :> {"downgrade"}
=============================================================================
