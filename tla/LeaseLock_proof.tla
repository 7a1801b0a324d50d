--------------------------- MODULE LeaseLock_proof ---------------------------
(***************************************************************************)
(* What LeaseLock promises, for every set of owners and leases and every   *)
(* bound.  MutualExclusion and FenceNamesOneHold are not inductive without *)
(* the types, so the three are proved together as Inv.                     *)
(***************************************************************************)
EXTENDS LeaseLock, LeaseHolds_proof, TLAPS

Inv == TypeOK /\ MutualExclusion /\ FenceNamesOneHold

LEMMA InitInv == Init => Inv
<1> SUFFICES ASSUME Init PROVE Inv
  OBVIOUS
<1>1. TypeOK
  BY LeaseLockAssumption DEF Init, TypeOK, Vacant
<1>2. MutualExclusion /\ FenceNamesOneHold
  BY DEF Init, MutualExclusion, FenceNamesOneHold, Holding, Vacant
<1> QED
  BY <1>1, <1>2 DEF Inv

LEMMA GrantInv ==
  ASSUME Inv, NEW o \in Owners, NEW m \in Modes, NEW l \in Leases, Grant(o, m, l)
  PROVE  Inv'
<1> USE DEF Inv
<1> DEFINE new(f) == [mode |-> m, count |-> 1, fence |-> f, left |-> l]
<1>1. PICK f \in Fences : f > issued /\ issued' = f /\ holds' = [holds EXCEPT ![o] = new(f)]
  BY DEF Grant, Granted
<1>2. new(f) \in Hold /\ f \in Nat \ {0} /\ f \in 0 .. MaxFence
  BY <1>1, LeaseLockAssumption DEF Hold, Fences
<1>3. holds[o] = NoHold /\ Rivals(holds, o, m) = {}
  BY DEF Grant, Verdict
<1>4. TypeOK'
  BY <1>1, <1>2 DEF TypeOK
<1>5. holds'[o] = new(f) /\ \A p \in Owners \ {o} : holds'[p] = holds[p]
  BY <1>1 DEF TypeOK
<1>6. \A p \in Owners \ {o} : Holding(p) => m = "read" /\ holds[p].mode = "read"
  BY <1>3 DEF Rivals, Holding
<1>7. MutualExclusion'
  <2> SUFFICES ASSUME NEW p \in Owners, NEW q \in Owners, p # q,
                      holds'[p] # NoHold, holds'[q] # NoHold
               PROVE  holds'[p].mode = "read" /\ holds'[q].mode = "read"
    BY DEF MutualExclusion, Holding
  <2>1. CASE p # o /\ q # o
    BY <2>1, <1>5 DEF MutualExclusion, Holding
  <2>2. CASE p = o \/ q = o
    BY <2>2, <1>5, <1>6 DEF Holding
  <2> QED BY <2>1, <2>2
<1>8. FenceNamesOneHold'
  <2> SUFFICES ASSUME NEW p \in Owners, holds'[p] # NoHold
               PROVE  /\ holds'[p].fence <= issued'
                      /\ \A q \in Owners \ {p} : holds'[q] # NoHold => holds'[q].fence # holds'[p].fence
    BY DEF FenceNamesOneHold, Holding
  <2>1. \A q \in Owners \ {o} : holds[q] # NoHold =>
          holds[q].fence \in Nat /\ holds[q].fence <= issued /\ holds[q].fence < f
    BY <1>1, <1>2 DEF FenceNamesOneHold, Holding, TypeOK, Hold
  <2>2. new(f).fence = f
    OBVIOUS
  <2>3. CASE p = o
    BY <2>3, <2>1, <2>2, <1>1, <1>2, <1>5
  <2>4. CASE p # o
    BY <2>4, <2>1, <2>2, <1>1, <1>2, <1>5 DEF FenceNamesOneHold, Holding, TypeOK
  <2> QED BY <2>3, <2>4
<1> QED BY <1>4, <1>7, <1>8

(* A step that issues no fence keeps Inv when every hold it leaves is a    *)
(* hold of before with the same fence, and in the same mode or downgraded. *)
LEMMA NoNewFenceInv ==
  ASSUME Inv,
         holds' \in [Owners -> Hold \cup {NoHold}],
         issued' \in 0 .. MaxFence, issued' >= issued,
         \A p \in Owners : Holding(p)' =>
           /\ Holding(p)
           /\ holds'[p].fence = holds[p].fence
           /\ holds'[p].mode \in {holds[p].mode, "read"}
  PROVE  Inv'
<1> USE DEF Inv
<1>1. TypeOK'
  BY DEF TypeOK
<1>2. MutualExclusion'
  BY DEF MutualExclusion, Holding
<1>3. FenceNamesOneHold'
  <2>1. \A p \in Owners : Holding(p) => holds[p].fence \in Nat
    BY DEF Holding, TypeOK, Hold
  <2> QED BY <2>1 DEF FenceNamesOneHold, Holding, TypeOK
<1> QED BY <1>1, <1>2, <1>3

(* The shape of every change of one hold.                                  *)
LEMMA OneHoldInv ==
  ASSUME Inv, NEW o \in Owners, NEW h \in Hold \cup {NoHold},
         holds[o] # NoHold, issued' = issued,
         holds' = [holds EXCEPT ![o] = h],
         h # NoHold => h.fence = holds[o].fence /\ h.mode \in {holds[o].mode, "read"}
  PROVE  Inv'
<1>1. holds' \in [Owners -> Hold \cup {NoHold}]
  BY DEF Inv, TypeOK
<1>2. \A p \in Owners : Holding(p)' =>
           /\ Holding(p)
           /\ holds'[p].fence = holds[p].fence
           /\ holds'[p].mode \in {holds[p].mode, "read"}
  BY DEF Inv, TypeOK, Holding
<1> QED
  BY <1>1, <1>2, NoNewFenceInv DEF Inv, TypeOK

LEMMA NextInv == Inv /\ [Next]_vars => Inv'
<1> SUFFICES ASSUME Inv, [Next]_vars PROVE Inv'
  OBVIOUS
<1>types. holds \in [Owners -> Hold \cup {NoHold}] /\ issued \in 0 .. MaxFence
  BY DEF Inv, TypeOK
<1>1. ASSUME NEW o \in Owners, NEW m \in Modes, NEW l \in Leases, Grant(o, m, l)
      PROVE  Inv'
  BY <1>1, GrantInv
<1>2. ASSUME NEW o \in Owners, NEW m \in Modes, NEW l \in Leases, Reenter(o, m, l)
      PROVE  Inv'
  <2> DEFINE h == [holds[o] EXCEPT !.count = holds[o].count + 1, !.left = l]
  <2>1. holds[o] # NoHold /\ holds[o] \in Hold
    BY <1>2, <1>types DEF Reenter, Verdict
  <2>2. h \in Hold /\ h.fence = holds[o].fence /\ h.mode = holds[o].mode
    BY <2>1, LeaseLockAssumption, ReenteredHold
  <2>3. holds' = [holds EXCEPT ![o] = h] /\ issued' = issued
    BY <1>2 DEF Reenter, Reentered
  <2> QED BY <2>1, <2>2, <2>3, OneHoldInv
<1>3. ASSUME NEW o \in Owners, NEW m \in Modes, NEW f \in Fences, NEW l \in Leases,
             Refresh(o, m, f, l)
      PROVE  Inv'
  <2> DEFINE h == [holds[o] EXCEPT !.left = l]
  <2>1. holds[o] # NoHold /\ holds[o] \in Hold
    BY <1>3, <1>types DEF Refresh, Owns
  <2>2. h \in Hold /\ h.fence = holds[o].fence /\ h.mode = holds[o].mode
    BY <2>1, LeaseLockAssumption DEF Hold
  <2>3. holds' = [holds EXCEPT ![o] = h] /\ issued' = issued
    BY <1>3, <1>types, <2>1 DEF Refresh, Extended
  <2> QED BY <2>1, <2>2, <2>3, OneHoldInv
<1>4. ASSUME NEW o \in Owners, NEW m \in Modes, NEW f \in Fences, Release(o, m, f)
      PROVE  Inv'
  <2> DEFINE h == IF holds[o].count > 1 THEN [holds[o] EXCEPT !.count = holds[o].count - 1] ELSE NoHold
  <2>1. holds[o] # NoHold /\ holds[o] \in Hold
    BY <1>4, <1>types DEF Release, Owns
  <2>2. h \in Hold \cup {NoHold}
        /\ (h # NoHold => h.fence = holds[o].fence /\ h.mode = holds[o].mode)
    BY <2>1 DEF Hold
  <2>3. holds' = [holds EXCEPT ![o] = h] /\ issued' = issued
    BY <1>4 DEF Release, Released
  <2> QED BY <2>1, <2>2, <2>3, OneHoldInv
<1>5. ASSUME NEW o \in Owners, NEW f \in Fences, Downgrade(o, f)
      PROVE  Inv'
  <2> DEFINE h == [holds[o] EXCEPT !.mode = "read", !.count = 1]
  <2>1. holds[o] # NoHold /\ holds[o] \in Hold
    BY <1>5, <1>types DEF Downgrade, DowngradeVerdict, Owns
  <2>2. h \in Hold /\ h.fence = holds[o].fence /\ h.mode = "read"
    BY <2>1, DowngradedHold
  <2>3. holds' = [holds EXCEPT ![o] = h] /\ issued' = issued
    BY <1>5 DEF Downgrade, Downgraded
  <2> QED BY <2>1, <2>2, <2>3, OneHoldInv
<1>6. CASE Drop
  BY <1>6, NoNewFenceInv, <1>types DEF Drop, Vacant, Holding
<1>7. CASE Skip
  <2>1. issued' \in 0 .. MaxFence /\ issued' >= issued /\ holds' = holds
    BY <1>7, <1>types, LeaseLockAssumption DEF Skip, Fences
  <2> QED BY <2>1, <1>types, NoNewFenceInv DEF Holding
<1>8. CASE Tick
  <2>1. \A p \in Owners : holds'[p] =
          IF holds[p].left > 1 THEN [holds[p] EXCEPT !.left = holds[p].left - 1] ELSE NoHold
    BY <1>8 DEF Tick, Aged
  <2>2. \A p \in Owners : holds[p].left > 1 =>
          /\ holds[p] \in Hold
          /\ [holds[p] EXCEPT !.left = holds[p].left - 1] \in Hold
          /\ [holds[p] EXCEPT !.left = holds[p].left - 1].fence = holds[p].fence
          /\ [holds[p] EXCEPT !.left = holds[p].left - 1].mode = holds[p].mode
    BY <1>types DEF Hold, NoHold
  <2>3. holds' \in [Owners -> Hold \cup {NoHold}]
    BY <1>8, <2>2 DEF Tick, Aged
  <2>4. \A p \in Owners : Holding(p)' =>
           /\ Holding(p)
           /\ holds'[p].fence = holds[p].fence
           /\ holds'[p].mode \in {holds[p].mode, "read"}
    BY <2>1, <2>2, NoHoldIsNone DEF Holding
  <2> QED BY <1>8, <1>types, <2>3, <2>4, NoNewFenceInv DEF Tick
<1>9. CASE UNCHANGED vars
  BY <1>9 DEF vars, Inv, TypeOK, MutualExclusion, FenceNamesOneHold, Holding
<1> QED
  BY <1>1, <1>2, <1>3, <1>4, <1>5, <1>6, <1>7, <1>8, <1>9 DEF Next

LEMMA Safety == Spec => []Inv
<1>1. Init => Inv
  BY InitInv
<1>2. Inv /\ [Next]_vars => Inv'
  BY NextInv
<1> QED
  BY <1>1, <1>2, PTL DEF Spec

(* The state of the Key is well-typed whatever sequence of calls, lapses   *)
(* and losses it goes through.                                             *)
THEOREM TypeCorrect == Spec => []TypeOK
<1>1. Inv => TypeOK
  BY DEF Inv
<1> QED
  BY <1>1, Safety, PTL

(* CONTEXT.md, "Key": a write hold is alone, for any number of owners.     *)
THEOREM Exclusion == Spec => []MutualExclusion
<1>1. Inv => MutualExclusion
  BY DEF Inv
<1> QED
  BY <1>1, Safety, PTL

(* ADR-0004: a fence names at most one live hold and is never above the    *)
(* counter.                                                                *)
THEOREM FencesAreNames == Spec => []FenceNamesOneHold
<1>1. Inv => FenceNamesOneHold
  BY DEF Inv
<1> QED
  BY <1>1, Safety, PTL

(* ADR-0004: a hold keeps its fence for life and begins with one above all *)
(* fences before it.  Only Grant begins a hold, and it looks at issued.    *)
THEOREM FencesOnlyRise == Spec => FencesRise
<1> DEFINE Rise == \A o \in Owners : Holding(o)' =>
                     \/ holds'[o].fence = holds[o].fence
                     \/ ~ Holding(o) /\ holds'[o].fence > issued
<1>1. ASSUME Inv, [Next]_vars PROVE Rise
  <2>types. holds \in [Owners -> Hold \cup {NoHold}]
    BY <1>1 DEF Inv, TypeOK
  <2>0. ASSUME NEW o \in Owners, NEW h, holds' = [holds EXCEPT ![o] = h],
               h # NoHold => h.fence = holds[o].fence
        PROVE  Rise
    BY <2>0, <2>types DEF Holding
  <2>1. ASSUME NEW o \in Owners, NEW m \in Modes, NEW l \in Leases, Grant(o, m, l)
        PROVE  Rise
    <3>1. PICK f \in Fences :
            f > issued /\ holds' = [holds EXCEPT ![o] = [mode |-> m, count |-> 1, fence |-> f, left |-> l]]
      BY <2>1 DEF Grant, Granted
    <3>2. holds[o] = NoHold
      BY <2>1 DEF Grant, Verdict
    <3> QED BY <3>1, <3>2, <2>types DEF Holding
  <2>2. ASSUME NEW o \in Owners, NEW m \in Modes, NEW l \in Leases, Reenter(o, m, l)
        PROVE  Rise
    <3>1. holds[o] # NoHold /\ holds[o] \in Hold
      BY <2>2, <2>types DEF Reenter, Verdict
    <3> QED BY <2>0, <2>2, <3>1, LeaseLockAssumption, ReenteredHold DEF Reenter, Reentered
  <2>3. ASSUME NEW o \in Owners, NEW m \in Modes, NEW f \in Fences, NEW l \in Leases,
               Refresh(o, m, f, l)
        PROVE  Rise
    <3>1. holds[o] # NoHold /\ holds[o] \in Hold
      BY <2>3, <2>types DEF Refresh, Owns
    <3>2. [holds[o] EXCEPT !.left = l].fence = holds[o].fence
      BY <3>1 DEF Hold
    <3> QED BY <2>0, <2>3, <3>2 DEF Refresh, Extended
  <2>4. ASSUME NEW o \in Owners, NEW m \in Modes, NEW f \in Fences, Release(o, m, f)
        PROVE  Rise
    <3>1. holds[o] # NoHold /\ holds[o] \in Hold
      BY <2>4, <2>types DEF Release, Owns
    <3>2. [holds[o] EXCEPT !.count = holds[o].count - 1].fence = holds[o].fence
      BY <3>1 DEF Hold
    <3> QED BY <2>0, <2>4, <3>2 DEF Release, Released
  <2>5. ASSUME NEW o \in Owners, NEW f \in Fences, Downgrade(o, f)
        PROVE  Rise
    <3>1. holds[o] # NoHold /\ holds[o] \in Hold
      BY <2>5, <2>types DEF Downgrade, DowngradeVerdict, Owns
    <3> QED BY <2>0, <2>5, <3>1, DowngradedHold DEF Downgrade, Downgraded
  <2>6. CASE Drop \/ Skip \/ UNCHANGED vars
    BY <2>6 DEF Drop, Skip, vars, Vacant, Holding
  <2>7. CASE Tick
    <3>1. \A p \in Owners : holds[p].left > 1 =>
            holds[p] \in Hold /\ [holds[p] EXCEPT !.left = holds[p].left - 1].fence = holds[p].fence
      BY <2>types DEF Hold, NoHold
    <3> QED BY <2>7, <3>1 DEF Tick, Aged, Holding
  <2> QED
    BY <1>1, <2>1, <2>2, <2>3, <2>4, <2>5, <2>6, <2>7 DEF Next
<1>2. Inv /\ [Next]_vars => [Rise]_vars
  BY <1>1
<1> QED
  BY <1>2, Safety, PTL DEF Spec, FencesRise

=============================================================================
