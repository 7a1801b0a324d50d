------------------------------ MODULE LeaseLock ------------------------------
(***************************************************************************)
(* The promise of a glock backend for one Key: the abstract specification  *)
(* that the drivers are shown to implement.  It keeps the live holds of    *)
(* the Key, each with the time its lease has left, and the highest fence   *)
(* issued so far.                                                          *)
(***************************************************************************)
EXTENDS LeaseHolds

CONSTANTS
  Leases,      \* lease lengths a caller may ask for, in ticks
  MaxFence,    \* bound: fences are issued up to this number
  MaxCount     \* bound: an owner reenters up to this count

ASSUME LeaseLockAssumption ==
  /\ Leases \subseteq Nat \ {0}
  /\ MaxFence \in Nat
  /\ MaxCount \in Nat

VARIABLES
  holds,       \* owner -> live hold or NoHold
  issued       \* highest fence issued; 0 when none

vars == <<holds, issued>>

Fences == 1 .. MaxFence

TypeOK ==
  /\ holds \in [Owners -> Hold \cup {NoHold}]
  /\ issued \in 0 .. MaxFence

Init ==
  /\ holds = Vacant
  /\ issued = 0

-----------------------------------------------------------------------------

(* A fresh acquisition takes a fence above every fence issued before.      *)
Grant_Bug(o, m, l) ==
  /\ Verdict(holds, o, m) = "grant"
  /\ \E f \in Fences :
       /\ f >= issued
       /\ issued' = f
       /\ holds' = Granted(holds, o, m, f, l)

Grant(o, m, l) ==
  /\ Verdict(holds, o, m) = "grant"
  /\ \E f \in Fences :
       /\ f > issued
       /\ issued' = f
       /\ holds' = Granted(holds, o, m, f, l)

Reenter(o, m, l) ==
  /\ Verdict(holds, o, m) = "reenter"
  /\ holds[o].count < MaxCount
  /\ holds' = Reentered(holds, o, l)
  /\ UNCHANGED issued

Refresh(o, m, f, l) ==
  /\ Owns(holds, o, m, f)
  /\ holds' = Extended(holds, o, l)
  /\ UNCHANGED issued

Release(o, m, f) ==
  /\ Owns(holds, o, m, f)
  /\ holds' = Released(holds, o)
  /\ UNCHANGED issued

Downgrade(o, f) ==
  /\ DowngradeVerdict(holds, o, f) = "ok"
  /\ holds' = Downgraded(holds, o)
  /\ UNCHANGED issued

(* The backend loses the data of the Key, but not the fence counter.       *)
Drop ==
  /\ holds' = Vacant
  /\ UNCHANGED issued

(* Fences may be skipped: a counter shared by several Keys, or a fence     *)
(* whose acquisition was rolled back.                                      *)
Skip ==
  /\ \E f \in Fences : f > issued /\ issued' = f
  /\ UNCHANGED holds

Tick ==
  /\ holds' = Aged(holds)
  /\ UNCHANGED issued

Next ==
  \/ \E o \in Owners, m \in Modes, l \in Leases : Grant(o, m, l) \/ Reenter(o, m, l)
  \/ \E o \in Owners, m \in Modes, f \in Fences :
       \/ \E l \in Leases : Refresh(o, m, f, l)
       \/ Release(o, m, f)
  \/ \E o \in Owners, f \in Fences : Downgrade(o, f)
  \/ Drop
  \/ Skip
  \/ Tick

Spec == Init /\ [][Next]_vars

-----------------------------------------------------------------------------

Holding(o) == holds[o] # NoHold

(* CONTEXT.md, "Key": at any moment one write hold or several read holds.  *)
MutualExclusion ==
  \A o, p \in Owners :
    o # p /\ Holding(o) /\ Holding(p) => holds[o].mode = "read" /\ holds[p].mode = "read"

(* ADR-0004: a fence names one acquisition event, so two holds never share *)
(* one and none is above the counter.                                      *)
FenceNamesOneHold ==
  \A o \in Owners : Holding(o) =>
    /\ holds[o].fence <= issued
    /\ \A p \in Owners \ {o} : Holding(p) => holds[p].fence # holds[o].fence

(* ADR-0004: the fences of one Key only rise.  A hold keeps its fence for  *)
(* as long as it lives, through reentries, refreshes and a downgrade, and  *)
(* a hold that begins has a higher one than any hold before it.            *)
FencesRise ==
  [][\A o \in Owners : Holding(o)' =>
       \/ holds'[o].fence = holds[o].fence
       \/ ~ Holding(o) /\ holds'[o].fence > issued]_vars

=============================================================================
