----------------------------- MODULE LeaseHolds -----------------------------
(***************************************************************************)
(* What one call of glock's Driver interface (driver.go) does to one Key,  *)
(* as operators on values.  The state of a Key is a function H from owner  *)
(* tokens to the live hold of that owner, or NoHold.  A hold that has      *)
(* lapsed is not in H: driver.go says that an expired record "does not     *)
(* count as alive", and every backend tests expires > now before it looks  *)
(* at anything else.  The deadline of a hold is kept as the time it has    *)
(* left, so that no clock is needed.                                       *)
(*                                                                         *)
(* Operators whose name ends in _Bug are the deviations the mutation runs  *)
(* substitute for the operator that follows them.                          *)
(***************************************************************************)
EXTENDS Naturals

CONSTANT Owners        \* owner tokens (WithOwner / NewOwnerToken)

Modes == {"write", "read"}

NoHold == [mode |-> "none", count |-> 0, fence |-> 0, left |-> 0]

Hold == [mode : Modes, count : Nat \ {0}, fence : Nat \ {0}, left : Nat \ {0}]

Vacant == [o \in Owners |-> NoHold]

(* The holds of the other owners that forbid o to hold in mode m.          *)
Rivals_Bug(H, o, m) == {p \in Owners \ {o} : H[p].mode = "write"}

Rivals(H, o, m) ==
  {p \in Owners \ {o} : H[p] # NoHold /\ ~ (m = "read" /\ H[p].mode = "read")}

Verdict_Bug(H, o, m) ==
  IF H[o] # NoHold
    THEN IF H[o].mode = m THEN "reenter" ELSE "ErrModeConflict"
    ELSE "grant"

(* The answer of TryAcquire: a reentry, a conflict of the owner with       *)
(* itself, ErrHeld, or a fresh acquisition.                                *)
Verdict(H, o, m) ==
  IF H[o] # NoHold
    THEN IF H[o].mode = m THEN "reenter" ELSE "ErrModeConflict"
    ELSE IF Rivals(H, o, m) = {} THEN "grant" ELSE "ErrHeld"

(* An acquisition event opens a generation: count 1 and a new fence.       *)
Granted(H, o, m, f, l) ==
  [H EXCEPT ![o] = [mode |-> m, count |-> 1, fence |-> f, left |-> l]]

(* A reentry counts up and restarts the lease; the fence stays.            *)
Reentered_Bug(H, o, l) == [H EXCEPT ![o].left = l]

Reentered(H, o, l) ==
  [H EXCEPT ![o] = [H[o] EXCEPT !.count = H[o].count + 1, !.left = l]]

(* The test every mutation makes before it touches the record (ADR-0003).  *)
Owns(H, o, m, f) == H[o] # NoHold /\ H[o].mode = m /\ H[o].fence = f

Extended(H, o, l) == [H EXCEPT ![o] = [H[o] EXCEPT !.left = l]]

(* One count less; the last one deletes the hold.                          *)
Released_Bug(H, o) == [H EXCEPT ![o].count = @ - 1]

Released(H, o) ==
  [H EXCEPT ![o] = IF H[o].count > 1 THEN [H[o] EXCEPT !.count = H[o].count - 1]
                                     ELSE NoHold]

DowngradeVerdict(H, o, f) ==
  IF ~ Owns(H, o, "write", f) THEN "ErrNotOwner"
  ELSE IF H[o].count > 1 THEN "ErrModeConflict" ELSE "ok"

Downgraded(H, o) ==
  [H EXCEPT ![o] = [H[o] EXCEPT !.mode = "read", !.count = 1]]

(* One tick later: a hold that has used up its lease is gone.              *)
Aged(H) ==
  [o \in Owners |-> IF H[o].left > 1 THEN [H[o] EXCEPT !.left = H[o].left - 1] ELSE NoHold]

=============================================================================
