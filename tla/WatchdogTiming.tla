--------------------------- MODULE WatchdogTiming ---------------------------
(***************************************************************************)
(* The race between a watchdog and the leases it renews: watchdog.go for   *)
(* a group of any size, from the first acquisition of acquireAll to the    *)
(* alarm or the Release.  HoldLifecycle and MultiLock let a watchdog wake  *)
(* at any time; here time is counted, and the question is what the numbers *)
(* of options.go (a renewal every third of the lease, 20 per cent of       *)
(* jitter, a timeout of one interval per call) buy.                        *)
(*                                                                         *)
(* Nothing waits longer than its bound: a Tick is only taken when no timer *)
(* has run out.  Only a message that is lost keeps a call waiting until    *)
(* its timeout.                                                            *)
(***************************************************************************)
EXTENDS Naturals

CONSTANTS
  Size,        \* members of the group
  Lease,       \* WithLease, in ticks
  Swing,       \* the 20 per cent of the interval, in ticks
  MaxTrip,     \* longest way of a call to the backend and back, in ticks
  MaxWait,     \* longest wait of acquireAll for the Keys after the first
  MaxFaults    \* bound on lost messages and lost data

Interval_Bug == Lease \div 2

(* watchdogInterval *)
Interval == Lease \div 3

Longest == Interval + Swing

ASSUME WatchdogTimingAssumption ==
  /\ Size \in Nat \ {0}
  /\ {Lease, Swing, MaxTrip, MaxWait, MaxFaults} \subseteq Nat
  /\ Swing < Lease \div 3
  /\ 2 * (Lease \div 3 + Swing) + Size * MaxTrip + MaxWait < Lease

VARIABLES
  stage,       \* "acquiring", "held", or "ending" while Release waits
  have,        \* members acquired
  left,        \* member -> what the backend has left of its lease
  at,          \* where the watchdog is
  turn,        \* the member it renews
  iv,          \* the interval of this round, also the timeout of its calls
  timer,       \* ticks to its next wakeup or to the timeout of its call; before,
               \* the ticks that acquireAll may still wait
  call,        \* the call of TryAcquire or Refresh: [state, due]
  lost,        \* the group is marked lost
  dropped,     \* the backend has lost the data of a member
  silent,      \* ticks since then without the group being marked lost
  waited,      \* ticks that Release has waited for the watchdog
  faults       \* faults left

vars == <<stage, have, left, at, turn, iv, timer, call, lost, dropped, silent, waited, faults>>

Members == 1 .. Size

NoCall == [state |-> "none", due |-> 0]

TypeOK ==
  /\ stage \in {"acquiring", "held", "ending"}
  /\ have \in 0 .. Size
  /\ left \in [Members -> 0 .. Lease]
  /\ at \in {"off", "sleeping", "calling", "exited"}
  /\ turn \in Members
  /\ iv \in 0 .. Longest
  /\ timer \in 0 .. IF stage = "acquiring" THEN MaxWait ELSE Longest
  /\ call \in [state : {"none", "sent", "ok", "ErrNotOwner", "lost"}, due : 0 .. MaxTrip]
  /\ lost \in BOOLEAN /\ dropped \in BOOLEAN
  /\ silent \in Nat /\ waited \in Nat
  /\ faults \in 0 .. MaxFaults

Init ==
  /\ stage = "acquiring"
  /\ have = 0
  /\ left = [m \in Members |-> 0]
  /\ at = "off"
  /\ turn = 1
  /\ iv = 0
  /\ timer = MaxWait
  /\ call = NoCall
  /\ lost = FALSE /\ dropped = FALSE
  /\ silent = 0 /\ waited = 0
  /\ faults = MaxFaults

Jittered_Bug == Interval - Swing .. Interval + 2 * Swing

(* jitter *)
Jittered == Interval - Swing .. Interval + Swing

(* Release goes through the group from its end, and waits for the watchdog *)
(* when it has marked the last member dead.                                *)
Dead(m) == stage = "ending" /\ m = Size

Sleep ==
  /\ at' = "sleeping"
  /\ turn' = 1
  /\ \E d \in Jittered : iv' = d /\ timer' = d
  /\ call' = NoCall

Exit ==
  /\ at' = "exited"
  /\ call' = NoCall
  /\ timer' = 0
  /\ UNCHANGED <<turn, iv>>

(* The head of the loop of refreshAll: a dead member ends the watchdog.    *)
Renew_Bug(m) ==
  /\ at' = "calling"
  /\ turn' = m
  /\ timer' = iv
  /\ call' = [state |-> "sent", due |-> MaxTrip]
  /\ UNCHANGED iv

Renew(m) ==
  \/ Dead(m) /\ Exit
  \/ /\ ~ Dead(m)
     /\ at' = "calling"
     /\ turn' = m
     /\ timer' = iv
     /\ call' = [state |-> "sent", due |-> MaxTrip]
     /\ UNCHANGED iv

-----------------------------------------------------------------------------
(* acquireAll and the application.                                         *)

(* The call of TryAcquire that succeeds; the wait before it is in Tick.    *)
AcquireMember ==
  /\ stage = "acquiring" /\ call.state = "none"
  /\ call' = [state |-> "sent", due |-> MaxTrip]
  /\ UNCHANGED <<stage, have, left, at, turn, iv, timer, lost, dropped, silent, waited, faults>>

Acquired ==
  /\ stage = "acquiring" /\ call.state = "ok"
  /\ have' = have + 1
  /\ \/ /\ have + 1 < Size
        /\ call' = NoCall
        /\ UNCHANGED <<stage, at, turn, iv, timer>>
     \/ /\ have + 1 = Size
        /\ stage' = "held"
        /\ Sleep
  /\ UNCHANGED <<left, lost, dropped, silent, waited, faults>>

Release ==
  /\ stage = "held"
  /\ stage' = "ending"
  /\ UNCHANGED <<have, left, at, turn, iv, timer, call, lost, dropped, silent, waited, faults>>

-----------------------------------------------------------------------------
(* watchdog.run and refreshAll.                                            *)

Wake ==
  /\ at = "sleeping" /\ timer = 0
  /\ Renew(1)
  /\ UNCHANGED <<stage, have, left, lost, dropped, silent, waited, faults>>

Stop ==
  /\ at = "sleeping" /\ stage = "ending"
  /\ Exit
  /\ UNCHANGED <<stage, have, left, lost, dropped, silent, waited, faults>>

Renewed_Bug ==
  /\ at = "calling" /\ call.state = "ok"
  /\ Sleep
  /\ UNCHANGED <<stage, have, left, lost, dropped, silent, waited, faults>>

Renewed ==
  /\ at = "calling" /\ call.state = "ok"
  /\ IF turn < Size THEN Renew(turn + 1) ELSE Sleep
  /\ UNCHANGED <<stage, have, left, lost, dropped, silent, waited, faults>>

(* Any error: the answer of the backend, or the end of the context.        *)
Failed_Bug ==
  /\ at = "calling"
  /\ call.state = "ErrNotOwner" \/ timer = 0
  /\ Sleep
  /\ UNCHANGED <<stage, have, left, lost, dropped, silent, waited, faults>>

Failed ==
  /\ at = "calling"
  /\ call.state = "ErrNotOwner" \/ timer = 0
  /\ lost' = (lost \/ ~ Dead(turn))
  /\ Exit
  /\ UNCHANGED <<stage, have, left, dropped, silent, waited, faults>>

-----------------------------------------------------------------------------
(* The backend and the network.                                            *)

Grant(m) ==
  /\ left' = [left EXCEPT ![m] = Lease]
  /\ call' = [call EXCEPT !.state = "ok"]

Serve ==
  /\ call.state = "sent"
  /\ \/ stage = "acquiring" /\ Grant(have + 1)
     \/ stage # "acquiring" /\ left[turn] > 0 /\ Grant(turn)
     \/ /\ stage # "acquiring" /\ left[turn] = 0
        /\ call' = [call EXCEPT !.state = "ErrNotOwner"]
        /\ UNCHANGED left
  /\ UNCHANGED <<stage, have, at, turn, iv, timer, lost, dropped, silent, waited, faults>>

Lose ==
  /\ faults > 0
  /\ at = "calling" /\ call.state \in {"sent", "ok", "ErrNotOwner"}
  /\ call' = [call EXCEPT !.state = "lost"]
  /\ faults' = faults - 1
  /\ UNCHANGED <<stage, have, left, at, turn, iv, timer, lost, dropped, silent, waited>>

Drop ==
  /\ faults > 0
  /\ stage = "held" /\ ~ lost
  /\ \E m \in Members : left' = [left EXCEPT ![m] = 0]
  /\ dropped' = TRUE
  /\ faults' = faults - 1
  /\ UNCHANGED <<stage, have, at, turn, iv, timer, call, lost, silent, waited>>

Less(n) == IF n > 0 THEN n - 1 ELSE 0

(* A tick passes unless something is due: a message, a timer, or an exit.  *)
Tick ==
  /\ at # "exited" /\ ~ (at = "sleeping" /\ stage = "ending")
  /\ call.state \in {"sent", "ok", "ErrNotOwner"} => call.due > 0
  /\ at # "off" \/ call.state = "none" => timer > 0
  /\ left' = [m \in Members |-> Less(left[m])]
  /\ timer' = IF at # "off" \/ call.state = "none" THEN timer - 1 ELSE timer
  /\ call' = [call EXCEPT !.due = Less(call.due)]
  /\ silent' = IF stage = "held" /\ dropped THEN silent + 1 ELSE silent
  /\ waited' = IF stage = "ending" THEN waited + 1 ELSE waited
  /\ UNCHANGED <<stage, have, at, turn, iv, lost, dropped, faults>>

Next ==
  \/ AcquireMember \/ Acquired \/ Release
  \/ Wake \/ Stop \/ Renewed \/ Failed
  \/ Serve \/ Lose \/ Drop
  \/ Tick

Spec == Init /\ [][Next]_vars

-----------------------------------------------------------------------------

(* watchdog.go:79-80: "rather have the business stop early than let a hold *)
(* expire unawares".  While the group counts as held, none of its leases   *)
(* has run out, even if the wait for the later Keys, the slowest answers   *)
(* and a lost message come together.                                       *)
NoSilentLapse ==
  stage = "held" /\ ~ lost /\ ~ dropped => \A m \in Members : left[m] > 0

(* The shortest timeout that jitter can draw outlasts the longest trip.    *)
TimeoutsOutlastTrips == MaxTrip < Interval - Swing

(* watchdog.go:61: the members are renewed one after another, yet a group  *)
(* that loses no message, and whose calls are answered within the shortest *)
(* timeout, is never marked lost, and each of its leases keeps what one    *)
(* interval, a round and the acquisition do not use up.                    *)
HealthyGroupsLast ==
  TimeoutsOutlastTrips /\ faults = MaxFaults =>
    /\ ~ lost
    /\ stage = "held" =>
         \A m \in Members : left[m] >= Lease - Longest - (Size + 1) * MaxTrip - MaxWait

(* watchdog.go:72-77: a member that has vanished from the backend stops    *)
(* the group within two intervals and the trips of a round.                *)
AlarmInTime == silent <= 2 * Longest + Size * MaxTrip

(* hold.go:151: Release has no deadline while it waits for the watchdog,   *)
(* but what it waits for ends: the calls before the last member, of which  *)
(* one may run into its timeout.                                           *)
ReleaseIsPrompt == waited <= Longest + (IF Size > 1 THEN (Size - 2) * MaxTrip ELSE 0)

=============================================================================
