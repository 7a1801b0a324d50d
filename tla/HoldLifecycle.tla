---------------------------- MODULE HoldLifecycle ----------------------------
(***************************************************************************)
(* The life of the handles on one Key: hold.go, watchdog.go, lock.go and   *)
(* the acquisition loop of locker.go, against a backend that keeps the     *)
(* promise of LeaseLock.                                                   *)
(*                                                                         *)
(* A handle is one call of [Try]Acquire[Read] and the Lock or ReadLock it  *)
(* returns.  Downgrade returns a second one, the heir, so an id is a       *)
(* handle together with "first" or "heir".  An id has one thread for each  *)
(* method that calls the driver, and one for its watchdog.  A driver call  *)
(* takes three steps: the thread sends it, the backend serves it, and the  *)
(* thread goes on with the answer.  In between anything may happen.        *)
(*                                                                         *)
(* The steps of a watchdog are not timed here: it may wake at any moment,  *)
(* even after its lease has run out.                                       *)
(***************************************************************************)
EXTENDS LeaseHolds, FiniteSets

CONSTANTS
  Handles,
  OwnerOf,     \* handle -> owner token; two handles may share one
  ModeOf,      \* handle -> mode asked for
  LeaseOf,     \* handle -> WithLease, in ticks
  Watched,     \* the handles acquired WithWatchdog
  Ops,         \* handle -> the methods the application calls
  Concurrent,  \* whether it calls them on one handle from several goroutines
  Faults,      \* the faults that happen, among "timeout", "drop", "crash"
  MaxFaults    \* bound on their number

ASSUME HoldLifecycleAssumption ==
  /\ OwnerOf \in [Handles -> Owners]
  /\ ModeOf \in [Handles -> Modes]
  /\ LeaseOf \in [Handles -> Nat \ {0}]
  /\ Watched \subseteq Handles
  /\ Ops \in [Handles -> SUBSET {"release", "refresh", "downgrade"}]
  /\ Concurrent \in BOOLEAN
  /\ Faults \subseteq {"timeout", "drop", "crash"}
  /\ MaxFaults \in Nat
  /\ IsFiniteSet(Handles)

VARIABLES
  holds,       \* the backend: owner -> live hold or NoHold
  issued,      \* the backend: highest fence issued
  handle,      \* id -> the fields of struct hold that change
  pc,          \* id -> thread -> where it is
  late,        \* calls given up by their thread that may still reach the backend
  faults,      \* faults left
  gone,        \* handles whose process has died
  released     \* history: handles whose Release the backend has carried out

vars == <<holds, issued, handle, pc, late, faults, gone, released>>
backend == <<holds, issued, released>>

Ids     == Handles \X {"first", "heir"}
Threads == {"acquire", "release", "refresh", "downgrade", "watchdog"}

First(h) == <<h, "first">>
Heir(i)  == <<i[1], "heir">>
Owner(i) == OwnerOf[i[1]]
Mode(i)  == IF i[2] = "heir" THEN "read" ELSE ModeOf[i[1]]
Lease(i) == LeaseOf[i[1]]
Alive(i) == i[1] \notin gone

(* lost is "open" while the channel is; then the reason it was closed: by  *)
(* closeLost ("ended"), or by markLost with the error it logs.             *)
NewHandle == [fence |-> 0, dead |-> FALSE, lost |-> "open"]

Answers == {"ok", "ErrHeld", "ErrModeConflict", "ErrNotOwner", "transport"}
Labels  == Answers \cup {"idle", "calling", "stopping", "done", "off", "sleeping", "exited"}

TypeOK ==
  /\ holds \in [Owners -> Hold \cup {NoHold}]
  /\ issued \in 0 .. Cardinality(Handles)
  /\ handle \in [Ids -> [fence : 0 .. issued, dead : BOOLEAN,
                         lost : {"open", "ended", "ErrNotOwner", "transport"}]]
  /\ pc \in [Ids -> [Threads -> Labels]]
  /\ late \subseteq Ids \X Threads
  /\ faults \in 0 .. MaxFaults
  /\ gone \subseteq Handles
  /\ released \subseteq Handles

Init ==
  /\ holds = Vacant
  /\ issued = 0
  /\ handle = [i \in Ids |-> NewHandle]
  /\ pc = [i \in Ids |-> [t \in Threads |-> IF t = "watchdog" THEN "off" ELSE "idle"]]
  /\ late = {}
  /\ faults = MaxFaults
  /\ gone = {}
  /\ released = {}

Goto(i, t, label) == pc' = [pc EXCEPT ![i][t] = label]

(* hold.closeLost and hold.markLost: lostOnce lets the first one through.  *)
Close(i, why) == handle' = [handle EXCEPT ![i].lost = IF @ = "open" THEN why ELSE @]

Opened(i) == pc[i]["acquire"] = "done"

(* hold.ended *)
Ended(i) == handle[i].dead \/ handle[i].lost # "open"

(* wg.Wait() returns: there is no watchdog, or its goroutine has exited.   *)
WatchdogGone(i) == pc[i]["watchdog"] \in {"off", "exited"}

(* A thread is inside its call.  The answer to a release is its last step. *)
Busy(i, t) ==
  pc[i][t] \notin {"idle", "done"} \cup (IF t = "release" THEN Answers ELSE {})

MayCall(i) ==
  /\ Alive(i) /\ Opened(i)
  /\ Concurrent \/ \A t \in {"release", "refresh", "downgrade"} : ~ Busy(i, t)

-----------------------------------------------------------------------------
(* The backend carries out a call of thread t of id i and answers a.       *)

DoAcquire(i, a) ==
  LET o == Owner(i)
      v == Verdict(holds, o, Mode(i))
      generation(f) == handle' = [handle EXCEPT ![i].fence = f]
  IN
  /\ \/ /\ v = "grant" /\ a = "ok"
        /\ issued' = issued + 1
        /\ holds' = Granted(holds, o, Mode(i), issued + 1, Lease(i))
        /\ generation(issued + 1)
     \/ /\ v = "reenter" /\ a = "ok"
        /\ holds' = Reentered(holds, o, Lease(i))
        /\ generation(holds[o].fence)
        /\ UNCHANGED issued
     \/ /\ v \in {"ErrHeld", "ErrModeConflict"} /\ a = v
        /\ UNCHANGED <<holds, issued, handle>>
  /\ UNCHANGED released

Mine(i) == Owns(holds, Owner(i), Mode(i), handle[i].fence)

DoRefresh_Bug(i, a) ==
  LET early == Mine(i) /\ holds[Owner(i)].left > 1
  IN  /\ \/ early /\ a = "ok" /\ holds' = Extended(holds, Owner(i), Lease(i))
         \/ ~ early /\ a = "ErrNotOwner" /\ UNCHANGED holds
      /\ UNCHANGED <<issued, released, handle>>

DoRefresh(i, a) ==
  /\ \/ Mine(i) /\ a = "ok" /\ holds' = Extended(holds, Owner(i), Lease(i))
     \/ ~ Mine(i) /\ a = "ErrNotOwner" /\ UNCHANGED holds
  /\ UNCHANGED <<issued, released, handle>>

DoRelease(i, a) ==
  /\ \/ /\ Mine(i) /\ a = "ok"
        /\ holds' = Released(holds, Owner(i))
        /\ released' = released \cup {i[1]}
     \/ ~ Mine(i) /\ a = "ErrNotOwner" /\ UNCHANGED <<holds, released>>
  /\ UNCHANGED <<issued, handle>>

DoDowngrade(i, a) ==
  /\ a = DowngradeVerdict(holds, Owner(i), handle[i].fence)
  /\ holds' = IF a = "ok" THEN Downgraded(holds, Owner(i)) ELSE holds
  /\ UNCHANGED <<issued, released, handle>>

Do(i, t, a) ==
  \/ t = "acquire" /\ DoAcquire(i, a)
  \/ t \in {"refresh", "watchdog"} /\ DoRefresh(i, a)
  \/ t = "release" /\ DoRelease(i, a)
  \/ t = "downgrade" /\ DoDowngrade(i, a)

Serve(i, t) ==
  /\ pc[i][t] = "calling"
  /\ \E a \in Answers : Do(i, t, a) /\ Goto(i, t, a)
  /\ UNCHANGED <<late, faults, gone>>

(* The context of the call ends or the connection fails.  The thread gets  *)
(* the error; the call may have been lost, or reach the backend later, or  *)
(* have been carried out with its answer lost (which is ServeLate at once).*)
Timeout(i, t) ==
  /\ "timeout" \in Faults /\ faults > 0
  /\ pc[i][t] = "calling"
  /\ Goto(i, t, "transport")
  /\ late' = late \cup {<<i, t>>}
  /\ faults' = faults - 1
  /\ UNCHANGED <<holds, issued, handle, gone, released>>

ServeLate(i, t) ==
  /\ <<i, t>> \in late
  /\ \E a \in Answers : Do(i, t, a)
  /\ late' = late \ {<<i, t>>}
  /\ UNCHANGED <<pc, faults, gone>>

Tick ==
  /\ holds # Vacant
  /\ holds' = Aged(holds)
  /\ UNCHANGED <<issued, handle, pc, late, faults, gone, released>>

(* The backend loses the data of the Key.                                  *)
Drop ==
  /\ "drop" \in Faults /\ faults > 0
  /\ holds # Vacant
  /\ holds' = Vacant
  /\ faults' = faults - 1
  /\ UNCHANGED <<issued, handle, pc, late, gone, released>>

(* The process of a handle dies; what it has sent may still be served.     *)
Crash(h) ==
  /\ "crash" \in Faults /\ faults > 0
  /\ h \notin gone
  /\ gone' = gone \cup {h}
  /\ faults' = faults - 1
  /\ UNCHANGED <<holds, issued, handle, pc, late, released>>

-----------------------------------------------------------------------------
(* BasicLocker.tryAcquire and acquireOne.                                  *)

AcquireCall(h) ==
  /\ Alive(First(h))
  /\ pc[First(h)]["acquire"] = "idle"
  /\ Goto(First(h), "acquire", "calling")
  /\ UNCHANGED <<backend, handle, late, faults, gone>>

(* The blocking form polls while the answer is ErrHeld.  It may also stop  *)
(* there: TryAcquire does at once, Acquire when its context ends.  Every   *)
(* other error is final.                                                   *)
AcquireRetry(h) ==
  /\ Alive(First(h))
  /\ pc[First(h)]["acquire"] = "ErrHeld"
  /\ Goto(First(h), "acquire", "calling")
  /\ UNCHANGED <<backend, handle, late, faults, gone>>

Started(i) == IF i[1] \in Watched THEN "sleeping" ELSE "off"

AcquireReturn(h) ==
  LET i == First(h) IN
  /\ Alive(i)
  /\ pc[i]["acquire"] = "ok"
  /\ pc' = [pc EXCEPT ![i]["acquire"] = "done", ![i]["watchdog"] = Started(i)]
  /\ UNCHANGED <<backend, handle, late, faults, gone>>

-----------------------------------------------------------------------------
(* hold.release.  The call that wins dead waits for the watchdog, closes   *)
(* Lost and sends.  After that markLost finds the channel closed, so the   *)
(* answer is what Release returns.                                         *)

ReleaseCall(i) ==
  /\ "release" \in Ops[i[1]] /\ MayCall(i)
  /\ pc[i]["release"] = "idle"
  /\ ~ handle[i].dead
  /\ handle' = [handle EXCEPT ![i].dead = TRUE]
  /\ Goto(i, "release", "stopping")
  /\ UNCHANGED <<backend, late, faults, gone>>

ReleaseSend_Bug(i) ==
  /\ Alive(i)
  /\ pc[i]["release"] = "stopping"
  /\ Close(i, "ended")
  /\ Goto(i, "release", "calling")
  /\ UNCHANGED <<backend, late, faults, gone>>

ReleaseSend(i) ==
  /\ Alive(i)
  /\ pc[i]["release"] = "stopping"
  /\ WatchdogGone(i)
  /\ Close(i, "ended")
  /\ Goto(i, "release", "calling")
  /\ UNCHANGED <<backend, late, faults, gone>>

(* hold.refresh *)
RefreshCall(i) ==
  /\ "refresh" \in Ops[i[1]] /\ MayCall(i)
  /\ pc[i]["refresh"] = "idle"
  /\ ~ Ended(i)
  /\ Goto(i, "refresh", "calling")
  /\ UNCHANGED <<backend, handle, late, faults, gone>>

RefreshReturn(i) ==
  /\ Alive(i)
  /\ \/ pc[i]["refresh"] = "ok" /\ UNCHANGED handle
     \/ pc[i]["refresh"] \in {"ErrNotOwner", "transport"} /\ Close(i, pc[i]["refresh"])
  /\ Goto(i, "refresh", "idle")
  /\ UNCHANGED <<backend, late, faults, gone>>

(* Lock.Downgrade.  Its call may be tried again after ErrModeConflict or a *)
(* transport error; a ReadLock has no Downgrade.                           *)
DowngradeCall(i) ==
  /\ "downgrade" \in Ops[i[1]] /\ MayCall(i)
  /\ Mode(i) = "write"
  /\ pc[i]["downgrade"] = "idle"
  /\ ~ Ended(i)
  /\ Goto(i, "downgrade", "calling")
  /\ UNCHANGED <<backend, handle, late, faults, gone>>

DowngradeFail(i) ==
  /\ Alive(i)
  /\ \/ pc[i]["downgrade"] = "ErrNotOwner" /\ Close(i, "ErrNotOwner")
     \/ pc[i]["downgrade"] \in {"ErrModeConflict", "transport"} /\ UNCHANGED handle
  /\ Goto(i, "downgrade", "idle")
  /\ UNCHANGED <<backend, late, faults, gone>>

(* The compare-and-swap of dead; a Release may have won it meanwhile.      *)
DowngradeTake(i) ==
  /\ Alive(i)
  /\ pc[i]["downgrade"] = "ok"
  /\ \/ ~ handle[i].dead /\ Goto(i, "downgrade", "stopping")
     \/ handle[i].dead /\ Goto(i, "downgrade", "done")
  /\ handle' = [handle EXCEPT ![i].dead = TRUE]
  /\ UNCHANGED <<backend, late, faults, gone>>

DowngradeHandOver_Bug(i) ==
  /\ Alive(i)
  /\ pc[i]["downgrade"] = "stopping"
  /\ WatchdogGone(i)
  /\ Close(i, "ended")
  /\ Goto(i, "downgrade", "done")
  /\ UNCHANGED <<backend, late, faults, gone>>

DowngradeHandOver(i) ==
  /\ Alive(i)
  /\ pc[i]["downgrade"] = "stopping"
  /\ WatchdogGone(i)
  /\ handle' = [handle EXCEPT ![i].lost = IF @ = "open" THEN "ended" ELSE @,
                             ![Heir(i)] = [NewHandle EXCEPT !.fence = handle[i].fence]]
  /\ pc' = [pc EXCEPT ![i]["downgrade"] = "done",
                     ![Heir(i)]["acquire"] = "done",
                     ![Heir(i)]["watchdog"] = Started(i)]
  /\ UNCHANGED <<backend, late, faults, gone>>

-----------------------------------------------------------------------------
(* watchdog.run and refreshAll for a group of one.  The stop channel is    *)
(* closed right after dead is set, and both make the goroutine exit.       *)

WatchdogWake_Bug(i) ==
  /\ Alive(i)
  /\ pc[i]["watchdog"] = "sleeping"
  /\ Goto(i, "watchdog", "calling")
  /\ UNCHANGED <<backend, handle, late, faults, gone>>

WatchdogWake(i) ==
  /\ Alive(i)
  /\ pc[i]["watchdog"] = "sleeping"
  /\ Goto(i, "watchdog", IF handle[i].dead THEN "exited" ELSE "calling")
  /\ UNCHANGED <<backend, handle, late, faults, gone>>

WatchdogReturn_Bug(i) ==
  /\ Alive(i)
  /\ \/ /\ pc[i]["watchdog"] \in {"ok", "ErrNotOwner"}
        /\ Goto(i, "watchdog", "sleeping")
        /\ UNCHANGED handle
     \/ /\ pc[i]["watchdog"] = "transport"
        /\ Goto(i, "watchdog", "exited")
        /\ IF handle[i].dead THEN UNCHANGED handle ELSE Close(i, pc[i]["watchdog"])
  /\ UNCHANGED <<backend, late, faults, gone>>

WatchdogReturn(i) ==
  /\ Alive(i)
  /\ \/ /\ pc[i]["watchdog"] = "ok"
        /\ Goto(i, "watchdog", "sleeping")
        /\ UNCHANGED handle
     \/ /\ pc[i]["watchdog"] \in {"ErrNotOwner", "transport"}
        /\ Goto(i, "watchdog", "exited")
        /\ IF handle[i].dead THEN UNCHANGED handle ELSE Close(i, pc[i]["watchdog"])
  /\ UNCHANGED <<backend, late, faults, gone>>

-----------------------------------------------------------------------------

Next ==
  \/ \E i \in Ids, t \in Threads : Serve(i, t) \/ Timeout(i, t) \/ ServeLate(i, t)
  \/ Tick
  \/ Drop
  \/ \E h \in Handles : Crash(h) \/ AcquireCall(h) \/ AcquireRetry(h) \/ AcquireReturn(h)
  \/ \E i \in Ids :
       \/ ReleaseCall(i) \/ ReleaseSend(i)
       \/ RefreshCall(i) \/ RefreshReturn(i)
       \/ DowngradeCall(i) \/ DowngradeFail(i) \/ DowngradeTake(i) \/ DowngradeHandOver(i)
       \/ WatchdogWake(i) \/ WatchdogReturn(i)

Spec == Init /\ [][Next]_vars

(* What the runtime and the driver owe: every call is answered, by the     *)
(* backend or by its context; a goroutine that can go on does; a timer     *)
(* fires; time passes.  The application owes nothing.                      *)
Fairness ==
  /\ WF_vars(Tick)
  /\ \A i \in Ids :
       /\ \A t \in Threads : WF_vars(Serve(i, t))
       /\ WF_vars(ReleaseSend(i))
       /\ WF_vars(RefreshReturn(i))
       /\ WF_vars(DowngradeFail(i))
       /\ WF_vars(DowngradeTake(i))
       /\ WF_vars(DowngradeHandOver(i))
       /\ WF_vars(WatchdogWake(i))
       /\ WF_vars(WatchdogReturn(i))
  /\ \A h \in Handles : WF_vars(AcquireReturn(h))

FairSpec == Spec /\ Fairness

-----------------------------------------------------------------------------

Conflicting(i, j) == Owner(i) # Owner(j) /\ ~ (Mode(i) = "read" /\ Mode(j) = "read")

(* The application may take the handle for a lock it holds.                *)
Usable(i) == Alive(i) /\ Opened(i) /\ ~ Ended(i)

(* doc.go: "a store can reject the late writes of an old holder by their   *)
(* fence".  Leases lapse behind a process's back, so two of them may think *)
(* they hold conflicting locks, but the backend backs at most one, and the *)
(* other has the smaller fence.                                            *)
FencingOrdersConflict ==
  \A i, j \in Ids :
    Usable(i) /\ Usable(j) /\ Conflicting(i, j) /\ Mine(j) =>
      ~ Mine(i) /\ handle[i].fence < handle[j].fence

(* hold.go, release: the watchdog is stopped and its call over before      *)
(* Release reaches the backend, and the watchdog of the heir never runs    *)
(* beside the one of the write lock: one hold has one renewal at a time.   *)
OneRenewalPerHold ==
  \A i \in Ids :
    /\ pc[i]["release"] = "calling" => WatchdogGone(i)
    /\ i[2] = "first" /\ ~ WatchdogGone(Heir(i)) => WatchdogGone(i)

(* ADR-0003 and CONTEXT.md, "Reentrancy": the count of a live hold is the  *)
(* number of acquisitions of its generation that have not been released.   *)
(* No late, repeated or foreign call changes it.                           *)
CountIsUnreleased ==
  \A o \in Owners : holds[o] # NoHold =>
    holds[o].count =
      Cardinality({h \in Handles \ released :
                     OwnerOf[h] = o /\ handle[First(h)].fence = holds[o].fence})

(* Somebody can still release i: the application has it or is about to get *)
(* it, or its release is on its way.                                       *)
Releasable(i) ==
  /\ Alive(i)
  /\ \/ /\ pc[i]["acquire"] \in {"ok", "done"}
        /\ pc[i]["release"] \in {"stopping", "calling"} \/ ~ handle[i].dead
     \/ i[2] = "heir" /\ pc[First(i[1])]["downgrade"] \in {"ok", "stopping"}

(* A Release and a Downgrade of one handle run at the same time.           *)
Overtaken(i) ==
  pc[i]["release"] # "idle" /\ pc[i]["downgrade"] # "idle" /\ ~ Opened(Heir(i))

(* No leak: before the first fault, a hold that is alive in the backend is *)
(* one that some handle of its generation and mode can release.  The only  *)
(* exception is a Release that overtakes a Downgrade of its own handle.    *)
EveryHoldIsReleasable ==
  faults = MaxFaults =>
    \A o \in Owners : holds[o] # NoHold =>
      \E i \in Ids :
        /\ Owner(i) = o
        /\ handle[First(i[1])].fence = holds[o].fence
        /\ (Mode(i) = holds[o].mode /\ Releasable(i)) \/ Overtaken(i)

(* watchdog.go, markLost: the lost alarm with reason ErrNotOwner goes off  *)
(* only when the generation of the handle no longer lives in the backend,  *)
(* or lives on in the other mode after a downgrade, and it is never taken  *)
(* back by a late call that brings the hold to life again.                 *)
AlarmMeansLoss ==
  \A i \in Ids : handle[i].lost = "ErrNotOwner" => ~ Mine(i)

-----------------------------------------------------------------------------

(* CONTEXT.md, "Watchdog": a hold acquired WithWatchdog that the backend   *)
(* no longer backs is reported on Lost, or ended by the application.       *)
(* Whichever of the watchdog, Refresh and Downgrade meets the refusal of   *)
(* the backend first (hold.go:136, lock.go:33), the renewal ends as well.  *)
LossIsNoticed ==
  \A i \in Watched \X {"first", "heir"} :
    Opened(i) /\ ~ Mine(i) ~> ~ Alive(i) \/ (Ended(i) /\ WatchdogGone(i))

(* hold.go, lock.go: Release and Downgrade wait for the watchdog, and the  *)
(* watchdog for a driver call; every call of the application returns.      *)
CallsReturn ==
  \A i \in Ids : \A t \in Ops[i[1]] :
    Busy(i, t) ~> ~ Alive(i) \/ ~ Busy(i, t)

(* A handle that has not been given back and may still renew its lease.    *)
Keeps(i) ==
  Alive(i) /\ Opened(i) /\ ~ handle[i].dead /\ (handle[i].lost = "open" \/ ~ WatchdogGone(i))

(* CONTEXT.md, "Watchdog": "after the death of the process the lease runs  *)
(* out and the lock is given up".  Another handle of the same generation   *)
(* may keep it until it is itself given back: the count that the dead one  *)
(* has left then goes with the lease, as ADR-0003 wants it.                *)
CrashFreesTheKey ==
  \A h \in Handles :
    h \in gone ~>
      \/ holds[OwnerOf[h]] = NoHold
      \/ holds[OwnerOf[h]].fence # handle[First(h)].fence
      \/ \E i \in Ids : Keeps(i) /\ handle[i].fence = handle[First(h)].fence

-----------------------------------------------------------------------------
(* What the repository says and the code does not do.                      *)

(* lock.go:38-39: a refresh that fails while a downgrade is under way is   *)
(* taken for the end of the hold and raises no false lost alarm.           *)
NoAlarmFromDowngrade ==
  \A i \in Ids :
    i[1] \in Watched /\ handle[i].lost = "ErrNotOwner" =>
      holds[Owner(i)].fence # handle[i].fence

=============================================================================
