------------------------------ MODULE MultiLock ------------------------------
(***************************************************************************)
(* Locks on several Keys: acquireAll and sortedUnique of locker.go,        *)
(* multilock.go, and the watchdog of a group (watchdog.go), against one    *)
(* LeaseLock per Key.                                                      *)
(*                                                                         *)
(* A group is one call of [Try]AcquireAll and the MultiLock it returns.    *)
(* Its members are the holds on its sorted Keys, all in write mode.  A     *)
(* driver call and the step its caller takes on the answer are one action, *)
(* except that the watchdog can be caught inside its call.                 *)
(***************************************************************************)
EXTENDS LeaseHolds, FiniteSets, SequencesExt

CONSTANTS
  Groups,
  Keys,        \* numbers, in the lexicographic order of the strings
  KeysOf,      \* group -> the sequence of Keys passed to AcquireAll
  OwnerOf,     \* group -> owner token
  LeaseOf,     \* group -> WithLease, in ticks
  Watched,     \* the groups acquired WithWatchdog
  Lapses,      \* whether leases run down
  Faults,      \* the faults that happen, among "timeout", "drop"
  MaxFaults    \* bound on their number

ASSUME MultiLockAssumption ==
  /\ IsFiniteSet(Groups)
  /\ Keys \subseteq Nat
  /\ KeysOf \in [Groups -> Seq(Keys) \ {<<>>}]
  /\ OwnerOf \in [Groups -> Owners]
  /\ LeaseOf \in [Groups -> Nat \ {0}]
  /\ Watched \subseteq Groups
  /\ Lapses \in BOOLEAN
  /\ Faults \subseteq {"timeout", "drop"}
  /\ MaxFaults \in Nat

VARIABLES
  recs,        \* the backend: Key -> owner -> live hold or NoHold
  issued,      \* the backend: highest fence issued
  stage,       \* group -> what its application is doing
  at,          \* group -> the members acquired and not yet given back
  member,      \* group -> the fields of its holds that change
  watchdog,    \* group -> [label, at]: its goroutine and the member it renews
  renewing,    \* group -> the member its Refresh renews next; 0 if none
  lost,        \* group -> MultiLock.lost is closed
  faults,      \* faults left
  leaked       \* history: the counts <<group, Key, fence>> that a lost call has left behind

vars == <<recs, issued, stage, at, member, watchdog, renewing, lost, faults, leaked>>

(* sortedUnique.  The loop appends a Key where it occurs first; sort.Strings *)
(* then puts the one with n Keys up to it in place n.  The deviation does  *)
(* without the sort.                                                       *)
Unseen(keys) == {n \in DOMAIN keys : \A m \in 1 .. n - 1 : keys[m] # keys[n]}

sortedUnique_Bug(keys) ==
  LET P == Unseen(keys)
  IN  [n \in 1 .. Cardinality(P) |-> keys[CHOOSE m \in P : Cardinality({j \in P : j <= m}) = n]]

sortedUnique(keys) ==
  LET P == Unseen(keys)
  IN  [n \in 1 .. Cardinality(P) |->
         keys[CHOOSE m \in P : Cardinality({j \in P : keys[j] <= keys[m]}) = n]]

Sorted    == [g \in Groups |-> sortedUnique(KeysOf[g])]
Size(g)   == Len(Sorted[g])
Key(g, n) == Sorted[g][n]

Largest == CHOOSE n \in {Size(g) : g \in Groups} : \A g \in Groups : Size(g) <= n
Members == 1 .. Largest

Stages == {"idle", "acquiring", "rollback", "failed", "held", "releasing", "released"}
Dozing == [label |-> "sleeping", at |-> 1]
Exited == [label |-> "exited", at |-> 1]

TypeOK ==
  /\ recs \in [Keys -> [Owners -> Hold \cup {NoHold}]]
  /\ issued \in Nat
  /\ stage \in [Groups -> Stages]
  /\ at \in [Groups -> 0 .. Largest]
  /\ member \in [Groups -> [Members -> [fence : 0 .. issued, dead : BOOLEAN,
                                        lost : {"open", "ended", "lost"}]]]
  /\ watchdog \in [Groups -> [label : {"off", "sleeping", "calling", "exited"}, at : Members]]
  /\ renewing \in [Groups -> 0 .. Largest]
  /\ lost \in [Groups -> BOOLEAN]
  /\ faults \in 0 .. MaxFaults
  /\ leaked \subseteq Groups \X Keys \X (0 .. issued)

Init ==
  /\ recs = [k \in Keys |-> Vacant]
  /\ issued = 0
  /\ stage = [g \in Groups |-> "idle"]
  /\ at = [g \in Groups |-> 0]
  /\ member = [g \in Groups |-> [n \in Members |-> [fence |-> 0, dead |-> FALSE, lost |-> "open"]]]
  /\ watchdog = [g \in Groups |-> [label |-> "off", at |-> 1]]
  /\ renewing = [g \in Groups |-> 0]
  /\ lost = [g \in Groups |-> FALSE]
  /\ faults = MaxFaults
  /\ leaked = {}

Mine(g, n) == Owns(recs[Key(g, n)], OwnerOf[g], "write", member[g][n].fence)

Stage(g, s) == stage' = [stage EXCEPT ![g] = s]

(* hold.closeLost and hold.markLost.                                       *)
Closed(m, why) == [m EXCEPT !.lost = IF @ = "open" THEN why ELSE @]

(* The loop that marks every member of the group.                          *)
MarkAll(g) ==
  member' = [member EXCEPT ![g] = [n \in Members |-> IF n <= Size(g) THEN Closed(@[n], "lost") ELSE @[n]]]

WatchdogGone(g) == watchdog[g].label \in {"off", "exited"}

-----------------------------------------------------------------------------
(* BasicLocker.acquireAll.                                                 *)

AcquireAll(g) ==
  /\ stage[g] = "idle"
  /\ Stage(g, "acquiring")
  /\ UNCHANGED <<recs, issued, at, member, watchdog, renewing, lost, faults, leaked>>

(* acquireOne on the next Key succeeds.  With the last one the watchdog of *)
(* the group starts and the MultiLock is returned.                         *)
AcquireMember(g) ==
  LET n == at[g] + 1
      k == Key(g, n)
      o == OwnerOf[g]
      v == Verdict(recs[k], o, "write")
      got(f) == member' = [member EXCEPT ![g][n].fence = f]
  IN
  /\ stage[g] = "acquiring"
  /\ \/ /\ v = "grant"
        /\ issued' = issued + 1
        /\ recs' = [recs EXCEPT ![k] = Granted(@, o, "write", issued + 1, LeaseOf[g])]
        /\ got(issued + 1)
     \/ /\ v = "reenter"
        /\ recs' = [recs EXCEPT ![k] = Reentered(@, o, LeaseOf[g])]
        /\ got(recs[k][o].fence)
        /\ UNCHANGED issued
  /\ at' = [at EXCEPT ![g] = n]
  /\ IF n < Size(g)
       THEN UNCHANGED <<stage, watchdog>>
       ELSE /\ Stage(g, "held")
            /\ watchdog' = IF g \in Watched THEN [watchdog EXCEPT ![g] = Dozing] ELSE watchdog
  /\ UNCHANGED <<renewing, lost, faults, leaked>>

(* acquireOne fails: the Key is held (at once for TryAcquireAll, when the  *)
(* context ends for AcquireAll).                                           *)
AcquireGiveUp(g) ==
  /\ stage[g] = "acquiring"
  /\ Verdict(recs[Key(g, at[g] + 1)], OwnerOf[g], "write") = "ErrHeld"
  /\ Stage(g, "rollback")
  /\ UNCHANGED <<recs, issued, at, member, watchdog, renewing, lost, faults, leaked>>

(* acquireOne fails in transport: the call is lost, or it was carried out  *)
(* and its answer is lost.                                                 *)
AcquireTimeout(g) ==
  LET k == Key(g, at[g] + 1)
      o == OwnerOf[g]
      leak(f) == leaked' = leaked \cup {<<g, k, f>>}
  IN
  /\ "timeout" \in Faults /\ faults > 0
  /\ stage[g] = "acquiring"
  /\ \/ UNCHANGED <<recs, issued, leaked>>
     \/ /\ Verdict(recs[k], o, "write") = "grant"
        /\ issued' = issued + 1
        /\ recs' = [recs EXCEPT ![k] = Granted(@, o, "write", issued + 1, LeaseOf[g])]
        /\ leak(issued + 1)
     \/ /\ Verdict(recs[k], o, "write") = "reenter"
        /\ recs' = [recs EXCEPT ![k] = Reentered(@, o, LeaseOf[g])]
        /\ leak(recs[k][o].fence)
        /\ UNCHANGED issued
  /\ Stage(g, "rollback")
  /\ faults' = faults - 1
  /\ UNCHANGED <<at, member, watchdog, renewing, lost>>

(* What drv.Release does for member n, or nothing if the call is lost.     *)
GiveBack(g, n) ==
  \/ /\ recs' = IF Mine(g, n) THEN [recs EXCEPT ![Key(g, n)] = Released(@, OwnerOf[g])] ELSE recs
     /\ UNCHANGED <<faults, leaked>>
  \/ /\ "timeout" \in Faults /\ faults > 0
     /\ faults' = faults - 1
     /\ leaked' = leaked \cup {<<g, Key(g, n), member[g][n].fence>>}
     /\ UNCHANGED recs

(* releaseQuiet on the members acquired, last one first.                   *)
Rollback(g) ==
  LET n == at[g] IN
  /\ stage[g] = "rollback"
  /\ \/ /\ n = 0
        /\ Stage(g, "failed")
        /\ UNCHANGED <<recs, at, member, faults, leaked>>
     \/ /\ n > 0
        /\ member' = [member EXCEPT ![g][n] = [Closed(@, "ended") EXCEPT !.dead = TRUE]]
        /\ GiveBack(g, n)
        /\ at' = [at EXCEPT ![g] = n - 1]
        /\ UNCHANGED stage
  /\ UNCHANGED <<issued, watchdog, renewing, lost>>

-----------------------------------------------------------------------------
(* MultiLock.Release: hold.release on every member, last one first.  Each  *)
(* sets dead, waits for the watchdog of the group, closes Lost, and goes   *)
(* to the backend; an error does not stop the loop.                        *)

Release(g) ==
  /\ stage[g] = "held"
  /\ Stage(g, "releasing")
  /\ member' = [member EXCEPT ![g][at[g]].dead = TRUE]
  /\ UNCHANGED <<recs, issued, at, watchdog, renewing, lost, faults, leaked>>

ReleaseMember_Bug(g) ==
  LET n == at[g]
      closed == Closed(member[g][n], "ended")
  IN
  /\ stage[g] = "releasing"
  /\ WatchdogGone(g)
  /\ GiveBack(g, n)
  /\ at' = [at EXCEPT ![g] = n - 1]
  /\ IF n = 1 \/ ~ Mine(g, n) \/ faults' < faults
       THEN /\ member' = [member EXCEPT ![g][n] = closed]
            /\ Stage(g, "released")
            /\ lost' = [lost EXCEPT ![g] = TRUE]
       ELSE /\ member' = [member EXCEPT ![g][n] = closed, ![g][n - 1].dead = TRUE]
            /\ UNCHANGED <<stage, lost>>
  /\ UNCHANGED <<issued, watchdog, renewing>>

ReleaseMember(g) ==
  LET n == at[g]
      closed == Closed(member[g][n], "ended")
  IN
  /\ stage[g] = "releasing"
  /\ WatchdogGone(g)
  /\ GiveBack(g, n)
  /\ at' = [at EXCEPT ![g] = n - 1]
  /\ IF n = 1
       THEN /\ member' = [member EXCEPT ![g][n] = closed]
            /\ Stage(g, "released")
            /\ lost' = [lost EXCEPT ![g] = TRUE]
       ELSE /\ member' = [member EXCEPT ![g][n] = closed, ![g][n - 1].dead = TRUE]
            /\ UNCHANGED <<stage, lost>>
  /\ UNCHANGED <<issued, watchdog, renewing>>

(* MultiLock.Refresh: hold.refresh on every member; the first error marks  *)
(* the whole group lost, even if the member had merely ended.              *)
Refresh(g) ==
  /\ stage[g] \in {"held", "releasing"}
  /\ renewing[g] = 0
  /\ renewing' = [renewing EXCEPT ![g] = 1]
  /\ UNCHANGED <<recs, issued, stage, at, member, watchdog, lost, faults, leaked>>

Renewed(g, n) == recs' = [recs EXCEPT ![Key(g, n)] = Extended(@, OwnerOf[g], LeaseOf[g])]

RefreshMember(g) ==
  LET n     == renewing[g]
      ended == member[g][n].dead \/ member[g][n].lost # "open"
      fail  == MarkAll(g) /\ renewing' = [renewing EXCEPT ![g] = 0]
  IN
  /\ n > 0
  /\ \/ /\ ~ ended /\ Mine(g, n)
        /\ Renewed(g, n)
        /\ renewing' = [renewing EXCEPT ![g] = IF n < Size(g) THEN n + 1 ELSE 0]
        /\ UNCHANGED <<member, faults>>
     \/ /\ ended \/ ~ Mine(g, n)
        /\ fail
        /\ UNCHANGED <<recs, faults>>
     \/ /\ ~ ended
        /\ "timeout" \in Faults /\ faults > 0
        /\ UNCHANGED recs \/ (Mine(g, n) /\ Renewed(g, n))
        /\ fail
        /\ faults' = faults - 1
  /\ UNCHANGED <<issued, stage, at, watchdog, lost, leaked>>

-----------------------------------------------------------------------------
(* watchdog.run and refreshAll.                                            *)

Turn_Bug(g, n) == [label |-> "calling", at |-> n]

(* The step of refreshAll to member n: it ends the goroutine if n is dead. *)
Turn(g, n) == IF member[g][n].dead THEN Exited ELSE [label |-> "calling", at |-> n]

(* The stop channel is closed as soon as one member is dead; a timer that  *)
(* has fired as well may win the select.                                   *)
WatchdogWake(g) ==
  /\ watchdog[g].label = "sleeping"
  /\ \/ watchdog' = [watchdog EXCEPT ![g] = Turn(g, 1)]
     \/ /\ \E n \in 1 .. Size(g) : member[g][n].dead
        /\ watchdog' = [watchdog EXCEPT ![g] = Exited]
  /\ UNCHANGED <<recs, issued, stage, at, member, renewing, lost, faults, leaked>>

WatchdogAnswer_Bug(g) ==
  LET n    == watchdog[g].at
      fail == /\ watchdog' = [watchdog EXCEPT ![g] = Exited]
              /\ IF member[g][n].dead THEN UNCHANGED member
                 ELSE member' = [member EXCEPT ![g][n] = Closed(@, "lost")]
  IN
  /\ watchdog[g].label = "calling"
  /\ \/ /\ Mine(g, n)
        /\ Renewed(g, n)
        /\ watchdog' = [watchdog EXCEPT ![g] = IF n < Size(g) THEN Turn(g, n + 1) ELSE Dozing]
        /\ UNCHANGED <<member, faults>>
     \/ /\ ~ Mine(g, n)
        /\ fail
        /\ UNCHANGED <<recs, faults>>
     \/ /\ "timeout" \in Faults /\ faults > 0
        /\ UNCHANGED recs \/ (Mine(g, n) /\ Renewed(g, n))
        /\ fail
        /\ faults' = faults - 1
  /\ UNCHANGED <<issued, stage, at, renewing, lost, leaked>>

WatchdogAnswer(g) ==
  LET n    == watchdog[g].at
      fail == /\ watchdog' = [watchdog EXCEPT ![g] = Exited]
              /\ IF member[g][n].dead THEN UNCHANGED member ELSE MarkAll(g)
  IN
  /\ watchdog[g].label = "calling"
  /\ \/ /\ Mine(g, n)
        /\ Renewed(g, n)
        /\ watchdog' = [watchdog EXCEPT ![g] = IF n < Size(g) THEN Turn(g, n + 1) ELSE Dozing]
        /\ UNCHANGED <<member, faults>>
     \/ /\ ~ Mine(g, n)
        /\ fail
        /\ UNCHANGED <<recs, faults>>
     \/ /\ "timeout" \in Faults /\ faults > 0
        /\ UNCHANGED recs \/ (Mine(g, n) /\ Renewed(g, n))
        /\ fail
        /\ faults' = faults - 1
  /\ UNCHANGED <<issued, stage, at, renewing, lost, leaked>>

(* newMultiLock starts one goroutine per member that passes its Lost on.   *)
Forward(g) ==
  /\ stage[g] \in {"held", "releasing"}
  /\ ~ lost[g]
  /\ \E n \in 1 .. Size(g) : member[g][n].lost # "open"
  /\ lost' = [lost EXCEPT ![g] = TRUE]
  /\ UNCHANGED <<recs, issued, stage, at, member, watchdog, renewing, faults, leaked>>

-----------------------------------------------------------------------------
(* The backend.                                                            *)

Tick ==
  /\ Lapses
  /\ \E k \in Keys : recs[k] # Vacant
  /\ recs' = [k \in Keys |-> Aged(recs[k])]
  /\ UNCHANGED <<issued, stage, at, member, watchdog, renewing, lost, faults, leaked>>

Drop(k) ==
  /\ "drop" \in Faults /\ faults > 0
  /\ recs[k] # Vacant
  /\ recs' = [recs EXCEPT ![k] = Vacant]
  /\ faults' = faults - 1
  /\ UNCHANGED <<issued, stage, at, member, watchdog, renewing, lost, leaked>>

Next ==
  \/ \E g \in Groups :
       \/ AcquireAll(g) \/ AcquireMember(g) \/ AcquireGiveUp(g) \/ AcquireTimeout(g)
       \/ Rollback(g) \/ Release(g) \/ ReleaseMember(g)
       \/ Refresh(g) \/ RefreshMember(g)
       \/ WatchdogWake(g) \/ WatchdogAnswer(g) \/ Forward(g)
  \/ Tick
  \/ \E k \in Keys : Drop(k)

Spec == Init /\ [][Next]_vars

(* Goroutines that can go on do, calls are answered, time passes.  Polling *)
(* tries a free Key again and again.  The one promise asked of the         *)
(* application is that a group that has been acquired is released.         *)
Fairness ==
  /\ WF_vars(Tick)
  /\ \A g \in Groups :
       /\ WF_vars(AcquireMember(g)) /\ WF_vars(Rollback(g))
       /\ WF_vars(ReleaseMember(g)) /\ WF_vars(RefreshMember(g))
       /\ WF_vars(WatchdogWake(g)) /\ WF_vars(WatchdogAnswer(g))
       /\ WF_vars(Forward(g))

FairSpec == Spec /\ Fairness

DiligentSpec == FairSpec /\ \A g \in Groups : WF_vars(Release(g))

-----------------------------------------------------------------------------

Holds(g, k) == recs[k][OwnerOf[g]] # NoHold

Has(g, k) == \E n \in 1 .. at[g] : Key(g, n) = k

(* The groups to which the counts of a live record belong.                 *)
Accountable(k, o) ==
  {g \in Groups :
     /\ OwnerOf[g] = o
     /\ \/ /\ stage[g] \notin {"failed", "released"}
           /\ \E n \in 1 .. at[g] : Key(g, n) = k /\ Mine(g, n)
        \/ <<g, k, recs[k][o].fence>> \in leaked}

(* The groups that g waits for, among those that are waiting themselves.   *)
WaitsFor(g) ==
  {p \in Groups :
     /\ OwnerOf[p] # OwnerOf[g]
     /\ stage[g] = "acquiring" /\ stage[p] = "acquiring"
     /\ Has(p, Key(g, at[g] + 1)) /\ Holds(p, Key(g, at[g] + 1))}

(* locker.go, MultiLocker: Keys are taken in order, so that groups never   *)
(* wait for each other in a circle.                                        *)
NoCircularWait ==
  \A S \in (SUBSET Groups) \ {{}} : \E g \in S : WaitsFor(g) \cap S = {}

(* CONTEXT.md, "MultiLock": all or nothing.  Every count of a live record  *)
(* is that of a different group of its owner, one that has the Key and has *)
(* not failed or been released yet.  The only others are the counts whose  *)
(* acquisition was carried out but not answered, or whose release was      *)
(* lost.  Rollback and release give back the rest, although some members   *)
(* have lapsed and some calls fail (locker.go:171-176, multilock.go:33-41).*)
NothingLeftBehind ==
  \A k \in Keys, o \in Owners : recs[k][o] # NoHold => recs[k][o].count = Cardinality(Accountable(k, o))

(* CONTEXT.md, "Reentrancy" and "MultiLock": two groups may share an owner *)
(* token, and the release or rollback of one gives back its own counts     *)
(* only.  While no lease runs out and no record is dropped, a group that   *)
(* is held is backed on every Key, whatever calls are lost.                *)
HeldGroupsAreBacked ==
  ~ Lapses /\ "drop" \notin Faults =>
    \A g \in Groups : stage[g] = "held" => \A n \in 1 .. Size(g) : Mine(g, n)

(* An application that trusts Lost.                                        *)
Usable(g) == stage[g] = "held" /\ ~ lost[g] /\ \A n \in 1 .. Size(g) : member[g][n].lost = "open"

(* doc.go: of two groups of different owners that think they hold the same *)
(* Key the backend backs at most one, and the fence of the other is        *)
(* smaller.                                                                *)
GroupsAreFenced ==
  \A g, p \in Groups : OwnerOf[g] # OwnerOf[p] /\ Usable(g) /\ Usable(p) =>
    \A n \in 1 .. Size(g), m \in 1 .. Size(p) :
      Key(g, n) = Key(p, m) /\ Mine(p, m) =>
        ~ Mine(g, n) /\ member[g][n].fence < member[p][m].fence

(* locker.go: no deadlock.  If applications release what they acquire,     *)
(* a blocking AcquireAll does not wait for ever; here each group acquires  *)
(* once, so that there is no starvation either.  A lost call may leave a   *)
(* count behind that only its lease can clear.                             *)
EveryoneGetsThrough ==
  \A g \in Groups : stage[g] = "acquiring" ~> stage[g] # "acquiring" \/ faults < MaxFaults

(* multilock.go: "if the renewal of any member fails the whole group is    *)
(* marked lost".  When the backend has lost one member of a watched group, *)
(* the Lost of the group and of every member closes, unless the group ends.*)
GroupLossIsTotal ==
  \A g \in Watched :
    stage[g] = "held" /\ (\E n \in 1 .. Size(g) : ~ Mine(g, n))
      ~> stage[g] # "held" \/ (lost[g] /\ \A n \in 1 .. Size(g) : member[g][n].lost # "open")

(* multilock.go: Release returns, although it waits for the watchdog.      *)
ReleaseReturns ==
  \A g \in Groups : stage[g] = "releasing" ~> stage[g] = "released"

=============================================================================
