# A formal model of glock

glock is a Go library of distributed locks: read/write locks with leases, fencing
tokens, reentry by owner token, automatic renewal, and locks on several Keys, over a
backend (Redis, Postgres, or an in-memory reference). This directory holds TLA+
models of it, the TLC configurations that check them on small instances, and proofs,
for instances of any size, of every invariant and every step property those runs check.

    tlc -workers 2 -config MCRivals.cfg MCHoldLifecycle
    tlc -workers 2 -config MCWatchdogTiming.cfg WatchdogTiming
    tlapm LeaseLock_proof.tla         tlapm WatchdogTiming_proof.tla
    tlapm InmemDriver_proof.tla       tlapm HoldLifecycle_proof.tla
    tlapm RedisDriver_proof.tla       tlapm MultiLock_proof.tla
    tlapm PostgresDriver_proof.tla    tlapm LeaseHolds_proof.tla

The definition-to-source map, the runs, the mutants and the list of hazards are in
`PROJECT.json`. Source lines below are those of the repository.

## 1. The system

### Components

| Component | Source | State it keeps | Operations |
|---|---|---|---|
| Driver contract | `driver.go`, `mode.go`, `errors.go` | none (an interface) | TryAcquire, Refresh, Release, Downgrade: each one atomic step on one Key |
| In-memory driver | `locktest/inmem.go` | `recs`, one record per Key with a writer or a map of readers; `counter` | the four, and Drop |
| Redis driver | `redisc/redisc.go` | a hash per Key, its TTL on the server, an INCR counter | the four, as Lua scripts that get the client's clock; Drop |
| Postgres driver | `postgrec/` | a row per Key and owner; a sequence; `schemaReady` | the four, as transactions under an advisory lock, or one conditional UPDATE; EnsureSchema; a reaper; Drop |
| Acquisition | `locker.go`, `options.go` | the loop of one call | [Try]Acquire[Read] |
| Hold | `hold.go` | `fence`, `dead`, `lost`, the watchdog | release, refresh, markLost |
| Lock, ReadLock | `lock.go` | a hold | Release, Refresh, Downgrade |
| Watchdog | `watchdog.go` | a goroutine, a stop channel, a WaitGroup, the holds of a group | wake, renew each, mark all lost, stop |
| MultiLock | `locker.go`, `multilock.go` | the holds of a group, one Lost channel, one forwarding goroutine per member | [Try]AcquireAll with rollback, Release, Refresh |
| Metrics, logs, options | `hold.go`, `options.go` | counters that nothing reads back | validation, namespaces, owner tokens |
| Conformance suite, examples | `locktest/suite.go`, `*/example` | tests and demonstrations | |

### How they interact

An application calls a locker; the locker polls `Driver.TryAcquire`, wraps the fence
it gets in a `hold`, and may start a watchdog goroutine for it. From then on four
parties act on one hold: the goroutines of the application (Release, Refresh,
Downgrade), the watchdog, the clock of the backend, and other processes, among them
later incarnations of the same process with the same owner token. They meet in two
places: in the record in the backend, which only atomic driver calls change, and in
the atomic `dead`, the `lost` channel and the WaitGroup of the hold. A driver call is
not atomic for its caller: the record may change between the moment the backend
serves the call and the moment the caller looks at the answer, and an answer can be
lost.

### What is hard

- Release and Downgrade stop the watchdog and wait for it, while the watchdog may be
  inside a driver call or have just decided to begin one.
- Downgrade tests `ended`, calls the backend, and only then swaps `dead`.
- A lease lapses without a step of its process. Two applications then believe that
  they hold one Key, and only fences tell them apart.
- A call that was given up may still be carried out, after the owner has taken the
  Key again with the same token.
- A process dies in the middle of anything, and its successor continues with its token.
- A group is acquired member by member, and must be all or nothing, free of circular
  waiting, and lost as a whole.
- In Redis the time is read by the client before a script is sent; clocks differ,
  scripts are delayed, overtaken or repeated, and the server deletes records by a TTL
  of its own.
- In Postgres a method is several statements. `now()` stands still from BEGIN on, also
  while the transaction waits for the advisory lock; Refresh and the reaper take no
  advisory lock; deletions meet row locks, and row locks deadlock.
- The watchdog races against the leases it renews: members in turn, each call with a
  timeout of an interval, the interval jittered.

What each component has to guarantee is the list of properties in section 3;
`PROJECT.json` lists every hazard at its line, with the properties that watch it, or
the reason that none does yet.

## 2. The modules

    LeaseHolds ----- LeaseLock
        |               ^  ^
        |     refines   |  |   refines (clocks agree)
        |         InmemDriver   RedisDriver
        |
        +---- HoldLifecycle     (handles, goroutines, watchdog; one Key)
        +---- MultiLock         (groups; several Keys)

    PostgresDriver     (transactions, statement by statement; one Key)
    WatchdogTiming     (renewal in turn against the clock; one group)

The theorems on a module `M` are in `M_proof`. HoldLifecycle_proof and MultiLock_proof
share the lemmas of LeaseHolds_proof, which say what the effects of a driver call return.

**LeaseHolds** holds no state. It says, as operators on values, what a driver call
does to the live holds of one Key: `Verdict` is the `switch` of `TryAcquire`,
`Granted`, `Reentered`, `Extended`, `Released` and `Downgraded` its effects and those
of the other methods, `Owns` the test of ADR-0003. A hold keeps the time its lease
has left instead of a deadline, so no clock is needed: `Aged` is one tick.

**LeaseLock** is the abstract specification: the promise of `driver.go` for one Key.
`holds` maps an owner to its live hold, `issued` is the highest fence. A lapsed hold
is not there, because `driver.go` says that an expired record does not count as
alive. A fence may skip numbers (`Grant` takes any higher one, and `Skip`), since in
Postgres and in the in-memory driver one counter serves all Keys.

**InmemDriver** is `locktest/inmem.go` as it is written: absolute deadlines, a record
that holds a writer or readers, `live`, `purge` and `holdOf`, deletion with the last
count. One method is one action, which is exact: every method holds `d.mu` from its
first line to its last. `reply` records what the call answered. Callers are
arbitrary: any owner with any mode, and any fence ever issued, old ones included. The
refinement mapping `Abs` shows an entry to the abstract lock while its deadline lies
in the future; the tests `After(now)` of the source are what makes this true.

**RedisDriver** models a Lua script as one action (Redis runs scripts atomically) and
the Go method that sends it as another, with the client's clock reading in between.
`calls` are the scripts on their way. `Run` may leave the script there (go-redis
sends it again when its answer is lost), `Lose` drops it. `Tick` moves the server's
clock, deletes the record when its TTL has run out, and is held back while a script
in flight would become older than `MaxDelay`. A lease may be 0, which is what
`lease.Milliseconds()` makes of less than a millisecond: `Record` deletes the key at
once when `PEXPIRE` gets no positive time. `granted` is a history variable: the lease
each owner was last granted, on its own clock.

**PostgresDriver** models every statement as an action, under Postgres' default
isolation. `rows` is what is committed. `tx` says where a connection is in its method
and what `now()` is for it (`start`), `advisory` who has the advisory lock, `deleted`
which rows a transaction has deleted and not committed. A DELETE finds its rows when
it starts (`Lapsed`), visits them one by one in any order, waits for rows that another
transaction has deleted, and looks at each again (`DeleteRow`): this is how the purge
of `TryAcquire`, the reaper and a Refresh get in each other's way. The last statement
and COMMIT are one action, because the row it has written is locked in between. `Fail`
is the error of a statement, `DeadlockError` what Postgres does about a cycle of row
locks; either ends RunReaper for good, as in the source. `granted` and `issued` are
history variables, and so is `answer.unread`: the SELECT by which a refused Downgrade
looks for its reason (`Diagnose`) has failed, which the source does not report. There is
no refinement of LeaseLock here, because it does not hold step by step: see *A Refresh that waits* below. What the contract asks is stated
directly, by `GrantsAreBacked`, `LiveRowsAreSafe` and `AnswersAreTrue`.

*A Refresh that waits.* A Refresh whose `now()` lies before the end of a lease and
that is served after it still finds `expires_at > now()` and brings the row back to
life, provided that nobody has purged it. In that case nobody else has been granted
the Key, so exclusion is kept (`GrantsAreBacked`); it is the reason that
`AnswersAreTrue` speaks of owners whose generation has lived since before the call.

**WatchdogTiming** is the only module that counts the time of the client. It follows
one group through `acquireAll`, whose first member must outlast the wait for the rest,
`watchdog.run` with its jittered interval, `refreshAll` with one timeout per member, and
`MultiLock.Release`, which marks the last member dead first and then waits. A tick is
only taken when nothing is due (`Tick`), so timers are exact and answers arrive within
`MaxTrip`, except those that are lost.

**HoldLifecycle** is the library around the driver, for one Key. `holds` and `issued`
are the backend, which keeps LeaseLock's promise. `handle` has the fields of `struct
hold` that change: `fence`, `dead`, and `lost` together with the reason for which
`lostOnce` closed it. Downgrade returns a second handle, the heir, so an id is a
handle with "first" or "heir". `pc` gives each id one thread per method and one for
its watchdog. A driver call takes three steps: the thread sends it (`...Call`,
`...Send`, `WatchdogWake`), the backend serves it (`Serve`), the thread goes on with
the answer (`...Return`, `...Take`). `Timeout` gives the caller a transport error and
leaves the call in `late`; `ServeLate` carries it out at any later time, or never. That
covers a lost request, a lost answer and a delayed call. `Crash` stops all threads of
a process and leaves what it has sent. The actions follow the order of the source:
`ReleaseCall` is the compare-and-swap of `dead`, `ReleaseSend` is enabled only when
the watchdog's goroutine has exited (`wg.Wait`), closes `lost` and sends; and so on.

**MultiLock** has one abstract lock per Key. `sortedUnique` is the function of that
name: its loop keeps the places at which a Key occurs for the first time (`Unseen`), its
sort puts the one with n Keys up to it in place n. `leaked` is a history variable, the
counts that a lost call has left in the backend: an acquisition carried out but not
answered, a release that got lost. A driver call and its caller's next step
are one action here, except for the watchdog, which can be caught inside its call
(`WatchdogWake`, `WatchdogAnswer`), because Release waits for it. The interleavings
inside a single call are the subject of HoldLifecycle.

The modules `MC...` give the constants their values. Definitions that end in `_Bug`
are deviations used for mutation testing: each property was shown to fail when one of
them replaces the definition that follows it.

## 3. The runs

| Run | Configuration | Distinct states | Question |
|---|---|---|---|
| lease_lock | MCLeaseLock.cfg | 565 | Is the promise itself coherent? `MutualExclusion`, `FenceNamesOneHold`, `FencesRise` |
| inmem | MCInmemDriver.cfg | 8,520 | Does the in-memory driver keep the promise (`Contract`), is each successful call the operation it claims and each refused call no change of a live hold (`CallsAreSteps`), and are its errors true (`AnswersAreTrue`)? |
| redis_sync | MCRedisSync.cfg | 21,778 | Do the Lua scripts keep the promise when clocks agree and scripts arrive within the tick? (`Contract`) |
| redis_skew | MCRedisSkew.cfg | 2,188,457 | And when clocks differ, scripts are late and leases round to nothing? Rivals overlap by no more than a competitor's clock is ahead of the older one's (`ExclusionUpToSkew`), a granted lease stays in the record, whose TTL ends after it (`RunningLeasesAreKept`), late or repeated mutations touch their own generation only (`OldCallsTouchNothing`) |
| postgres | MCPostgres.cfg | 440,366 | Do several statements under an advisory lock amount to the promise? `RowsExclude`, `GrantsAreBacked`, `LiveRowsAreSafe`, `AnswersAreTrue`, `EverythingSettles` (liveness) |
| rivals | MCRivals.cfg | 837,445 | Two writers of one owner, one watched, against a reader: `FencingOrdersConflict`, `CountIsUnreleased`, `OneRenewalPerHold`, `AlarmMeansLoss`, `EveryHoldIsReleasable` |
| progress | MCProgress.cfg | 36,398 | Two watched processes with one owner token, one of which refreshes, downgrades and releases: `LossIsNoticed`, `CallsReturn`, `CrashFreesTheKey` (liveness) |
| multi_order | MCMultiOrder.cfg | 176,484 | `NoCircularWait`, `EveryoneGetsThrough` (liveness), `HeldGroupsAreBacked` |
| multi_loss | MCMultiLoss.cfg | 197,896 | `NothingLeftBehind`, `GroupsAreFenced`, `GroupLossIsTotal` and `ReleaseReturns` (liveness) |
| watchdog_timing | MCWatchdogTiming.cfg | 966,330 | Do a third of the lease and 20 per cent of jitter suffice for a group? `NoSilentLapse`, `HealthyGroupsLast`, `AlarmInTime`, `ReleaseIsPrompt` |
| downgrade_alarm, postgres_ghost | MCDowngradeAlarm.cfg, MCPostgresGhost.cfg | | Statements of the repository that the code does not keep (section 5) |

In progress, what `CrashFreesTheKey` is about is the count that a dead process leaves. A
successor with the same token reenters and releases, and a count of one remains, which no
handle can give back. It has to go with the lease; only a handle that is still open and
not given back, or whose watchdog still runs, may delay that (`Keeps`).

`TypeOK` of MultiLock is proved (`TypeCorrect`) and listed by no run.

Deadlock checking is off because every model may stop: fences, counts and time are
bounded, a handle is acquired once, and an application may stop calling. That
threads do not wait for each other for ever is checked as liveness.

### Bounds, and why they are enough

- *Owners.* Two or three. Whether a call succeeds depends on the caller's own hold
  and on whether any other owner is in the way; two readers and a writer that waits
  for both need three owners, in lease_lock. With two, the in-memory and the Redis
  run still have a writer against a reader, two readers, and a stranger.
- *Leases.* One and two ticks: one hold of a record outlives another, a handle with a
  short lease meets the record of a long one. redis_skew has 0 and two, a lease that
  is dead on arrival beside one that runs; rivals has one tick, since a lease there
  also runs out at any time relative to the threads.
- *MaxFence, MaxCount.* Two to four generations and a count of two: a mutation of an
  old generation can meet a new one of the same owner, and a release can be the last
  or not. redis_skew has MaxCount = 1 to make room for two scripts in flight; counts
  are covered by redis_sync.
- *MaxTime = 3* in the drivers, four in redis_skew (postgres: below): with leases of at
  most two, a Key is acquired, lapses and is acquired again.
- *MaxDelay = 1, MaxCalls = 2, a skew of one tick* (redis_skew): a script is
  overtaken by another one and by a tick.
- *Postgres.* Two connections and the reaper, three calls, one tick and one fault: a
  transaction waits with an old `now()` while a lease lapses, an owner comes back, the
  reaper is in the middle of its DELETE. The model has no cycles, since calls and time
  are bounded; `EverythingSettles` therefore asks that none of its ends leaves a call
  waiting or a lapsed row behind.
- *Watchdog.* A group of three with a lease of 30 ticks, so an interval of 10 with a swing
  of 2, answers within a tick and a wait of two: the largest numbers that
  `WatchdogTimingAssumption` admits. Each bound in its properties is tight: one tick less,
  or `MaxWait = 3`, and TLC finds a counterexample.
- *Faults.* One per behaviour, two in watchdog_timing (data lost, then the message that
  would have told of it). rivals has calls given up and lost data, progress also
  crashes; `CountIsUnreleased` with crashes is left to its theorem. Two properties speak
  of behaviours without a fault only, and say so: `EveryHoldIsReleasable` and
  `EveryoneGetsThrough`. `NothingLeftBehind` goes on through faults and names the counts
  that a lost call leaves.
- *One call at a time* (`Concurrent = FALSE`) in progress, where liveness with several
  threads of one handle takes too long; they run against each other in rivals. The first
  process of progress only holds and is renewed, with a lease of one tick, the second has
  two ticks and calls Refresh, Downgrade and Release.
- *HoldLifecycle and MultiLock have no clock*, so their runs need no bound on time;
  their state spaces are finite because a handle is acquired once.
- *Groups.* Three groups on two Keys given in opposite orders, one of them naming a
  Key twice; without the sort they wait for each other in a circle.
- *Symmetry* is used for owners, only in runs of safety properties and of step
  properties, and only where owners are interchangeable.

### Fairness

`FairSpec` asks of the runtime and the driver: a goroutine that can go on does, a
timer fires, a driver call is answered (the watchdog passes a context with a timeout,
watchdog.go:61, and the callers pass theirs), and time passes. Fairness is weak and
per action, because none of these steps is disabled again by others for ever: polling
in MultiLock needs `AcquireMember` to be enabled continuously, which is the case once
every holder of the Key is done. Nothing is asked of the application, except in
`DiligentSpec`: a group that has been acquired is eventually released, without which
nobody else can get through. In PostgresDriver fairness is strong (`Fairness`): whoever
queues for the advisory lock or for a row gets it, because Postgres serves these queues
in turn, and RunReaper's ticker fires again and again. Acquisition is unfair in the code (doc.go), and the
models do not claim otherwise: in multi_order each group acquires once.

## 4. What is proved

Every invariant and every step property of the passing runs is a theorem, for every set
of owners, connections, handles, groups and leases and for every bound, under the named
assumption on the constants of its module. Each proof has the same layout: facts about records and operators, one
lemma per action, the invariant, the theorems.

**LeaseLock_proof.** `TypeCorrect`, `Exclusion`, `FencesAreNames` and `FencesOnlyRise`.
The invariant is `TypeOK /\ MutualExclusion /\ FenceNamesOneHold`; it is inductive as
it stands. Exclusion needs the types, because a reentry or a downgrade must not turn
NoHold into a hold; the uniqueness of fences needs that no fence is above `issued`.

**InmemDriver_proof.** `ImplementsLeaseLock` (`Spec => Contract`),
`AnsweredCallsAreSteps`, `TrueAnswers` and `Types`. They rest on the invariant of
`RecordsKeepTheirShape`: the record is absent, or has exactly a writer and no
readers, or readers only. Without it nothing holds: `holdOf` in read mode looks at
the map and in write mode at the pointer, and a record with leftovers of the other
mode would show a hold that is not there. `TypeOK` is weaker, since it allows such a
record. For each shape there is a lemma on what the abstract lock sees of it
(`HeldNil`, `HeldWrite`, `HeldRead`); purging is proved to be invisible (`Purging`);
each method is then a step or a stutter of LeaseLock.

**RedisDriver_proof.** `Types`, `LeasesStay`, `Exclusion`, `LateMutations`, and
`ImplementsLeaseLock`. A hash is looked at through `At(k, o)`, the entry that owner o has
in it, and each script is described once by what it does to `At` (`Outcome`). Of the
invariant, `Sound` is the shape of a hash; `Expiry` ties the TTL to the entries, because
the server's deletion must be invisible; `Sent` says that a script carries a clock reading
of the past, which is all that delay and repetition can do; `Kept` says that a lease that
runs on every clock is in the record as it was granted, and `Newer` that what is in the
record is younger than any grant it conflicts with. Together these two give exclusion up
to skew: a grant that is older than its rival's is no longer kept, so its lease has ended
on some clock. The refinement assumes `Synchronous`, the constants of redis_sync: no
clock is ahead, scripts arrive within the tick, no lease rounds to 0. Without it
the refinement is false, and redis_skew is about what remains.

**PostgresDriver_proof.** `Types`, `Exclusion`, `LeasesStay`, `TrueAnswers` and
`OnlyReleaseTakesALiveRow`. The argument: `Serialized` says which statements have the
advisory lock; `Loaded`, that what the switch of TryAcquire has read still stands when it
writes, since only Refresh and the reaper go past the lock and neither adds a row;
`DeletedRows`, that what a DELETE has taken had lapsed at its `now()`, and that no two
transactions have taken the same; `GrantsRun`, that a ghost's row is gone for good;
`Diagnosed`, that a Downgrade that was refused in spite of a living generation had a
count above one when it began to look. `Counting` bounds fences and counts by the calls
made, which the types need and which counts the calls still under way (`Pending`).

**WatchdogTiming_proof.** `Types`, `NoLapse`, `AlarmIsInTime`, `ReleaseReturns` and
`HealthyGroups`, for every size of the group and every lease, swing, trip and wait under
`WatchdogTimingAssumption`. The invariant is a ledger. `LeasesLast` says, for each place of
the watchdog and each member, how much of its lease can be gone, in terms of trips and of
what the current timer has used; `LossAges` how old the loss is that the watchdog will
meet; `ReleaseAges` how long a Release has waited. `Clocks` holds the ledger together:
the timer of a call and the way of its answer run side by side. The assumption is used
where a lease would reach zero.

**HoldLifecycle_proof.** `TypeCorrect`, `FencesOrder`, `OneRenewal`, `Counting`,
`AlarmsAreTrue` and `NothingLeaks`, for any number of handles and owners and any mixture of
methods, with calls that are lost, late or carried out after a crash. None of the
properties is inductive. `Control` says where the threads of one handle can be together,
in particular that a Release is under way only when the watchdog is gone; `Families`,
when a heir exists and what its write handle may still do. `Generations` says that
fences are names: each has one of the acquisitions to itself, live ones exclude each
other, and a younger generation of another owner has met the live hold as a reader
(`Younger`, which is the ordering of `FencingOrdersConflict` turned into an invariant).
`Settled` says that a handle counts as released only when its Release cannot reach the
backend again, without which a late call would be counted twice. `Telling` says that what
the backend has told a thread stays true: a generation that has been refused never lives
again, which is why an alarm is true for ever. `Quiet` is the part that holds until the
first fault: a write hold has become a read hold only by a Downgrade of its own
generation. A call is sent, served and answered in separate steps, so most steps touch
one handle only: `Local`, `Same`, `Succeeds`, `Calm` and `Subsides` say what of a step each
part of the invariant depends on, and the lemmas of the actions establish them.

**MultiLock_proof.** `TypeCorrect`, `NoDeadlock`, `HeldIsBacked`, `AllOrNothing` and
`Fenced`. The lemma `Ascending` says that `sortedUnique` puts every Key once, in
ascending order: the places that its loop keeps hold different Keys, and of these every
rank is taken once (`Ranks`). From it, `NoDeadlock`: in a set of groups that wait, the
one that waits for the greatest Key waits for none of the others, since all that a group
has lies below what it waits for. The invariant for the others: `Control`, the stages
and how many members they have; `Exclusive`, one live record per Key; `Newest`, a live
record is younger than any generation that another owner has had; `Counted`, the count
of a record is the number of groups that have a member on it or have left a count on it
by a lost call; `Leaks`, what a group has left that way lies beyond the members that it
still has, so that nothing is counted twice; `Backed`, while nothing takes records away,
every member acquired and not given back is in the backend. `Counted` is what keeps
groups of one owner from releasing each other's records: without it, the last count
might go while another group still needs it. It is also all of `AllOrNothing`, once the
groups that share a record (`Sharing`) are seen to be those that `NothingLeftBehind`
holds accountable for it.

*What the proofs found.* Five properties held on the small instances and not in general,
or not as they were stated; each now says what is true, and TLC checks it in this form.

- `ExclusionUpToSkew` had bounded the overlap by the clocks of the two rivals. With a
  third owner whose clock is fast this is wrong: it purges the first one's running
  write record, acquires and leaves, and the third gets in, with a clock that agrees with
  the first one's. The bound is the lead of *some* competitor's clock.
- `HealthyGroupsLast` needs `TimeoutsOutlastTrips`: when the shortest jittered interval,
  which is also the timeout of a call, is not longer than a trip, a call times out although
  nothing was lost. With a lease of 5 and trips of 2 this happens in a group of one.
- `GroupsAreFenced` speaks of groups with different owners. Two groups of one owner may
  both be backed, by reentry.
- `NothingLeftBehind` had asked that nothing of an ended group's owner is left, which is
  wrong for an owner with several groups. It now accounts for every single count of every
  live record, also after calls were lost.
- `HeldGroupsAreBacked` carries its condition (no lease runs out, no record is dropped) in
  its statement instead of leaving it to the configuration.

Assumptions became explicit with them: finitely many handles and groups
(`HoldLifecycleAssumption`, `MultiLockAssumption`; the counts of a record are
cardinalities), and a count of at least one (`RedisAssumption`).

*Only model-checked:* the liveness properties (`EverythingSettles`, `LossIsNoticed`,
`CallsReturn`, `CrashFreesTheKey`, `EveryoneGetsThrough`, `GroupLossIsTotal`,
`ReleaseReturns`), because fairness and ENABLED are out of the prover's reach, and the two
runs that show a violation.

## 5. Where the repository and the code disagree

- **downgrade_alarm** (lock.go:38-40). The comment says that the order "dead first,
  watchdog second" avoids a false lost alarm. A renewal that the backend serves between
  its downgrade and the swap of `dead` is refused, finds `dead` false, and marks the hold
  lost: the alarm, its log line and its metric are false. `AlarmMeansLoss` shows that this
  is the only way to a false alarm.
- **postgres_ghost** (postgrec/driver.go:104, 136). driver.go:14-16 says that a lapsed
  record does not count as alive and that taking it over is a fresh acquisition. A
  transaction that begins before a lease ends and decides after it takes the row for
  alive, since `now()` has stood still. The reaper has no advisory lock and may delete
  the row between the SELECT and the UPDATE; nobody looks at the number of rows the
  UPDATE has changed, and the caller gets the old fence for a hold that is not in the
  table. Another owner can then acquire at once; its fence is higher. `GrantsAreBacked`
  shows that without the reaper's step in between every grant has its row.

Behaviours that deviate from a sentence of the repository, or that no text excludes, and
that no run is spent on:

- When a Downgrade is refused, `postgrec` reads the count to find out why, drops the error
  of that SELECT, and answers ErrNotOwner (postgrec/driver.go:239-246). A hold that lives
  with a count above one is then told what errors.go:15-16 reserves for a hold that is
  lost, where driver.go:35-36 and lock.go:24 have ErrModeConflict; `Lock.Downgrade` marks
  it lost (lock.go:31-34), and its Lost closes while the record lives on.
  `AnswersAreTrue` carries this exception, for the Downgrade whose own SELECT has failed
  (`answer.unread`) and for no other refusal of an owner who has a row.
- After a transport error has marked a hold lost while its record lives on, Release
  succeeds (hold.go:148 looks at `dead`, not at `lost`), although CONTEXT.md:22 wants every
  release after a loss refused. `OldCallsTouchNothing` and `CountIsUnreleased` show that it
  takes no more than its own count.
- A manual Refresh that fails in transport marks the hold lost (hold.go:140), but the
  watchdog looks at `dead` only and goes on renewing the record, although CONTEXT.md:31
  has the renewal end with the hold. `LossIsNoticed` therefore promises the end of the
  renewal only for losses that the backend has confirmed.
- A Release that overtakes a Downgrade of the same handle leaves a read record nobody can
  release until its lease ends (the exception in `EveryHoldIsReleasable`).
- watchdog.go:79-80 wants no hold to expire unawares. `NoSilentLapse` shows it for answers
  that are quick against the lease or do not come at all. If answers may take as long as
  their timeout, three members need three times up to 0.4 leases in one round, and the
  last lease runs out first; the assumption `WatchdogTimingAssumption` is the condition.
- `AcquireAll` may return success although the leases of early members have run out, if it
  waited longer than that assumption allows (locker.go:37-38 warns that they count).

## 6. What is not modelled

- *Postgres:* the text of the DDL and the retryable error when two processes create the
  schema at once; isolation levels other than the default; the loss of the server.
- *Redis:* decoding of replies and cluster failover. That go-redis may repeat a Release is
  modelled (`Run`), but with counts above one only in redis_sync, where it is an
  operation of the contract; that it gives back a count of another handle of the same
  token is a noted hazard.
- *MultiLock:* a call that is carried out after its caller has gone on. The lost answer is
  covered (`AcquireTimeout`, `GiveBack`), the delayed one is covered for single locks.
- *WatchdogTiming:* the group's own Refresh, an extra renewal, and a scheduler that does
  not run a goroutine whose timer has fired.
- *Overflow* of fences and counts (64 bits), option validation, token generation, logs
  and metrics, the conformance suite and the examples: no state that the protocol reads.

## 7. Plan

Liveness stays with TLC. What is left to prove:

1. HoldLifecycle implements LeaseLock: its `holds` and `issued` take steps of the
   abstract lock only, so that what is proved of the promise holds for what the handles
   meet, late calls and faults included. The same for MultiLock, Key by Key.
2. PostgresDriver without the reaper and without a Refresh that waits: whether the rest
   implements LeaseLock, and if so, that these two are the only obstacles.
3. The proof modules share patterns (a record field that changes, a thread that moves on);
   what two of them prove belongs in one place.
