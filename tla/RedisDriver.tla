----------------------------- MODULE RedisDriver -----------------------------
(***************************************************************************)
(* redisc/redisc.go, the Redis backend of glock, for one Key.              *)
(*                                                                         *)
(* A method of the driver reads the client's clock, sends a Lua script     *)
(* with that reading, and the server runs the script atomically when it    *)
(* arrives.  Between the two the clock moves on, other scripts run, and    *)
(* the script may be lost or, its answer lost, be sent again by go-redis.  *)
(* Clients disagree about the time by their Offset.  Independently of all  *)
(* that, the server deletes the record when its PEXPIRE runs out.          *)
(***************************************************************************)
EXTENDS Integers, FiniteSets

CONSTANTS
  Owners,      \* owner tokens, each with a process and its clock
  NoOwner,     \* the owner field of a hash that has none
  Leases,      \* lease lengths, in ticks
  Offset,      \* how far the clock of an owner's process is ahead
  MaxDelay,    \* bound: a script arrives at most so many ticks after its clock reading
  MaxCalls,    \* bound on the scripts in flight
  MaxFence,    \* bound on the fence counter
  MaxCount,    \* bound on the reentry count
  MaxTime      \* bound: time stops here

ASSUME RedisAssumption ==
  /\ NoOwner \notin Owners
  /\ Leases \subseteq Nat
  /\ Offset \in [Owners -> Nat]
  /\ {MaxDelay, MaxCalls, MaxFence, MaxCount, MaxTime} \subseteq Nat
  /\ MaxCount # 0

VARIABLES
  lock,        \* the hash <prefix>{<key>}; NoKey when it does not exist
  ttl,         \* when the server deletes it; 0 when it does not exist
  counter,     \* the value of <prefix>{<key>}:f
  time,        \* the server's time
  calls,       \* scripts on their way, with their arguments
  granted      \* the lease each owner was last granted and has not given back

vars == <<lock, ttl, counter, time, calls, granted>>

Modes == {"write", "read"}

modeArg(m) == IF m = "read" THEN "1" ELSE "0"

(* The three fields of a hold: count, fence, expires (write mode) or       *)
(* o:<owner>, f:<owner>, e:<owner> (read mode).                            *)
NoEntry == [count |-> 0, fence |-> 0, expires |-> 0]
NoReaders == [o \in Owners |-> NoEntry]
NoKey == [mode |-> "nil", owner |-> NoOwner, writer |-> NoEntry, readers |-> NoReaders]

Entry == [count : 1 .. MaxCount, fence : 1 .. MaxFence, expires : Nat] \cup {NoEntry}

Clock(o) == time + Offset[o]

(* A lease as its owner saw it granted: on the owner's own clock.          *)
NotGranted == [mode |-> "none", fence |-> 0, until |-> 0]

(* The entry of o under mode argument m.                                   *)
entry(k, m, o) ==
  IF m = "1" THEN k.readers[o] ELSE IF k.owner = o THEN k.writer ELSE NoEntry

withEntry(k, m, o, e) ==
  IF m = "1" THEN [k EXCEPT !.readers[o] = e] ELSE [k EXCEPT !.writer = e]

Call == [op : {"acquire", "refresh", "release", "downgrade"}, owner : Owners,
         mode : {"0", "1"}, fence : 0 .. MaxFence, now : Nat, lease : Leases \cup {0}]

TypeOK ==
  /\ lock \in [mode : {"nil", "0", "1"}, owner : Owners \cup {NoOwner},
               writer : Entry, readers : [Owners -> Entry]]
  /\ lock.mode # "0" => lock.owner = NoOwner /\ lock.writer = NoEntry
  /\ lock.mode = "0" => lock.owner # NoOwner /\ lock.writer # NoEntry
  /\ lock.mode = "1" <=> lock.readers # NoReaders
  /\ lock.mode = "nil" <=> ttl = 0
  /\ counter \in 0 .. MaxFence
  /\ time \in 0 .. MaxTime
  /\ calls \subseteq Call /\ Cardinality(calls) <= MaxCalls
  /\ granted \in [Owners -> [mode : {"0", "1", "none"}, fence : 0 .. MaxFence, until : Nat]]

Init ==
  /\ lock = NoKey
  /\ ttl = 0
  /\ counter = 0
  /\ time = 0
  /\ calls = {}
  /\ granted = [o \in Owners |-> NotGranted]

-----------------------------------------------------------------------------
(* The Go methods: read the clock, send the script.                        *)

Send(c) ==
  /\ Cardinality(calls) < MaxCalls
  /\ calls' = calls \cup {c}
  /\ UNCHANGED <<lock, ttl, counter, time, granted>>

TryAcquire(o, m, l) ==
  Send([op |-> "acquire", owner |-> o, mode |-> modeArg(m), fence |-> 0,
        now |-> Clock(o), lease |-> l])

Refresh(o, m, f, l) ==
  Send([op |-> "refresh", owner |-> o, mode |-> modeArg(m), fence |-> f,
        now |-> Clock(o), lease |-> l])

Release(o, m, f) ==
  Send([op |-> "release", owner |-> o, mode |-> modeArg(m), fence |-> f,
        now |-> Clock(o), lease |-> 0])

Downgrade(o, f) ==
  Send([op |-> "downgrade", owner |-> o, mode |-> "0", fence |-> f,
        now |-> Clock(o), lease |-> 0])

-----------------------------------------------------------------------------
(* The Lua scripts.                                                        *)

(* PEXPIRE lock lease*2, unconditional in write mode.  In read mode the    *)
(* record belongs to all readers and its TTL is only ever extended.        *)
extendedTTL_Bug(m, t, l) == time + 2 * l

extendedTTL(m, t, l) ==
  IF m = "1" /\ t - time >= 2 * l THEN t ELSE time + 2 * l

(* The record becomes k with TTL t; PEXPIRE 0 deletes it at once.          *)
Record(k, t) ==
  /\ lock' = IF t <= time THEN NoKey ELSE k
  /\ ttl' = IF t <= time THEN 0 ELSE t

(* The entry of c's owner is alive, by c's reading of the clock.           *)
mine(c) == entry(lock, c.mode, c.owner).expires > c.now

reentrant(c) == lock.mode = c.mode /\ mine(c)

aliveReaders(n) == {o \in Owners : lock.readers[o].expires > n}

(* What acquireScript leaves of the record before it decides: a dead one   *)
(* is deleted, dead readers lose their three fields.                       *)
cleaned_Bug(n) ==
  IF lock.mode = "1"
    THEN [lock EXCEPT !.readers = [o \in Owners |->
            IF o \in aliveReaders(n) THEN lock.readers[o] ELSE NoEntry]]
    ELSE NoKey

cleaned(n) ==
  IF lock.mode = "0" THEN IF lock.writer.expires > n THEN lock ELSE NoKey
  ELSE IF aliveReaders(n) = {} THEN NoKey
  ELSE [lock EXCEPT !.readers = [o \in Owners |->
          IF o \in aliveReaders(n) THEN lock.readers[o] ELSE NoEntry]]

Granted(o, m, e) ==
  granted' = [granted EXCEPT ![o] =
    IF e.expires <= Clock(o) THEN NotGranted ELSE [mode |-> m, fence |-> e.fence, until |-> e.expires]]

acquireScript(c) ==
  LET e    == entry(lock, c.mode, c.owner)
      more == [count |-> e.count + 1, fence |-> e.fence, expires |-> c.now + c.lease]
      new  == [count |-> 1, fence |-> counter + 1, expires |-> c.now + c.lease]
      k    == cleaned(c.now)
  IN
  \/ (* reentry *)
     /\ reentrant(c)
     /\ e.count < MaxCount
     /\ Record(withEntry(lock, c.mode, c.owner, more), extendedTTL(c.mode, ttl, c.lease))
     /\ Granted(c.owner, c.mode, more)
     /\ UNCHANGED counter
  \/ (* {0} and {-2}: a live record in the way *)
     /\ ~ reentrant(c)
     /\ k.mode = "0" \/ (k.mode = "1" /\ (c.mode = "0" \/ k.readers[c.owner] # NoEntry))
     /\ lock' = k
     /\ UNCHANGED <<ttl, counter, granted>>
  \/ (* a fresh record, or one more reader *)
     /\ ~ reentrant(c)
     /\ k.mode = "nil" \/ (k.mode = "1" /\ c.mode = "1" /\ k.readers[c.owner] = NoEntry)
     /\ counter < MaxFence
     /\ counter' = counter + 1
     /\ Record(IF c.mode = "0"
                 THEN [NoKey EXCEPT !.mode = "0", !.owner = c.owner, !.writer = new]
                 ELSE [k EXCEPT !.mode = "1", !.readers[c.owner] = new],
               extendedTTL("1", IF k.mode = "nil" THEN 0 ELSE ttl, c.lease))
     /\ Granted(c.owner, c.mode, new)

(* The test of the three mutations: mode, owner, fence, and a lease that   *)
(* runs by the caller's reading of the clock.                              *)
known_Bug(c) == reentrant(c)

known(c) == reentrant(c) /\ entry(lock, c.mode, c.owner).fence = c.fence

Refuse == UNCHANGED <<lock, ttl, counter, granted>>

refreshScript(c) ==
  LET e == [entry(lock, c.mode, c.owner) EXCEPT !.expires = c.now + c.lease]
  IN
  \/ /\ known(c)
     /\ Record(withEntry(lock, c.mode, c.owner, e), extendedTTL(c.mode, ttl, c.lease))
     /\ Granted(c.owner, c.mode, e)
     /\ UNCHANGED counter
  \/ ~ known(c) /\ Refuse

(* One count less: the last one takes the entry with it, and the last      *)
(* entry takes the record.                                                 *)
countedDown_Bug(c) ==
  LET e == entry(lock, c.mode, c.owner)
  IN  withEntry(lock, c.mode, c.owner,
        IF e.count > 1 THEN [e EXCEPT !.count = e.count - 1] ELSE NoEntry)

countedDown(c) ==
  LET e == entry(lock, c.mode, c.owner)
      k == withEntry(lock, c.mode, c.owner, NoEntry)
  IN  IF e.count > 1 THEN withEntry(lock, c.mode, c.owner, [e EXCEPT !.count = e.count - 1])
      ELSE IF c.mode = "1" /\ k.readers # NoReaders THEN k
      ELSE NoKey

releaseScript(c) ==
  LET k == countedDown(c)
  IN
  \/ /\ known(c)
     /\ lock' = k
     /\ ttl' = IF k = NoKey THEN 0 ELSE ttl
     /\ Granted(c.owner, c.mode, entry(k, c.mode, c.owner))
     /\ UNCHANGED counter
  \/ ~ known(c) /\ Refuse

downgradeScript(c) ==
  LET e == [lock.writer EXCEPT !.count = 1]
  IN
  \/ /\ known(c) /\ lock.writer.count <= 1
     /\ lock' = [NoKey EXCEPT !.mode = "1", !.readers[c.owner] = e]
     /\ Granted(c.owner, "1", e)
     /\ UNCHANGED <<ttl, counter>>
  \/ ~ (known(c) /\ lock.writer.count <= 1) /\ Refuse

Script(c) ==
  \/ c.op = "acquire" /\ acquireScript(c)
  \/ c.op = "refresh" /\ refreshScript(c)
  \/ c.op = "release" /\ releaseScript(c)
  \/ c.op = "downgrade" /\ downgradeScript(c)

(* The server runs a script.  If the answer gets lost go-redis sends the   *)
(* same script, with the same clock reading, once more.                    *)
Run(c) ==
  /\ Script(c)
  /\ calls' \in {calls, calls \ {c}}
  /\ UNCHANGED time

Lose(c) ==
  /\ calls' = calls \ {c}
  /\ UNCHANGED <<lock, ttl, counter, time, granted>>

-----------------------------------------------------------------------------

Drop ==
  /\ lock' = NoKey
  /\ ttl' = 0
  /\ granted' = [o \in Owners |-> NotGranted]
  /\ UNCHANGED <<counter, time, calls>>

(* Time passes; a record whose TTL has run out is deleted by the server.   *)
(* A lease that is over on its owner's own clock is no longer granted.     *)
Tick ==
  /\ time < MaxTime
  /\ \A c \in calls : Clock(c.owner) - c.now < MaxDelay
  /\ time' = time + 1
  /\ IF ttl # 0 /\ ttl <= time + 1
       THEN lock' = NoKey /\ ttl' = 0
       ELSE UNCHANGED <<lock, ttl>>
  /\ granted' = [o \in Owners |->
       IF granted[o].until > time + 1 + Offset[o] THEN granted[o] ELSE NotGranted]
  /\ UNCHANGED <<counter, calls>>

(* The fences the callers know are those of earlier acquisitions.          *)
Next ==
  \/ \E o \in Owners, m \in Modes, l \in Leases : TryAcquire(o, m, l)
  \/ \E o \in Owners, m \in Modes, f \in 1 .. counter :
       \/ \E l \in Leases : Refresh(o, m, f, l)
       \/ Release(o, m, f)
  \/ \E o \in Owners, f \in 1 .. counter : Downgrade(o, f)
  \/ \E c \in calls : Run(c) \/ Lose(c)
  \/ Drop
  \/ Tick

Spec == Init /\ [][Next]_vars

-----------------------------------------------------------------------------
(* The refinement mapping, for clients whose clocks agree and whose        *)
(* scripts arrive at once.                                                 *)

Gone == [mode |-> "none", count |-> 0, fence |-> 0, left |-> 0]

View(e, m) ==
  IF e.expires > time
    THEN [mode |-> m, count |-> e.count, fence |-> e.fence, left |-> e.expires - time]
    ELSE Gone

Abs(o) == View(entry(lock, lock.mode, o), IF lock.mode = "1" THEN "read" ELSE "write")

LL == INSTANCE LeaseLock WITH holds <- [o \in Owners |-> Abs(o)], issued <- counter

(* driver.go, the conventions of Driver: every script is one atomic step   *)
(* of the abstract lock, and neither the lazy clean-up of dead fields nor  *)
(* the server's own deletion of the record is a step at all.               *)
Contract == LL!Spec

(* redisc.go, package comment: the clock skew among the competitors is the *)
(* only time that rivals can both hold the Key.  When a rival got in,      *)
(* whatever the scripts went through on their way, the older lease has no  *)
(* more left on its owner's clock than some competitor's clock is ahead of *)
(* it.  That need not be the rival's own: with three of them, one whose    *)
(* clock is fast may purge a record and leave the Key to one that is slow. *)
ExclusionUpToSkew ==
  \A o, p \in Owners :
    LET old == granted[o]  new == granted[p] IN
    /\ "0" \in {old.mode, new.mode} /\ "none" \notin {old.mode, new.mode}
    /\ old.fence < new.fence
    /\ new.until > Clock(p)
    => \E q \in Owners : old.until - Clock(o) <= Offset[q] - Offset[o]

(* redisc.go, package comment: the record's TTL is for records nobody      *)
(* takes over.  It never runs out before a lease in the record, on the     *)
(* clock of the lease's owner: a reader with a short lease does not pull   *)
(* the record away from one with a long lease.                             *)
ReclaimTakesOnlyTheDead ==
  \A o \in Owners : entry(lock, lock.mode, o).expires <= ttl + Offset[o]

(* redisc.go:157: moreover, a lease that runs on every clock stays in the  *)
(* record as it was granted.  Neither the purge of another owner, nor a    *)
(* reader whose lease rounds down to 0, nor the server takes it away.      *)
RunningLeasesAreKept ==
  /\ ReclaimTakesOnlyTheDead
  /\ \A o \in Owners :
       LET g == granted[o]  e == entry(lock, g.mode, o) IN
       g.mode # "none" /\ (\A p \in Owners : g.until > Clock(p)) =>
         lock.mode = g.mode /\ e.fence = g.fence /\ e.expires = g.until

(* ADR-0003: a refresh, release or downgrade changes nothing but the entry *)
(* of its own generation, however late it arrives and however often.       *)
OldCallsTouchNothing ==
  [][\A c \in calls : c.op # "acquire" /\ Script(c) =>
       \A o \in Owners :
         LET e == entry(lock, lock.mode, o) IN
         entry(lock', lock'.mode, o) # e => o = c.owner /\ e.fence = c.fence]_vars

=============================================================================
