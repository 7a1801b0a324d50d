----------------------------- MODULE InmemDriver -----------------------------
(***************************************************************************)
(* locktest/inmem.go, the reference implementation of glock.Driver, for    *)
(* one Key.  Every method runs under the driver's mutex, so each is one    *)
(* action.  The Keys of a driver share nothing but the fence counter:      *)
(* OtherKey is an acquisition on another Key.                              *)
(*                                                                         *)
(* A caller may pass any mode, owner and fence: a handle that was lost, a  *)
(* call that arrives late or twice, or a token shared by two processes all *)
(* look like that to the driver.                                           *)
(***************************************************************************)
EXTENDS Naturals

CONSTANTS
  Owners,      \* owner tokens
  NoOwner,     \* the empty owner field of a record that has no writer
  Leases,      \* lease lengths, in ticks
  MaxFence,    \* bound on counter
  MaxCount,    \* bound on the reentry count
  MaxTime      \* bound: the clock stops here

ASSUME InmemAssumption ==
  /\ NoOwner \notin Owners
  /\ Leases \subseteq Nat \ {0}
  /\ MaxFence \in Nat
  /\ MaxCount \in Nat
  /\ MaxTime \in Nat

VARIABLES
  rec,         \* d.recs[key]; NilRec when the map has no entry
  counter,     \* d.counter
  now,         \* time.Now()
  reply        \* what the call of this step returned, NoReply if it was no call

vars == <<rec, counter, now, reply>>

Modes == {"write", "read"}

(* The nil pointer and the struct inmemHold.                               *)
NilHold == [count |-> 0, fence |-> 0, expires |-> 0]

InmemHold == [count : Nat \ {0}, fence : 1 .. MaxFence, expires : Nat]

NoReaders == [o \in Owners |-> NilHold]

NilRec == [mode |-> "none", owner |-> NoOwner, writer |-> NilHold, readers |-> NoReaders]

InmemRec ==
  [mode : Modes, owner : Owners \cup {NoOwner},
   writer : InmemHold \cup {NilHold}, readers : [Owners -> InmemHold \cup {NilHold}]]

NoReply == [op |-> "none", owner |-> NoOwner, mode |-> "write", fence |-> 0, result |-> "ok"]

Results == {"ok", "ErrHeld", "ErrModeConflict", "ErrNotOwner"}

TypeOK ==
  /\ rec \in InmemRec \cup {NilRec}
  /\ counter \in 0 .. MaxFence
  /\ now \in 0 .. MaxTime
  /\ reply \in [op : {"none", "TryAcquire", "Refresh", "Release", "Downgrade"},
                owner : Owners \cup {NoOwner}, mode : Modes,
                fence : 0 .. MaxFence, result : Results]

Init ==
  /\ rec = NilRec
  /\ counter = 0
  /\ now = 0
  /\ reply = NoReply

-----------------------------------------------------------------------------
(* Helpers of the source.                                                  *)

live_Bug(r, t) ==
  \/ r.mode = "write" /\ r.writer # NilHold /\ r.writer.expires >= t
  \/ r.mode = "read" /\ \E o \in Owners : r.readers[o] # NilHold /\ r.readers[o].expires >= t

live(r, t) ==
  \/ r.mode = "write" /\ r.writer # NilHold /\ r.writer.expires > t
  \/ r.mode = "read" /\ \E o \in Owners : r.readers[o] # NilHold /\ r.readers[o].expires > t

unexpired_Bug(h, t) == IF h.expires > t + 1 THEN h ELSE NilHold

unexpired(h, t) == IF h.expires > t THEN h ELSE NilHold

purge(r, t) ==
  IF r.mode = "read"
    THEN [r EXCEPT !.readers = [o \in Owners |-> unexpired(r.readers[o], t)]]
    ELSE [r EXCEPT !.writer = unexpired(@, t)]

holdOf(r, m, o) ==
  IF m = "read" THEN r.readers[o] ELSE IF r.owner = o THEN r.writer ELSE NilHold

(* An assignment through the pointer holdOf returns.                       *)
withHold(r, m, o, h) ==
  IF m = "read" THEN [r EXCEPT !.readers[o] = h] ELSE [r EXCEPT !.writer = h]

(* &inmemRec{mode: mode} with its first hold.                              *)
newRec(m, o, h) ==
  IF m = "read"
    THEN [mode |-> "read", owner |-> NoOwner, writer |-> NilHold,
          readers |-> [NoReaders EXCEPT ![o] = h]]
    ELSE [mode |-> "write", owner |-> o, writer |-> h, readers |-> NoReaders]

(* The checks that Refresh and Release make before they write.             *)
accepts_Bug(m, o, f) ==
  LET h == holdOf(rec, m, o)
  IN  rec.mode = m /\ live(rec, now) /\ h # NilHold /\ h.expires > now

accepts(m, o, f) ==
  LET h == holdOf(rec, m, o)
  IN  rec.mode = m /\ live(rec, now) /\ h # NilHold /\ h.fence = f /\ h.expires > now

(* h.count-- and the deletion of a hold whose count has reached zero; the  *)
(* record goes with its last hold.                                         *)
countDown_Bug(r, m, o) ==
  LET h == holdOf(r, m, o) IN withHold(r, m, o, [h EXCEPT !.count = @ - 1])

countDown(r, m, o) ==
  LET h == holdOf(r, m, o)
      gone == withHold(r, m, o, NilHold)
  IN  IF h.count > 1 THEN withHold(r, m, o, [h EXCEPT !.count = @ - 1])
      ELSE IF m = "read" /\ gone.readers # NoReaders THEN gone
      ELSE NilRec

Return(op, o, m, f, res) ==
  reply' = [op |-> op, owner |-> o, mode |-> m, fence |-> f, result |-> res]

-----------------------------------------------------------------------------
(* The Driver interface.                                                   *)

TryAcquire(o, m, l) ==
  LET r    == purge(rec, now)
      mine == holdOf(r, r.mode, o)
      new  == [count |-> 1, fence |-> counter + 1, expires |-> now + l]
  IN
  /\ \/ (* a fresh record *)
        /\ ~ live(r, now)
        /\ counter < MaxFence
        /\ rec' = newRec(m, o, new)
        /\ counter' = counter + 1
        /\ Return("TryAcquire", o, m, counter + 1, "ok")
     \/ (* reentry *)
        /\ live(r, now) /\ r.mode = m /\ mine # NilHold
        /\ mine.count < MaxCount
        /\ rec' = withHold(r, m, o, [mine EXCEPT !.count = @ + 1, !.expires = now + l])
        /\ Return("TryAcquire", o, m, mine.fence, "ok")
        /\ UNCHANGED counter
     \/ (* one more reader *)
        /\ live(r, now) /\ r.mode = "read" /\ m = "read" /\ mine = NilHold
        /\ counter < MaxFence
        /\ rec' = withHold(r, "read", o, new)
        /\ counter' = counter + 1
        /\ Return("TryAcquire", o, m, counter + 1, "ok")
     \/ (* the owner holds the other mode *)
        /\ live(r, now) /\ r.mode # m /\ mine # NilHold
        /\ rec' = r
        /\ Return("TryAcquire", o, m, 0, "ErrModeConflict")
        /\ UNCHANGED counter
     \/ (* somebody else holds the Key *)
        /\ live(r, now) /\ ~ (r.mode = "read" /\ m = "read") /\ mine = NilHold
        /\ rec' = r
        /\ Return("TryAcquire", o, m, 0, "ErrHeld")
        /\ UNCHANGED counter
  /\ UNCHANGED now

Refresh(o, m, f, l) ==
  /\ \/ /\ accepts(m, o, f)
        /\ rec' = withHold(rec, m, o, [holdOf(rec, m, o) EXCEPT !.expires = now + l])
        /\ Return("Refresh", o, m, f, "ok")
     \/ /\ ~ accepts(m, o, f)
        /\ Return("Refresh", o, m, f, "ErrNotOwner")
        /\ UNCHANGED rec
  /\ UNCHANGED <<counter, now>>

Release(o, m, f) ==
  /\ \/ /\ accepts(m, o, f)
        /\ rec' = countDown(rec, m, o)
        /\ Return("Release", o, m, f, "ok")
     \/ /\ ~ accepts(m, o, f)
        /\ Return("Release", o, m, f, "ErrNotOwner")
        /\ UNCHANGED rec
  /\ UNCHANGED <<counter, now>>

Downgrade(o, f) ==
  LET known == rec.mode = "write" /\ rec.owner = o /\ live(rec, now) /\ rec.writer.fence = f
  IN
  /\ \/ /\ known /\ rec.writer.count <= 1
        /\ rec' = newRec("read", o, [rec.writer EXCEPT !.count = 1])
        /\ Return("Downgrade", o, "write", f, "ok")
     \/ /\ known /\ rec.writer.count > 1
        /\ Return("Downgrade", o, "write", f, "ErrModeConflict")
        /\ UNCHANGED rec
     \/ /\ ~ known
        /\ Return("Downgrade", o, "write", f, "ErrNotOwner")
        /\ UNCHANGED rec
  /\ UNCHANGED <<counter, now>>

Drop ==
  /\ rec' = NilRec
  /\ reply' = NoReply
  /\ UNCHANGED <<counter, now>>

(* An acquisition on another Key of the same driver.                       *)
OtherKey ==
  /\ counter < MaxFence
  /\ counter' = counter + 1
  /\ reply' = NoReply
  /\ UNCHANGED <<rec, now>>

(* Time passes.                                                            *)
Tick ==
  /\ now < MaxTime
  /\ now' = now + 1
  /\ reply' = NoReply
  /\ UNCHANGED <<rec, counter>>

Next ==
  \/ \E o \in Owners, m \in Modes, l \in Leases : TryAcquire(o, m, l)
  \/ \E o \in Owners, m \in Modes, f \in 1 .. MaxFence :
       \/ \E l \in Leases : Refresh(o, m, f, l)
       \/ Release(o, m, f)
  \/ \E o \in Owners, f \in 1 .. MaxFence : Downgrade(o, f)
  \/ Drop
  \/ OtherKey
  \/ Tick

Spec == Init /\ [][Next]_vars

-----------------------------------------------------------------------------
(* The refinement mapping: what the record says of owner o, once expiry is *)
(* taken into account.                                                     *)

Gone == [mode |-> "none", count |-> 0, fence |-> 0, left |-> 0]

View(h, m, t) ==
  IF h.expires > t
    THEN [mode |-> m, count |-> h.count, fence |-> h.fence, left |-> h.expires - t]
    ELSE Gone

Held(r, t, o) == View(holdOf(r, r.mode, o), r.mode, t)

Abs(o) == Held(rec, now, o)

LL == INSTANCE LeaseLock WITH holds <- [o \in Owners |-> Abs(o)], issued <- counter

-----------------------------------------------------------------------------

(* driver.go, the conventions of Driver: every call is one atomic step of  *)
(* the abstract lock.  A grant needs the absence of rivals and takes a     *)
(* fence nobody had, a reentry keeps the fence, a mutation needs owner,    *)
(* fence, mode and a lease that is still running.                          *)
Contract == LL!Spec

(* driver.go: what a call answers is true of the record it leaves.  An     *)
(* acquisition that answers a fence left its owner alive under that fence; *)
(* ErrHeld names a conflict with somebody else, ErrModeConflict one with   *)
(* the owner itself, and ErrNotOwner is never said to the live holder.     *)
AnswersAreTrue ==
  LET mine    == Abs(reply.owner)
      said(r) == reply.op # "none" /\ reply.result = r
  IN
  /\ said("ErrHeld") =>
       mine = Gone /\ \E p \in Owners :
         Abs(p) # Gone /\ ~ (Abs(p).mode = "read" /\ reply.mode = "read")
  /\ said("ErrModeConflict") =>
       IF reply.op = "Downgrade" THEN mine.count > 1 ELSE mine.mode \notin {"none", reply.mode}
  /\ said("ErrNotOwner") =>
       ~ (mine.mode = reply.mode /\ mine.fence = reply.fence)
  /\ said("ok") /\ reply.op = "TryAcquire" =>
       mine.mode = reply.mode /\ mine.fence = reply.fence

(* The operation of the abstract lock that the last call must have been.   *)
Operation(op, o, m, f) ==
  \/ /\ op = "TryAcquire"
     /\ \E l \in Leases : LL!Grant(o, m, l) \/ LL!Reenter(o, m, l)
  \/ op = "Refresh" /\ \E l \in Leases : LL!Refresh(o, m, f, l)
  \/ op = "Release" /\ LL!Release(o, m, f)
  \/ op = "Downgrade" /\ LL!Downgrade(o, f)

(* driver.go: a call that succeeds is that very operation of the abstract  *)
(* lock, with the caller's owner, mode and fence; a call that is refused   *)
(* leaves every live hold as it was, although TryAcquire purges on the way *)
(* ("never touches the record").                                           *)
CallsAreSteps ==
  [][ IF reply'.op = "none" THEN LL!Drop \/ LL!Skip \/ LL!Tick
      ELSE IF reply'.result = "ok"
        THEN Operation(reply'.op, reply'.owner, reply'.mode, reply'.fence)
        ELSE UNCHANGED LL!vars
    ]_vars

=============================================================================
