--------------------------- MODULE PostgresDriver ---------------------------
(***************************************************************************)
(* postgrec/driver.go and postgrec/postgrec.go, the Postgres backend of    *)
(* glock, for one Key.                                                     *)
(*                                                                         *)
(* A method of the driver is a transaction of several statements, most of  *)
(* them under the advisory lock of the Key; Refresh is a single statement  *)
(* and RunReaper another, and both go past the advisory lock.  A statement *)
(* sees what is committed when it runs, waits for a row that an open       *)
(* transaction has deleted, and then looks at the row again.  now() does   *)
(* not move during a transaction: it is the time of its BEGIN, before the  *)
(* wait for the advisory lock.                                             *)
(*                                                                         *)
(* The last statement of a transaction and its COMMIT are one action: the  *)
(* row it has written stays locked until then, and nobody else reads it.   *)
(* What a transaction holds uncommitted is therefore only what it deleted. *)
(***************************************************************************)
EXTENDS Naturals, FiniteSets

CONSTANTS
  Owners,        \* owner tokens
  Calls,         \* connections; each carries one call of the driver at a time
  Reaper,        \* the connection of RunReaper
  Nobody,        \* the advisory lock is free
  Leases,        \* lease lengths, in ticks
  Reaping,       \* whether the application has started RunReaper
  MaxCalls,      \* bound on the calls of the driver
  MaxTime,       \* bound: the clock stops here
  MaxFaults      \* bound on broken connections, ended contexts and lost data

ASSUME PostgresAssumption ==
  /\ Reaper \notin Calls /\ Nobody \notin Calls \cup {Reaper}
  /\ Leases \subseteq Nat
  /\ Reaping \in BOOLEAN
  /\ {MaxCalls, MaxTime, MaxFaults} \subseteq Nat

VARIABLES
  schemaReady,   \* the table and the sequence exist, and the driver knows it
  rows,          \* glock_locks: the committed row of each owner, or NoRow
  seq,           \* the sequence glock_fence
  now,           \* the server's clock
  advisory,      \* who has pg_advisory_xact_lock of the Key
  tx,            \* connection -> its transaction
  deleted,       \* connection -> the owners whose rows it has deleted, uncommitted
  call,          \* connection -> the arguments of its call
  answer,        \* the refusal that a call returned in this step, NoAnswer if none did
  granted,       \* history: the lease each owner was last granted, while it runs
  issued,        \* history: the fences each owner has been given
  made,          \* calls so far
  faults         \* faults left

vars == <<schemaReady, rows, seq, now, advisory, tx, deleted, call, answer, granted,
          issued, made, faults>>

Txs == Calls \cup {Reaper}

Modes == {"write", "read"}

modeChar(m) == IF m = "read" THEN "r" ELSE "w"

NoRow == [mode |-> "none", count |-> 0, fence |-> 0, expires |-> 0]

Row == [mode : {"w", "r"}, count : 1 .. MaxCalls, fence : 1 .. MaxCalls, expires : Nat]

(* todo is what a DELETE has found and not yet visited: the owner of a row *)
(* and its fence, which tells it from a later row of the same owner.       *)
NoTx == [at |-> "idle", start |-> 0, todo |-> {}]

NoCall == [op |-> "none", owner |-> Nobody, mode |-> "w", fence |-> 0, lease |-> 0]

Labels == {"idle", "serialize", "delete", "reenter", "insert", "mutate", "diagnose", "stopped"}

(* unread: the SELECT that the refusal should rest on has failed.          *)
NoAnswer == [call |-> NoCall, start |-> 0, result |-> "none", unread |-> FALSE]

NotGranted == [mode |-> "none", fence |-> 0, since |-> 0, until |-> 0, ghost |-> FALSE]

TypeOK ==
  /\ schemaReady \in BOOLEAN
  /\ rows \in [Owners -> Row \cup {NoRow}]
  /\ seq \in 0 .. MaxCalls
  /\ now \in 0 .. MaxTime
  /\ advisory \in Calls \cup {Nobody}
  /\ tx \in [Txs -> [at : Labels, start : 0 .. now,
                     todo : SUBSET (Owners \X (1 .. MaxCalls))]]
  /\ deleted \in [Txs -> SUBSET Owners]
  /\ call \in [Calls -> [op : {"none", "acquire", "refresh", "release", "downgrade"},
                         owner : Owners \cup {Nobody}, mode : {"w", "r"},
                         fence : 0 .. MaxCalls, lease : Leases \cup {0}]]
  /\ answer.result \in {"none", "ErrHeld", "ErrModeConflict", "ErrNotOwner"}
  /\ answer.unread \in BOOLEAN
  /\ granted \in [Owners -> [mode : {"w", "r", "none"}, fence : 0 .. MaxCalls,
                             since : 0 .. now, until : Nat, ghost : BOOLEAN]]
  /\ issued \in [Owners -> SUBSET (1 .. seq)]
  /\ made \in 0 .. MaxCalls
  /\ faults \in 0 .. MaxFaults

Init ==
  /\ schemaReady = FALSE
  /\ rows = [o \in Owners |-> NoRow]
  /\ seq = 0
  /\ now = 0
  /\ advisory = Nobody
  /\ tx = [t \in Txs |-> IF t = Reaper /\ ~ Reaping THEN [NoTx EXCEPT !.at = "stopped"] ELSE NoTx]
  /\ deleted = [t \in Txs |-> {}]
  /\ call = [c \in Calls |-> NoCall]
  /\ answer = NoAnswer
  /\ granted = [o \in Owners |-> NotGranted]
  /\ issued = [o \in Owners |-> {}]
  /\ made = 0
  /\ faults = MaxFaults

-----------------------------------------------------------------------------
(* Postgres.                                                               *)

(* Another transaction has deleted the row and not ended yet.              *)
Locked(t, o) == \E u \in Txs \ {t} : o \in deleted[u]

(* The rows as transaction t sees them.                                    *)
View(t) == [o \in Owners |-> IF o \in deleted[t] THEN NoRow ELSE rows[o]]

(* DELETE ... WHERE expires_at <= now() finds these.                       *)
Lapsed(t) ==
  {<<o, rows[o].fence>> : o \in {p \in Owners : rows[p] # NoRow /\ rows[p].expires <= t}}

Goto(t, label) == tx' = [tx EXCEPT ![t].at = label]

(* The transaction of a call ends, with the rows as R.                     *)
End_Bug(c, R) ==
  /\ rows' = R
  /\ deleted' = [deleted EXCEPT ![c] = {}]
  /\ UNCHANGED advisory
  /\ tx' = [tx EXCEPT ![c] = NoTx]
  /\ call' = [call EXCEPT ![c] = NoCall]

End(c, R) ==
  /\ rows' = R
  /\ deleted' = [deleted EXCEPT ![c] = {}]
  /\ advisory' = IF advisory = c THEN Nobody ELSE advisory
  /\ tx' = [tx EXCEPT ![c] = NoTx]
  /\ call' = [call EXCEPT ![c] = NoCall]

(* The deferred tx.Rollback of a call that is refused.                     *)
Refuse(c, err, unread) ==
  /\ answer' = [call |-> call[c], start |-> tx[c].start, result |-> err, unread |-> unread]
  /\ End(c, rows)
  /\ UNCHANGED <<seq, granted, issued>>

(* COMMIT.  What becomes of its answer, the server does not know.          *)
Commit(c, R) == End(c, R) /\ answer' = NoAnswer

(* What the server has granted owner o: the lease runs from now() of the   *)
(* transaction.  A ghost is granted without a row.                         *)
Grant(o, row, isGhost) ==
  granted' = [granted EXCEPT ![o] =
    IF row.expires <= now THEN NotGranted
    ELSE [mode |-> row.mode, fence |-> row.fence,
          since |-> IF granted[o].fence = row.fence THEN granted[o].since ELSE now,
          until |-> row.expires, ghost |-> isGhost]]

-----------------------------------------------------------------------------
(* The methods of the driver.                                              *)

(* Every method and RunReaper call it first.  It succeeds once; until then *)
(* a method that meets an error returns it, and the next one tries again.  *)
ensureSchema ==
  /\ ~ schemaReady
  /\ \/ schemaReady' = TRUE /\ UNCHANGED faults
     \/ faults > 0 /\ faults' = faults - 1 /\ UNCHANGED schemaReady
  /\ UNCHANGED <<rows, seq, now, advisory, tx, deleted, call, answer, granted, issued, made>>

Begin(c, args) ==
  /\ schemaReady
  /\ tx[c].at = "idle"
  /\ made < MaxCalls
  /\ made' = made + 1
  /\ tx' = [tx EXCEPT ![c].at = IF args.op = "refresh" THEN "mutate" ELSE "serialize",
                      ![c].start = now]
  /\ call' = [call EXCEPT ![c] = args]
  /\ answer' = NoAnswer
  /\ UNCHANGED <<schemaReady, rows, seq, now, advisory, deleted, granted, issued, faults>>

TryAcquire(c, o, m, l) ==
  Begin(c, [op |-> "acquire", owner |-> o, mode |-> modeChar(m), fence |-> 0, lease |-> l])

Refresh(c, o, m, f, l) ==
  Begin(c, [op |-> "refresh", owner |-> o, mode |-> modeChar(m), fence |-> f, lease |-> l])

Release(c, o, m, f) ==
  Begin(c, [op |-> "release", owner |-> o, mode |-> modeChar(m), fence |-> f, lease |-> 0])

Downgrade(c, o, f) ==
  Begin(c, [op |-> "downgrade", owner |-> o, mode |-> "w", fence |-> f, lease |-> 0])

(* SELECT pg_advisory_xact_lock; in TryAcquire the DELETE starts next.     *)
Serialize_Bug(c) ==
  /\ tx[c].at = "serialize"
  /\ advisory' = c
  /\ tx' = [tx EXCEPT ![c].at = IF call[c].op = "acquire" THEN "delete" ELSE "mutate",
                      ![c].todo = IF call[c].op = "acquire" THEN Lapsed(tx[c].start) ELSE {}]
  /\ answer' = NoAnswer
  /\ UNCHANGED <<rows, seq, now, deleted, call, granted, issued, made, schemaReady, faults>>

Serialize(c) ==
  /\ tx[c].at = "serialize"
  /\ advisory = Nobody
  /\ advisory' = c
  /\ tx' = [tx EXCEPT ![c].at = IF call[c].op = "acquire" THEN "delete" ELSE "mutate",
                      ![c].todo = IF call[c].op = "acquire" THEN Lapsed(tx[c].start) ELSE {}]
  /\ answer' = NoAnswer
  /\ UNCHANGED <<rows, seq, now, deleted, call, granted, issued, made, schemaReady, faults>>

(* A DELETE visits one of the rows it has found.  The row may have been    *)
(* extended or have gone since, or be waited for.                          *)
DeleteRow_Bug(t) ==
  /\ tx[t].at = "delete"
  /\ \E d \in tx[t].todo :
       /\ ~ Locked(t, d[1])
       /\ deleted' = [deleted EXCEPT ![t] = @ \cup {d[1]}]
       /\ tx' = [tx EXCEPT ![t].todo = @ \ {d}]
  /\ answer' = NoAnswer
  /\ UNCHANGED <<rows, seq, now, advisory, call, granted, issued, made, schemaReady, faults>>

DeleteRow(t) ==
  /\ tx[t].at = "delete"
  /\ \E d \in tx[t].todo :
       /\ ~ Locked(t, d[1])
       /\ deleted' = [deleted EXCEPT ![t] = IF d \in Lapsed(tx[t].start) THEN @ \cup {d[1]} ELSE @]
       /\ tx' = [tx EXCEPT ![t].todo = @ \ {d}]
  /\ answer' = NoAnswer
  /\ UNCHANGED <<rows, seq, now, advisory, call, granted, issued, made, schemaReady, faults>>

(* The switch of TryAcquire over the rows that rowsFor has loaded.         *)
Verdict(c) ==
  LET loaded == View(c)
      in(m)  == {o \in Owners : loaded[o].mode = m}
      mine   == loaded[call[c].owner].mode
      asked  == call[c].mode
  IN  IF mine # "w" /\ in("w") # {} THEN "ErrHeld"
      ELSE IF mine = asked THEN "reenter"
      ELSE IF mine # "none" THEN "ErrModeConflict"
      ELSE IF asked = "w" /\ in("r") # {} THEN "ErrHeld"
      ELSE "insert"

Load(c) ==
  /\ tx[c].at = "delete" /\ tx[c].todo = {}
  /\ \/ /\ Verdict(c) \in {"reenter", "insert"}
        /\ Goto(c, Verdict(c))
        /\ call' = [call EXCEPT ![c].fence = View(c)[call[c].owner].fence]
        /\ answer' = NoAnswer
        /\ UNCHANGED <<rows, seq, advisory, deleted, granted, issued>>
     \/ /\ Verdict(c) \in {"ErrHeld", "ErrModeConflict"}
        /\ Refuse(c, Verdict(c), FALSE)
  /\ UNCHANGED <<now, made, schemaReady, faults>>

(* UPDATE ... SET count = count + 1.  Nobody looks at the number of rows   *)
(* affected: if the row has gone since it was loaded, its fence is         *)
(* returned all the same.                                                  *)
Reenter(c) ==
  LET o     == call[c].owner
      until == tx[c].start + call[c].lease
      more  == [rows[o] EXCEPT !.count = @ + 1, !.expires = until]
      ghost == [mode |-> call[c].mode, count |-> 1, fence |-> call[c].fence, expires |-> until]
  IN
  /\ tx[c].at = "reenter"
  /\ ~ Locked(c, o)
  /\ \/ /\ rows[o] # NoRow
        /\ Commit(c, [View(c) EXCEPT ![o] = more])
        /\ Grant(o, more, FALSE)
     \/ /\ rows[o] = NoRow
        /\ Commit(c, View(c))
        /\ Grant(o, ghost, TRUE)
  /\ UNCHANGED <<seq, now, issued, made, schemaReady, faults>>

(* insertHold *)
Insert(c) ==
  LET o   == call[c].owner
      new == [mode |-> call[c].mode, count |-> 1, fence |-> seq + 1,
              expires |-> tx[c].start + call[c].lease]
  IN
  /\ tx[c].at = "insert"
  /\ seq' = seq + 1
  /\ issued' = [issued EXCEPT ![o] = @ \cup {seq + 1}]
  /\ Commit(c, [View(c) EXCEPT ![o] = new])
  /\ Grant(o, new, FALSE)
  /\ UNCHANGED <<now, made, schemaReady, faults>>

(* WHERE key, owner, mode, fence AND expires_at > now()                    *)
Matches_Bug(c) ==
  LET row == rows[call[c].owner] IN row.mode = call[c].mode /\ row.expires > tx[c].start

Matches(c) ==
  LET row == rows[call[c].owner]
  IN  row.mode = call[c].mode /\ row.fence = call[c].fence /\ row.expires > tx[c].start

(* A mutation writes its row and commits, or finds no row and gives up.    *)
Write(c, row) ==
  LET o == call[c].owner IN
  /\ ~ Locked(c, o)
  /\ Commit(c, [rows EXCEPT ![o] = row])
  /\ Grant(o, row, FALSE)
  /\ UNCHANGED <<seq, issued>>

RefreshRow(c) ==
  LET row == rows[call[c].owner] IN
  /\ tx[c].at = "mutate" /\ call[c].op = "refresh"
  /\ \/ Matches(c) /\ Write(c, [row EXCEPT !.expires = tx[c].start + call[c].lease])
     \/ ~ Matches(c) /\ Refuse(c, "ErrNotOwner", FALSE)
  /\ UNCHANGED <<now, made, schemaReady, faults>>

(* The row is locked from the UPDATE on, so that its count can be read and *)
(* the row deleted in the statements that follow.                          *)
CountedDown_Bug(row) == [row EXCEPT !.count = @ - 1]

CountedDown(row) == IF row.count > 1 THEN [row EXCEPT !.count = @ - 1] ELSE NoRow

ReleaseRow(c) ==
  LET row == rows[call[c].owner] IN
  /\ tx[c].at = "mutate" /\ call[c].op = "release"
  /\ \/ Matches(c) /\ Write(c, CountedDown(row))
     \/ ~ Matches(c) /\ Refuse(c, "ErrNotOwner", FALSE)
  /\ UNCHANGED <<now, made, schemaReady, faults>>

DowngradeRow(c) ==
  LET row == rows[call[c].owner]
      hit == Matches(c) /\ row.count = 1
  IN
  /\ tx[c].at = "mutate" /\ call[c].op = "downgrade"
  /\ \/ hit /\ Write(c, [row EXCEPT !.mode = "r", !.count = 1])
     \/ /\ ~ hit
        /\ Goto(c, "diagnose")
        /\ answer' = NoAnswer
        /\ UNCHANGED <<rows, seq, advisory, deleted, call, granted, issued>>
  /\ UNCHANGED <<now, made, schemaReady, faults>>

(* The SELECT that tells a refusal from a conflict.  When it fails, the    *)
(* error is dropped and the answer is ErrNotOwner.                         *)
Diagnose_Bug(c) ==
  /\ tx[c].at = "diagnose"
  /\ \/ /\ Refuse(c, "ErrNotOwner", FALSE)
        /\ UNCHANGED faults
     \/ /\ faults > 0
        /\ Refuse(c, "ErrNotOwner", TRUE)
        /\ faults' = faults - 1
  /\ UNCHANGED <<now, made, schemaReady>>

Diagnose(c) ==
  /\ tx[c].at = "diagnose"
  /\ \/ /\ Refuse(c, IF Matches(c) /\ rows[call[c].owner].count > 1
                         THEN "ErrModeConflict" ELSE "ErrNotOwner", FALSE)
        /\ UNCHANGED faults
     \/ /\ faults > 0
        /\ Refuse(c, "ErrNotOwner", TRUE)
        /\ faults' = faults - 1
  /\ UNCHANGED <<now, made, schemaReady>>

(* A statement fails because its connection or its context ends.  A fence  *)
(* that the INSERT has taken is not given back.                            *)
Fail(c) ==
  /\ faults > 0
  /\ tx[c].at \notin {"idle", "diagnose"}
  /\ faults' = faults - 1
  /\ End(c, rows)
  /\ answer' = NoAnswer
  /\ seq' \in {seq} \cup (IF tx[c].at = "insert" THEN {seq + 1} ELSE {})
  /\ UNCHANGED <<now, granted, issued, made, schemaReady>>

-----------------------------------------------------------------------------
(* RunReaper.                                                              *)

ReaperWake ==
  /\ tx[Reaper].at = "idle"
  /\ Lapsed(now) # {}
  /\ tx' = [tx EXCEPT ![Reaper] = [at |-> "delete", start |-> now, todo |-> Lapsed(now)]]
  /\ answer' = NoAnswer
  /\ UNCHANGED <<rows, seq, now, advisory, deleted, call, granted, issued, made, schemaReady, faults>>

ReaperEnds(label, R) ==
  /\ rows' = R
  /\ tx' = [tx EXCEPT ![Reaper] = [NoTx EXCEPT !.at = label]]
  /\ deleted' = [deleted EXCEPT ![Reaper] = {}]
  /\ answer' = NoAnswer
  /\ UNCHANGED <<seq, now, advisory, call, granted, issued, made, schemaReady>>

ReaperDone ==
  /\ tx[Reaper].at = "delete" /\ tx[Reaper].todo = {}
  /\ ReaperEnds("idle", View(Reaper))
  /\ UNCHANGED faults

(* The first error makes RunReaper return, also one of ensureSchema:       *)
(* nobody starts it again.                                                 *)
ReaperFail ==
  /\ tx[Reaper].at = IF schemaReady THEN "delete" ELSE "idle"
  /\ faults > 0
  /\ faults' = faults - 1
  /\ ReaperEnds("stopped", rows)

-----------------------------------------------------------------------------
(* Deadlocks between transactions, which Postgres resolves by an error.    *)

(* The rows that transaction t may still have to wait for.                 *)
Wants(t) ==
  IF tx[t].at = "delete" THEN {d[1] : d \in tx[t].todo}
  ELSE IF tx[t].at \in {"reenter", "mutate"} THEN {call[t].owner} ELSE {}

Deadlocked(t, u) ==
  t # u /\ Wants(t) \cap deleted[u] # {} /\ Wants(u) \cap deleted[t] # {}

DeadlockError(t) ==
  /\ \E u \in Txs : Deadlocked(t, u)
  /\ IF t = Reaper
       THEN ReaperEnds("stopped", rows)
       ELSE /\ End(t, rows)
            /\ answer' = NoAnswer
            /\ UNCHANGED <<seq, now, granted, issued, made, schemaReady>>
  /\ UNCHANGED faults

-----------------------------------------------------------------------------

Tick ==
  /\ now < MaxTime
  /\ now' = now + 1
  /\ granted' = [o \in Owners |-> IF granted[o].until > now + 1 THEN granted[o] ELSE NotGranted]
  /\ answer' = NoAnswer
  /\ UNCHANGED <<rows, seq, advisory, tx, deleted, call, issued, made, schemaReady, faults>>

(* The data of the Key is lost while no transaction is at it.              *)
Drop ==
  /\ faults > 0
  /\ \A t \in Txs : deleted[t] = {}
  /\ faults' = faults - 1
  /\ rows' = [o \in Owners |-> NoRow]
  /\ granted' = [o \in Owners |-> NotGranted]
  /\ answer' = NoAnswer
  /\ UNCHANGED <<seq, now, advisory, tx, deleted, call, issued, made, schemaReady>>

(* What a call does from its BEGIN on, and RunReaper from its tick on.     *)
CallStep(c) ==
  \/ Serialize(c) \/ DeleteRow(c) \/ Load(c) \/ Reenter(c) \/ Insert(c)
  \/ RefreshRow(c) \/ ReleaseRow(c) \/ DowngradeRow(c) \/ Diagnose(c)
  \/ DeadlockError(c)

ReaperStep == ReaperWake \/ DeleteRow(Reaper) \/ ReaperDone \/ DeadlockError(Reaper)

Next ==
  \/ ensureSchema
  \/ \E c \in Calls, o \in Owners, m \in Modes :
       \/ \E l \in Leases : TryAcquire(c, o, m, l)
       \/ \E f \in issued[o] :
            Release(c, o, m, f) \/ \E l \in Leases : Refresh(c, o, m, f, l)
  \/ \E c \in Calls, o \in Owners : \E f \in issued[o] : Downgrade(c, o, f)
  \/ \E c \in Calls : CallStep(c) \/ Fail(c)
  \/ ReaperStep \/ ReaperFail
  \/ Tick
  \/ Drop

Spec == Init /\ [][Next]_vars

(* What the server and the driver owe to a transaction: its statements are *)
(* answered, the advisory lock and the rows are handed to those who queue  *)
(* for them, a deadlock is noticed.  RunReaper wakes up again and again.   *)
Fairness == SF_vars(ReaperStep) /\ \A c \in Calls : SF_vars(CallStep(c))

FairSpec == Spec /\ Fairness

-----------------------------------------------------------------------------

(* CONTEXT.md, "Key": one writer or several readers.  This holds of the    *)
(* rows themselves, whether their leases run or not, and it rests on the   *)
(* advisory lock: the rows are read in one statement and written in        *)
(* another.                                                                *)
RowsExclude ==
  \A o, p \in Owners : o # p /\ rows[o].mode = "w" => rows[p] = NoRow

Running(o) == granted[o].until > now

(* driver.go: a lease that has been granted is in the table until it ends, *)
(* if it is counted from the beginning of the call that got it, and with   *)
(* RowsExclude nobody else gets the Key before.  Neither a transaction     *)
(* that waits with an old now() nor the reaper takes it away.  The one     *)
(* exception is a reentry whose row the reaper removed under it.           *)
GrantsAreBacked ==
  \A o \in Owners : Running(o) /\ ~ granted[o].ghost =>
    rows[o].mode = granted[o].mode /\ rows[o].fence = granted[o].fence
      /\ rows[o].expires = granted[o].until

(* ADR-0003: a row whose lease runs goes away, or is given to another      *)
(* generation, only by the release of its last count, with its fence.      *)
LiveRowsAreSafe ==
  [][\A o \in Owners :
       rows[o].expires > now /\ rows'[o].fence # rows[o].fence =>
         \/ Drop
         \/ /\ rows[o].count = 1
            /\ \E c \in Calls :
                 call[c].op = "release" /\ call[c].owner = o /\ call[c].fence = rows[o].fence
    ]_vars

(* driver.go: ErrNotOwner is not said to an owner whose generation was     *)
(* alive from before the call to its answer.  The one exception is the     *)
(* Downgrade whose own SELECT has failed: its error is dropped.  ErrHeld   *)
(* names a rival, ErrModeConflict the owner's own row.                     *)
AnswersAreTrue ==
  LET a    == answer.call
      row  == rows[a.owner]
      held == granted[a.owner]
  IN
  /\ answer.result = "ErrNotOwner" =>
       \/ ~ (held.mode = a.mode /\ held.fence = a.fence /\ held.since < answer.start)
       \/ held.ghost
       \/ a.op = "downgrade" /\ answer.unread
  /\ answer.result = "ErrHeld" =>
       \E p \in Owners \ {a.owner} : rows[p] # NoRow /\ "w" \in {a.mode, rows[p].mode}
  /\ answer.result = "ErrModeConflict" =>
       IF a.op = "downgrade" THEN row.count > 1 ELSE row.mode \notin {"none", a.mode}

(* driver.go and postgrec.go: when the last call has been made, every call *)
(* returns, whoever else is at the Key, and RunReaper sweeps the rows that *)
(* have lapsed, unless an error has ended it.                              *)
EverythingSettles ==
  <>[] /\ \A c \in Calls : tx[c].at = "idle"
       /\ Lapsed(now) = {} \/ tx[Reaper].at = "stopped"

-----------------------------------------------------------------------------
(* What the repository says and the code does not do.                      *)

(* driver.go:14-16: the acquisition of a Key whose record has lapsed is a  *)
(* fresh one, and a reentry returns the fence of a record that is alive.   *)
NoGrantWithoutRow == \A o \in Owners : ~ granted[o].ghost

=============================================================================
