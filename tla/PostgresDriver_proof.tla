------------------------ MODULE PostgresDriver_proof ------------------------
(***************************************************************************)
(* What the transactions of the Postgres driver keep, for any owners, any  *)
(* connections and any bounds.  The heart of it: a transaction that has    *)
(* loaded the rows still sees no rival when it inserts, since only Refresh *)
(* and RunReaper go past the advisory lock, and neither adds a row; and    *)
(* what a DELETE has taken had lapsed, and stays so until the COMMIT.      *)
(***************************************************************************)
EXTENDS PostgresDriver, FiniteSetTheorems, TLAPS

(* The calls under way.  Each may still add a fence and a count.           *)
Pending == {c \in Calls : tx[c].at # "idle"}

Counting ==
  /\ IsFiniteSet(Pending)
  /\ seq + Cardinality(Pending) <= made
  /\ \A o \in Owners : rows[o].count + Cardinality(Pending) <= made

(* What the label of a transaction says of its call.                       *)
Shapes ==
  /\ \A c \in Calls :
       /\ tx[c].at # "stopped"
       /\ tx[c].at # "idle" => call[c].owner \in Owners
       /\ tx[c].at = "serialize" => call[c].op \in {"acquire", "release", "downgrade"}
       /\ tx[c].at \in {"delete", "reenter", "insert"} => call[c].op = "acquire"
       /\ tx[c].at = "mutate" => call[c].op \in {"refresh", "release", "downgrade"}
       /\ tx[c].at = "diagnose" => call[c].op = "downgrade"
  /\ tx[Reaper].at \in {"idle", "delete", "stopped"}
  /\ \A t \in Txs : deleted[t] # {} => tx[t].at \in {"delete", "reenter", "insert"}

(* The statements that rest on the advisory lock.                          *)
Critical(c) ==
  \/ tx[c].at \in {"delete", "reenter", "insert", "diagnose"}
  \/ tx[c].at = "mutate" /\ call[c].op # "refresh"

Serialized == \A c \in Calls : Critical(c) => advisory = c

(* A DELETE has only taken rows that had lapsed when its transaction       *)
(* began, and no two have taken the same.                                  *)
DeletedRows ==
  /\ \A t \in Txs : \A o \in deleted[t] :
       rows[o] # NoRow /\ rows[o].expires <= tx[t].start
  /\ \A t, u \in Txs : t # u => deleted[t] \cap deleted[u] = {}

(* What the switch of TryAcquire has found still stands.                   *)
Loaded ==
  \A c \in Calls :
    /\ tx[c].at = "reenter" => call[c].fence > 0
    /\ tx[c].at = "insert" =>
         /\ View(c)[call[c].owner].mode = "none"
         /\ \A p \in Owners : View(c)[p].mode # "w"
         /\ call[c].mode = "w" => \A p \in Owners : View(c)[p].mode = "none"

(* The history holds running leases only, and a ghost's row is gone.       *)
GrantsRun ==
  \A o \in Owners :
    /\ \/ granted[o] = NotGranted
       \/ granted[o].mode # "none" /\ granted[o].fence > 0 /\ granted[o].until > now
    /\ granted[o].ghost => rows[o].fence # granted[o].fence

(* The generation that call c names was granted before c began.            *)
Alive(c) ==
  LET held == granted[call[c].owner]
  IN  /\ held.mode = call[c].mode /\ held.fence = call[c].fence
      /\ held.since < tx[c].start
      /\ ~ held.ghost

Diagnosed ==
  \A c \in Calls : tx[c].at = "diagnose" /\ Alive(c) => rows[call[c].owner].count > 1

Core == /\ TypeOK /\ Counting /\ Shapes /\ Serialized /\ DeletedRows /\ Loaded
        /\ GrantsRun /\ Diagnosed /\ RowsExclude /\ GrantsAreBacked

Inv == Core /\ AnswersAreTrue

-----------------------------------------------------------------------------
(* Rows, transactions and counts.                                          *)

LEMMA Constants ==
  /\ MaxCalls \in Nat /\ MaxTime \in Nat /\ MaxFaults \in Nat
  /\ Leases \subseteq Nat
  /\ Txs = Calls \cup {Reaper} /\ Calls \subseteq Txs /\ Reaper \in Txs
  /\ \A c \in Calls : c # Reaper /\ c # Nobody
BY PostgresAssumption DEF Txs

LEMMA RowFacts ==
  /\ NoRow.mode = "none" /\ NoRow.count = 0 /\ NoRow.fence = 0 /\ NoRow.expires = 0
  /\ \A r \in Row \cup {NoRow} :
       /\ r = NoRow <=> r.mode = "none"
       /\ r.mode \in {"w", "r", "none"}
       /\ r.count \in 0 .. MaxCalls /\ r.fence \in 0 .. MaxCalls /\ r.expires \in Nat
       /\ r # NoRow => /\ r \in Row /\ r.mode \in {"w", "r"}
                       /\ r.count \in 1 .. MaxCalls /\ r.fence \in 1 .. MaxCalls
BY Constants DEF Row, NoRow

(* The ways in which a statement rewrites a row leave a row.               *)
LEMMA RewrittenRow ==
  ASSUME NEW r \in Row, NEW e \in Nat
  PROVE  LET y == [r EXCEPT !.expires = e]
         IN  y \in Row /\ y.mode = r.mode /\ y.fence = r.fence /\ y.count = r.count /\ y.expires = e
BY DEF Row

LEMMA ReenteredRow ==
  ASSUME NEW r \in Row, NEW e \in Nat, r.count + 1 <= MaxCalls
  PROVE  LET y == [r EXCEPT !.count = @ + 1, !.expires = e]
         IN  y \in Row /\ y.mode = r.mode /\ y.fence = r.fence /\ y.count = r.count + 1 /\ y.expires = e
<1> DEFINE z == [r EXCEPT !.count = @ + 1]
<1>1. r.count + 1 \in 1 .. MaxCalls
  BY Constants DEF Row
<1>2. z \in Row /\ z.fence = r.fence /\ z.mode = r.mode /\ z.count = r.count + 1
  BY <1>1 DEF Row
<1>3. [r EXCEPT !.count = @ + 1, !.expires = e] = [z EXCEPT !.expires = e]
  BY DEF z
<1> HIDE DEF z
<1> QED
  BY <1>2, <1>3, RewrittenRow

LEMMA DowngradedRow ==
  ASSUME NEW r \in Row, r.count = 1
  PROVE  LET y == [r EXCEPT !.mode = "r", !.count = 1]
         IN  y \in Row /\ y.mode = "r" /\ y.fence = r.fence /\ y.count = 1 /\ y.expires = r.expires
<1> DEFINE z == [r EXCEPT !.mode = "r"]
<1>1. z \in Row /\ z.fence = r.fence /\ z.mode = "r" /\ z.count = 1 /\ z.expires = r.expires
  BY DEF Row
<1>2. [r EXCEPT !.mode = "r", !.count = 1] = [z EXCEPT !.count = 1]
  BY DEF z
<1> HIDE DEF z
<1>3. [z EXCEPT !.count = 1] = z
  BY <1>1 DEF Row
<1> QED
  BY <1>1, <1>2, <1>3

LEMMA CountedDownRow ==
  ASSUME NEW r \in Row
  PROVE  /\ CountedDown(r) \in Row \cup {NoRow}
         /\ r.count > 1 => /\ CountedDown(r) # NoRow
                           /\ CountedDown(r).mode = r.mode /\ CountedDown(r).fence = r.fence
                           /\ CountedDown(r).count = r.count - 1
                           /\ CountedDown(r).expires = r.expires
         /\ ~ r.count > 1 => CountedDown(r) = NoRow /\ r.count = 1
<1>1. CASE r.count > 1
  <2>1. r.count - 1 \in 1 .. MaxCalls /\ CountedDown(r) = [r EXCEPT !.count = @ - 1]
    BY <1>1, Constants DEF CountedDown, Row
  <2>2. /\ CountedDown(r) \in Row
        /\ CountedDown(r).mode = r.mode /\ CountedDown(r).fence = r.fence
        /\ CountedDown(r).count = r.count - 1 /\ CountedDown(r).expires = r.expires
    BY <2>1 DEF Row
  <2> QED BY <1>1, <2>2, RowFacts
<1>2. CASE ~ r.count > 1
  BY <1>2, Constants DEF CountedDown, Row
<1> QED
  BY <1>1, <1>2

Todos == SUBSET (Owners \X (1 .. MaxCalls))

TxType == [at : Labels, start : 0 .. now, todo : Todos]

CallType == [op : {"none", "acquire", "refresh", "release", "downgrade"},
             owner : Owners \cup {Nobody}, mode : {"w", "r"},
             fence : 0 .. MaxCalls, lease : Leases \cup {0}]

GrantType == [mode : {"w", "r", "none"}, fence : 0 .. MaxCalls,
              since : 0 .. now, until : Nat, ghost : BOOLEAN]

LEMMA TypeOKSplit ==
  TypeOK <=>
    /\ schemaReady \in BOOLEAN
    /\ rows \in [Owners -> Row \cup {NoRow}]
    /\ seq \in 0 .. MaxCalls
    /\ now \in 0 .. MaxTime
    /\ advisory \in Calls \cup {Nobody}
    /\ tx \in [Txs -> TxType]
    /\ deleted \in [Txs -> SUBSET Owners]
    /\ call \in [Calls -> CallType]
    /\ answer.result \in {"none", "ErrHeld", "ErrModeConflict", "ErrNotOwner"} /\ answer.unread \in BOOLEAN
    /\ granted \in [Owners -> GrantType]
    /\ issued \in [Owners -> SUBSET (1 .. seq)]
    /\ made \in 0 .. MaxCalls
    /\ faults \in 0 .. MaxFaults
BY DEF TypeOK, TxType, Todos, CallType, GrantType

LEMMA Nothing ==
  ASSUME now \in Nat
  PROVE  /\ NoTx \in TxType /\ NoTx.at = "idle" /\ NoTx.todo = {}
         /\ NoCall \in CallType /\ NoCall.op = "none"
         /\ NotGranted \in GrantType /\ NotGranted.mode = "none" /\ NotGranted.until = 0
         /\ NotGranted.fence = 0 /\ NotGranted.ghost = FALSE
         /\ NoAnswer.result = "none" /\ NoAnswer.unread \in BOOLEAN
BY Constants DEF NoTx, TxType, Todos, NoCall, CallType, NotGranted, GrantType, NoAnswer, Labels

LEMMA ViewFacts ==
  ASSUME rows \in [Owners -> Row \cup {NoRow}], NEW t
  PROVE  /\ View(t) \in [Owners -> Row \cup {NoRow}]
         /\ \A p \in Owners : View(t)[p] = IF p \in deleted[t] THEN NoRow ELSE rows[p]
BY DEF View

LEMMA InitCore == Init => Core
<1> SUFFICES ASSUME Init PROVE Core
  OBVIOUS
<1> USE DEF Init
<1>0. now = 0 /\ now \in Nat
  OBVIOUS
<1>tx. /\ tx \in [Txs -> TxType] /\ \A c \in Calls : tx[c].at = "idle" /\ tx[c] = NoTx
       /\ tx[Reaper].at \in {"idle", "stopped"}
  <2>1. [NoTx EXCEPT !.at = "stopped"] \in TxType /\ [NoTx EXCEPT !.at = "stopped"].at = "stopped"
    BY Constants DEF NoTx, TxType, Todos, Labels
  <2>2. NoTx \in TxType /\ NoTx.at = "idle"
    BY <1>0, Nothing
  <2>3. \A t \in Txs : tx[t] = IF t = Reaper /\ ~ Reaping THEN [NoTx EXCEPT !.at = "stopped"] ELSE NoTx
    OBVIOUS
  <2> QED BY <2>1, <2>2, <2>3, Constants
<1>1. TypeOK
  <2>1. rows \in [Owners -> Row \cup {NoRow}] /\ deleted \in [Txs -> SUBSET Owners]
        /\ issued \in [Owners -> SUBSET (1 .. seq)]
    OBVIOUS
  <2>2. call \in [Calls -> CallType] /\ granted \in [Owners -> GrantType] /\ answer.result = "none" /\ answer.unread \in BOOLEAN
    BY <1>0, Nothing
  <2>3. schemaReady \in BOOLEAN /\ advisory \in Calls \cup {Nobody}
    OBVIOUS
  <2>4. seq \in 0 .. MaxCalls /\ now \in 0 .. MaxTime /\ made \in 0 .. MaxCalls /\ faults \in 0 .. MaxFaults
    BY Constants
  <2> HIDE DEF Init
  <2> QED BY <2>1, <2>2, <2>3, <2>4, <1>tx, TypeOKSplit
<1>2. Counting
  <2>1. Pending = {}
    BY <1>tx DEF Pending
  <2>2. IsFiniteSet(Pending) /\ Cardinality(Pending) = 0
    BY <2>1, FS_EmptySet
  <2> QED BY <2>2, RowFacts DEF Counting
<1>3. Shapes /\ Serialized
  BY <1>tx DEF Shapes, Serialized, Critical
<1>4. DeletedRows /\ Loaded /\ Diagnosed
  BY <1>tx DEF DeletedRows, Loaded, Diagnosed
<1>5. GrantsRun
  BY <1>0, Nothing DEF GrantsRun
<1>6. RowsExclude /\ GrantsAreBacked
  BY <1>0, RowFacts, Nothing DEF RowsExclude, GrantsAreBacked, Running
<1> QED
  BY <1>1, <1>2, <1>3, <1>4, <1>5, <1>6 DEF Core

-----------------------------------------------------------------------------
(* The end of a call.                                                      *)

(* What End leaves of the control: the call is over, the others are where  *)
(* they were, and the lock is free or stays with its holder.               *)
LEMMA EndControl ==
  ASSUME Core, NEW c \in Calls, NEW R, End(c, R), tx[c].at # "idle", now' = now
  PROVE  /\ tx' \in [Txs -> TxType'] /\ call' \in [Calls -> CallType]
         /\ deleted' \in [Txs -> SUBSET Owners] /\ advisory' \in Calls \cup {Nobody}
         /\ tx'[c].at = "idle" /\ deleted'[c] = {}
         /\ \A t \in Txs \ {c} : tx'[t] = tx[t] /\ deleted'[t] = deleted[t]
         /\ \A d \in Calls \ {c} : call'[d] = call[d]
         /\ IsFiniteSet(Pending') /\ Cardinality(Pending) \in Nat \ {0}
         /\ Cardinality(Pending') = Cardinality(Pending) - 1
         /\ Shapes' /\ Serialized'
<1>types. /\ tx \in [Txs -> TxType] /\ call \in [Calls -> CallType] /\ deleted \in [Txs -> SUBSET Owners]
          /\ advisory \in Calls \cup {Nobody} /\ now \in Nat /\ c \in Txs /\ c # Reaper /\ c # Nobody
          /\ Calls \subseteq Txs /\ Reaper \in Txs
  BY Constants, TypeOKSplit DEF Core
<1>1. /\ tx' = [tx EXCEPT ![c] = NoTx] /\ call' = [call EXCEPT ![c] = NoCall]
      /\ deleted' = [deleted EXCEPT ![c] = {}]
      /\ advisory' = IF advisory = c THEN Nobody ELSE advisory
  BY DEF End
<1>2. /\ tx' \in [Txs -> TxType] /\ call' \in [Calls -> CallType]
      /\ deleted' \in [Txs -> SUBSET Owners] /\ advisory' \in Calls \cup {Nobody}
      /\ tx'[c].at = "idle" /\ deleted'[c] = {}
  BY <1>types, <1>1, Nothing
<1>3. /\ \A t \in Txs \ {c} : tx'[t] = tx[t] /\ deleted'[t] = deleted[t]
      /\ \A d \in Calls \ {c} : call'[d] = call[d] /\ tx'[d] = tx[d]
      /\ tx'[Reaper] = tx[Reaper]
  BY <1>types, <1>1
<1>4. TxType' = TxType
  BY DEF TxType
<1>5. /\ IsFiniteSet(Pending') /\ Cardinality(Pending) \in Nat \ {0}
      /\ Cardinality(Pending') = Cardinality(Pending) - 1
  <2>1. Pending' = Pending \ {c} /\ c \in Pending
    BY <1>2, <1>3 DEF Pending
  <2>2. IsFiniteSet(Pending)
    BY DEF Core, Counting
  <2>3. /\ IsFiniteSet(Pending \ {c}) /\ Cardinality(Pending \ {c}) = Cardinality(Pending) - 1
        /\ Cardinality(Pending) \in Nat /\ Cardinality(Pending \ {c}) \in Nat
    BY <2>1, <2>2, FS_RemoveElement, FS_CardinalityType
  <2> QED BY <2>1, <2>3
<1>6. Shapes'
  BY <1>2, <1>3, <1>types DEF Core, Shapes
<1>7. Serialized'
  <2>1. ASSUME NEW d \in Calls, Critical(d)' PROVE advisory' = d
    <3>1. d # c
      BY <2>1, <1>2 DEF Critical
    <3>2. Critical(d)
      BY <2>1, <3>1, <1>3 DEF Critical
    <3>3. advisory = d
      BY <3>2 DEF Core, Serialized
    <3> QED BY <3>1, <3>3, <1>1
  <2> QED BY <2>1 DEF Serialized
<1> QED
  BY <1>2, <1>3, <1>4, <1>5, <1>6, <1>7

(* What the invariant says of one other transaction survives a step that   *)
(* leaves it, its call and the rows it looks at alone.                     *)
LEMMA EndKeeps ==
  ASSUME Core, NEW c \in Calls, End(c, rows), tx[c].at # "idle",
         UNCHANGED <<granted, issued, made, now, schemaReady>>,
         seq' \in {seq, seq + 1}, faults' \in 0 .. MaxFaults,
         answer'.result \in {"none", "ErrHeld", "ErrModeConflict", "ErrNotOwner"} /\ answer'.unread \in BOOLEAN
  PROVE  Core'
<1>0. /\ tx' \in [Txs -> TxType'] /\ call' \in [Calls -> CallType]
      /\ deleted' \in [Txs -> SUBSET Owners] /\ advisory' \in Calls \cup {Nobody}
      /\ tx'[c].at = "idle" /\ deleted'[c] = {}
      /\ \A t \in Txs \ {c} : tx'[t] = tx[t] /\ deleted'[t] = deleted[t]
      /\ \A d \in Calls \ {c} : call'[d] = call[d]
      /\ IsFiniteSet(Pending') /\ Cardinality(Pending) \in Nat \ {0}
      /\ Cardinality(Pending') = Cardinality(Pending) - 1
      /\ Shapes' /\ Serialized'
  BY EndControl
<1>same. rows' = rows /\ granted' = granted /\ now' = now
  BY DEF End
<1>types. /\ rows \in [Owners -> Row \cup {NoRow}] /\ seq \in 0 .. MaxCalls /\ made \in 0 .. MaxCalls
          /\ issued \in [Owners -> SUBSET (1 .. seq)] /\ Calls \subseteq Txs
          /\ now \in 0 .. MaxTime /\ granted \in [Owners -> GrantType] /\ schemaReady \in BOOLEAN
  BY Constants, TypeOKSplit DEF Core
<1>1. Counting'
  <2>1. seq + Cardinality(Pending) <= made /\ \A o \in Owners : rows[o].count + Cardinality(Pending) <= made
    BY DEF Core, Counting
  <2>2. \A o \in Owners : rows[o].count \in Nat
    BY <1>types, RowFacts, Constants
  <2> QED BY <2>1, <2>2, <1>0, <1>same, <1>types, Constants DEF Counting
<1>2. TypeOK'
  <2>1. seq' \in 0 .. MaxCalls /\ issued' \in [Owners -> SUBSET (1 .. seq')]
    <3>1. seq + 1 <= made
      BY <1>0, <1>types DEF Core, Counting
    <3>2. seq' \in 0 .. MaxCalls /\ seq <= seq'
      BY <3>1, <1>types, Constants
    <3>3. 1 .. seq \subseteq 1 .. seq'
      BY <3>2, <1>types, Constants
    <3> QED BY <3>2, <3>3, <1>types
  <2>2. granted' \in [Owners -> GrantType']
    BY <1>types, <1>same DEF GrantType
  <2> QED BY <2>1, <2>2, <1>0, <1>same, <1>types, TypeOKSplit DEF Row, NoRow, TypeOK, TxType, Todos, CallType, GrantType
<1>3. DeletedRows'
  BY <1>0, <1>same DEF Core, DeletedRows
<1>4. Loaded'
  <2>1. ASSUME NEW d \in Calls, d # c
        PROVE  View(d)' = View(d) /\ tx'[d] = tx[d] /\ call'[d] = call[d]
    BY <2>1, <1>0, <1>same, <1>types DEF View
  <2> QED BY <2>1, <1>0 DEF Core, Loaded
<1>5. Diagnosed'
  BY <1>0, <1>same, <1>types DEF Core, Diagnosed, Alive
<1>6. GrantsRun' /\ RowsExclude' /\ GrantsAreBacked'
  BY <1>same DEF Core, GrantsRun, RowsExclude, GrantsAreBacked, Running
<1> QED
  BY <1>0, <1>1, <1>2, <1>3, <1>4, <1>5, <1>6 DEF Core

(* The reaper's transaction ends with the rows it has deleted gone, or     *)
(* rolled back.                                                            *)
LEMMA ReaperEndsKeeps ==
  ASSUME Core, NEW label \in {"idle", "stopped"}, NEW R \in {rows, View(Reaper)},
         ReaperEnds(label, R), faults' \in 0 .. MaxFaults
  PROVE  Core'
<1>types. /\ tx \in [Txs -> TxType] /\ call \in [Calls -> CallType] /\ deleted \in [Txs -> SUBSET Owners]
          /\ advisory \in Calls \cup {Nobody} /\ Calls \subseteq Txs /\ Reaper \in Txs
          /\ \A c \in Calls : c # Reaper
          /\ rows \in [Owners -> Row \cup {NoRow}] /\ seq \in 0 .. MaxCalls /\ made \in 0 .. MaxCalls
          /\ issued \in [Owners -> SUBSET (1 .. seq)] /\ now \in Nat
          /\ now \in 0 .. MaxTime /\ granted \in [Owners -> GrantType] /\ schemaReady \in BOOLEAN
  BY Constants, TypeOKSplit DEF Core
<1>0. /\ rows' = R /\ tx' = [tx EXCEPT ![Reaper] = [NoTx EXCEPT !.at = label]]
      /\ deleted' = [deleted EXCEPT ![Reaper] = {}]
      /\ answer' = NoAnswer
      /\ UNCHANGED <<seq, now, advisory, call, granted, issued, made, schemaReady>>
  BY DEF ReaperEnds
<1>1. [NoTx EXCEPT !.at = label] \in TxType /\ [NoTx EXCEPT !.at = label].at = label
  BY <1>types DEF NoTx, TxType, Todos, Labels
<1>2. /\ tx' \in [Txs -> TxType] /\ tx'[Reaper].at = label
      /\ deleted' \in [Txs -> SUBSET Owners] /\ deleted'[Reaper] = {}
      /\ \A t \in Txs \ {Reaper} : tx'[t] = tx[t] /\ deleted'[t] = deleted[t]
      /\ \A c \in Calls : tx'[c] = tx[c] /\ deleted'[c] = deleted[c]
  BY <1>types, <1>0, <1>1
<1>R. /\ R \in [Owners -> Row \cup {NoRow}]
      /\ \A o \in Owners : R[o] = rows[o] \/ (R[o] = NoRow /\ rows[o].expires <= now)
      /\ \A o \in Owners : o \notin deleted[Reaper] => R[o] = rows[o]
  <2>1. \A o \in deleted[Reaper] : rows[o].expires <= tx[Reaper].start
    BY <1>types DEF Core, DeletedRows
  <2>2. \A o \in Owners : rows[o].expires \in Nat
    BY <1>types, RowFacts
  <2>3. tx[Reaper].start \in 0 .. now
    BY <1>types DEF TxType
  <2>4. \A o \in deleted[Reaper] : o \in Owners /\ rows[o].expires <= now
    BY <2>1, <2>2, <2>3, <1>types
  <2> QED BY <2>4, <1>types, ViewFacts
<1>3. Counting'
  <2>1. Pending' = Pending
    BY <1>2 DEF Pending
  <2>2. IsFiniteSet(Pending) /\ Cardinality(Pending) \in Nat
    BY FS_CardinalityType DEF Core, Counting
  <2>3. \A o \in Owners : R[o].count <= rows[o].count /\ R[o].count \in Nat /\ rows[o].count \in Nat
    BY <1>types, <1>R, RowFacts, Constants
  <2> QED BY <2>1, <2>2, <2>3, <1>0, <1>types DEF Core, Counting
<1>4. TypeOK'
  <2>1. TxType' = TxType /\ GrantType' = GrantType
    BY <1>0 DEF TxType, GrantType
  <2>2. answer'.result = "none" /\ answer'.unread \in BOOLEAN
    BY <1>0, <1>types, Nothing
  <2> QED BY <2>1, <2>2, <1>R, <1>0, <1>2, <1>types, TypeOKSplit DEF TypeOK, TxType, Todos, CallType, GrantType
<1>5. Shapes' /\ Serialized'
  BY <1>0, <1>2, <1>types DEF Core, Shapes, Serialized, Critical
<1>6. DeletedRows'
  <2>1. ASSUME NEW t \in Txs, NEW o \in deleted'[t]
        PROVE  rows'[o] # NoRow /\ rows'[o].expires <= tx'[t].start
    <3>1. t # Reaper /\ o \in deleted[t] /\ o \in Owners
      BY <2>1, <1>2, <1>types
    <3>2. o \notin deleted[Reaper]
      BY <3>1, <1>types DEF Core, DeletedRows
    <3> QED BY <3>1, <3>2, <1>R, <1>0, <1>2 DEF Core, DeletedRows
  <2> QED BY <2>1, <1>2, <1>types DEF Core, DeletedRows
<1>7. Loaded'
  <2>1. ASSUME NEW c \in Calls, NEW p \in Owners
        PROVE  View(c)'[p] = View(c)[p] \/ View(c)'[p] = NoRow
    BY <1>0, <1>2, <1>R DEF View
  <2>2. ASSUME NEW c \in Calls
        PROVE  tx'[c] = tx[c] /\ call'[c] = call[c] /\ (tx[c].at = "insert" => call[c].owner \in Owners)
    BY <1>0, <1>2 DEF Core, Shapes
  <2> QED BY <2>1, <2>2, RowFacts DEF Core, Loaded
<1>back. \A o \in Owners : Running(o) /\ ~ granted[o].ghost => R[o] = rows[o]
  <2> TAKE o \in Owners
  <2> SUFFICES ASSUME Running(o), ~ granted[o].ghost PROVE R[o] = rows[o]
    OBVIOUS
  <2>1. rows[o].expires = granted[o].until /\ granted[o].until > now /\ granted[o].until \in Nat
    BY <1>types DEF Core, GrantsAreBacked, Running, GrantType
  <2>2. ~ rows[o].expires <= now
    BY <2>1, <1>types
  <2> QED BY <2>2, <1>R
<1>8. Diagnosed'
  <2>1. ASSUME NEW c \in Calls, tx[c].at = "diagnose", Alive(c)
        PROVE  Running(call[c].owner) /\ ~ granted[call[c].owner].ghost /\ call[c].owner \in Owners
    <3>1. call[c].owner \in Owners /\ call[c].mode # "none"
      BY <2>1, <1>types DEF Core, Shapes, CallType
    <3> QED BY <2>1, <3>1, <1>types, Nothing DEF Core, GrantsRun, Alive, Running
  <2> QED BY <2>1, <1>back, <1>0, <1>2 DEF Core, Diagnosed, Alive
<1>9. GrantsRun' /\ RowsExclude' /\ GrantsAreBacked'
  <2>1. GrantsRun'
    <3>1. ASSUME NEW o \in Owners, granted[o].ghost
          PROVE  R[o].fence # granted[o].fence
      <4>1. granted[o].fence > 0 /\ rows[o].fence # granted[o].fence
        BY <3>1, <1>types, Nothing DEF Core, GrantsRun
      <4> QED BY <4>1, <1>R, RowFacts
    <3> QED BY <3>1, <1>0 DEF Core, GrantsRun
  <2>2. RowsExclude'
    BY <1>0, <1>R, RowFacts DEF Core, RowsExclude
  <2>3. GrantsAreBacked'
    BY <1>0, <1>back DEF Core, GrantsAreBacked, Running
  <2> QED BY <2>1, <2>2, <2>3
<1> QED
  BY <1>3, <1>4, <1>5, <1>6, <1>7, <1>8, <1>9 DEF Core

(* A COMMIT that changes the row of its owner and drops what was deleted.  *)
(* The conditions are those that Reenter, Insert and the mutations meet:   *)
(* the advisory lock, or a row that only gets a new deadline.              *)
LEMMA CommitKeeps ==
  ASSUME Core, NEW c \in Calls, NEW o \in Owners, o = call[c].owner, tx[c].at # "idle",
         NEW R \in [Owners -> Row \cup {NoRow}], NEW row \in Row \cup {NoRow}, NEW g \in BOOLEAN,
         Commit(c, R), Grant(o, row, g),
         UNCHANGED <<now, made, schemaReady, faults>>,
         seq' \in {seq, seq + 1}, issued' \in [Owners -> SUBSET (1 .. seq')],
         \A p \in Owners \ {o} : R[p] = View(c)[p],
         IF g THEN R[o] = NoRow /\ row # NoRow ELSE R[o] = row,
         R[o].count + Cardinality(Pending) <= made + 1,
         \A u \in Txs \ {c} : o \notin deleted[u],
         \A p, q \in Owners : p # q /\ R[p].mode = "w" => R[q] = NoRow,
         \/ Critical(c)
         \/ /\ tx[c].at = "mutate" /\ ~ g
            /\ row.mode = rows[o].mode /\ row.fence = rows[o].fence /\ row.count = rows[o].count
  PROVE  Core'
<1>0. /\ tx' \in [Txs -> TxType'] /\ call' \in [Calls -> CallType]
      /\ deleted' \in [Txs -> SUBSET Owners] /\ advisory' \in Calls \cup {Nobody}
      /\ tx'[c].at = "idle" /\ deleted'[c] = {}
      /\ \A t \in Txs \ {c} : tx'[t] = tx[t] /\ deleted'[t] = deleted[t]
      /\ \A d \in Calls \ {c} : call'[d] = call[d]
      /\ IsFiniteSet(Pending') /\ Cardinality(Pending) \in Nat \ {0}
      /\ Cardinality(Pending') = Cardinality(Pending) - 1
      /\ Shapes' /\ Serialized'
  BY EndControl DEF Commit
<1>rows. rows' = R /\ answer' = NoAnswer
  BY DEF Commit, End
<1>types. /\ rows \in [Owners -> Row \cup {NoRow}] /\ seq \in 0 .. MaxCalls /\ made \in 0 .. MaxCalls
          /\ Calls \subseteq Txs /\ c \in Txs /\ now \in Nat
          /\ now \in 0 .. MaxTime /\ granted \in [Owners -> GrantType] /\ schemaReady \in BOOLEAN
          /\ tx \in [Txs -> TxType] /\ deleted \in [Txs -> SUBSET Owners]
          /\ call \in [Calls -> CallType] /\ faults \in 0 .. MaxFaults
  BY Constants, TypeOKSplit DEF Core
<1>granted. /\ granted' \in [Owners -> GrantType]
            /\ \A p \in Owners \ {o} : granted'[p] = granted[p]
            /\ \/ granted'[o] = NotGranted
               \/ /\ row # NoRow /\ row.expires > now
                  /\ granted'[o].mode = row.mode /\ granted'[o].fence = row.fence
                  /\ granted'[o].until = row.expires /\ granted'[o].ghost = g
                  /\ granted'[o].since = IF granted[o].fence = row.fence THEN granted[o].since ELSE now
  <2> DEFINE s == IF granted[o].fence = row.fence THEN granted[o].since ELSE now
             new == [mode |-> row.mode, fence |-> row.fence, since |-> s, until |-> row.expires, ghost |-> g]
  <2>1. granted' = [granted EXCEPT ![o] = IF row.expires <= now THEN NotGranted ELSE new]
    BY DEF Grant
  <2>2. s \in 0 .. now
    BY <1>types DEF GrantType
  <2>3. row.mode \in {"w", "r", "none"} /\ row.fence \in 0 .. MaxCalls /\ row.expires \in Nat
        /\ (row = NoRow => row.expires <= now)
    BY <1>types, RowFacts
  <2> HIDE DEF s
  <2>4. new \in GrantType
    BY <2>2, <2>3 DEF GrantType
  <2>5. /\ new.mode = row.mode /\ new.fence = row.fence /\ new.since = s
        /\ new.until = row.expires /\ new.ghost = g
    OBVIOUS
  <2> HIDE DEF new
  <2>6. granted' \in [Owners -> GrantType] /\ \A p \in Owners \ {o} : granted'[p] = granted[p]
    BY <2>1, <2>4, <1>types, Nothing
  <2>7. granted'[o] = IF row.expires <= now THEN NotGranted ELSE new
    BY <2>1, <1>types
  <2>8. CASE row.expires <= now
    BY <2>6, <2>7, <2>8
  <2>9. CASE ~ row.expires <= now
    <3>1. row # NoRow /\ row.expires > now
      BY <2>9, <2>3, <1>types
    <3> QED BY <3>1, <2>5, <2>6, <2>7, <2>9 DEF s
  <2> QED BY <2>8, <2>9
<1>view. /\ View(c) \in [Owners -> Row \cup {NoRow}]
         /\ \A p \in Owners : View(c)[p] = IF p \in deleted[c] THEN NoRow ELSE rows[p]
  BY <1>types, ViewFacts
<1>1. Counting'
  <2>1. seq + Cardinality(Pending) <= made /\ \A p \in Owners : rows[p].count + Cardinality(Pending) <= made
    BY DEF Core, Counting
  <2>2. \A p \in Owners : rows[p].count \in Nat /\ R[p].count \in Nat /\ NoRow.count = 0
    BY <1>types, RowFacts, Constants
  <2>3. \A p \in Owners : R[p].count + Cardinality(Pending') <= made
    <3> TAKE p \in Owners
    <3>1. CASE p = o
      BY <3>1, <2>2, <1>0, <1>types, Constants
    <3>2. CASE p # o
      BY <3>2, <2>1, <2>2, <1>0, <1>types, <1>view, Constants
    <3> QED BY <3>1, <3>2
  <2> QED BY <2>1, <2>3, <1>0, <1>rows, <1>types, Constants DEF Counting
<1>2. TypeOK'
  <2>1. seq' \in 0 .. MaxCalls
    <3>1. seq + Cardinality(Pending) <= made
      BY DEF Core, Counting
    <3>2. seq + 1 <= MaxCalls
      BY <3>1, <1>0, <1>types, Constants
    <3> QED BY <3>2, <1>types, Constants
  <2>2. TxType' = TxType /\ GrantType' = GrantType /\ answer'.result = "none" /\ answer'.unread \in BOOLEAN
    BY <1>rows, <1>types, Nothing DEF TxType, GrantType
  <2> QED BY <2>1, <2>2, <1>0, <1>rows, <1>granted, <1>types DEF TypeOK, TxType, Todos, CallType, GrantType
<1>3. DeletedRows'
  <2>1. ASSUME NEW t \in Txs, NEW p \in deleted'[t]
        PROVE  rows'[p] # NoRow /\ rows'[p].expires <= tx'[t].start
    <3>1. t # c /\ p \in deleted[t] /\ p \in Owners /\ p # o
      BY <2>1, <1>0, <1>types
    <3>2. p \notin deleted[c]
      BY <3>1, <1>types DEF Core, DeletedRows
    <3>3. rows'[p] = rows[p]
      BY <3>1, <3>2, <1>view, <1>rows
    <3> QED BY <3>1, <3>3, <1>0 DEF Core, DeletedRows
  <2>2. ASSUME NEW t \in Txs, NEW u \in Txs, t # u
        PROVE  deleted'[t] \cap deleted'[u] = {}
    BY <2>2, <1>0 DEF Core, DeletedRows
  <2> QED BY <2>1, <2>2 DEF DeletedRows
<1>past. ASSUME ~ Critical(c)
         PROVE  /\ deleted[c] = {} /\ ~ g /\ R[o] = row
                /\ row.mode = rows[o].mode /\ row.fence = rows[o].fence /\ row.count = rows[o].count
                /\ \A p \in Owners : R[p].mode = rows[p].mode
  <2>1. deleted[c] = {}
    BY <1>past, <1>types DEF Critical, Core, Shapes
  <2> QED BY <1>past, <2>1, <1>view
<1>4. Loaded'
  <2> SUFFICES ASSUME NEW d \in Calls, d # c, tx[d].at \in {"reenter", "insert"}
               PROVE  /\ tx[d].at = "reenter" => call[d].fence > 0
                      /\ tx[d].at = "insert" =>
                           /\ View(d)'[call[d].owner].mode = "none"
                           /\ \A p \in Owners : View(d)'[p].mode # "w"
                           /\ call[d].mode = "w" => \A p \in Owners : View(d)'[p].mode = "none"
    BY <1>0, <1>types DEF Loaded
  <2>1. ~ Critical(c)
    BY DEF Core, Serialized, Critical
  <2>2. \A p \in Owners : View(d)'[p].mode = View(d)[p].mode
    BY <2>1, <1>past, <1>0, <1>rows, <1>types DEF View
  <2>3. call[d].owner \in Owners
    BY DEF Core, Shapes
  <2> QED BY <2>2, <2>3 DEF Core, Loaded
<1>5. GrantsRun'
  <2>1. ASSUME NEW p \in Owners, p # o
        PROVE  /\ \/ granted'[p] = NotGranted
                  \/ granted'[p].mode # "none" /\ granted'[p].fence > 0 /\ granted'[p].until > now
               /\ granted'[p].ghost => rows'[p].fence # granted'[p].fence
    <3>1. rows'[p] = rows[p] \/ rows'[p] = NoRow
      BY <2>1, <1>rows, <1>view
    <3>2. granted'[p] = granted[p]
      BY <2>1, <1>granted
    <3>3. /\ \/ granted[p] = NotGranted
             \/ granted[p].mode # "none" /\ granted[p].fence > 0 /\ granted[p].until > now
          /\ granted[p].ghost => rows[p].fence # granted[p].fence
      BY DEF Core, GrantsRun
    <3>4. granted[p].ghost => granted[p].fence # 0
      <4>1. NotGranted.ghost = FALSE
        BY <1>types, Nothing
      <4>2. granted[p].fence > 0 => granted[p].fence # 0
        OBVIOUS
      <4> QED BY <3>3, <4>1, <4>2
    <3> QED BY <3>1, <3>2, <3>3, <3>4, RowFacts, <1>types
  <2>2. /\ \/ granted'[o] = NotGranted
           \/ granted'[o].mode # "none" /\ granted'[o].fence > 0 /\ granted'[o].until > now
        /\ granted'[o].ghost => rows'[o].fence # granted'[o].fence
    <3>1. CASE granted'[o] = NotGranted
      <4>1. NotGranted.ghost = FALSE
        BY <1>types, Nothing
      <4> QED BY <3>1, <4>1
    <3>2. CASE /\ row # NoRow /\ row.expires > now
               /\ granted'[o].mode = row.mode /\ granted'[o].fence = row.fence
               /\ granted'[o].until = row.expires /\ granted'[o].ghost = g
      <4>1. row.mode # "none" /\ row.fence > 0 /\ row.fence # 0
        BY <3>2, RowFacts, Constants
      <4>2. g => rows'[o].fence = 0
        BY <1>rows, RowFacts
      <4>3. granted'[o].ghost => rows'[o].fence # granted'[o].fence
        BY <3>2, <4>1, <4>2
      <4>4. granted'[o].mode # "none" /\ granted'[o].fence > 0 /\ granted'[o].until > now
        BY <3>2, <4>1, <1>types
      <4> QED BY <4>3, <4>4
    <3> QED BY <3>1, <3>2, <1>granted
  <2> QED BY <2>1, <2>2, <1>types DEF GrantsRun
<1>6. GrantsAreBacked'
  <2> SUFFICES ASSUME NEW p \in Owners, granted'[p].until > now, ~ granted'[p].ghost
               PROVE  rows'[p].mode = granted'[p].mode /\ rows'[p].fence = granted'[p].fence
                        /\ rows'[p].expires = granted'[p].until
    BY DEF GrantsAreBacked, Running
  <2>1. CASE p = o
    BY <2>1, <1>granted, <1>rows, <1>types, Nothing
  <2>2. CASE p # o
    <3>1. granted'[p] = granted[p]
      BY <2>2, <1>granted
    <3>2. rows[p].mode = granted[p].mode /\ rows[p].fence = granted[p].fence
            /\ rows[p].expires = granted[p].until
      BY <3>1 DEF Core, GrantsAreBacked, Running
    <3>3. p \notin deleted[c]
      <4>1. p \in deleted[c] => rows[p].expires <= tx[c].start /\ tx[c].start \in 0 .. now
        BY <1>types DEF Core, DeletedRows, TxType
      <4>2. rows[p].expires \in Nat /\ rows[p].expires > now
        BY <3>1, <3>2, <1>types, RowFacts
      <4> QED BY <4>1, <4>2, <1>types
    <3> QED BY <2>2, <3>1, <3>2, <3>3, <1>rows, <1>view
  <2> QED BY <2>1, <2>2
<1>7. Diagnosed'
  <2> SUFFICES ASSUME NEW d \in Calls, d # c, tx[d].at = "diagnose", Alive(d)'
               PROVE  rows'[call[d].owner].count > 1
    BY <1>0, <1>types DEF Diagnosed
  <2>1. ~ Critical(c)
    BY DEF Core, Serialized, Critical
  <2>2. call[d].owner \in Owners /\ tx'[d] = tx[d] /\ call'[d] = call[d]
        /\ call[d].mode # "none" /\ tx[d].start \in 0 .. now
    <3>1. tx[d] \in TxType /\ call[d] \in CallType
      BY <1>types
    <3>2. call[d].mode # "none" /\ tx[d].start \in 0 .. now
      BY <3>1 DEF CallType, TxType
    <3>3. call[d].owner \in Owners
      BY DEF Core, Shapes
    <3>4. tx'[d] = tx[d] /\ call'[d] = call[d]
      BY <1>0, <1>types
    <3> QED BY <3>2, <3>3, <3>4
  <2>3. Alive(d)
    <3>1. CASE call[d].owner # o
      BY <3>1, <2>2, <1>granted DEF Alive
    <3>2. CASE call[d].owner = o
      <4>1. /\ granted'[o].mode = call[d].mode /\ granted'[o].fence = call[d].fence
            /\ granted'[o].since < tx[d].start /\ ~ granted'[o].ghost
        BY <3>2, <2>2 DEF Alive
      <4>2. /\ row # NoRow /\ row.fence > 0 /\ granted'[o].fence = row.fence
            /\ granted'[o].since = IF granted[o].fence = row.fence THEN granted[o].since ELSE now
        BY <4>1, <2>2, <1>granted, Nothing, RowFacts, Constants, <1>types
      <4>3. granted[o].fence = row.fence /\ granted[o].since < tx[d].start
        BY <4>1, <4>2, <2>2, <1>types
      <4>4. row.fence = rows[o].fence /\ row.mode = rows[o].mode /\ granted'[o].mode = row.mode
        BY <2>1, <1>past, <1>granted, <4>1, <2>2, Nothing, <1>types
      <4>5. granted[o] # NotGranted /\ granted[o].until > now /\ ~ granted[o].ghost
        BY <4>2, <4>3, <4>4, Nothing, <1>types DEF Core, GrantsRun
      <4>6. rows[o].mode = granted[o].mode
        BY <4>5 DEF Core, GrantsAreBacked, Running
      <4> QED BY <3>2, <4>1, <4>2, <4>3, <4>4, <4>5, <4>6 DEF Alive
    <3> QED BY <3>1, <3>2
  <2>4. rows[call[d].owner].count > 1
    BY <2>3 DEF Core, Diagnosed
  <2>5. rows'[call[d].owner].count = rows[call[d].owner].count
    BY <2>1, <2>2, <1>past, <1>rows, <1>view
  <2> QED BY <2>4, <2>5
<1>8. RowsExclude'
  BY <1>rows DEF RowsExclude
<1> QED
  BY <1>0, <1>1, <1>2, <1>3, <1>4, <1>5, <1>6, <1>7, <1>8 DEF Core

-----------------------------------------------------------------------------
(* The steps of a transaction before its end.                              *)

(* A step of transaction t that writes nothing.                            *)
LEMMA MoveKeeps ==
  ASSUME Core, NEW t \in Txs,
         tx' \in [Txs -> TxType], deleted' \in [Txs -> SUBSET Owners],
         \A u \in Txs \ {t} : tx'[u] = tx[u] /\ deleted'[u] = deleted[u],
         call' \in [Calls -> CallType], \A d \in Calls \ {t} : call'[d] = call[d],
         UNCHANGED <<rows, seq, now, granted, issued, schemaReady>>,
         faults' \in 0 .. MaxFaults, made' \in 0 .. MaxCalls, advisory' \in Calls \cup {Nobody},
         answer'.result = "none" /\ answer'.unread \in BOOLEAN,
         Counting', Shapes', Serialized',
         \A o \in deleted'[t] : rows[o] # NoRow /\ rows[o].expires <= tx'[t].start,
         \A u \in Txs \ {t} : deleted'[t] \cap deleted[u] = {},
         t \in Calls =>
           /\ tx'[t].at = "reenter" => call'[t].fence > 0
           /\ tx'[t].at = "insert" =>
                /\ View(t)'[call'[t].owner].mode = "none"
                /\ \A p \in Owners : View(t)'[p].mode # "w"
                /\ call'[t].mode = "w" => \A p \in Owners : View(t)'[p].mode = "none"
           /\ tx'[t].at = "diagnose" /\ Alive(t)' => rows[call'[t].owner].count > 1
  PROVE  Core'
<1>types. /\ rows \in [Owners -> Row \cup {NoRow}] /\ seq \in 0 .. MaxCalls
          /\ Calls \subseteq Txs /\ now \in 0 .. MaxTime /\ granted \in [Owners -> GrantType]
          /\ issued \in [Owners -> SUBSET (1 .. seq)] /\ schemaReady \in BOOLEAN
          /\ tx \in [Txs -> TxType] /\ deleted \in [Txs -> SUBSET Owners]
  BY Constants, TypeOKSplit DEF Core
<1>1. TypeOK'
  <2>1. TxType' = TxType /\ GrantType' = GrantType
    BY DEF TxType, GrantType
  <2> QED BY <2>1, <1>types DEF TypeOK, TxType, Todos, CallType, GrantType
<1>2. DeletedRows'
  BY DEF Core, DeletedRows
<1>3. Loaded' /\ Diagnosed'
  <2>1. ASSUME NEW d \in Calls, d # t
        PROVE  /\ tx'[d] = tx[d] /\ call'[d] = call[d] /\ View(d)' = View(d)
               /\ Alive(d)' = Alive(d)
    BY <2>1, <1>types DEF View, Alive
  <2>2. Loaded'
    BY <2>1 DEF Core, Loaded
  <2>3. Diagnosed'
    BY <2>1 DEF Core, Diagnosed
  <2> QED BY <2>2, <2>3
<1>4. GrantsRun' /\ RowsExclude' /\ GrantsAreBacked'
  BY DEF Core, GrantsRun, RowsExclude, GrantsAreBacked, Running
<1> QED
  BY <1>1, <1>2, <1>3, <1>4 DEF Core

(* Where no call begins or ends, the counts stand.                         *)
LEMMA CountingStays ==
  ASSUME Counting, Pending' = Pending, UNCHANGED <<rows, seq, made>>
  PROVE  Counting'
BY DEF Counting

(* The ways in which a statement moves a transaction on.                   *)
LEMMA StartedTx ==
  ASSUME now \in Nat, NEW y \in TxType, NEW l \in Labels
  PROVE  LET x == [y EXCEPT !.at = l, !.start = now]
         IN  x \in TxType /\ x.at = l /\ x.start = now
<1> DEFINE z == [y EXCEPT !.at = l]
<1>1. z \in TxType /\ z.at = l
  BY DEF TxType
<1>2. [y EXCEPT !.at = l, !.start = now] = [z EXCEPT !.start = now]
  BY DEF z
<1> HIDE DEF z
<1>3. [z EXCEPT !.start = now] \in TxType /\ [z EXCEPT !.start = now].at = l /\ [z EXCEPT !.start = now].start = now
  BY <1>1 DEF TxType
<1> QED
  BY <1>2, <1>3

LEMMA BeginCore ==
  ASSUME Core, NEW c \in Calls, NEW args \in CallType, args.owner \in Owners, args.op # "none",
         Begin(c, args)
  PROVE  Core'
<1>types. /\ tx \in [Txs -> TxType] /\ call \in [Calls -> CallType] /\ deleted \in [Txs -> SUBSET Owners]
          /\ advisory \in Calls \cup {Nobody} /\ Calls \subseteq Txs /\ c \in Txs /\ c # Reaper
          /\ Reaper \in Txs /\ now \in Nat /\ made \in 0 .. MaxCalls /\ faults \in 0 .. MaxFaults
  BY Constants, TypeOKSplit DEF Core
<1> DEFINE label == IF args.op = "refresh" THEN "mutate" ELSE "serialize"
           x == [tx[c] EXCEPT !.at = label, !.start = now]
<1>1. /\ tx[c].at = "idle" /\ made < MaxCalls /\ made' = made + 1
      /\ tx' = [tx EXCEPT ![c] = x] /\ call' = [call EXCEPT ![c] = args] /\ answer' = NoAnswer
      /\ UNCHANGED <<schemaReady, rows, seq, now, advisory, deleted, granted, issued, faults>>
  BY DEF Begin
<1>l. label \in Labels /\ label \notin {"reenter", "insert", "diagnose"}
  BY DEF Labels
<1>2. x \in TxType /\ x.at = label /\ x.start = now
  <2> HIDE DEF label
  <2> QED BY <1>l, <1>types, StartedTx
<1>3. deleted[c] = {} /\ deleted' = [deleted EXCEPT ![c] = {}]
  BY <1>1, <1>types DEF Core, Shapes
<1>4. /\ tx'[c] = x /\ call'[c] = args
      /\ \A t \in Txs \ {c} : tx'[t] = tx[t]
      /\ \A d \in Calls \ {c} : call'[d] = call[d]
      /\ call' \in [Calls -> CallType]
  BY <1>1, <1>types
<1> HIDE DEF x
<1>5. Counting'
  <2>1. Pending' = Pending \cup {c} /\ c \notin Pending
    BY <1>1, <1>2, <1>4, <1>types DEF Pending
  <2>2. IsFiniteSet(Pending)
    BY DEF Core, Counting
  <2>3. IsFiniteSet(Pending') /\ Cardinality(Pending') = Cardinality(Pending) + 1 /\ Cardinality(Pending) \in Nat
    BY <2>1, <2>2, FS_AddElement, FS_CardinalityType
  <2>4. seq \in Nat /\ \A o \in Owners : rows[o].count \in Nat
    BY Constants, TypeOKSplit, RowFacts DEF Core
  <2> QED BY <2>3, <2>4, <1>1, <1>types, Constants DEF Core, Counting
<1>6. Shapes'
  <2>1. args.op \in {"acquire", "refresh", "release", "downgrade"}
    BY DEF CallType
  <2> QED BY <2>1, <1>1, <1>2, <1>3, <1>4, <1>types DEF Core, Shapes
<1>7. Serialized'
  <2>1. ASSUME NEW d \in Calls, Critical(d)' PROVE d # c /\ Critical(d)
    BY <2>1, <1>2, <1>4, <1>types DEF Critical
  <2> QED BY <2>1, <1>1 DEF Core, Serialized
<1>8. answer'.result = "none" /\ answer'.unread \in BOOLEAN /\ made' \in 0 .. MaxCalls
  BY <1>1, <1>types, Nothing, Constants
<1>9. tx'[c].at \notin {"reenter", "insert", "diagnose"}
  BY <1>2, <1>4, <1>l
<1> HIDE DEF label
<1>10. /\ tx' \in [Txs -> TxType] /\ deleted' \in [Txs -> SUBSET Owners] /\ deleted'[c] = {}
       /\ \A u \in Txs \ {c} : tx'[u] = tx[u] /\ deleted'[u] = deleted[u]
       /\ call' \in [Calls -> CallType] /\ \A d \in Calls \ {c} : call'[d] = call[d]
       /\ UNCHANGED <<rows, seq, now, granted, issued, schemaReady>>
       /\ faults' \in 0 .. MaxFaults /\ made' \in 0 .. MaxCalls /\ advisory' \in Calls \cup {Nobody}
  BY <1>1, <1>2, <1>3, <1>4, <1>8, <1>types
<1> QED
  BY <1>5, <1>6, <1>7, <1>8, <1>9, <1>10, <1>types, MoveKeeps

LEMMA SerializeCore == ASSUME Core, NEW c \in Calls, Serialize(c) PROVE Core'
<1>types. /\ tx \in [Txs -> TxType] /\ call \in [Calls -> CallType] /\ deleted \in [Txs -> SUBSET Owners]
          /\ rows \in [Owners -> Row \cup {NoRow}] /\ Calls \subseteq Txs /\ c \in Txs /\ c # Reaper
          /\ Reaper \in Txs /\ now \in Nat /\ made \in 0 .. MaxCalls /\ faults \in 0 .. MaxFaults
          /\ c # Nobody
  BY Constants, TypeOKSplit DEF Core
<1> DEFINE label == IF call[c].op = "acquire" THEN "delete" ELSE "mutate"
           lapsed == IF call[c].op = "acquire" THEN Lapsed(tx[c].start) ELSE {}
           x == [tx[c] EXCEPT !.at = label, !.todo = lapsed]
<1>1. /\ tx[c].at = "serialize" /\ advisory = Nobody /\ advisory' = c
      /\ tx' = [tx EXCEPT ![c] = x] /\ answer' = NoAnswer
      /\ UNCHANGED <<rows, seq, now, deleted, call, granted, issued, made, schemaReady, faults>>
  BY DEF Serialize
<1>l. label \in Labels /\ label \notin {"reenter", "insert", "diagnose"}
  BY DEF Labels
<1>2. x \in TxType /\ x.at = label /\ x.start = tx[c].start
  <2>1. \A p \in Owners : rows[p] # NoRow => rows[p].fence \in 1 .. MaxCalls
    BY <1>types, RowFacts
  <2>2. lapsed \in Todos
    BY <2>1 DEF Lapsed, Todos
  <2>3. tx[c] \in TxType
    BY <1>types
  <2> DEFINE z == [tx[c] EXCEPT !.at = label]
  <2>4. z \in TxType /\ z.at = label /\ z.start = tx[c].start
    <3> HIDE DEF label
    <3> QED BY <2>3, <1>l DEF TxType
  <2>5. x = [z EXCEPT !.todo = lapsed]
    OBVIOUS
  <2> HIDE DEF z, x, lapsed, label
  <2> QED BY <2>2, <2>4, <2>5 DEF TxType
<1>3. deleted[c] = {} /\ deleted' = [deleted EXCEPT ![c] = {}]
  BY <1>1, <1>types DEF Core, Shapes
<1>4. tx'[c] = x /\ \A t \in Txs \ {c} : tx'[t] = tx[t]
  BY <1>1, <1>types
<1> HIDE DEF x
<1>5. Counting'
  <2>1. Pending' = Pending
    BY <1>1, <1>2, <1>4, <1>types DEF Pending
  <2> QED BY <2>1, <1>1, CountingStays DEF Core
<1>6. Shapes'
  BY <1>1, <1>2, <1>3, <1>4, <1>types DEF Core, Shapes
<1>7. Serialized'
  <2>1. ASSUME NEW d \in Calls, d # c, Critical(d)' PROVE FALSE
    <3>1. Critical(d)
      BY <2>1, <1>1, <1>4, <1>types DEF Critical
    <3> QED BY <3>1, <1>1, Constants DEF Core, Serialized
  <2> QED BY <2>1, <1>1 DEF Serialized
<1>8. answer'.result = "none" /\ answer'.unread \in BOOLEAN
  BY <1>1, <1>types, Nothing
<1>9. tx'[c].at \notin {"reenter", "insert", "diagnose"}
  BY <1>2, <1>4, <1>l
<1> HIDE DEF label
<1>10. /\ tx' \in [Txs -> TxType] /\ deleted' \in [Txs -> SUBSET Owners] /\ deleted'[c] = {}
       /\ \A u \in Txs \ {c} : tx'[u] = tx[u] /\ deleted'[u] = deleted[u]
       /\ call' \in [Calls -> CallType] /\ \A d \in Calls \ {c} : call'[d] = call[d]
       /\ UNCHANGED <<rows, seq, now, granted, issued, schemaReady>>
       /\ faults' \in 0 .. MaxFaults /\ made' \in 0 .. MaxCalls /\ advisory' \in Calls \cup {Nobody}
  BY <1>1, <1>2, <1>3, <1>4, <1>8, <1>types
<1> QED
  BY <1>5, <1>6, <1>7, <1>8, <1>9, <1>10, <1>types, MoveKeeps

LEMMA DeleteRowCore == ASSUME Core, NEW t \in Txs, DeleteRow(t) PROVE Core'
<1>types. /\ tx \in [Txs -> TxType] /\ call \in [Calls -> CallType] /\ deleted \in [Txs -> SUBSET Owners]
          /\ rows \in [Owners -> Row \cup {NoRow}] /\ Calls \subseteq Txs
          /\ Reaper \in Txs /\ now \in Nat /\ made \in 0 .. MaxCalls /\ faults \in 0 .. MaxFaults
          /\ advisory \in Calls \cup {Nobody}
  BY Constants, TypeOKSplit DEF Core
<1>1. PICK d \in tx[t].todo :
        /\ ~ Locked(t, d[1])
        /\ deleted' = [deleted EXCEPT ![t] = IF d \in Lapsed(tx[t].start) THEN @ \cup {d[1]} ELSE @]
        /\ tx' = [tx EXCEPT ![t].todo = @ \ {d}]
  BY DEF DeleteRow
<1>2. /\ tx[t].at = "delete" /\ answer' = NoAnswer
      /\ UNCHANGED <<rows, seq, now, advisory, call, granted, issued, made, schemaReady, faults>>
  BY DEF DeleteRow
<1> DEFINE x == [tx[t] EXCEPT !.todo = @ \ {d}]
           D == IF d \in Lapsed(tx[t].start) THEN deleted[t] \cup {d[1]} ELSE deleted[t]
<1>3. tx' = [tx EXCEPT ![t] = x] /\ deleted' = [deleted EXCEPT ![t] = D]
  BY <1>1
<1>4. x \in TxType /\ x.at = "delete" /\ x.start = tx[t].start
  BY <1>2, <1>types DEF TxType, Todos
<1>5. d \in Lapsed(tx[t].start) =>
        d[1] \in Owners /\ rows[d[1]] # NoRow /\ rows[d[1]].expires <= tx[t].start
  BY DEF Lapsed
<1>6. /\ D \in SUBSET Owners
      /\ \A o \in D : rows[o] # NoRow /\ rows[o].expires <= x.start
      /\ \A u \in Txs \ {t} : D \cap deleted[u] = {}
  <2>1. deleted[t] \in SUBSET Owners
    BY <1>types
  <2>2. \A u \in Txs \ {t} : d[1] \notin deleted[u]
    BY <1>1 DEF Locked
  <2> HIDE DEF x
  <2> QED BY <2>1, <2>2, <1>4, <1>5 DEF Core, DeletedRows
<1>7. /\ tx'[t] = x /\ \A u \in Txs \ {t} : tx'[u] = tx[u]
      /\ deleted'[t] = D /\ \A u \in Txs \ {t} : deleted'[u] = deleted[u]
  BY <1>3, <1>types
<1> HIDE DEF x, D
<1>8. Counting'
  <2>1. Pending' = Pending
    BY <1>2, <1>4, <1>7, <1>types DEF Pending
  <2> QED BY <2>1, <1>2, CountingStays DEF Core
<1>9. Shapes'
  BY <1>2, <1>4, <1>7, <1>types DEF Core, Shapes
<1>10. Serialized'
  <2>1. ASSUME NEW c \in Calls, Critical(c)' PROVE Critical(c)
    BY <2>1, <1>2, <1>4, <1>7, <1>types DEF Critical
  <2> QED BY <2>1, <1>2 DEF Core, Serialized
<1>11. answer'.result = "none" /\ answer'.unread \in BOOLEAN
  BY <1>2, <1>types, Nothing
<1>12. /\ tx' \in [Txs -> TxType] /\ deleted' \in [Txs -> SUBSET Owners]
       /\ \A u \in Txs \ {t} : tx'[u] = tx[u] /\ deleted'[u] = deleted[u]
       /\ \A o \in deleted'[t] : rows[o] # NoRow /\ rows[o].expires <= tx'[t].start
       /\ \A u \in Txs \ {t} : deleted'[t] \cap deleted[u] = {}
       /\ call' \in [Calls -> CallType] /\ \A c \in Calls \ {t} : call'[c] = call[c]
       /\ UNCHANGED <<rows, seq, now, granted, issued, schemaReady>>
       /\ faults' \in 0 .. MaxFaults /\ made' \in 0 .. MaxCalls /\ advisory' \in Calls \cup {Nobody}
  BY <1>2, <1>3, <1>4, <1>6, <1>7, <1>types
<1>13. tx'[t].at \notin {"reenter", "insert", "diagnose"}
  BY <1>4, <1>7
<1> QED
  BY <1>8, <1>9, <1>10, <1>11, <1>12, <1>13, MoveKeeps

(* What the answer of the switch says of the rows.                         *)
LEMMA VerdictFacts ==
  ASSUME Core, NEW c \in Calls, NEW o \in Owners, o = call[c].owner
  PROVE  /\ Verdict(c) = "reenter" => View(c)[o].mode = call[c].mode
         /\ Verdict(c) = "insert" =>
              /\ View(c)[o].mode = "none"
              /\ \A p \in Owners : View(c)[p].mode # "w"
              /\ call[c].mode = "w" => \A p \in Owners : View(c)[p].mode = "none"
         /\ Verdict(c) = "ErrHeld" =>
              \E p \in Owners \ {o} : View(c)[p] # NoRow /\ "w" \in {call[c].mode, View(c)[p].mode}
         /\ Verdict(c) = "ErrModeConflict" => View(c)[o].mode \notin {"none", call[c].mode}
         /\ Verdict(c) \in {"reenter", "insert", "ErrHeld", "ErrModeConflict"}
<1> DEFINE V == View(c)
           in(m) == {p \in Owners : V[p].mode = m}
<1>1. \A p \in Owners : V[p].mode \in {"w", "r", "none"} /\ (V[p] = NoRow <=> V[p].mode = "none")
  BY ViewFacts, RowFacts, TypeOKSplit DEF Core
<1>2. Verdict(c) = IF V[o].mode # "w" /\ in("w") # {} THEN "ErrHeld"
                   ELSE IF V[o].mode = call[c].mode THEN "reenter"
                   ELSE IF V[o].mode # "none" THEN "ErrModeConflict"
                   ELSE IF call[c].mode = "w" /\ in("r") # {} THEN "ErrHeld"
                   ELSE "insert"
  BY DEF Verdict
<1> HIDE DEF V
<1>3. CASE V[o].mode # "w" /\ in("w") # {}
  <2>1. PICK p \in Owners : V[p].mode = "w"
    BY <1>3
  <2> QED BY <1>1, <1>2, <1>3, <2>1 DEF V
<1>4. CASE ~ (V[o].mode # "w" /\ in("w") # {}) /\ V[o].mode = call[c].mode
  BY <1>2, <1>4 DEF V
<1>5. CASE ~ (V[o].mode # "w" /\ in("w") # {}) /\ V[o].mode # call[c].mode /\ V[o].mode # "none"
  BY <1>2, <1>5 DEF V
<1>6. CASE ~ (V[o].mode # "w" /\ in("w") # {}) /\ V[o].mode # call[c].mode /\ V[o].mode = "none"
  <2>1. \A p \in Owners : V[p].mode # "w"
    BY <1>6
  <2>2. CASE call[c].mode = "w" /\ in("r") # {}
    <3>1. PICK p \in Owners : V[p].mode = "r"
      BY <2>2
    <3> QED BY <1>1, <1>2, <1>6, <2>2, <3>1 DEF V
  <2>3. CASE ~ (call[c].mode = "w" /\ in("r") # {})
    BY <1>1, <1>2, <1>6, <2>1, <2>3 DEF V
  <2> QED BY <2>2, <2>3
<1> QED
  BY <1>3, <1>4, <1>5, <1>6

LEMMA LoadedCore ==
  ASSUME Core, NEW c \in Calls, tx[c].at = "delete", Verdict(c) \in {"reenter", "insert"},
         Goto(c, Verdict(c)),
         call' = [call EXCEPT ![c].fence = View(c)[call[c].owner].fence],
         answer' = NoAnswer,
         UNCHANGED <<rows, seq, advisory, deleted, granted, issued, now, made, schemaReady, faults>>
  PROVE  Core'
<1>types. /\ tx \in [Txs -> TxType] /\ call \in [Calls -> CallType] /\ deleted \in [Txs -> SUBSET Owners]
          /\ rows \in [Owners -> Row \cup {NoRow}] /\ Calls \subseteq Txs /\ c \in Txs /\ c # Reaper
          /\ Reaper \in Txs /\ now \in Nat /\ made \in 0 .. MaxCalls /\ faults \in 0 .. MaxFaults
          /\ advisory \in Calls \cup {Nobody}
  BY Constants, TypeOKSplit DEF Core
<1>0. call[c].owner \in Owners /\ call[c].op = "acquire"
  BY DEF Core, Shapes
<1> DEFINE o == call[c].owner
           fence == View(c)[o].fence
           label == Verdict(c)
<1>1. fence \in 0 .. MaxCalls /\ (View(c)[o].mode # "none" => fence > 0)
  <2> DEFINE v == View(c)[o]
  <2>1. v \in Row \cup {NoRow}
    BY <1>0, <1>types, ViewFacts
  <2> HIDE DEF v
  <2>2. v.fence \in 0 .. MaxCalls /\ (v.mode # "none" => v.fence > 0)
    BY <2>1, RowFacts, Constants
  <2> QED BY <2>2 DEF v
<1>2. /\ tx' \in [Txs -> TxType] /\ tx'[c].at = label /\ tx'[c].start = tx[c].start
      /\ \A t \in Txs \ {c} : tx'[t] = tx[t]
  <2> HIDE DEF label
  <2>1. label \in Labels /\ tx' = [tx EXCEPT ![c].at = label]
    BY DEF Goto, Labels, label
  <2>2. [tx[c] EXCEPT !.at = label] \in TxType /\ [tx[c] EXCEPT !.at = label].at = label
        /\ [tx[c] EXCEPT !.at = label].start = tx[c].start
    BY <2>1, <1>types DEF TxType
  <2> QED BY <2>1, <2>2, <1>types
<1>3. /\ call' \in [Calls -> CallType]
      /\ call'[c].fence = fence /\ call'[c].owner = o /\ call'[c].op = "acquire"
      /\ call'[c].mode = call[c].mode
      /\ \A d \in Calls \ {c} : call'[d] = call[d]
  <2>1. call' = [call EXCEPT ![c].fence = fence]
    OBVIOUS
  <2> HIDE DEF fence
  <2>2. LET y == [call[c] EXCEPT !.fence = fence]
        IN  y \in CallType /\ y.fence = fence /\ y.owner = o /\ y.op = "acquire" /\ y.mode = call[c].mode
    BY <1>0, <1>1, <1>types DEF CallType
  <2> QED BY <2>1, <2>2, <1>types
<1>4. /\ label \in {"reenter", "insert"}
      /\ label = "reenter" => View(c)[o].mode = call[c].mode
      /\ label = "insert" =>
           /\ View(c)[o].mode = "none"
           /\ \A p \in Owners : View(c)[p].mode # "w"
           /\ call[c].mode = "w" => \A p \in Owners : View(c)[p].mode = "none"
  BY <1>0, VerdictFacts
<1>mode. call[c].mode # "none"
  BY <1>types DEF CallType
<1> HIDE DEF label, fence
<1>5. Counting'
  <2>1. Pending' = Pending
    BY <1>2, <1>4, <1>types DEF Pending
  <2> QED BY <2>1, CountingStays DEF Core
<1>6. Shapes'
  BY <1>0, <1>2, <1>3, <1>4, <1>types DEF Core, Shapes
<1>7. Serialized'
  <2>1. ASSUME NEW d \in Calls, Critical(d)' PROVE Critical(d)
    BY <2>1, <1>2, <1>3, <1>4, <1>types DEF Critical
  <2> QED BY <2>1 DEF Core, Serialized
<1>8. answer'.result = "none" /\ answer'.unread \in BOOLEAN
  BY <1>types, Nothing
<1>9. View(c)' = View(c)
  BY DEF View
<1>10. /\ deleted' \in [Txs -> SUBSET Owners]
       /\ \A u \in Txs \ {c} : tx'[u] = tx[u] /\ deleted'[u] = deleted[u]
       /\ faults' \in 0 .. MaxFaults /\ made' \in 0 .. MaxCalls /\ advisory' \in Calls \cup {Nobody}
       /\ \A p \in deleted'[c] : rows[p] # NoRow /\ rows[p].expires <= tx'[c].start
       /\ \A u \in Txs \ {c} : deleted'[c] \cap deleted[u] = {}
  BY <1>2, <1>types DEF Core, DeletedRows
<1>11. /\ tx'[c].at = "reenter" => call'[c].fence > 0
       /\ tx'[c].at = "insert" =>
            /\ View(c)'[call'[c].owner].mode = "none"
            /\ \A p \in Owners : View(c)'[p].mode # "w"
            /\ call'[c].mode = "w" => \A p \in Owners : View(c)'[p].mode = "none"
       /\ tx'[c].at # "diagnose"
  BY <1>1, <1>2, <1>3, <1>4, <1>9, <1>mode
<1> QED
  BY <1>2, <1>3, <1>5, <1>6, <1>7, <1>8, <1>10, <1>11, <1>types, MoveKeeps

(* A call that is refused has written nothing.                             *)
LEMMA RefuseCore ==
  ASSUME Core, NEW c \in Calls, NEW err \in {"ErrHeld", "ErrModeConflict", "ErrNotOwner"}, NEW unread \in BOOLEAN,
         Refuse(c, err, unread), tx[c].at # "idle",
         UNCHANGED <<now, made, schemaReady>>, faults' \in 0 .. MaxFaults
  PROVE  Core'
<1>1. /\ End(c, rows) /\ UNCHANGED <<seq, granted, issued>>
      /\ answer'.result = err /\ answer'.unread \in BOOLEAN
  BY DEF Refuse
<1>2. seq' \in {seq, seq + 1}
  BY <1>1
<1> QED
  BY <1>1, <1>2, EndKeeps

LEMMA LoadCore == ASSUME Core, NEW c \in Calls, Load(c) PROVE Core'
<1>1. tx[c].at = "delete" /\ UNCHANGED <<now, made, schemaReady, faults>>
  BY DEF Load
<1>2. faults' \in 0 .. MaxFaults
  BY <1>1, TypeOKSplit DEF Core
<1>3. CASE /\ Verdict(c) \in {"reenter", "insert"}
           /\ Goto(c, Verdict(c))
           /\ call' = [call EXCEPT ![c].fence = View(c)[call[c].owner].fence]
           /\ answer' = NoAnswer
           /\ UNCHANGED <<rows, seq, advisory, deleted, granted, issued>>
  BY <1>1, <1>3, LoadedCore
<1>4. CASE Verdict(c) \in {"ErrHeld", "ErrModeConflict"} /\ Refuse(c, Verdict(c), FALSE)
  BY <1>1, <1>2, <1>4, RefuseCore
<1> QED
  BY <1>3, <1>4 DEF Load

(* A call under way counts, so there is room for one more fence and count. *)
LEMMA Room ==
  ASSUME Core, NEW c \in Calls, tx[c].at # "idle"
  PROVE  /\ Cardinality(Pending) \in Nat \ {0}
         /\ made \in 0 .. MaxCalls /\ seq \in 0 .. MaxCalls
         /\ seq + Cardinality(Pending) <= made
         /\ \A o \in Owners : /\ rows[o].count \in Nat
                              /\ rows[o].count + Cardinality(Pending) <= made
<1>1. c \in Pending /\ IsFiniteSet(Pending)
  BY DEF Pending, Core, Counting
<1>2. Cardinality(Pending) \in Nat /\ Cardinality(Pending) # 0
  BY <1>1, FS_CardinalityType, FS_EmptySet
<1>3. \A o \in Owners : rows[o].count \in Nat
  BY TypeOKSplit, RowFacts, Constants DEF Core
<1> QED
  BY <1>2, <1>3, TypeOKSplit DEF Core, Counting

LEMMA CallFacts ==
  ASSUME Core, NEW c \in Calls
  PROVE  /\ call[c].mode \in {"w", "r"} /\ call[c].fence \in 0 .. MaxCalls
         /\ call[c].lease \in Nat /\ tx[c].start \in 0 .. now /\ tx[c].start \in Nat
<1>1. call[c] \in CallType /\ tx[c] \in TxType /\ now \in Nat
  BY Constants, TypeOKSplit DEF Core
<1>2. call[c].lease \in Leases \cup {0} /\ tx[c].start \in 0 .. now
  BY <1>1 DEF CallType, TxType
<1>3. tx[c].start \in Nat
  BY <1>1, <1>2
<1>4. call[c].lease \in Nat
  <2>1. CASE call[c].lease \in Leases
    BY <2>1, Constants
  <2>2. CASE call[c].lease = 0
    BY <2>2
  <2> QED BY <1>2, <2>1, <2>2
<1> QED
  BY <1>1, <1>2, <1>3, <1>4 DEF CallType

LEMMA ReenterCore == ASSUME Core, NEW c \in Calls, Reenter(c) PROVE Core'
<1> DEFINE o     == call[c].owner
           until == tx[c].start + call[c].lease
           more  == [rows[o] EXCEPT !.count = @ + 1, !.expires = until]
           ghost == [mode |-> call[c].mode, count |-> 1, fence |-> call[c].fence, expires |-> until]
<1>1. /\ tx[c].at = "reenter" /\ ~ Locked(c, o)
      /\ UNCHANGED <<seq, now, issued, made, schemaReady, faults>>
  BY DEF Reenter
<1>types. /\ tx \in [Txs -> TxType] /\ call \in [Calls -> CallType] /\ deleted \in [Txs -> SUBSET Owners]
          /\ rows \in [Owners -> Row \cup {NoRow}] /\ Calls \subseteq Txs /\ c \in Txs
          /\ issued \in [Owners -> SUBSET (1 .. seq)] /\ now \in Nat /\ Leases \subseteq Nat
  BY Constants, TypeOKSplit DEF Core
<1>2. o \in Owners /\ call[c].fence > 0 /\ Critical(c)
  BY <1>1 DEF Core, Shapes, Loaded, Critical
<1>3. until \in Nat
  BY CallFacts, <1>types
<1>4. \A u \in Txs \ {c} : o \notin deleted[u]
  BY <1>1 DEF Locked
<1>5. /\ Cardinality(Pending) \in Nat \ {0} /\ made \in 0 .. MaxCalls
      /\ rows[o].count \in Nat /\ rows[o].count + Cardinality(Pending) <= made
  BY <1>1, <1>2, Room
<1>view. /\ View(c) \in [Owners -> Row \cup {NoRow}]
         /\ \A p \in Owners : View(c)[p] = IF p \in deleted[c] THEN NoRow ELSE rows[p]
  BY <1>types, ViewFacts
<1>seq. seq' \in {seq, seq + 1} /\ issued' \in [Owners -> SUBSET (1 .. seq')]
  BY <1>1, <1>types
<1>6. CASE rows[o] # NoRow /\ Commit(c, [View(c) EXCEPT ![o] = more]) /\ Grant(o, more, FALSE)
  <2> DEFINE R == [View(c) EXCEPT ![o] = more]
  <2>1. rows[o] \in Row /\ rows[o].count + 1 <= MaxCalls
    BY <1>2, <1>5, <1>6, <1>types, Constants
  <2>2. more \in Row /\ more.mode = rows[o].mode /\ more.count = rows[o].count + 1
    <3> HIDE DEF until, o
    <3> QED BY <2>1, <1>3, ReenteredRow
  <2> HIDE DEF more
  <2>3. R \in [Owners -> Row \cup {NoRow}] /\ R[o] = more
        /\ \A p \in Owners \ {o} : R[p] = View(c)[p]
    BY <1>2, <1>view, <2>2
  <2>4. Commit(c, R) /\ Grant(o, more, FALSE)
    BY <1>6
  <2> HIDE DEF R, o
  <2>5. \A p, q \in Owners : p # q /\ R[p].mode = "w" => R[q] = NoRow
    <3> SUFFICES ASSUME NEW p \in Owners, NEW q \in Owners, p # q, R[p].mode = "w"
                 PROVE  R[q] = NoRow
      OBVIOUS
    <3>1. rows[p].mode = "w"
      BY <2>2, <2>3, <1>view, RowFacts
    <3>2. rows[q] = NoRow /\ q # o
      BY <3>1, <1>6 DEF Core, RowsExclude
    <3> QED BY <3>2, <2>3, <1>view
  <2>6. R[o].count + Cardinality(Pending) <= made + 1
    BY <2>2, <2>3, <1>5, Constants
  <2> QED BY <1>1, <1>2, <1>4, <1>seq, <2>2, <2>3, <2>4, <2>5, <2>6, CommitKeeps DEF o
<1>7. CASE rows[o] = NoRow /\ Commit(c, View(c)) /\ Grant(o, ghost, TRUE)
  <2>1. ghost \in Row
    <3>1. call[c].mode \in {"w", "r"} /\ call[c].fence \in 1 .. MaxCalls /\ 1 \in 1 .. MaxCalls
      BY <1>2, <1>5, <1>types, Constants DEF CallType
    <3> QED BY <3>1, <1>3 DEF Row
  <2> HIDE DEF ghost
  <2>2. ghost # NoRow
    BY <2>1, RowFacts DEF Row
  <2>3. View(c)[o] = NoRow
    BY <1>2, <1>7, <1>view
  <2>4. \A p, q \in Owners : p # q /\ View(c)[p].mode = "w" => View(c)[q] = NoRow
    BY <1>view, RowFacts DEF Core, RowsExclude
  <2>5. View(c)[o].count + Cardinality(Pending) <= made + 1
    BY <2>3, <1>5, RowFacts, Constants
  <2> HIDE DEF o
  <2> QED BY <1>1, <1>2, <1>4, <1>7, <1>seq, <1>view, <2>1, <2>2, <2>3, <2>4, <2>5, CommitKeeps DEF o
<1> QED
  BY <1>6, <1>7 DEF Reenter

LEMMA InsertCore == ASSUME Core, NEW c \in Calls, Insert(c) PROVE Core'
<1> DEFINE o   == call[c].owner
           new == [mode |-> call[c].mode, count |-> 1, fence |-> seq + 1,
                   expires |-> tx[c].start + call[c].lease]
           R   == [View(c) EXCEPT ![o] = new]
<1>1. /\ tx[c].at = "insert" /\ seq' = seq + 1
      /\ issued' = [issued EXCEPT ![o] = @ \cup {seq + 1}]
      /\ Commit(c, R) /\ Grant(o, new, FALSE)
      /\ UNCHANGED <<now, made, schemaReady, faults>>
  BY DEF Insert
<1>types. /\ tx \in [Txs -> TxType] /\ call \in [Calls -> CallType] /\ deleted \in [Txs -> SUBSET Owners]
          /\ rows \in [Owners -> Row \cup {NoRow}] /\ Calls \subseteq Txs /\ c \in Txs
          /\ issued \in [Owners -> SUBSET (1 .. seq)] /\ now \in Nat /\ Leases \subseteq Nat
  BY Constants, TypeOKSplit DEF Core
<1>2. /\ o \in Owners /\ Critical(c)
      /\ View(c)[o].mode = "none"
      /\ \A p \in Owners : View(c)[p].mode # "w"
      /\ call[c].mode = "w" => \A p \in Owners : View(c)[p].mode = "none"
  BY <1>1 DEF Core, Shapes, Loaded, Critical
<1>3. /\ Cardinality(Pending) \in Nat \ {0} /\ made \in 0 .. MaxCalls /\ seq \in 0 .. MaxCalls
      /\ seq + Cardinality(Pending) <= made
  BY <1>1, Room
<1>view. /\ View(c) \in [Owners -> Row \cup {NoRow}]
         /\ \A p \in Owners : View(c)[p] = IF p \in deleted[c] THEN NoRow ELSE rows[p]
  BY <1>types, ViewFacts
<1>4. new \in Row /\ new.mode = call[c].mode /\ new.count = 1
  <2>1. call[c].mode \in {"w", "r"} /\ seq + 1 \in 1 .. MaxCalls /\ 1 \in 1 .. MaxCalls
        /\ tx[c].start + call[c].lease \in Nat
    BY <1>3, CallFacts, Constants
  <2> QED BY <2>1 DEF Row
<1>5. \A u \in Txs \ {c} : o \notin deleted[u]
  <2> SUFFICES ASSUME NEW u \in Txs, u # c, o \in deleted[u] PROVE FALSE
    OBVIOUS
  <2>1. rows[o] # NoRow /\ o \notin deleted[c]
    BY <1>types DEF Core, DeletedRows
  <2> QED BY <2>1, <1>2, <1>view, <1>types, RowFacts
<1>6. seq' \in {seq, seq + 1} /\ issued' \in [Owners -> SUBSET (1 .. seq')]
  <2>1. 1 .. seq \subseteq 1 .. seq + 1 /\ seq + 1 \in 1 .. seq + 1
    BY <1>3, Constants
  <2> HIDE DEF o
  <2>2. issued[o] \cup {seq + 1} \in SUBSET (1 .. seq + 1)
    BY <2>1, <1>2, <1>types
  <2> QED BY <2>1, <2>2, <1>1, <1>types
<1> HIDE DEF new
<1>7. R \in [Owners -> Row \cup {NoRow}] /\ R[o] = new
      /\ \A p \in Owners \ {o} : R[p] = View(c)[p]
  BY <1>2, <1>view, <1>4
<1> HIDE DEF R, o
<1>8. \A p, q \in Owners : p # q /\ R[p].mode = "w" => R[q] = NoRow
  <2> SUFFICES ASSUME NEW p \in Owners, NEW q \in Owners, p # q, R[p].mode = "w"
               PROVE  R[q] = NoRow
    OBVIOUS
  <2>1. p = o /\ call[c].mode = "w"
    BY <1>2, <1>4, <1>7
  <2>2. View(c)[q] = NoRow
    BY <2>1, <1>2, <1>view, RowFacts
  <2> QED BY <2>1, <2>2, <1>7
<1>9. R[o].count + Cardinality(Pending) <= made + 1
  BY <1>3, <1>4, <1>7, Constants
<1> QED
  BY <1>1, <1>2, <1>4, <1>5, <1>6, <1>7, <1>8, <1>9, CommitKeeps DEF o

(* A generation that was granted before call c began, and that c names, is *)
(* alive in the row it asks for.                                           *)
LEMMA AliveMatches ==
  ASSUME Core, NEW c \in Calls, tx[c].at # "idle", Alive(c)
  PROVE  Matches(c)
<1> DEFINE o == call[c].owner
<1>1. o \in Owners
  BY DEF Core, Shapes
<1>2. /\ granted[o].mode = call[c].mode /\ granted[o].fence = call[c].fence /\ ~ granted[o].ghost
      /\ granted[o].mode # "none"
  BY CallFacts DEF Alive
<1>types. granted[o] \in GrantType /\ now \in Nat
  BY <1>1, Constants, TypeOKSplit DEF Core
<1>3. granted[o].until > now /\ granted[o].until \in Nat
  BY <1>1, <1>2, <1>types, Nothing DEF Core, GrantsRun, GrantType
<1>4. rows[o].mode = granted[o].mode /\ rows[o].fence = granted[o].fence
        /\ rows[o].expires = granted[o].until
  BY <1>1, <1>2, <1>3 DEF Core, GrantsAreBacked, Running
<1>5. tx[c].start \in 0 .. now
  BY CallFacts
<1>6. granted[o].until > tx[c].start
  BY <1>3, <1>5, <1>types
<1> QED
  BY <1>2, <1>4, <1>6 DEF Matches

LEMMA WriteCore ==
  ASSUME Core, NEW c \in Calls, tx[c].at = "mutate", Matches(c),
         NEW row \in Row \cup {NoRow}, Write(c, row), UNCHANGED <<now, made, schemaReady, faults>>,
         row.count <= rows[call[c].owner].count,
         row.mode \in {"none", "r", rows[call[c].owner].mode},
         call[c].op = "refresh" =>
           /\ row.mode = rows[call[c].owner].mode
           /\ row.fence = rows[call[c].owner].fence
           /\ row.count = rows[call[c].owner].count
  PROVE  Core'
<1> DEFINE o == call[c].owner
           R == [rows EXCEPT ![o] = row]
<1>types. /\ deleted \in [Txs -> SUBSET Owners]
          /\ rows \in [Owners -> Row \cup {NoRow}] /\ Calls \subseteq Txs /\ c \in Txs /\ c # Reaper
          /\ issued \in [Owners -> SUBSET (1 .. seq)] /\ now \in Nat
  BY Constants, TypeOKSplit DEF Core
<1>1. ~ Locked(c, o) /\ Commit(c, R) /\ Grant(o, row, FALSE) /\ UNCHANGED <<seq, issued>>
  BY DEF Write
<1>2. o \in Owners /\ deleted[c] = {}
  BY <1>types DEF Core, Shapes
<1>3. rows[o].mode # "none" /\ rows[o] # NoRow
  BY <1>2, <1>types, CallFacts, RowFacts DEF Matches
<1>4. \A u \in Txs \ {c} : o \notin deleted[u]
  BY <1>1 DEF Locked
<1>5. /\ Cardinality(Pending) \in Nat \ {0} /\ made \in 0 .. MaxCalls
      /\ rows[o].count \in Nat /\ rows[o].count + Cardinality(Pending) <= made
  BY <1>2, Room
<1>6. R \in [Owners -> Row \cup {NoRow}] /\ R[o] = row /\ \A p \in Owners \ {o} : R[p] = rows[p]
  BY <1>2, <1>types
<1>7. \A p \in Owners : View(c)[p] = rows[p]
  BY <1>2, <1>types, ViewFacts
<1> HIDE DEF R
<1>8. \/ Critical(c)
      \/ row.mode = rows[o].mode /\ row.fence = rows[o].fence /\ row.count = rows[o].count
  BY DEF Critical
<1>same. /\ row.count <= rows[o].count /\ row.mode \in {"none", "r", rows[o].mode}
  OBVIOUS
<1> HIDE DEF o
<1>9. \A p, q \in Owners : p # q /\ R[p].mode = "w" => R[q] = NoRow
  <2> SUFFICES ASSUME NEW p \in Owners, NEW q \in Owners, p # q, R[p].mode = "w"
               PROVE  R[q] = NoRow
    OBVIOUS
  <2>1. rows[p].mode = "w"
    BY <1>6, <1>same
  <2>2. rows[q] = NoRow
    BY <2>1 DEF Core, RowsExclude
  <2> QED BY <2>2, <1>3, <1>6
<1>10. R[o].count + Cardinality(Pending) <= made + 1
  <2>1. row.count \in Nat
    BY RowFacts, Constants
  <2> QED BY <2>1, <1>5, <1>6, <1>same, Constants
<1>11. seq' \in {seq, seq + 1} /\ issued' \in [Owners -> SUBSET (1 .. seq')]
  BY <1>1, <1>types
<1>12. /\ tx[c].at # "idle" /\ o = call[c].owner /\ FALSE \in BOOLEAN
       /\ \A p \in Owners \ {o} : R[p] = View(c)[p]
       /\ IF FALSE THEN R[o] = NoRow /\ row # NoRow ELSE R[o] = row
       /\ \/ Critical(c)
          \/ /\ tx[c].at = "mutate" /\ ~ FALSE
             /\ row.mode = rows[o].mode /\ row.fence = rows[o].fence /\ row.count = rows[o].count
  BY <1>6, <1>7, <1>8 DEF o
<1> QED
  BY <1>1, <1>2, <1>4, <1>6, <1>9, <1>10, <1>11, <1>12, CommitKeeps

LEMMA RefreshRowCore == ASSUME Core, NEW c \in Calls, RefreshRow(c) PROVE Core'
<1> DEFINE row == rows[call[c].owner]
           new == [row EXCEPT !.expires = tx[c].start + call[c].lease]
<1>1. tx[c].at = "mutate" /\ call[c].op = "refresh" /\ UNCHANGED <<now, made, schemaReady, faults>>
  BY DEF RefreshRow
<1>2. row \in Row \cup {NoRow} /\ faults \in 0 .. MaxFaults /\ now \in Nat
  BY <1>1, Constants, TypeOKSplit DEF Core, Shapes
<1>3. CASE Matches(c) /\ Write(c, new)
  <2>1. row \in Row
    BY <1>2, <1>3, CallFacts, RowFacts DEF Matches
  <2>2. tx[c].start + call[c].lease \in Nat
    BY CallFacts
  <2>3. new \in Row /\ new.mode = row.mode /\ new.fence = row.fence /\ new.count = row.count
    <3> HIDE DEF row
    <3> QED BY <2>1, <2>2, RewrittenRow
  <2>4. new.count <= row.count
    BY <2>1, <2>3 DEF Row
  <2> HIDE DEF new
  <2> QED BY <1>1, <1>3, <2>3, <2>4, WriteCore
<1>4. CASE ~ Matches(c) /\ Refuse(c, "ErrNotOwner", FALSE)
  BY <1>1, <1>2, <1>4, RefuseCore
<1> QED
  BY <1>3, <1>4 DEF RefreshRow

LEMMA ReleaseRowCore == ASSUME Core, NEW c \in Calls, ReleaseRow(c) PROVE Core'
<1> DEFINE row == rows[call[c].owner]
<1>1. tx[c].at = "mutate" /\ call[c].op = "release" /\ UNCHANGED <<now, made, schemaReady, faults>>
  BY DEF ReleaseRow
<1>2. row \in Row \cup {NoRow} /\ faults \in 0 .. MaxFaults /\ now \in Nat
  BY <1>1, Constants, TypeOKSplit DEF Core, Shapes
<1>3. CASE Matches(c) /\ Write(c, CountedDown(row))
  <2>1. row \in Row
    BY <1>2, <1>3, CallFacts, RowFacts DEF Matches
  <2>2. row.count \in Nat
    BY <2>1, Constants DEF Row
  <2>3. /\ CountedDown(row) \in Row \cup {NoRow}
        /\ CountedDown(row).mode \in {"none", row.mode}
        /\ CountedDown(row).count <= row.count
    <3> HIDE DEF row
    <3> QED BY <2>1, <2>2, CountedDownRow, RowFacts
  <2> QED BY <1>1, <1>3, <2>3, WriteCore
<1>4. CASE ~ Matches(c) /\ Refuse(c, "ErrNotOwner", FALSE)
  BY <1>1, <1>2, <1>4, RefuseCore
<1> QED
  BY <1>3, <1>4 DEF ReleaseRow

LEMMA DowngradeRowCore == ASSUME Core, NEW c \in Calls, DowngradeRow(c) PROVE Core'
<1> DEFINE row == rows[call[c].owner]
           new == [row EXCEPT !.mode = "r", !.count = 1]
           hit == Matches(c) /\ row.count = 1
<1>1. tx[c].at = "mutate" /\ call[c].op = "downgrade" /\ UNCHANGED <<now, made, schemaReady, faults>>
  BY DEF DowngradeRow
<1>2. row \in Row \cup {NoRow} /\ faults \in 0 .. MaxFaults /\ now \in Nat
  BY <1>1, Constants, TypeOKSplit DEF Core, Shapes
<1>3. CASE hit /\ Write(c, new)
  <2>1. row \in Row
    BY <1>2, <1>3, CallFacts, RowFacts DEF Matches
  <2>2. new \in Row /\ new.mode = "r" /\ new.count = 1 /\ row.count = 1
    <3>1. row.count = 1
      BY <1>3
    <3> HIDE DEF row
    <3> QED BY <2>1, <3>1, DowngradedRow
  <2>3. new.count <= row.count
    BY <2>2
  <2> HIDE DEF new
  <2> QED BY <1>1, <1>3, <2>2, <2>3, WriteCore
<1>4. CASE /\ ~ hit /\ Goto(c, "diagnose") /\ answer' = NoAnswer
           /\ UNCHANGED <<rows, seq, advisory, deleted, call, granted, issued>>
  <2>types. /\ tx \in [Txs -> TxType] /\ call \in [Calls -> CallType] /\ deleted \in [Txs -> SUBSET Owners]
            /\ Calls \subseteq Txs /\ c \in Txs /\ c # Reaper
            /\ Reaper \in Txs /\ made \in 0 .. MaxCalls /\ faults \in 0 .. MaxFaults
            /\ advisory \in Calls \cup {Nobody}
    BY Constants, TypeOKSplit DEF Core
  <2>1. /\ tx' \in [Txs -> TxType] /\ tx'[c].at = "diagnose" /\ tx'[c].start = tx[c].start
        /\ \A t \in Txs \ {c} : tx'[t] = tx[t]
    <3>1. [tx[c] EXCEPT !.at = "diagnose"] \in TxType
      BY <2>types DEF TxType, Labels
    <3> QED BY <3>1, <1>4, <2>types DEF Goto, TxType
  <2>2. Counting'
    <3>1. Pending' = Pending
      BY <1>1, <2>1, <2>types DEF Pending
    <3> QED BY <3>1, <1>1, <1>4, CountingStays DEF Core
  <2>3. Shapes'
    BY <1>1, <1>4, <2>1, <2>types DEF Core, Shapes
  <2>4. Serialized'
    <3>1. ASSUME NEW d \in Calls, Critical(d)' PROVE Critical(d)
      BY <3>1, <1>1, <1>4, <2>1, <2>types DEF Critical
    <3> QED BY <3>1, <1>4 DEF Core, Serialized
  <2>5. answer'.result = "none" /\ answer'.unread \in BOOLEAN
    BY <1>2, <1>4, Nothing
  <2>6. Alive(c)' => rows[call'[c].owner].count > 1
    <3> SUFFICES ASSUME Alive(c)' PROVE row.count > 1
      BY <1>4
    <3>1. Alive(c)
      BY <1>4, <2>1 DEF Alive
    <3>2. Matches(c)
      BY <3>1, <1>1, AliveMatches
    <3>3. row \in Row
      BY <3>2, <1>2, CallFacts, RowFacts DEF Matches
    <3> QED BY <3>2, <3>3, <1>4, Constants DEF Row
  <2>7. /\ \A u \in Txs \ {c} : tx'[u] = tx[u] /\ deleted'[u] = deleted[u]
        /\ deleted' \in [Txs -> SUBSET Owners] /\ call' \in [Calls -> CallType]
        /\ \A d \in Calls \ {c} : call'[d] = call[d]
        /\ \A p \in deleted'[c] : rows[p] # NoRow /\ rows[p].expires <= tx'[c].start
        /\ \A u \in Txs \ {c} : deleted'[c] \cap deleted[u] = {}
        /\ faults' \in 0 .. MaxFaults /\ made' \in 0 .. MaxCalls /\ advisory' \in Calls \cup {Nobody}
        /\ UNCHANGED <<rows, seq, now, granted, issued, schemaReady>>
    BY <1>1, <1>4, <2>1, <2>types DEF Core, DeletedRows
  <2> HIDE DEF row, hit
  <2> QED BY <2>1, <2>2, <2>3, <2>4, <2>5, <2>6, <2>7, <2>types, MoveKeeps
<1> QED
  BY <1>3, <1>4 DEF DowngradeRow

LEMMA DiagnoseCore == ASSUME Core, NEW c \in Calls, Diagnose(c) PROVE Core'
<1>1. tx[c].at = "diagnose" /\ UNCHANGED <<now, made, schemaReady>>
  BY DEF Diagnose
<1>2. faults \in Nat /\ faults <= MaxFaults
  BY Constants, TypeOKSplit DEF Core
<1>3. \E err \in {"ErrModeConflict", "ErrNotOwner"}, unread \in BOOLEAN : Refuse(c, err, unread)
  <2> DEFINE read == IF Matches(c) /\ rows[call[c].owner].count > 1 THEN "ErrModeConflict"
                     ELSE "ErrNotOwner"
  <2>1. read \in {"ErrModeConflict", "ErrNotOwner"}
    OBVIOUS
  <2>2. Refuse(c, read, FALSE) \/ Refuse(c, "ErrNotOwner", TRUE)
    BY DEF Diagnose
  <2> HIDE DEF read
  <2>3. CASE Refuse(c, read, FALSE)
    <3>1. FALSE \in BOOLEAN
      OBVIOUS
    <3> QED BY <2>1, <2>3, <3>1
  <2>4. CASE Refuse(c, "ErrNotOwner", TRUE)
    <3>1. TRUE \in BOOLEAN /\ "ErrNotOwner" \in {"ErrModeConflict", "ErrNotOwner"}
      OBVIOUS
    <3> QED BY <2>4, <3>1
  <2> QED BY <2>2, <2>3, <2>4
<1>4. faults' \in 0 .. MaxFaults
  <2>1. faults' = faults \/ (faults > 0 /\ faults' = faults - 1)
    BY DEF Diagnose
  <2> QED BY <1>2, <2>1, Constants
<1> QED
  BY <1>1, <1>3, <1>4, RefuseCore

LEMMA FailCore == ASSUME Core, NEW c \in Calls, Fail(c) PROVE Core'
<1>1. /\ tx[c].at # "idle" /\ End(c, rows) /\ answer' = NoAnswer /\ faults > 0 /\ faults' = faults - 1
      /\ UNCHANGED <<now, granted, issued, made, schemaReady>>
  BY DEF Fail
<1>2. seq' \in {seq, seq + 1}
  BY DEF Fail
<1>3. faults \in 0 .. MaxFaults /\ now \in Nat
  BY Constants, TypeOKSplit DEF Core
<1>4. faults' \in 0 .. MaxFaults /\ answer'.result = "none" /\ answer'.unread \in BOOLEAN
  BY <1>1, <1>3, Nothing, Constants
<1> QED
  BY <1>1, <1>2, <1>4, EndKeeps

-----------------------------------------------------------------------------
(* The other steps.                                                        *)

LEMMA SchemaCore == ASSUME Core, ensureSchema PROVE Core'
<1>1. /\ UNCHANGED <<rows, seq, now, advisory, tx, deleted, call, answer, granted, issued, made>>
      /\ schemaReady' \in BOOLEAN /\ (faults' = faults \/ (faults > 0 /\ faults' = faults - 1))
  BY TypeOKSplit DEF ensureSchema, Core
<1>2. faults' \in 0 .. MaxFaults
  BY <1>1, Constants, TypeOKSplit DEF Core
<1>3. TypeOK'
  BY <1>1, <1>2 DEF Core, TypeOK
<1>4. Counting' /\ Shapes' /\ Serialized' /\ DeletedRows'
  BY <1>1 DEF Core, Counting, Pending, Shapes, Serialized, Critical, DeletedRows
<1>5. Loaded' /\ GrantsRun' /\ Diagnosed' /\ RowsExclude' /\ GrantsAreBacked'
  BY <1>1 DEF Core, Loaded, View, GrantsRun, Diagnosed, Alive, RowsExclude, GrantsAreBacked, Running
<1> QED
  BY <1>3, <1>4, <1>5 DEF Core

LEMMA ReaperWakeCore == ASSUME Core, ReaperWake PROVE Core'
<1> DEFINE x == [at |-> "delete", start |-> now, todo |-> Lapsed(now)]
<1>1. /\ tx[Reaper].at = "idle" /\ tx' = [tx EXCEPT ![Reaper] = x] /\ answer' = NoAnswer
      /\ UNCHANGED <<rows, seq, now, advisory, deleted, call, granted, issued, made, schemaReady, faults>>
  BY DEF ReaperWake
<1>types. /\ tx \in [Txs -> TxType] /\ call \in [Calls -> CallType] /\ deleted \in [Txs -> SUBSET Owners]
          /\ rows \in [Owners -> Row \cup {NoRow}] /\ Calls \subseteq Txs /\ Reaper \in Txs
          /\ \A c \in Calls : c # Reaper
          /\ now \in Nat /\ made \in 0 .. MaxCalls /\ faults \in 0 .. MaxFaults
          /\ advisory \in Calls \cup {Nobody}
  BY Constants, TypeOKSplit DEF Core
<1>2. x \in TxType /\ x.at = "delete"
  <2>1. \A p \in Owners : rows[p] # NoRow => rows[p].fence \in 1 .. MaxCalls
    BY <1>types, RowFacts
  <2>2. Lapsed(now) \in Todos
    BY <2>1 DEF Lapsed, Todos
  <2> QED BY <2>2, <1>types DEF TxType, Labels
<1> HIDE DEF x
<1>3. /\ tx' \in [Txs -> TxType] /\ tx'[Reaper].at = "delete"
      /\ \A t \in Txs \ {Reaper} : tx'[t] = tx[t]
      /\ \A c \in Calls : tx'[c] = tx[c]
  BY <1>1, <1>2, <1>types
<1>4. deleted[Reaper] = {}
  BY <1>1, <1>types DEF Core, Shapes
<1>5. Counting'
  <2>1. Pending' = Pending
    BY <1>3 DEF Pending
  <2> QED BY <2>1, <1>1, CountingStays DEF Core
<1>6. Shapes' /\ Serialized'
  BY <1>1, <1>3, <1>types DEF Core, Shapes, Serialized, Critical
<1>7. answer'.result = "none" /\ answer'.unread \in BOOLEAN
  BY <1>1, <1>types, Nothing
<1>8. /\ \A u \in Txs \ {Reaper} : tx'[u] = tx[u] /\ deleted'[u] = deleted[u]
      /\ deleted' \in [Txs -> SUBSET Owners] /\ call' \in [Calls -> CallType]
      /\ \A d \in Calls \ {Reaper} : call'[d] = call[d]
      /\ \A p \in deleted'[Reaper] : rows[p] # NoRow /\ rows[p].expires <= tx'[Reaper].start
      /\ \A u \in Txs \ {Reaper} : deleted'[Reaper] \cap deleted[u] = {}
      /\ faults' \in 0 .. MaxFaults /\ made' \in 0 .. MaxCalls /\ advisory' \in Calls \cup {Nobody}
      /\ UNCHANGED <<rows, seq, now, granted, issued, schemaReady>>
      /\ Reaper \notin Calls
  BY <1>1, <1>3, <1>4, <1>types
<1> QED
  BY <1>3, <1>5, <1>6, <1>7, <1>8, <1>types, MoveKeeps

LEMMA ReaperEndCore ==
  ASSUME Core, ReaperDone \/ ReaperFail \/ DeadlockError(Reaper)
  PROVE  Core'
<1>1. faults \in 0 .. MaxFaults /\ MaxFaults \in Nat
  BY Constants, TypeOKSplit DEF Core
<1>2. CASE ReaperDone
  BY <1>1, <1>2, ReaperEndsKeeps DEF ReaperDone
<1>3. CASE ReaperFail
  <2>1. ReaperEnds("stopped", rows) /\ faults' \in 0 .. MaxFaults
    BY <1>1, <1>3 DEF ReaperFail
  <2> QED BY <2>1, ReaperEndsKeeps
<1>4. CASE DeadlockError(Reaper)
  <2>1. ReaperEnds("stopped", rows) /\ faults' \in 0 .. MaxFaults
    BY <1>1, <1>4 DEF DeadlockError
  <2> QED BY <2>1, ReaperEndsKeeps
<1> QED
  BY <1>2, <1>3, <1>4

LEMMA DeadlockCore == ASSUME Core, NEW c \in Calls, DeadlockError(c) PROVE Core'
<1>1. c # Reaper /\ c \in Txs /\ now \in Nat /\ faults \in 0 .. MaxFaults
  BY Constants, TypeOKSplit DEF Core
<1>2. /\ End(c, rows) /\ answer' = NoAnswer
      /\ UNCHANGED <<seq, now, granted, issued, made, schemaReady, faults>>
  BY <1>1 DEF DeadlockError
<1>3. tx[c].at # "idle"
  <2>1. PICK u \in Txs : Deadlocked(c, u)
    BY DEF DeadlockError
  <2>2. Wants(c) # {}
    BY <2>1 DEF Deadlocked
  <2> QED BY <2>2 DEF Wants
<1>4. answer'.result = "none" /\ answer'.unread \in BOOLEAN /\ seq' \in {seq, seq + 1} /\ faults' \in 0 .. MaxFaults
  BY <1>1, <1>2, Nothing
<1> QED
  BY <1>2, <1>3, <1>4, EndKeeps

LEMMA TickCore == ASSUME Core, Tick PROVE Core'
<1>1. /\ now < MaxTime /\ now' = now + 1 /\ answer' = NoAnswer
      /\ granted' = [o \in Owners |-> IF granted[o].until > now + 1 THEN granted[o] ELSE NotGranted]
      /\ UNCHANGED <<rows, seq, advisory, tx, deleted, call, issued, made, schemaReady, faults>>
  BY DEF Tick
<1>types. /\ tx \in [Txs -> TxType] /\ granted \in [Owners -> GrantType] /\ now \in 0 .. MaxTime
          /\ now \in Nat /\ MaxTime \in Nat /\ now' \in Nat /\ now' \in 0 .. MaxTime
  BY <1>1, Constants, TypeOKSplit DEF Core
<1>2. \A o \in Owners : granted'[o] = granted[o] \/ granted'[o] = NotGranted
  BY <1>1
<1>3. \A o \in Owners : granted'[o] # NotGranted => granted'[o] = granted[o] /\ granted[o].until > now'
  BY <1>1
<1>4. 0 .. now \subseteq 0 .. now'
  BY <1>1, <1>types
<1>5. TypeOK'
  <2>1. TxType \subseteq TxType' /\ GrantType \subseteq GrantType'
    BY <1>4 DEF TxType, GrantType
  <2>2. NotGranted \in GrantType
    BY <1>types, Nothing
  <2>3. granted' \in [Owners -> GrantType'] /\ tx' \in [Txs -> TxType']
    BY <1>1, <1>types, <2>1, <2>2
  <2>4. answer'.result = "none" /\ answer'.unread \in BOOLEAN
    BY <1>1, <1>types, Nothing
  <2> QED BY <2>3, <2>4, <1>1, <1>types DEF Core, TypeOK, TxType, Todos, CallType, GrantType
<1>6. Counting' /\ Shapes' /\ Serialized' /\ DeletedRows'
  BY <1>1 DEF Core, Counting, Pending, Shapes, Serialized, Critical, DeletedRows
<1>7. Loaded' /\ RowsExclude'
  BY <1>1 DEF Core, Loaded, View, RowsExclude
<1>8. GrantsRun'
  <2> SUFFICES ASSUME NEW o \in Owners
               PROVE  /\ \/ granted'[o] = NotGranted
                         \/ granted'[o].mode # "none" /\ granted'[o].fence > 0 /\ granted'[o].until > now'
                      /\ granted'[o].ghost => rows[o].fence # granted'[o].fence
    BY <1>1 DEF GrantsRun
  <2>1. CASE granted'[o] = NotGranted
    BY <2>1, <1>types, Nothing
  <2>2. CASE granted'[o] # NotGranted
    BY <2>2, <1>2, <1>3, <1>types, Nothing DEF Core, GrantsRun
  <2> QED BY <2>1, <2>2
<1>9. GrantsAreBacked'
  <2> SUFFICES ASSUME NEW o \in Owners, granted'[o].until > now', ~ granted'[o].ghost
               PROVE  rows[o].mode = granted'[o].mode /\ rows[o].fence = granted'[o].fence
                        /\ rows[o].expires = granted'[o].until
    BY <1>1 DEF GrantsAreBacked, Running
  <2>1. granted'[o] = granted[o]
    BY <1>2, <1>types, Nothing
  <2>2. granted[o].until \in Nat
    BY <1>types DEF GrantType
  <2>3. granted[o].until > now
    BY <1>1, <1>types, <2>1, <2>2
  <2> QED BY <2>1, <2>3 DEF Core, GrantsAreBacked, Running
<1>10. Diagnosed'
  <2> SUFFICES ASSUME NEW c \in Calls, tx[c].at = "diagnose", Alive(c)'
               PROVE  rows[call[c].owner].count > 1
    BY <1>1 DEF Diagnosed
  <2>1. call[c].owner \in Owners /\ call[c].mode \in {"w", "r"}
    BY CallFacts DEF Core, Shapes
  <2>2. granted'[call[c].owner] = granted[call[c].owner]
    BY <2>1, <1>1, <1>2, <1>types, Nothing DEF Alive
  <2>3. Alive(c)
    BY <2>2, <1>1 DEF Alive
  <2> QED BY <2>3 DEF Core, Diagnosed
<1> QED
  BY <1>5, <1>6, <1>7, <1>8, <1>9, <1>10 DEF Core

LEMMA DropCore == ASSUME Core, Drop PROVE Core'
<1>1. /\ faults > 0 /\ faults' = faults - 1 /\ answer' = NoAnswer
      /\ \A t \in Txs : deleted[t] = {}
      /\ rows' = [o \in Owners |-> NoRow] /\ granted' = [o \in Owners |-> NotGranted]
      /\ UNCHANGED <<seq, now, advisory, tx, deleted, call, issued, made, schemaReady>>
  BY DEF Drop
<1>types. /\ rows \in [Owners -> Row \cup {NoRow}] /\ now \in Nat /\ faults \in 0 .. MaxFaults
          /\ MaxFaults \in Nat /\ seq \in Nat /\ made \in Nat
  BY Constants, TypeOKSplit DEF Core
<1>2. TypeOK'
  <2>1. NotGranted \in GrantType /\ GrantType' = GrantType /\ answer'.result = "none" /\ answer'.unread \in BOOLEAN
    BY <1>1, <1>types, Nothing DEF GrantType
  <2>2. granted' \in [Owners -> GrantType'] /\ rows' \in [Owners -> Row \cup {NoRow}]
        /\ faults' \in 0 .. MaxFaults
    BY <2>1, <1>1, <1>types
  <2> QED BY <2>1, <2>2, <1>1 DEF Core, TypeOK, GrantType
<1>3. Counting'
  <2>1. Pending' = Pending /\ IsFiniteSet(Pending) /\ Cardinality(Pending) \in Nat
    BY <1>1, FS_CardinalityType DEF Core, Counting, Pending
  <2>2. \A o \in Owners : rows'[o].count = 0 /\ rows[o].count \in Nat
    BY <1>1, <1>types, RowFacts, Constants
  <2> QED BY <2>1, <2>2, <1>1, <1>types DEF Core, Counting
<1>4. Shapes' /\ Serialized' /\ DeletedRows'
  BY <1>1 DEF Core, Shapes, Serialized, Critical, DeletedRows
<1>5. Loaded'
  <2>1. \A c \in Calls : \A p \in Owners : View(c)'[p].mode = "none"
    BY <1>1, RowFacts DEF View
  <2>2. \A c \in Calls : tx[c].at = "insert" => call[c].owner \in Owners
    BY DEF Core, Shapes
  <2> QED BY <2>1, <2>2, <1>1 DEF Core, Loaded
<1>6. Diagnosed'
  <2> SUFFICES ASSUME NEW c \in Calls, tx[c].at = "diagnose", Alive(c)' PROVE FALSE
    BY <1>1 DEF Diagnosed
  <2>1. call[c].owner \in Owners /\ call[c].mode \in {"w", "r"}
    BY CallFacts DEF Core, Shapes
  <2> QED BY <2>1, <1>1, <1>types, Nothing DEF Alive
<1>7. GrantsRun' /\ RowsExclude' /\ GrantsAreBacked'
  BY <1>1, <1>types, Nothing, RowFacts DEF GrantsRun, RowsExclude, GrantsAreBacked, Running
<1> QED
  BY <1>2, <1>3, <1>4, <1>5, <1>6, <1>7 DEF Core

LEMMA BeginningCore ==
  ASSUME Core, NEW c \in Calls, NEW o \in Owners, NEW m \in Modes, NEW f \in issued[o],
         \/ Release(c, o, m, f) \/ Downgrade(c, o, f)
         \/ \E l \in Leases : Refresh(c, o, m, f, l)
  PROVE  Core'
<1>1. modeChar(m) \in {"w", "r"}
  BY DEF modeChar
<1>2. f \in 0 .. MaxCalls
  BY Constants, TypeOKSplit DEF Core
<1>3. CASE Release(c, o, m, f)
  <2> DEFINE a == [op |-> "release", owner |-> o, mode |-> modeChar(m), fence |-> f, lease |-> 0]
  <2>1. a \in CallType /\ a.owner \in Owners /\ a.op # "none" /\ Begin(c, a)
    BY <1>1, <1>2, <1>3 DEF Release, CallType
  <2> QED BY <2>1, BeginCore
<1>4. CASE Downgrade(c, o, f)
  <2> DEFINE a == [op |-> "downgrade", owner |-> o, mode |-> "w", fence |-> f, lease |-> 0]
  <2>1. a \in CallType /\ a.owner \in Owners /\ a.op # "none" /\ Begin(c, a)
    BY <1>2, <1>4 DEF Downgrade, CallType
  <2> QED BY <2>1, BeginCore
<1>5. ASSUME NEW l \in Leases, Refresh(c, o, m, f, l) PROVE Core'
  <2> DEFINE a == [op |-> "refresh", owner |-> o, mode |-> modeChar(m), fence |-> f, lease |-> l]
  <2>1. a \in CallType /\ a.owner \in Owners /\ a.op # "none" /\ Begin(c, a)
    BY <1>1, <1>2, <1>5 DEF Refresh, CallType
  <2> QED BY <2>1, BeginCore
<1> QED
  BY <1>3, <1>4, <1>5

LEMMA TryAcquireCore ==
  ASSUME Core, NEW c \in Calls, NEW o \in Owners, NEW m \in Modes, NEW l \in Leases,
         TryAcquire(c, o, m, l)
  PROVE  Core'
<1> DEFINE a == [op |-> "acquire", owner |-> o, mode |-> modeChar(m), fence |-> 0, lease |-> l]
<1>1. modeChar(m) \in {"w", "r"} /\ 0 \in 0 .. MaxCalls
  BY Constants DEF modeChar
<1>2. a \in CallType /\ a.owner \in Owners /\ a.op # "none" /\ Begin(c, a)
  BY <1>1 DEF TryAcquire, CallType
<1> QED
  BY <1>2, BeginCore

LEMMA CallStepCore == ASSUME Core, NEW c \in Calls, CallStep(c) PROVE Core'
<1>1. c \in Txs
  BY Constants
<1> QED
  BY <1>1, SerializeCore, DeleteRowCore, LoadCore, ReenterCore, InsertCore, RefreshRowCore,
     ReleaseRowCore, DowngradeRowCore, DiagnoseCore, DeadlockCore DEF CallStep

LEMMA NextCore == Core /\ [Next]_vars => Core'
<1> SUFFICES ASSUME Core, [Next]_vars PROVE Core'
  OBVIOUS
<1>1. CASE ensureSchema
  BY <1>1, SchemaCore
<1>2. ASSUME NEW c \in Calls, NEW o \in Owners, NEW m \in Modes, NEW l \in Leases,
             TryAcquire(c, o, m, l)
      PROVE  Core'
  BY <1>2, TryAcquireCore
<1>3. ASSUME NEW c \in Calls, NEW o \in Owners, NEW m \in Modes, NEW f \in issued[o],
             Release(c, o, m, f) \/ \E l \in Leases : Refresh(c, o, m, f, l)
      PROVE  Core'
  BY <1>3, BeginningCore
<1>4. ASSUME NEW c \in Calls, NEW o \in Owners, NEW f \in issued[o], Downgrade(c, o, f)
      PROVE  Core'
  <2>1. "write" \in Modes
    BY DEF Modes
  <2> QED BY <1>4, <2>1, BeginningCore
<1>5. ASSUME NEW c \in Calls, CallStep(c) \/ Fail(c) PROVE Core'
  BY <1>5, CallStepCore, FailCore
<1>6. CASE ReaperStep \/ ReaperFail
  BY <1>6, Constants, ReaperWakeCore, DeleteRowCore, ReaperEndCore DEF ReaperStep
<1>7. CASE Tick
  BY <1>7, TickCore
<1>8. CASE Drop
  BY <1>8, DropCore
<1>9. CASE UNCHANGED vars
  <2>1. UNCHANGED <<schemaReady, rows, seq, now, advisory, tx, deleted, call, answer, granted,
                    issued, made, faults>>
    BY <1>9 DEF vars
  <2>2. TypeOK' /\ Counting' /\ Shapes' /\ Serialized' /\ DeletedRows'
    BY <2>1 DEF Core, TypeOK, Counting, Pending, Shapes, Serialized, Critical, DeletedRows
  <2>3. Loaded' /\ GrantsRun' /\ Diagnosed' /\ RowsExclude' /\ GrantsAreBacked'
    BY <2>1 DEF Core, Loaded, View, GrantsRun, Diagnosed, Alive, RowsExclude, GrantsAreBacked, Running
  <2> QED BY <2>2, <2>3 DEF Core
<1> QED
  BY <1>1, <1>2, <1>3, <1>4, <1>5, <1>6, <1>7, <1>8, <1>9 DEF Next

-----------------------------------------------------------------------------
(* The answers.                                                            *)

LEMMA SilentAnswer == ASSUME answer' = NoAnswer PROVE AnswersAreTrue'
BY DEF AnswersAreTrue, NoAnswer

(* A refusal speaks of the rows and of the grants as they are.             *)
LEMMA TrueRefusal ==
  ASSUME Core, NEW c \in Calls, NEW err, NEW unread, Refuse(c, err, unread),
         err = "ErrNotOwner" => ~ Alive(c) \/ (call[c].op = "downgrade" /\ unread),
         err = "ErrHeld" =>
           \E p \in Owners \ {call[c].owner} :
             rows[p] # NoRow /\ "w" \in {call[c].mode, rows[p].mode},
         err = "ErrModeConflict" =>
           IF call[c].op = "downgrade" THEN rows[call[c].owner].count > 1
           ELSE rows[call[c].owner].mode \notin {"none", call[c].mode}
  PROVE  AnswersAreTrue'
<1>1. /\ answer'.call = call[c] /\ answer'.start = tx[c].start /\ answer'.result = err
      /\ answer'.unread = unread /\ rows' = rows /\ granted' = granted
  BY DEF Refuse, End
<1>2. err = "ErrNotOwner" =>
        \/ ~ (/\ granted[call[c].owner].mode = call[c].mode
              /\ granted[call[c].owner].fence = call[c].fence
              /\ granted[call[c].owner].since < tx[c].start)
        \/ granted[call[c].owner].ghost
        \/ call[c].op = "downgrade" /\ unread
  BY DEF Alive
<1> QED
  BY <1>1, <1>2 DEF AnswersAreTrue

LEMMA CallAnswers == ASSUME Core, NEW c \in Calls, CallStep(c) PROVE AnswersAreTrue'
<1>types. rows \in [Owners -> Row \cup {NoRow}] /\ faults \in 0 .. MaxFaults /\ c # Reaper
  BY Constants, TypeOKSplit DEF Core
<1>1. ASSUME Serialize(c) \/ DeleteRow(c) \/ Reenter(c) \/ Insert(c) \/ DeadlockError(c)
      PROVE  AnswersAreTrue'
  <2>1. answer' = NoAnswer
    BY <1>1, <1>types DEF Serialize, DeleteRow, Reenter, Insert, DeadlockError, Commit
  <2> QED BY <2>1, SilentAnswer
<1>2. CASE Load(c)
  <2>1. tx[c].at = "delete" /\ call[c].owner \in Owners /\ call[c].op = "acquire"
    BY <1>2 DEF Load, Core, Shapes
  <2>2. CASE answer' = NoAnswer
    BY <2>2, SilentAnswer
  <2>3. CASE Verdict(c) \in {"ErrHeld", "ErrModeConflict"} /\ Refuse(c, Verdict(c), FALSE)
    <3>1. \A p \in Owners : View(c)[p] = rows[p] \/ View(c)[p] = NoRow
      BY <1>types, ViewFacts
    <3>2. Verdict(c) = "ErrHeld" =>
            \E p \in Owners \ {call[c].owner} :
              rows[p] # NoRow /\ "w" \in {call[c].mode, rows[p].mode}
      BY <2>1, <3>1, VerdictFacts
    <3>3. Verdict(c) = "ErrModeConflict" => rows[call[c].owner].mode \notin {"none", call[c].mode}
      BY <2>1, <3>1, VerdictFacts, RowFacts
    <3> QED BY <2>1, <2>3, <3>2, <3>3, TrueRefusal
  <2> QED BY <1>2, <2>2, <2>3 DEF Load
<1>3. CASE RefreshRow(c) \/ ReleaseRow(c)
  <2>1. tx[c].at = "mutate"
    BY <1>3 DEF RefreshRow, ReleaseRow
  <2>2. CASE answer' = NoAnswer
    BY <2>2, SilentAnswer
  <2>3. CASE ~ Matches(c) /\ Refuse(c, "ErrNotOwner", FALSE)
    BY <2>1, <2>3, AliveMatches, TrueRefusal
  <2> QED BY <1>3, <2>2, <2>3 DEF RefreshRow, ReleaseRow, Write, Commit
<1>4. CASE DowngradeRow(c)
  <2>1. answer' = NoAnswer
    BY <1>4 DEF DowngradeRow, Write, Commit
  <2> QED BY <2>1, SilentAnswer
<1>5. CASE Diagnose(c)
  <2>1. tx[c].at = "diagnose" /\ call[c].op = "downgrade"
    BY <1>5 DEF Diagnose, Core, Shapes
  <2>2. CASE Matches(c) /\ rows[call[c].owner].count > 1 /\ Refuse(c, "ErrModeConflict", FALSE)
    BY <2>1, <2>2, TrueRefusal
  <2>3. CASE ~ (Matches(c) /\ rows[call[c].owner].count > 1) /\ Refuse(c, "ErrNotOwner", FALSE)
    <3>1. ~ Alive(c)
      BY <2>1, <2>3, AliveMatches DEF Core, Diagnosed
    <3> QED BY <2>3, <3>1, TrueRefusal
  <2>4. CASE Refuse(c, "ErrNotOwner", TRUE)
    BY <2>1, <2>4, TrueRefusal
  <2> QED BY <1>5, <2>2, <2>3, <2>4 DEF Diagnose
<1> QED
  BY <1>1, <1>2, <1>3, <1>4, <1>5 DEF CallStep

LEMMA NextAnswers == Inv /\ [Next]_vars => AnswersAreTrue'
<1> SUFFICES ASSUME Inv, [Next]_vars PROVE AnswersAreTrue'
  OBVIOUS
<1>core. Core /\ AnswersAreTrue
  BY DEF Inv
<1>1. ASSUME UNCHANGED <<rows, granted, answer>> PROVE AnswersAreTrue'
  BY <1>1, <1>core DEF AnswersAreTrue
<1>2. CASE ensureSchema
  BY <1>1, <1>2 DEF ensureSchema
<1>3. CASE UNCHANGED vars
  BY <1>1, <1>3 DEF vars
<1>4. ASSUME NEW c \in Calls, NEW args, Begin(c, args) PROVE AnswersAreTrue'
  BY <1>4, SilentAnswer DEF Begin
<1>5. ASSUME NEW c \in Calls, CallStep(c) PROVE AnswersAreTrue'
  BY <1>5, <1>core, CallAnswers
<1>6. ASSUME NEW c \in Calls, Fail(c) PROVE AnswersAreTrue'
  BY <1>6, SilentAnswer DEF Fail
<1>7. CASE ReaperStep \/ ReaperFail
  <2>1. answer' = NoAnswer
    BY <1>7 DEF ReaperStep, ReaperFail, ReaperWake, DeleteRow, ReaperDone, DeadlockError, ReaperEnds
  <2> QED BY <2>1, SilentAnswer
<1>8. CASE Tick \/ Drop
  BY <1>8, SilentAnswer DEF Tick, Drop
<1> QED
  BY <1>2, <1>3, <1>4, <1>5, <1>6, <1>7, <1>8 DEF Next, TryAcquire, Refresh, Release, Downgrade

-----------------------------------------------------------------------------
(* The rows whose lease runs.                                              *)

(* What LiveRowsAreSafe says of one step.                                  *)
SafeStep ==
  \A o \in Owners :
       rows[o].expires > now /\ rows'[o].fence # rows[o].fence =>
         \/ Drop
         \/ /\ rows[o].count = 1
            /\ \E c \in Calls :
                 call[c].op = "release" /\ call[c].owner = o /\ call[c].fence = rows[o].fence

(* A DELETE has no row whose lease runs.                                   *)
LEMMA LiveInView ==
  ASSUME Core, NEW t \in Txs, NEW o \in Owners, rows[o].expires > now
  PROVE  View(t)[o] = rows[o] /\ rows[o] # NoRow
<1>types. /\ rows \in [Owners -> Row \cup {NoRow}] /\ tx \in [Txs -> TxType] /\ now \in Nat
          /\ deleted \in [Txs -> SUBSET Owners]
  BY Constants, TypeOKSplit DEF Core
<1>1. tx[t].start \in 0 .. now
  BY <1>types DEF TxType
<1>2. rows[o].expires \in Nat
  BY <1>types, RowFacts
<1>3. o \notin deleted[t]
  BY <1>1, <1>2, <1>types DEF Core, DeletedRows
<1> QED
  BY <1>3, <1>types, ViewFacts, RowFacts

LEMMA CallSafe == ASSUME Core, NEW c \in Calls, CallStep(c) PROVE SafeStep
<1> SUFFICES ASSUME NEW o \in Owners, rows[o].expires > now, rows'[o].fence # rows[o].fence
             PROVE  /\ rows[o].count = 1
                    /\ call[c].op = "release" /\ call[c].owner = o /\ call[c].fence = rows[o].fence
  BY DEF SafeStep
<1>types. /\ rows \in [Owners -> Row \cup {NoRow}] /\ c \in Txs /\ now \in Nat /\ c # Reaper
  BY Constants, TypeOKSplit DEF Core
<1>1. View(c)[o] = rows[o] /\ rows[o] # NoRow /\ rows[o] \in Row
  BY <1>types, LiveInView
<1>view. View(c) \in [Owners -> Row \cup {NoRow}]
  BY <1>types, ViewFacts
<1>2. CASE rows' = rows
  BY <1>2
<1>3. ASSUME NEW y, NEW p, rows' = [rows EXCEPT ![p] = y] \/ rows' = [View(c) EXCEPT ![p] = y],
             p = o => y.fence = rows[o].fence
      PROVE  FALSE
  BY <1>1, <1>3, <1>types, <1>view
<1>4. CASE Reenter(c)
  <2> DEFINE p == call[c].owner
             until == tx[c].start + call[c].lease
             more == [rows[p] EXCEPT !.count = @ + 1, !.expires = until]
  <2>1. CASE rows' = [View(c) EXCEPT ![p] = more]
    <3>1. p = o => more.fence = rows[o].fence
      <4> DEFINE z == [rows[o] EXCEPT !.count = @ + 1]
      <4>1. z.fence = rows[o].fence
        BY <1>1 DEF Row
      <4> QED BY <4>1
    <3> HIDE DEF more, p
    <3> QED BY <2>1, <3>1, <1>3
  <2>2. CASE rows' = View(c)
    BY <2>2, <1>1
  <2> QED BY <1>4, <2>1, <2>2 DEF Reenter, Commit, End
<1>5. CASE Insert(c)
  <2> DEFINE p == call[c].owner
             new == [mode |-> call[c].mode, count |-> 1, fence |-> seq + 1,
                     expires |-> tx[c].start + call[c].lease]
  <2>1. rows' = [View(c) EXCEPT ![p] = new]
    BY <1>5 DEF Insert, Commit, End
  <2>2. View(c)[p].mode = "none"
    BY <1>5 DEF Insert, Core, Loaded
  <2>3. p # o
    BY <2>2, <1>1, RowFacts
  <2> HIDE DEF new, p
  <2> QED BY <2>1, <2>3, <1>3
<1>6. CASE RefreshRow(c)
  <2> DEFINE p == call[c].owner
             new == [rows[p] EXCEPT !.expires = tx[c].start + call[c].lease]
  <2>1. rows' = rows \/ rows' = [rows EXCEPT ![p] = new]
    BY <1>6 DEF RefreshRow, Write, Commit, Refuse, End
  <2>2. p = o => new.fence = rows[o].fence
    BY <1>1 DEF Row
  <2> HIDE DEF new, p
  <2> QED BY <2>1, <2>2, <1>2, <1>3
<1>7. CASE DowngradeRow(c)
  <2> DEFINE p == call[c].owner
             new == [rows[p] EXCEPT !.mode = "r", !.count = 1]
  <2>1. rows' = rows \/ (rows' = [rows EXCEPT ![p] = new] /\ rows[p].count = 1)
    BY <1>7 DEF DowngradeRow, Write, Commit, End
  <2>2. p = o /\ rows[p].count = 1 => new.fence = rows[o].fence
    <3> SUFFICES ASSUME p = o, rows[o].count = 1
                 PROVE  [rows[o] EXCEPT !.mode = "r", !.count = 1].fence = rows[o].fence
      OBVIOUS
    <3> QED BY <1>1, DowngradedRow
  <2> HIDE DEF new, p
  <2> QED BY <2>1, <2>2, <1>2, <1>3
<1>8. CASE ReleaseRow(c)
  <2> DEFINE p == call[c].owner
             new == CountedDown(rows[p])
  <2>1. rows' = rows \/ (rows' = [rows EXCEPT ![p] = new] /\ Matches(c))
    BY <1>8 DEF ReleaseRow, Write, Commit, Refuse, End
  <2>2. CASE p = o /\ Matches(c) /\ ~ rows[o].count > 1
    <3>1. rows[o].count = 1
      BY <2>2, <1>1, CountedDownRow
    <3> QED BY <2>2, <3>1, <1>8 DEF Matches, ReleaseRow
  <2>3. CASE p = o /\ rows[o].count > 1
    <3>1. new.fence = rows[o].fence
      BY <2>3, <1>1, CountedDownRow
    <3> HIDE DEF new, p
    <3> QED BY <2>1, <3>1, <1>2, <1>3
  <2>4. CASE p # o
    <3> HIDE DEF new, p
    <3> QED BY <2>1, <2>4, <1>2, <1>3
  <2> QED BY <2>1, <2>2, <2>3, <2>4, <1>2
<1>9. ASSUME Serialize(c) \/ DeleteRow(c) \/ Load(c) \/ Diagnose(c) \/ DeadlockError(c)
      PROVE  rows' = rows
  BY <1>9, <1>types DEF Serialize, DeleteRow, Load, Diagnose, DeadlockError, Refuse, End
<1> QED
  BY <1>2, <1>4, <1>5, <1>6, <1>7, <1>8, <1>9 DEF CallStep

LEMMA NextSafe == Core /\ [Next]_vars => [SafeStep]_vars
<1> SUFFICES ASSUME Core, Next PROVE SafeStep
  OBVIOUS
<1>1. CASE rows' = rows
  BY <1>1 DEF SafeStep
<1>2. ASSUME NEW c \in Calls, CallStep(c) PROVE SafeStep
  BY <1>2, CallSafe
<1>3. ASSUME NEW c \in Calls, Fail(c) PROVE rows' = rows
  BY <1>3 DEF Fail, End
<1>4. ASSUME NEW c \in Calls, NEW args, Begin(c, args) PROVE rows' = rows
  BY <1>4 DEF Begin
<1>5. ASSUME ReaperStep \/ ReaperFail PROVE SafeStep
  <2>1. rows' = rows \/ rows' = View(Reaper)
    BY <1>5 DEF ReaperStep, ReaperFail, ReaperWake, DeleteRow, ReaperDone, DeadlockError, ReaperEnds
  <2>2. Reaper \in Txs
    BY Constants
  <2> QED BY <1>1, <2>1, <2>2, LiveInView DEF SafeStep
<1>6. CASE Drop
  BY <1>6 DEF SafeStep
<1>7. CASE Tick \/ ensureSchema
  BY <1>1, <1>7 DEF Tick, ensureSchema
<1> QED
  BY <1>1, <1>2, <1>3, <1>4, <1>5, <1>6, <1>7 DEF Next, TryAcquire, Refresh, Release, Downgrade

-----------------------------------------------------------------------------
(* The theorems.                                                           *)

LEMMA Invariance == Spec => []Inv
<1>1. Init => Inv
  <2>1. Init => AnswersAreTrue
    BY DEF Init, NoAnswer, AnswersAreTrue
  <2> QED BY <2>1, InitCore DEF Inv
<1>2. Inv /\ [Next]_vars => Inv'
  BY NextCore, NextAnswers DEF Inv
<1> QED
  BY <1>1, <1>2, PTL DEF Spec

(* driver.go, postgrec: the rows, the transactions, the calls and the      *)
(* history keep their types for any owners, connections and bounds: no     *)
(* fence and no count exceeds the calls that were made.                    *)
THEOREM Types == Spec => []TypeOK
<1>1. Inv => TypeOK
  BY DEF Inv, Core
<1> QED
  BY <1>1, Invariance, PTL

(* CONTEXT.md, "Key": one writer or several readers, whatever connections  *)
(* break, however long a transaction waits with an old now(), and although *)
(* the rows are read in one statement and written in another.              *)
THEOREM Exclusion == Spec => []RowsExclude
<1>1. Inv => RowsExclude
  BY DEF Inv, Core
<1> QED
  BY <1>1, Invariance, PTL

(* driver.go: a lease that was granted stays in the table until it ends,   *)
(* the ghost of a reentry without a row aside.                             *)
THEOREM LeasesStay == Spec => []GrantsAreBacked
<1>1. Inv => GrantsAreBacked
  BY DEF Inv, Core
<1> QED
  BY <1>1, Invariance, PTL

(* driver.go: a refusal says what is the case, the one exception being a   *)
(* Downgrade whose SELECT fails.                                           *)
THEOREM TrueAnswers == Spec => []AnswersAreTrue
<1>1. Inv => AnswersAreTrue
  BY DEF Inv
<1> QED
  BY <1>1, Invariance, PTL

(* ADR-0003: only the release of its last count, with its fence, takes a   *)
(* row away whose lease runs; neither the reaper nor another owner does.   *)
THEOREM OnlyReleaseTakesALiveRow == Spec => LiveRowsAreSafe
<1>1. Inv /\ [Next]_vars => [SafeStep]_vars
  BY NextSafe DEF Inv
<1>2. LiveRowsAreSafe <=> [][SafeStep]_vars
  BY DEF LiveRowsAreSafe, SafeStep
<1> QED
  BY <1>1, <1>2, Invariance, PTL DEF Spec

=============================================================================
