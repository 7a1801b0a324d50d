-------------------------- MODULE RedisDriver_proof --------------------------
(***************************************************************************)
(* What the Lua scripts of the Redis driver keep, for any number of owners,*)
(* any clocks, any delay, loss or repetition of scripts and any leases;    *)
(* and, for clocks that agree and scripts that arrive within the tick,     *)
(* that they implement LeaseLock.  A hash is looked at through At, the     *)
(* entry that each owner has in it: every script is described by what it   *)
(* does to At, whether the hash belongs to a writer or to readers.         *)
(***************************************************************************)
EXTENDS RedisDriver, FiniteSetTheorems, TLAPS

Hash == [mode : {"nil", "0", "1"}, owner : Owners \cup {NoOwner},
         writer : Entry, readers : [Owners -> Entry]]

(* A hash the scripts can leave behind.                                    *)
Sound(k) ==
  /\ k \in Hash
  /\ k.mode # "0" => k.owner = NoOwner /\ k.writer = NoEntry
  /\ k.mode = "0" => k.owner # NoOwner /\ k.writer # NoEntry
  /\ k.mode = "1" <=> k.readers # NoReaders

At(k, o) == entry(k, k.mode, o)

(* The record is there for as long as the server's clock has not reached   *)
(* its TTL, and its TTL ends after every lease in it.                      *)
Expiry ==
  /\ ttl \in Nat
  /\ lock.mode = "nil" <=> ttl = 0
  /\ lock.mode # "nil" => ttl > time
  /\ ReclaimTakesOnlyTheDead

(* A script carries a clock reading of the past, and a lease if it needs   *)
(* one; only writers downgrade.                                            *)
Sent ==
  /\ calls \subseteq Call
  /\ IsFiniteSet(calls) /\ Cardinality(calls) <= MaxCalls
  /\ \A c \in calls :
       /\ c.now <= Clock(c.owner)
       /\ c.op = "downgrade" => c.mode = "0"
       /\ c.op \in {"acquire", "refresh"} => c.lease \in Leases

Grant == [mode : {"0", "1", "none"}, fence : 0 .. MaxFence, until : Nat]

FencesIssued ==
  \A o \in Owners : At(lock, o).fence <= counter /\ granted[o].fence <= counter

(* A lease that runs on every clock is in the record.                      *)
Kept(o) ==
  granted[o].mode # "none" /\ (\A p \in Owners : granted[o].until > Clock(p)) =>
    /\ lock.mode = granted[o].mode
    /\ At(lock, o).fence = granted[o].fence
    /\ At(lock, o).expires = granted[o].until

(* What is in the record is newer than every lease it conflicts with.      *)
Newer(p) ==
  \A o \in Owners \ {p} :
    /\ granted[p].mode # "none" /\ At(lock, o) # NoEntry
    /\ "0" \in {lock.mode, granted[p].mode}
    => At(lock, o).fence > granted[p].fence

Inv ==
  /\ Sound(lock) /\ Expiry /\ Sent
  /\ counter \in 0 .. MaxFence /\ time \in 0 .. MaxTime
  /\ granted \in [Owners -> Grant]
  /\ FencesIssued
  /\ \A o \in Owners : Kept(o) /\ Newer(o)

-----------------------------------------------------------------------------
(* Entries and hashes.                                                     *)

LEMMA Constants ==
  /\ NoOwner \notin Owners /\ Leases \subseteq Nat
  /\ \A o \in Owners : Offset[o] \in Nat
  /\ MaxDelay \in Nat /\ MaxCalls \in Nat /\ MaxFence \in Nat
  /\ MaxCount \in Nat /\ MaxCount >= 1 /\ MaxTime \in Nat
BY RedisAssumption

LEMMA EntryFacts ==
  /\ NoEntry \in Entry
  /\ NoEntry.count = 0 /\ NoEntry.fence = 0 /\ NoEntry.expires = 0
  /\ \A e \in Entry :
       /\ e.count \in 0 .. MaxCount /\ e.fence \in 0 .. MaxFence /\ e.expires \in Nat
       /\ e # NoEntry => e.count \in 1 .. MaxCount /\ e.fence \in 1 .. MaxFence
       /\ e = NoEntry <=> e.count = 0
  /\ \A n \in 1 .. MaxCount, f \in 1 .. MaxFence, x \in Nat :
       LET e == [count |-> n, fence |-> f, expires |-> x] IN
       e \in Entry /\ e # NoEntry
BY Constants DEF Entry, NoEntry

WriteHash(o, e) == [mode |-> "0", owner |-> o, writer |-> e, readers |-> NoReaders]
ReadHash(R)     == [mode |-> "1", owner |-> NoOwner, writer |-> NoEntry, readers |-> R]

LEMMA NoReadersFacts ==
  /\ NoReaders \in [Owners -> Entry]
  /\ \A o \in Owners : NoReaders[o] = NoEntry
  /\ \A R \in [Owners -> Entry] : R # NoReaders <=> \E o \in Owners : R[o] # NoEntry
BY EntryFacts DEF NoReaders

(* A sound hash has one of three shapes.                                   *)
LEMMA SoundShapes ==
  ASSUME NEW k, Sound(k)
  PROVE  \/ k = NoKey
         \/ \E o \in Owners, e \in Entry \ {NoEntry} : k = WriteHash(o, e)
         \/ \E R \in [Owners -> Entry] \ {NoReaders} : k = ReadHash(R)
<1>1. /\ k \in Hash
      /\ k = [mode |-> k.mode, owner |-> k.owner, writer |-> k.writer, readers |-> k.readers]
  BY DEF Sound, Hash
<1>2. CASE k.mode = "nil"
  BY <1>1, <1>2 DEF Sound, NoKey
<1>3. CASE k.mode = "0"
  <2>1. k.owner \in Owners /\ k.writer \in Entry \ {NoEntry} /\ k.readers = NoReaders
    BY <1>1, <1>3 DEF Sound, Hash
  <2>2. k = WriteHash(k.owner, k.writer)
    BY <1>1, <1>3, <2>1 DEF WriteHash
  <2> QED BY <2>1, <2>2
<1>4. CASE k.mode = "1"
  <2>1. k.owner = NoOwner /\ k.writer = NoEntry /\ k.readers \in [Owners -> Entry] \ {NoReaders}
    BY <1>1, <1>4 DEF Sound, Hash
  <2>2. k = ReadHash(k.readers)
    BY <1>1, <1>4, <2>1 DEF ReadHash
  <2> QED BY <2>1, <2>2
<1> QED BY <1>1, <1>2, <1>3, <1>4 DEF Hash

(* The three shapes and what is in them.                                   *)
LEMMA NoKeyView ==
  /\ Sound(NoKey) /\ NoKey.mode = "nil"
  /\ \A p \in Owners : At(NoKey, p) = NoEntry
BY Constants, NoReadersFacts, EntryFacts DEF Sound, NoKey, Hash, At, entry

LEMMA WriteHashView ==
  ASSUME NEW o \in Owners, NEW e \in Entry, e # NoEntry
  PROVE  /\ Sound(WriteHash(o, e)) /\ WriteHash(o, e).mode = "0"
         /\ \A p \in Owners : At(WriteHash(o, e), p) = IF p = o THEN e ELSE NoEntry
BY Constants, NoReadersFacts, EntryFacts DEF Sound, WriteHash, Hash, At, entry

LEMMA ReadHashView ==
  ASSUME NEW R \in [Owners -> Entry], R # NoReaders
  PROVE  /\ Sound(ReadHash(R)) /\ ReadHash(R).mode = "1"
         /\ \A p \in Owners : At(ReadHash(R), p) = R[p]
         /\ \E p \in Owners : At(ReadHash(R), p) # NoEntry
BY Constants, NoReadersFacts, EntryFacts DEF Sound, ReadHash, Hash, At, entry

(* Nobody but the writer is in a hash in write mode.                       *)
LEMMA SoundView ==
  ASSUME NEW k, Sound(k)
  PROVE  /\ \A p \in Owners : At(k, p) \in Entry
         /\ k.mode \in {"nil", "0", "1"}
         /\ k.mode = "nil" => k = NoKey
         /\ k.mode # "nil" <=> \E p \in Owners : At(k, p) # NoEntry
         /\ \A p, q \in Owners :
              k.mode = "0" /\ At(k, p) # NoEntry /\ At(k, q) # NoEntry => p = q
         /\ k = NoKey <=> k.mode = "nil"
<1>1. CASE k = NoKey
  BY <1>1, NoKeyView, EntryFacts
<1>2. ASSUME NEW o \in Owners, NEW e \in Entry \ {NoEntry}, k = WriteHash(o, e)
      PROVE  /\ \A p \in Owners : At(k, p) = IF p = o THEN e ELSE NoEntry
             /\ k.mode = "0" /\ k # NoKey
  BY <1>2, WriteHashView, NoKeyView
<1>3. ASSUME NEW R \in [Owners -> Entry] \ {NoReaders}, k = ReadHash(R)
      PROVE  /\ \A p \in Owners : At(k, p) = R[p]
             /\ k.mode = "1" /\ k # NoKey
             /\ \E p \in Owners : At(k, p) # NoEntry
  BY <1>3, ReadHashView, NoKeyView
<1>4. CASE \E o \in Owners, e \in Entry \ {NoEntry} : k = WriteHash(o, e)
  BY <1>2, <1>4, EntryFacts
<1>5. CASE \E R \in [Owners -> Entry] \ {NoReaders} : k = ReadHash(R)
  BY <1>3, <1>5, EntryFacts
<1> QED BY <1>1, <1>4, <1>5, SoundShapes
-----------------------------------------------------------------------------
(* What the helpers of the scripts do to a hash.                           *)

(* k and z differ at o only, where z has e.                                *)
Rewrites(k, z, o, e) == \A p \in Owners : At(z, p) = IF p = o THEN e ELSE At(k, p)

LEMMA Rewriting ==
  ASSUME NEW k, Sound(k), NEW o \in Owners, NEW e \in Entry, e # NoEntry,
         At(k, o) # NoEntry
  PROVE  LET z == withEntry(k, k.mode, o, e) IN
         Sound(z) /\ z.mode = k.mode /\ Rewrites(k, z, o, e)
<1> DEFINE z == withEntry(k, k.mode, o, e)
<1>1. CASE k = NoKey
  BY <1>1, NoKeyView
<1>2. ASSUME NEW q \in Owners, NEW x \in Entry \ {NoEntry}, k = WriteHash(q, x)
      PROVE  Sound(z) /\ z.mode = k.mode /\ Rewrites(k, z, o, e)
  <2>1. q = o /\ k.mode = "0"
    BY <1>2, WriteHashView
  <2>2. z = WriteHash(o, e)
    BY <1>2, <2>1 DEF withEntry, WriteHash
  <2> HIDE DEF z
  <2> QED BY <1>2, <2>1, <2>2, WriteHashView DEF Rewrites
<1>3. ASSUME NEW R \in [Owners -> Entry] \ {NoReaders}, k = ReadHash(R)
      PROVE  Sound(z) /\ z.mode = k.mode /\ Rewrites(k, z, o, e)
  <2> DEFINE S == [R EXCEPT ![o] = e]
  <2>1. S \in [Owners -> Entry] /\ S # NoReaders
        /\ \A p \in Owners : S[p] = IF p = o THEN e ELSE R[p]
    BY <1>3, NoReadersFacts
  <2>2. z = ReadHash(S) /\ k.mode = "1"
    BY <1>3 DEF withEntry, ReadHash
  <2> HIDE DEF z, S
  <2> QED BY <1>3, <2>1, <2>2, ReadHashView DEF Rewrites
<1> QED BY <1>1, <1>2, <1>3, SoundShapes

(* A reader that was not there joins.                                      *)
LEMMA Joining ==
  ASSUME NEW k, Sound(k), k.mode \in {"nil", "1"}, NEW o \in Owners,
         NEW e \in Entry, e # NoEntry
  PROVE  LET z == [k EXCEPT !.mode = "1", !.readers[o] = e] IN
         Sound(z) /\ z.mode = "1" /\ Rewrites(k, z, o, e)
<1> DEFINE z == [k EXCEPT !.mode = "1", !.readers[o] = e]
           S == [k.readers EXCEPT ![o] = e]
<1>1. /\ k.readers \in [Owners -> Entry] /\ k.owner = NoOwner /\ k.writer = NoEntry
      /\ k = [mode |-> k.mode, owner |-> k.owner, writer |-> k.writer, readers |-> k.readers]
  BY DEF Sound, Hash
<1>2. \A p \in Owners : At(k, p) = k.readers[p]
  <2>1. CASE k.mode = "1"
    BY <2>1 DEF At, entry
  <2>2. CASE k.mode = "nil"
    BY <2>2, SoundView, NoKeyView, NoReadersFacts DEF NoKey
  <2> QED BY <2>1, <2>2
<1>3. z = ReadHash(S)
  <2> DEFINE y == [k EXCEPT !.mode = "1"]
  <2>1. y = [mode |-> "1", owner |-> NoOwner, writer |-> NoEntry, readers |-> k.readers]
    BY <1>1
  <2>2. z = [y EXCEPT !.readers[o] = e]
    BY DEF z, y
  <2> HIDE DEF y
  <2>3. [y EXCEPT !.readers[o] = e] = ReadHash(S)
    BY <2>1 DEF ReadHash
  <2> QED BY <2>2, <2>3
<1>4. S \in [Owners -> Entry] /\ S # NoReaders
      /\ \A p \in Owners : S[p] = IF p = o THEN e ELSE k.readers[p]
  BY <1>1, NoReadersFacts
<1> HIDE DEF z, S
<1> QED BY <1>2, <1>3, <1>4, ReadHashView DEF Rewrites, z

(* A fresh write record.                                                   *)
LEMMA Taking ==
  ASSUME NEW o \in Owners, NEW e \in Entry, e # NoEntry
  PROVE  LET z == [NoKey EXCEPT !.mode = "0", !.owner = o, !.writer = e] IN
         Sound(z) /\ z.mode = "0" /\ Rewrites(NoKey, z, o, e)
<1> DEFINE x == [NoKey EXCEPT !.mode = "0"]
           y == [x EXCEPT !.owner = o]
<1>1. [NoKey EXCEPT !.mode = "0", !.owner = o, !.writer = e] = WriteHash(o, e)
  <2>1. x = [mode |-> "0", owner |-> NoOwner, writer |-> NoEntry, readers |-> NoReaders]
    BY DEF NoKey
  <2>2. [NoKey EXCEPT !.mode = "0", !.owner = o, !.writer = e] = [y EXCEPT !.writer = e]
    BY DEF x, y
  <2> HIDE DEF x
  <2>3. y = [mode |-> "0", owner |-> o, writer |-> NoEntry, readers |-> NoReaders]
    BY <2>1
  <2> HIDE DEF y
  <2>4. [y EXCEPT !.writer = e] = WriteHash(o, e)
    BY <2>3 DEF WriteHash
  <2> QED BY <2>2, <2>4
<1> HIDE DEF x, y
<1> QED BY <1>1, WriteHashView, NoKeyView DEF Rewrites

(* The clean-up of acquireScript takes the dead entries and nothing else.  *)
LEMMA Cleaning ==
  ASSUME Sound(lock), NEW n \in Nat
  PROVE  /\ Sound(cleaned(n))
         /\ cleaned(n).mode \in {lock.mode, "nil"}
         /\ \A p \in Owners :
              At(cleaned(n), p) = IF At(lock, p).expires > n THEN At(lock, p) ELSE NoEntry
<1>1. CASE lock = NoKey
  <2>1. lock.mode = "nil" /\ \A p \in Owners : lock.readers[p] = NoEntry
    BY <1>1, NoReadersFacts DEF NoKey
  <2>2. aliveReaders(n) = {}
    BY <2>1, EntryFacts DEF aliveReaders
  <2>3. cleaned(n) = NoKey
    BY <2>1, <2>2 DEF cleaned
  <2> QED BY <1>1, <2>3, NoKeyView, EntryFacts
<1>2. ASSUME NEW o \in Owners, NEW e \in Entry \ {NoEntry}, lock = WriteHash(o, e)
      PROVE  /\ Sound(cleaned(n))
             /\ cleaned(n).mode \in {lock.mode, "nil"}
             /\ \A p \in Owners :
                  At(cleaned(n), p) = IF At(lock, p).expires > n THEN At(lock, p) ELSE NoEntry
  <2>1. cleaned(n) = IF e.expires > n THEN WriteHash(o, e) ELSE NoKey
    BY <1>2 DEF cleaned, WriteHash
  <2> QED BY <1>2, <2>1, WriteHashView, NoKeyView, EntryFacts
<1>3. ASSUME NEW R \in [Owners -> Entry] \ {NoReaders}, lock = ReadHash(R)
      PROVE  /\ Sound(cleaned(n))
             /\ cleaned(n).mode \in {lock.mode, "nil"}
             /\ \A p \in Owners :
                  At(cleaned(n), p) = IF At(lock, p).expires > n THEN At(lock, p) ELSE NoEntry
  <2> DEFINE A == aliveReaders(n)
             S == [p \in Owners |-> IF p \in A THEN R[p] ELSE NoEntry]
  <2>1. A = {p \in Owners : R[p].expires > n}
    BY <1>3 DEF aliveReaders, ReadHash
  <2>2. cleaned(n) = IF A = {} THEN NoKey ELSE ReadHash(S)
    BY <1>3 DEF cleaned, ReadHash
  <2>3. S \in [Owners -> Entry] /\ \A p \in Owners : S[p] = IF R[p].expires > n THEN R[p] ELSE NoEntry
    BY <1>3, <2>1, EntryFacts
  <2> HIDE DEF A, S
  <2>4. CASE A = {}
    BY <1>3, <2>1, <2>2, <2>4, ReadHashView, NoKeyView
  <2>5. CASE A # {}
    <3>1. PICK p \in Owners : R[p].expires > n
      BY <2>1, <2>5
    <3>2. S[p] # NoEntry
      BY <2>3, <3>1, EntryFacts
    <3>3. S # NoReaders
      BY <2>3, <3>2, NoReadersFacts
    <3> QED BY <1>3, <2>2, <2>3, <2>5, <3>3, ReadHashView
  <2> QED BY <2>4, <2>5
<1> QED BY <1>1, <1>2, <1>3, SoundShapes

(* One count less.                                                         *)
LEMMA CountingDown ==
  ASSUME Sound(lock), NEW c, c.owner \in Owners, c.mode = lock.mode,
         At(lock, c.owner) # NoEntry
  PROVE  LET e == At(lock, c.owner)
             z == countedDown(c) IN
         /\ Sound(z)
         /\ e.count > 1 => /\ z.mode = lock.mode
                           /\ [e EXCEPT !.count = e.count - 1] \in Entry \ {NoEntry}
                           /\ Rewrites(lock, z, c.owner, [e EXCEPT !.count = e.count - 1])
         /\ ~ (e.count > 1) => /\ z.mode \in {lock.mode, "nil"}
                               /\ Rewrites(lock, z, c.owner, NoEntry)
<1> DEFINE e == At(lock, c.owner)
           x == [e EXCEPT !.count = e.count - 1]
           z == countedDown(c)
           k == withEntry(lock, c.mode, c.owner, NoEntry)
<1>1. e \in Entry /\ e # NoEntry /\ e.count \in 1 .. MaxCount /\ MaxCount \in Nat
  BY SoundView, EntryFacts, Constants
<1>2. entry(lock, c.mode, c.owner) = e
  BY DEF At
<1>3. CASE e.count > 1
  <2>1. e.count - 1 \in 1 .. MaxCount
    BY <1>1, <1>3
  <2>2. x \in Entry /\ x # NoEntry
    BY <1>1, <2>1 DEF Entry, NoEntry
  <2>3. z = withEntry(lock, lock.mode, c.owner, x)
    BY <1>2, <1>3 DEF countedDown
  <2> HIDE DEF x, z, e
  <2>4. Sound(z) /\ z.mode = lock.mode /\ Rewrites(lock, z, c.owner, x)
    BY <2>2, <2>3, Rewriting
  <2> QED BY <1>3, <2>2, <2>4 DEF x, z, e
<1>4. ASSUME ~ (e.count > 1)
      PROVE  Sound(z) /\ z.mode \in {lock.mode, "nil"} /\ Rewrites(lock, z, c.owner, NoEntry)
  <2>1. z = IF c.mode = "1" /\ k.readers # NoReaders THEN k ELSE NoKey
    BY <1>2, <1>4 DEF countedDown
  <2>2. CASE lock = NoKey
    BY <2>2, NoKeyView
  <2>3. ASSUME NEW q \in Owners, NEW y \in Entry \ {NoEntry}, lock = WriteHash(q, y)
        PROVE  Sound(z) /\ z.mode \in {lock.mode, "nil"} /\ Rewrites(lock, z, c.owner, NoEntry)
    <3>1. q = c.owner /\ lock.mode = "0"
      BY <2>3, WriteHashView
    <3>2. z = NoKey
      BY <2>1, <3>1
    <3> HIDE DEF z
    <3> QED BY <2>3, <3>1, <3>2, WriteHashView, NoKeyView DEF Rewrites
  <2>4. ASSUME NEW R \in [Owners -> Entry] \ {NoReaders}, lock = ReadHash(R)
        PROVE  Sound(z) /\ z.mode \in {lock.mode, "nil"} /\ Rewrites(lock, z, c.owner, NoEntry)
    <3> DEFINE S == [R EXCEPT ![c.owner] = NoEntry]
    <3>1. S \in [Owners -> Entry]
          /\ \A p \in Owners : S[p] = IF p = c.owner THEN NoEntry ELSE R[p]
      BY <2>4, EntryFacts
    <3>2. k = ReadHash(S) /\ lock.mode = "1" /\ k.readers = S
      BY <2>4 DEF withEntry, ReadHash
    <3> HIDE DEF S, k, z
    <3>3. CASE S # NoReaders
      BY <2>1, <2>4, <3>1, <3>2, <3>3, ReadHashView DEF Rewrites
    <3>4. CASE S = NoReaders
      <4>1. z = NoKey
        BY <2>1, <3>2, <3>4
      <4>2. \A p \in Owners : S[p] = NoEntry
        BY <3>4, NoReadersFacts
      <4> QED BY <2>4, <3>1, <4>1, <4>2, ReadHashView, NoKeyView DEF Rewrites
    <3> QED BY <3>3, <3>4
  <2> QED BY <2>2, <2>3, <2>4, SoundShapes
<1> QED BY <1>3, <1>4

(* A write record becomes the record of one reader.                        *)
LEMMA Lowering ==
  ASSUME Sound(lock), lock.mode = "0", NEW o \in Owners, At(lock, o) # NoEntry,
         At(lock, o).count <= 1
  PROVE  LET e == [lock.writer EXCEPT !.count = 1]
             z == [NoKey EXCEPT !.mode = "1", !.readers[o] = e] IN
         /\ e = At(lock, o)
         /\ Sound(z) /\ z.mode = "1" /\ Rewrites(lock, z, o, At(lock, o))
<1> DEFINE e == [lock.writer EXCEPT !.count = 1]
           z == [NoKey EXCEPT !.mode = "1", !.readers[o] = e]
<1>1. At(lock, o) = lock.writer /\ lock.writer \in Entry /\ lock.writer # NoEntry
  BY SoundView DEF At, entry
<1>2. lock.writer.count = 1
  BY <1>1, EntryFacts, Constants
<1>3. e = lock.writer
  <2>1. lock.writer = [count |-> lock.writer.count, fence |-> lock.writer.fence,
                       expires |-> lock.writer.expires]
    BY <1>1 DEF Entry, NoEntry
  <2> QED BY <1>2, <2>1
<1>4. \A p \in Owners : p # o => At(lock, p) = NoEntry
  BY <1>1, SoundView
<1>5. ASSUME NEW x \in Entry \ {NoEntry}
      PROVE  LET y == [NoKey EXCEPT !.mode = "1", !.readers[o] = x]
             IN  Sound(y) /\ y.mode = "1" /\ Rewrites(NoKey, y, o, x)
  BY NoKeyView, Joining
<1>7. Sound(z) /\ z.mode = "1" /\ Rewrites(NoKey, z, o, e)
  BY <1>1, <1>3, <1>5
<1> HIDE DEF z, e
<1>6. Rewrites(lock, z, o, At(lock, o))
  BY <1>1, <1>3, <1>4, <1>7, NoKeyView DEF Rewrites
<1> QED BY <1>1, <1>3, <1>6, <1>7 DEF e, z
-----------------------------------------------------------------------------
(* What one run of a script may do.  Entries are lost only when they are   *)
(* dead by the script's reading of the clock; only the entry and the grant *)
(* of the caller are written, and these two agree.                         *)

Stays(p) ==
  At(lock', p) = At(lock, p) /\ (At(lock, p) # NoEntry => lock'.mode = lock.mode)

Purged(p, n) == At(lock', p) = NoEntry /\ At(lock, p).expires <= n

(* The caller's entry is a new generation, or the one it was.              *)
Continues(o) ==
  At(lock', o) # NoEntry =>
    \/ At(lock', o).fence = counter' /\ counter' = counter + 1
    \/ /\ At(lock, o) # NoEntry /\ At(lock', o).fence = At(lock, o).fence
       /\ lock'.mode = "0" => lock.mode = "0"

Agrees(o) ==
  \/ granted'[o] = NotGranted
  \/ /\ At(lock', o) # NoEntry
     /\ granted'[o] = [mode |-> lock'.mode, fence |-> At(lock', o).fence,
                       until |-> At(lock', o).expires]

Outcome(c) ==
  /\ Sound(lock')
  /\ ttl' \in Nat /\ (lock'.mode = "nil" <=> ttl' = 0) /\ (lock'.mode # "nil" => ttl' > time)
  /\ \A p \in Owners : At(lock', p).expires <= ttl' + Offset[p]
  /\ counter' \in counter .. MaxFence
  /\ granted' \in [Owners -> Grant]
  /\ \A p \in Owners \ {c.owner} :
       granted'[p] = granted[p] /\ (Stays(p) \/ Purged(p, c.now))
  /\ \/ granted'[c.owner] = granted[c.owner] /\ (Stays(c.owner) \/ Purged(c.owner, c.now))
     \/ Continues(c.owner) /\ Agrees(c.owner)

LEMMA CallFacts ==
  ASSUME Inv, NEW c \in calls
  PROVE  /\ c.owner \in Owners /\ c.mode \in {"0", "1"} /\ c.now \in Nat /\ c.lease \in Nat
         /\ c.fence \in 0 .. MaxFence
         /\ time \in Nat /\ counter \in Nat /\ ttl \in Nat
         /\ Clock(c.owner) \in Nat /\ Clock(c.owner) = time + Offset[c.owner]
         /\ c.now <= Clock(c.owner)
         /\ Sound(lock)
         /\ \A p \in Owners : At(lock, p) \in Entry /\ At(lock, p).expires <= ttl + Offset[p]
         /\ lock.mode # "nil" => ttl > time
         /\ lock.mode = "nil" <=> ttl = 0
<1>1. c \in Call /\ c.now <= Clock(c.owner)
  BY DEF Inv, Sent
<1>2. /\ c.owner \in Owners /\ c.mode \in {"0", "1"} /\ c.now \in Nat /\ c.lease \in Nat
      /\ c.fence \in 0 .. MaxFence
  <2>1. c.owner \in Owners /\ c.mode \in {"0", "1"} /\ c.now \in Nat /\ c.lease \in Leases \cup {0}
        /\ c.fence \in 0 .. MaxFence
    BY <1>1 DEF Call
  <2>2. \A l \in Leases : l \in Nat
    BY Constants
  <2> QED BY <2>1, <2>2
<1>3. time \in Nat /\ counter \in Nat
  BY Constants DEF Inv
<1>4. Sound(lock) /\ Expiry
  BY DEF Inv
<1>5. \A p \in Owners : At(lock, p) \in Entry /\ At(lock, p).expires <= ttl + Offset[p]
  BY <1>4, SoundView DEF Expiry, ReclaimTakesOnlyTheDead, At
<1> QED BY <1>1, <1>2, <1>3, <1>4, <1>5, Constants DEF Clock, Expiry

LEMMA ReentrantFacts ==
  ASSUME Inv, NEW c \in calls, reentrant(c)
  PROVE  /\ lock.mode = c.mode /\ entry(lock, c.mode, c.owner) = At(lock, c.owner)
         /\ At(lock, c.owner) # NoEntry /\ At(lock, c.owner).expires > c.now
         /\ ttl > time
<1>1. lock.mode = c.mode /\ entry(lock, c.mode, c.owner).expires > c.now
  BY DEF reentrant, mine
<1>2. entry(lock, c.mode, c.owner) = At(lock, c.owner)
  BY <1>1 DEF At
<1>3. NoEntry.expires = 0 /\ c.now \in Nat /\ c.mode # "nil"
  BY EntryFacts, CallFacts
<1> QED BY <1>1, <1>2, <1>3, CallFacts

(* granted after a script that leaves e as the caller's entry.             *)
LEMMA Granting ==
  ASSUME Inv, NEW c \in calls, NEW m \in {"0", "1"}, NEW e \in Entry, Granted(c.owner, m, e)
  PROVE  /\ granted' \in [Owners -> Grant]
         /\ \A p \in Owners \ {c.owner} : granted'[p] = granted[p]
         /\ granted'[c.owner] = IF e.expires <= Clock(c.owner) THEN NotGranted
                                ELSE [mode |-> m, fence |-> e.fence, until |-> e.expires]
<1>1. c.owner \in Owners /\ granted \in [Owners -> Grant]
  BY CallFacts DEF Inv
<1>2. NotGranted \in Grant
  BY Constants DEF NotGranted, Grant
<1>3. [mode |-> m, fence |-> e.fence, until |-> e.expires] \in Grant
  BY EntryFacts DEF Grant
<1> QED BY <1>1, <1>2, <1>3 DEF Granted

(* A reentry or a refresh: the entry of the caller is rewritten, unless    *)
(* its lease is 0 and it is a writer, whose record is deleted.             *)
LEMMA Prolonging ==
  ASSUME Inv, NEW c \in calls, reentrant(c), NEW e \in Entry, e # NoEntry,
         e.expires = c.now + c.lease,
         Record(withEntry(lock, c.mode, c.owner, e), extendedTTL(c.mode, ttl, c.lease))
  PROVE  /\ Sound(lock')
         /\ ttl' \in Nat
         /\ \/ /\ lock'.mode = lock.mode /\ Rewrites(lock, lock', c.owner, e)
               /\ ttl' > time
               /\ \A p \in Owners : At(lock', p).expires <= ttl' + Offset[p]
            \/ /\ lock' = NoKey /\ ttl' = 0 /\ lock.mode = "0" /\ c.lease = 0
               /\ e.expires <= Clock(c.owner)
<1> DEFINE z == withEntry(lock, c.mode, c.owner, e)
           t == extendedTTL(c.mode, ttl, c.lease)
<1>1. /\ Sound(z) /\ z.mode = lock.mode /\ Rewrites(lock, z, c.owner, e)
      /\ lock.mode = c.mode
  BY ReentrantFacts, CallFacts, Rewriting
<1>2. /\ t \in Nat
      /\ t >= time + 2 * c.lease
      /\ c.mode = "1" => t >= ttl
      /\ t <= time => c.lease = 0 /\ c.mode # "1"
  <2>1. ttl \in Nat /\ time \in Nat /\ c.lease \in Nat /\ ttl > time /\ 2 * c.lease \in Nat
    BY CallFacts, ReentrantFacts
  <2> QED BY <2>1 DEF extendedTTL
<1>3. /\ lock' = IF t <= time THEN NoKey ELSE z
      /\ ttl' = IF t <= time THEN 0 ELSE t
  BY DEF Record
<1> HIDE DEF z, t
<1>4. CASE t <= time
  BY <1>1, <1>2, <1>3, <1>4, CallFacts, NoKeyView
<1>5. CASE t > time
  <2>1. lock' = z /\ ttl' = t
    BY <1>2, <1>3, <1>5, CallFacts
  <2>2. ASSUME NEW p \in Owners PROVE At(lock', p).expires <= ttl' + Offset[p]
    <3>1. CASE p = c.owner
      <4>1. At(lock', p).expires = c.now + c.lease
        BY <1>1, <2>1, <3>1 DEF Rewrites
      <4>2. Offset[p] \in Nat
        BY Constants
      <4> QED BY <1>2, <2>1, <3>1, <4>1, <4>2, CallFacts
    <3>2. CASE p # c.owner
      <4>1. At(lock', p) = At(lock, p)
        BY <1>1, <2>1, <3>2 DEF Rewrites
      <4>2. Offset[p] \in Nat /\ At(lock, p).expires <= ttl + Offset[p]
            /\ At(lock, p) \in Entry /\ At(lock, p).expires \in Nat
        BY Constants, CallFacts, EntryFacts
      <4>3. CASE c.mode = "1"
        BY <1>2, <2>1, <4>1, <4>2, <4>3, CallFacts
      <4>4. CASE c.mode # "1"
        <5>1. At(lock, p) = NoEntry
          BY <1>1, <3>2, <4>4, ReentrantFacts, CallFacts, SoundView
        <5> QED BY <1>2, <2>1, <4>1, <4>2, <5>1, EntryFacts
      <4> QED BY <4>3, <4>4
    <3> QED BY <3>1, <3>2
  <2> QED BY <1>1, <1>2, <1>5, <2>1, <2>2
<1> QED BY <1>2, <1>4, <1>5, CallFacts

LEMMA ProlongOutcome ==
  ASSUME Inv, NEW c \in calls, reentrant(c), NEW e \in Entry, e # NoEntry,
         e.expires = c.now + c.lease, e.fence = At(lock, c.owner).fence,
         Record(withEntry(lock, c.mode, c.owner, e), extendedTTL(c.mode, ttl, c.lease)),
         Granted(c.owner, c.mode, e), counter' = counter
  PROVE  Outcome(c)
<1>1. /\ Sound(lock') /\ ttl' \in Nat
      /\ \/ /\ lock'.mode = lock.mode /\ Rewrites(lock, lock', c.owner, e)
            /\ ttl' > time
            /\ \A p \in Owners : At(lock', p).expires <= ttl' + Offset[p]
         \/ /\ lock' = NoKey /\ ttl' = 0 /\ lock.mode = "0" /\ c.lease = 0
            /\ e.expires <= Clock(c.owner)
  BY Prolonging
<1>2. /\ granted' \in [Owners -> Grant]
      /\ \A p \in Owners \ {c.owner} : granted'[p] = granted[p]
      /\ granted'[c.owner] = IF e.expires <= Clock(c.owner) THEN NotGranted
                             ELSE [mode |-> c.mode, fence |-> e.fence, until |-> e.expires]
  BY CallFacts, Granting
<1>3. /\ lock.mode = c.mode /\ At(lock, c.owner) # NoEntry /\ c.owner \in Owners
      /\ counter' \in counter .. MaxFence /\ c.mode # "nil" /\ time \in Nat
  BY ReentrantFacts, CallFacts DEF Inv
<1>4. CASE /\ lock'.mode = lock.mode /\ Rewrites(lock, lock', c.owner, e)
           /\ ttl' > time
           /\ \A p \in Owners : At(lock', p).expires <= ttl' + Offset[p]
  <2>1. At(lock', c.owner) = e /\ \A p \in Owners \ {c.owner} : Stays(p)
    BY <1>3, <1>4 DEF Rewrites, Stays
  <2>2. Continues(c.owner)
    BY <1>3, <1>4, <2>1 DEF Continues
  <2>3. Agrees(c.owner)
    BY <1>2, <1>3, <1>4, <2>1 DEF Agrees
  <2>4. ttl' # 0
    BY <1>1, <1>3, <1>4
  <2> QED BY <1>1, <1>2, <1>3, <1>4, <2>1, <2>2, <2>3, <2>4 DEF Outcome
<1>5. CASE /\ lock' = NoKey /\ ttl' = 0 /\ lock.mode = "0" /\ c.lease = 0
           /\ e.expires <= Clock(c.owner)
  <2>1. \A p \in Owners : At(lock', p) = NoEntry
    BY <1>5, NoKeyView
  <2>2. \A p \in Owners \ {c.owner} : Stays(p)
    BY <1>3, <1>5, <2>1, SoundView, CallFacts DEF Stays
  <2>3. Continues(c.owner) /\ Agrees(c.owner)
    BY <1>2, <1>5, <2>1, <1>3 DEF Continues, Agrees
  <2>4. \A p \in Owners : At(lock', p).expires <= ttl' + Offset[p]
    BY <1>5, <2>1, EntryFacts, Constants
  <2> QED BY <1>1, <1>2, <1>3, <1>5, <2>2, <2>3, <2>4, NoKeyView DEF Outcome
<1> QED BY <1>1, <1>4, <1>5
-----------------------------------------------------------------------------
(* Each branch of each script has such an outcome.                         *)

LEMMA RefusedOutcome ==
  ASSUME Inv, NEW c \in calls, Refuse
  PROVE  Outcome(c)
<1>1. /\ lock' = lock /\ ttl' = ttl /\ counter' = counter /\ granted' = granted
  BY DEF Refuse
<1>2. \A p \in Owners : Stays(p)
  BY <1>1 DEF Stays
<1>3. counter' \in counter .. MaxFence /\ granted' \in [Owners -> Grant]
  BY <1>1, CallFacts DEF Inv
<1> QED BY <1>1, <1>2, <1>3, CallFacts DEF Outcome

LEMMA ReentryOutcome ==
  ASSUME Inv, NEW c \in calls, reentrant(c), At(lock, c.owner).count < MaxCount,
         NEW e, e = [count |-> At(lock, c.owner).count + 1, fence |-> At(lock, c.owner).fence,
                     expires |-> c.now + c.lease],
         Record(withEntry(lock, c.mode, c.owner, e), extendedTTL(c.mode, ttl, c.lease)),
         Granted(c.owner, c.mode, e), counter' = counter
  PROVE  e \in Entry /\ e # NoEntry /\ Outcome(c)
<1>1. At(lock, c.owner) \in Entry /\ At(lock, c.owner) # NoEntry /\ c.now + c.lease \in Nat
  BY ReentrantFacts, CallFacts
<1>2. At(lock, c.owner).count + 1 \in 1 .. MaxCount /\ At(lock, c.owner).fence \in 1 .. MaxFence
  BY <1>1, EntryFacts, Constants
<1>3. e \in Entry /\ e # NoEntry
  BY <1>1, <1>2, EntryFacts
<1>4. e.expires = c.now + c.lease /\ e.fence = At(lock, c.owner).fence
  OBVIOUS
<1> QED BY <1>3, <1>4, ProlongOutcome

LEMMA RefreshedEntry ==
  ASSUME NEW e \in Entry, e # NoEntry, NEW x \in Nat
  PROVE  LET y == [e EXCEPT !.expires = x] IN
         /\ y \in Entry /\ y # NoEntry
         /\ y.expires = x /\ y.fence = e.fence /\ y.count = e.count
<1>1. e \in [count : 1 .. MaxCount, fence : 1 .. MaxFence, expires : Nat]
  BY DEF Entry
<1> QED BY <1>1, Constants DEF Entry, NoEntry

LEMMA RefreshOutcome ==
  ASSUME Inv, NEW c \in calls, refreshScript(c)
  PROVE  Outcome(c)
<1> DEFINE e == [entry(lock, c.mode, c.owner) EXCEPT !.expires = c.now + c.lease]
<1>1. CASE known(c) /\ ~ Refuse
  <2>1. /\ Record(withEntry(lock, c.mode, c.owner, e), extendedTTL(c.mode, ttl, c.lease))
        /\ Granted(c.owner, c.mode, e)
        /\ counter' = counter
    BY <1>1 DEF refreshScript
  <2>2. reentrant(c)
    BY <1>1 DEF known
  <2>3. /\ entry(lock, c.mode, c.owner) = At(lock, c.owner)
        /\ At(lock, c.owner) \in Entry /\ At(lock, c.owner) # NoEntry
        /\ c.now + c.lease \in Nat
    BY <2>2, ReentrantFacts, CallFacts
  <2>4. /\ e \in Entry /\ e # NoEntry
        /\ e.expires = c.now + c.lease /\ e.fence = At(lock, c.owner).fence
    BY <2>3, RefreshedEntry
  <2> HIDE DEF e
  <2> QED BY <2>1, <2>2, <2>4, ProlongOutcome
<1>2. CASE Refuse
  BY <1>2, RefusedOutcome
<1> QED BY <1>1, <1>2 DEF refreshScript

(* The clean-up alone.                                                     *)
LEMMA CleanedView ==
  ASSUME Inv, NEW c \in calls
  PROVE  /\ Sound(cleaned(c.now))
         /\ cleaned(c.now).mode \in {lock.mode, "nil"}
         /\ \A p \in Owners :
              \/ /\ At(lock, p).expires > c.now
                 /\ At(lock, p) # NoEntry
                 /\ At(cleaned(c.now), p) = At(lock, p)
                 /\ cleaned(c.now).mode = lock.mode
              \/ /\ At(lock, p).expires <= c.now
                 /\ At(cleaned(c.now), p) = NoEntry
<1> DEFINE k == cleaned(c.now)
<1>1. /\ Sound(k) /\ k.mode \in {lock.mode, "nil"}
      /\ \A p \in Owners :
           At(k, p) = IF At(lock, p).expires > c.now THEN At(lock, p) ELSE NoEntry
  BY CallFacts, Cleaning
<1> HIDE DEF k
<1>2. ASSUME NEW p \in Owners
      PROVE  \/ /\ At(lock, p).expires > c.now
                /\ At(lock, p) # NoEntry
                /\ At(k, p) = At(lock, p)
                /\ k.mode = lock.mode
             \/ /\ At(lock, p).expires <= c.now
                /\ At(k, p) = NoEntry
  <2>1. At(lock, p).expires \in Nat /\ c.now \in Nat
    BY CallFacts, EntryFacts
  <2>2. CASE At(lock, p).expires > c.now
    <3>1. At(lock, p) # NoEntry
      BY <2>1, <2>2, EntryFacts
    <3>2. k.mode # "nil"
      BY <1>1, <2>2, <3>1, SoundView
    <3> QED BY <1>1, <2>2, <3>1, <3>2
  <2>3. CASE ~ (At(lock, p).expires > c.now)
    BY <1>1, <2>1, <2>3
  <2> QED BY <2>2, <2>3
<1> QED BY <1>1, <1>2 DEF k

LEMMA TurnedAwayOutcome ==
  ASSUME Inv, NEW c \in calls, cleaned(c.now).mode # "nil",
         lock' = cleaned(c.now), UNCHANGED <<ttl, counter, granted>>
  PROVE  Outcome(c)
<1>1. \A p \in Owners : Stays(p) \/ Purged(p, c.now)
  BY CleanedView DEF Stays, Purged
<1>2. lock'.mode # "nil" /\ lock.mode # "nil" /\ Sound(lock')
  BY CleanedView
<1>3. \A p \in Owners : At(lock', p).expires <= ttl' + Offset[p]
  <2> TAKE p \in Owners
  <2>1. At(lock', p) = At(lock, p) \/ At(lock', p) = NoEntry
    BY CleanedView
  <2> QED BY <2>1, CallFacts, EntryFacts, Constants
<1>4. counter' \in counter .. MaxFence /\ granted' \in [Owners -> Grant]
  BY CallFacts DEF Inv
<1> QED BY <1>1, <1>2, <1>3, <1>4, CallFacts DEF Outcome

(* A fresh entry, in a record of its own or beside the readers that are    *)
(* alive.                                                                  *)
Fresh(c) == [count |-> 1, fence |-> counter + 1, expires |-> c.now + c.lease]

LEMMA FreshEntry ==
  ASSUME Inv, NEW c \in calls, counter < MaxFence
  PROVE  /\ Fresh(c) \in Entry /\ Fresh(c) # NoEntry
         /\ Fresh(c).count = 1 /\ Fresh(c).fence = counter + 1
         /\ Fresh(c).expires = c.now + c.lease
<1>1. counter + 1 \in 1 .. MaxFence /\ c.now + c.lease \in Nat /\ 1 \in 1 .. MaxCount
  BY CallFacts, Constants
<1> QED BY <1>1, EntryFacts DEF Fresh

FreshHash(c) ==
  IF c.mode = "0"
    THEN [NoKey EXCEPT !.mode = "0", !.owner = c.owner, !.writer = Fresh(c)]
    ELSE [cleaned(c.now) EXCEPT !.mode = "1", !.readers[c.owner] = Fresh(c)]

FreshTTL(c) ==
  extendedTTL("1", IF cleaned(c.now).mode = "nil" THEN 0 ELSE ttl, c.lease)

FreeFor(c) ==
  LET k == cleaned(c.now) IN
  k.mode = "nil" \/ (k.mode = "1" /\ c.mode = "1" /\ k.readers[c.owner] = NoEntry)

LEMMA FreshView ==
  ASSUME Inv, NEW c \in calls, FreeFor(c), counter < MaxFence
  PROVE  /\ Sound(FreshHash(c)) /\ FreshHash(c).mode = c.mode
         /\ Rewrites(cleaned(c.now), FreshHash(c), c.owner, Fresh(c))
         /\ cleaned(c.now).mode # "nil" => c.mode = "1" /\ cleaned(c.now).mode = "1"
<1>1. /\ Sound(cleaned(c.now)) /\ c.owner \in Owners /\ c.mode \in {"0", "1"}
      /\ Fresh(c) \in Entry /\ Fresh(c) # NoEntry
  BY CallFacts, CleanedView, FreshEntry
<1>2. CASE c.mode = "0"
  <2>1. cleaned(c.now) = NoKey /\ cleaned(c.now).mode = "nil"
    BY <1>1, <1>2, SoundView DEF FreeFor
  <2>2. FreshHash(c) = [NoKey EXCEPT !.mode = "0", !.owner = c.owner, !.writer = Fresh(c)]
    BY <1>2 DEF FreshHash
  <2>3. LET z == [NoKey EXCEPT !.mode = "0", !.owner = c.owner, !.writer = Fresh(c)]
        IN  Sound(z) /\ z.mode = "0" /\ Rewrites(NoKey, z, c.owner, Fresh(c))
    BY <1>1, Taking
  <2> QED BY <1>2, <2>1, <2>2, <2>3
<1>3. CASE c.mode = "1"
  <2>1. cleaned(c.now).mode \in {"nil", "1"}
    BY DEF FreeFor
  <2>2. FreshHash(c) = [cleaned(c.now) EXCEPT !.mode = "1", !.readers[c.owner] = Fresh(c)]
    BY <1>3 DEF FreshHash
  <2> DEFINE k == cleaned(c.now)
             e == Fresh(c)
             o == c.owner
  <2>3. Sound(k) /\ k.mode \in {"nil", "1"} /\ o \in Owners /\ e \in Entry /\ e # NoEntry
    BY <1>1, <2>1
  <2> HIDE DEF k, e, o
  <2>4. LET z == [k EXCEPT !.mode = "1", !.readers[o] = e]
        IN  Sound(z) /\ z.mode = "1" /\ Rewrites(k, z, o, e)
    BY <2>3, Joining
  <2> QED BY <1>3, <2>1, <2>2, <2>4 DEF k, e, o
<1> QED BY <1>1, <1>2, <1>3

(* It is stored, or, with a lease of 0 in a record of its own, deleted.    *)
LEMMA Storing ==
  ASSUME Inv, NEW c \in calls, FreeFor(c), counter < MaxFence,
         Record(FreshHash(c), FreshTTL(c))
  PROVE  /\ ttl' \in Nat
         /\ \/ /\ lock' = FreshHash(c) /\ ttl' > time
               /\ \A p \in Owners : At(lock', p).expires <= ttl' + Offset[p]
            \/ /\ lock' = NoKey /\ ttl' = 0 /\ c.lease = 0
               /\ cleaned(c.now).mode = "nil"
<1> DEFINE t == FreshTTL(c)
           k == cleaned(c.now)
<1>1. /\ ttl \in Nat /\ time \in Nat /\ c.lease \in Nat /\ 2 * c.lease \in Nat
      /\ k.mode # "nil" => ttl > time
  BY CallFacts, CleanedView
<1>2. /\ t \in Nat
      /\ t >= time + 2 * c.lease
      /\ k.mode # "nil" => t >= ttl
      /\ t <= time => c.lease = 0 /\ k.mode = "nil"
  BY <1>1 DEF extendedTTL, FreshTTL
<1>3. /\ lock' = IF t <= time THEN NoKey ELSE FreshHash(c)
      /\ ttl' = IF t <= time THEN 0 ELSE t
  BY DEF Record
<1> HIDE DEF t, k
<1>4. CASE t <= time
  BY <1>2, <1>3, <1>4 DEF k
<1>5. CASE t > time
  <2>1. lock' = FreshHash(c) /\ ttl' = t
    BY <1>1, <1>2, <1>3, <1>5
  <2>2. ASSUME NEW p \in Owners PROVE At(lock', p).expires <= ttl' + Offset[p]
    <3>1. Offset[p] \in Nat
      BY Constants
    <3>2. CASE p = c.owner
      <4>1. At(lock', p).expires = c.now + c.lease
        BY <2>1, <3>2, FreshView, FreshEntry DEF Rewrites
      <4>2. c.now <= time + Offset[p] /\ c.now \in Nat
        BY <3>2, CallFacts
      <4> QED BY <1>1, <1>2, <2>1, <3>1, <4>1, <4>2
    <3>3. CASE p # c.owner
      <4>1. At(lock', p) = At(k, p)
        BY <2>1, <3>3, FreshView DEF Rewrites, k
      <4>2. CASE k.mode = "nil"
        <5>1. At(k, p) = NoEntry
          BY <4>2, CleanedView, SoundView DEF k
        <5> QED BY <1>2, <2>1, <3>1, <4>1, <5>1, EntryFacts
      <4>3. CASE k.mode # "nil"
        <5>1. At(k, p) = At(lock, p) \/ At(k, p) = NoEntry
          BY CleanedView DEF k
        <5>2. At(lock, p).expires <= ttl + Offset[p] /\ At(lock, p).expires \in Nat
          BY CallFacts, EntryFacts
        <5> QED BY <1>1, <1>2, <2>1, <3>1, <4>1, <4>3, <5>1, <5>2, EntryFacts
      <4> QED BY <4>2, <4>3
    <3> QED BY <3>2, <3>3
  <2> QED BY <1>2, <1>5, <2>1, <2>2
<1> QED BY <1>1, <1>2, <1>4, <1>5

LEMMA FreshOutcome ==
  ASSUME Inv, NEW c \in calls, FreeFor(c), counter < MaxFence, counter' = counter + 1,
         Record(FreshHash(c), FreshTTL(c)), Granted(c.owner, c.mode, Fresh(c))
  PROVE  Outcome(c)
<1>1. /\ granted' \in [Owners -> Grant]
      /\ \A p \in Owners \ {c.owner} : granted'[p] = granted[p]
      /\ granted'[c.owner] = IF Fresh(c).expires <= Clock(c.owner) THEN NotGranted
                             ELSE [mode |-> c.mode, fence |-> Fresh(c).fence,
                                   until |-> Fresh(c).expires]
  BY CallFacts, FreshEntry, Granting
<1>2. counter' \in counter .. MaxFence /\ c.owner \in Owners /\ time \in Nat /\ c.mode # "nil"
  BY CallFacts, Constants
<1>3. ttl' \in Nat
  BY Storing
<1>4. CASE /\ lock' = FreshHash(c) /\ ttl' > time
           /\ \A p \in Owners : At(lock', p).expires <= ttl' + Offset[p]
  <2>1. Sound(lock') /\ lock'.mode = c.mode /\ Rewrites(cleaned(c.now), lock', c.owner, Fresh(c))
    BY <1>4, FreshView
  <2>2. At(lock', c.owner) = Fresh(c)
    BY <1>2, <2>1 DEF Rewrites
  <2>3. ASSUME NEW p \in Owners \ {c.owner} PROVE Stays(p) \/ Purged(p, c.now)
    <3>1. At(lock', p) = At(cleaned(c.now), p)
      BY <2>1, <2>3 DEF Rewrites
    <3>2. CASE At(lock, p).expires <= c.now /\ At(cleaned(c.now), p) = NoEntry
      BY <3>1, <3>2 DEF Purged
    <3>3. CASE /\ At(lock, p) # NoEntry
               /\ At(cleaned(c.now), p) = At(lock, p)
               /\ cleaned(c.now).mode = lock.mode
      <4>1. lock.mode # "nil"
        BY <3>3, SoundView, CallFacts
      <4>2. c.mode = "1" /\ lock.mode = "1"
        BY <3>3, <4>1, FreshView
      <4> QED BY <2>1, <3>1, <3>3, <4>2 DEF Stays
    <3> QED BY <3>2, <3>3, CleanedView
  <2>4. Continues(c.owner) /\ Agrees(c.owner)
    BY <1>1, <2>1, <2>2, FreshEntry DEF Continues, Agrees
  <2>5. ttl' # 0
    BY <1>2, <1>3, <1>4
  <2> QED BY <1>1, <1>2, <1>3, <1>4, <2>1, <2>3, <2>4, <2>5 DEF Outcome
<1>5. CASE /\ lock' = NoKey /\ ttl' = 0 /\ c.lease = 0
           /\ cleaned(c.now).mode = "nil"
  <2>1. \A p \in Owners : At(lock', p) = NoEntry
    BY <1>5, NoKeyView
  <2>2. \A p \in Owners : At(lock, p).expires <= c.now
    <3> TAKE p \in Owners
    <3>1. lock.mode = "nil" => At(lock, p) = NoEntry
      BY SoundView, CallFacts
    <3> QED BY <1>5, <3>1, CleanedView
  <2>3. \A p \in Owners : Purged(p, c.now)
    BY <2>1, <2>2 DEF Purged
  <2>4. Fresh(c).expires <= Clock(c.owner)
    BY <1>5, FreshEntry, CallFacts
  <2>5. Continues(c.owner) /\ Agrees(c.owner)
    BY <1>1, <1>2, <2>1, <2>4 DEF Continues, Agrees
  <2>6. \A p \in Owners : At(lock', p).expires <= ttl' + Offset[p]
    BY <1>5, <2>1, EntryFacts, Constants
  <2> QED BY <1>1, <1>2, <1>3, <1>5, <2>3, <2>5, <2>6, NoKeyView DEF Outcome
<1> QED BY <1>4, <1>5, Storing

(* The three branches of acquireScript.                                    *)
AcquiresAgain(c) ==
  LET e    == entry(lock, c.mode, c.owner)
      more == [count |-> e.count + 1, fence |-> e.fence, expires |-> c.now + c.lease] IN
  /\ reentrant(c) /\ e.count < MaxCount
  /\ Record(withEntry(lock, c.mode, c.owner, more), extendedTTL(c.mode, ttl, c.lease))
  /\ Granted(c.owner, c.mode, more)
  /\ counter' = counter

TurnedAway(c) ==
  LET k == cleaned(c.now) IN
  /\ ~ reentrant(c)
  /\ k.mode = "0" \/ (k.mode = "1" /\ (c.mode = "0" \/ k.readers[c.owner] # NoEntry))
  /\ lock' = k /\ UNCHANGED <<ttl, counter, granted>>

Acquires(c) ==
  /\ ~ reentrant(c) /\ FreeFor(c) /\ counter < MaxFence /\ counter' = counter + 1
  /\ Record(FreshHash(c), FreshTTL(c)) /\ Granted(c.owner, c.mode, Fresh(c))

LEMMA AcquireBranches ==
  ASSUME NEW c, acquireScript(c)
  PROVE  AcquiresAgain(c) \/ TurnedAway(c) \/ Acquires(c)
BY DEF acquireScript, AcquiresAgain, TurnedAway, Acquires, FreeFor, FreshHash, FreshTTL, Fresh

LEMMA AcquireOutcome ==
  ASSUME Inv, NEW c \in calls, acquireScript(c)
  PROVE  Outcome(c)
<1>1. CASE AcquiresAgain(c)
  <2> DEFINE e    == entry(lock, c.mode, c.owner)
             more == [count |-> e.count + 1, fence |-> e.fence, expires |-> c.now + c.lease]
  <2>1. /\ reentrant(c) /\ e.count < MaxCount
        /\ Record(withEntry(lock, c.mode, c.owner, more), extendedTTL(c.mode, ttl, c.lease))
        /\ Granted(c.owner, c.mode, more)
        /\ counter' = counter
    BY <1>1 DEF AcquiresAgain
  <2>2. e = At(lock, c.owner)
    BY <2>1, ReentrantFacts
  <2>3. more = [count |-> At(lock, c.owner).count + 1, fence |-> At(lock, c.owner).fence,
                expires |-> c.now + c.lease]
    BY <2>2
  <2>4. At(lock, c.owner).count < MaxCount
    BY <2>1, <2>2
  <2> HIDE DEF more, e
  <2> QED BY <2>1, <2>3, <2>4, ReentryOutcome
<1>2. CASE TurnedAway(c)
  BY <1>2, TurnedAwayOutcome DEF TurnedAway
<1>3. CASE Acquires(c)
  BY <1>3, FreshOutcome DEF Acquires
<1> QED BY <1>1, <1>2, <1>3, AcquireBranches

LEMMA ReleaseOutcome ==
  ASSUME Inv, NEW c \in calls, releaseScript(c)
  PROVE  Outcome(c)
<1> DEFINE k == countedDown(c)
           e == At(lock, c.owner)
           x == At(k, c.owner)
<1>1. CASE known(c) /\ ~ Refuse
  <2>1. /\ lock' = k
        /\ ttl' = IF k = NoKey THEN 0 ELSE ttl
        /\ Granted(c.owner, c.mode, entry(k, c.mode, c.owner))
        /\ counter' = counter
    BY <1>1 DEF releaseScript
  <2>2. /\ lock.mode = c.mode /\ e # NoEntry /\ ttl > time /\ c.owner \in Owners
        /\ Sound(lock) /\ e \in Entry /\ ttl \in Nat /\ time \in Nat /\ c.mode \in {"0", "1"}
    BY <1>1, ReentrantFacts, CallFacts DEF known
  <2>3. /\ Sound(k)
        /\ k.mode \in {lock.mode, "nil"}
        /\ \A p \in Owners \ {c.owner} : At(k, p) = At(lock, p)
        /\ x # NoEntry => x.fence = e.fence /\ x.expires = e.expires /\ k.mode = lock.mode
    <3> DEFINE y == [e EXCEPT !.count = e.count - 1]
    <3>1. /\ Sound(k)
          /\ e.count > 1 => k.mode = lock.mode /\ Rewrites(lock, k, c.owner, y)
          /\ ~ (e.count > 1) => k.mode \in {lock.mode, "nil"} /\ Rewrites(lock, k, c.owner, NoEntry)
      BY <2>2, CountingDown
    <3>2. y.fence = e.fence /\ y.expires = e.expires
      BY <2>2 DEF Entry, NoEntry
    <3> HIDE DEF y, k, e
    <3> QED BY <2>2, <3>1, <3>2 DEF Rewrites
  <2>4. \A p \in Owners \ {c.owner} : Stays(p)
    <3> TAKE p \in Owners \ {c.owner}
    <3>1. At(k, p) # NoEntry => k.mode # "nil"
      BY <2>3, SoundView
    <3> QED BY <2>1, <2>3, <3>1 DEF Stays
  <2>5. entry(k, c.mode, c.owner) = x
    <3>1. CASE k.mode = lock.mode
      BY <2>2, <3>1 DEF At
    <3>2. CASE k.mode = "nil"
      <4>1. k = NoKey
        BY <2>3, <3>2, SoundView
      <4>2. x = NoEntry
        BY <2>2, <4>1, NoKeyView
      <4>3. entry(NoKey, c.mode, c.owner) = NoEntry
        BY <2>2, NoReadersFacts, Constants DEF entry, NoKey
      <4> QED BY <4>1, <4>2, <4>3
    <3> QED BY <2>3, <3>1, <3>2
  <2>6. x \in Entry
    BY <2>2, <2>3, SoundView
  <2>7. Granted(c.owner, c.mode, x)
    BY <2>1, <2>5
  <2> HIDE DEF x, k, e
  <2>8. /\ granted' \in [Owners -> Grant]
        /\ \A p \in Owners \ {c.owner} : granted'[p] = granted[p]
        /\ granted'[c.owner] = IF x.expires <= Clock(c.owner) THEN NotGranted
                               ELSE [mode |-> c.mode, fence |-> x.fence, until |-> x.expires]
    BY <2>2, <2>6, <2>7, Granting
  <2>9. At(lock', c.owner) = x /\ At(lock, c.owner) = e
    BY <2>1 DEF x, e
  <2>10. Continues(c.owner)
    BY <2>1, <2>2, <2>3, <2>9 DEF Continues
  <2>11. Agrees(c.owner)
    <3>1. CASE x = NoEntry
      BY <2>8, <3>1, EntryFacts, CallFacts DEF Agrees
    <3>2. CASE x # NoEntry
      BY <2>1, <2>2, <2>3, <2>8, <2>9, <3>2 DEF Agrees
    <3> QED BY <3>1, <3>2
  <2>12. /\ ttl' \in Nat /\ (lock'.mode = "nil" <=> ttl' = 0)
         /\ lock'.mode # "nil" => ttl' > time
    BY <2>1, <2>2, <2>3, SoundView
  <2>13. \A p \in Owners : At(lock', p).expires <= ttl' + Offset[p]
    <3> TAKE p \in Owners
    <3>1. CASE k = NoKey
      BY <2>1, <3>1, NoKeyView, EntryFacts, Constants
    <3>2. CASE k # NoKey
      <4>1. ttl' = ttl /\ At(lock', p) = At(k, p)
        BY <2>1, <3>2
      <4>2. At(k, p).expires = At(lock, p).expires \/ At(k, p).expires = 0
        BY <2>3, EntryFacts DEF x, e
      <4> QED BY <2>2, <4>1, <4>2, CallFacts, Constants
    <3> QED BY <3>1, <3>2
  <2>14. counter' \in counter .. MaxFence
    BY <2>1, CallFacts DEF Inv
  <2> QED BY <2>1, <2>3, <2>4, <2>8, <2>10, <2>11, <2>12, <2>13, <2>14 DEF Outcome
<1>2. CASE Refuse
  BY <1>2, RefusedOutcome
<1> QED BY <1>1, <1>2 DEF releaseScript

LEMMA DowngradeOutcome ==
  ASSUME Inv, NEW c \in calls, c.op = "downgrade", c.mode = "0", downgradeScript(c)
  PROVE  Outcome(c)
<1> DEFINE e == [lock.writer EXCEPT !.count = 1]
           z == [NoKey EXCEPT !.mode = "1", !.readers[c.owner] = e]
           x == At(lock, c.owner)
<1>1. CASE known(c) /\ lock.writer.count <= 1 /\ ~ Refuse
  <2>1. /\ lock' = z /\ Granted(c.owner, "1", e) /\ ttl' = ttl /\ counter' = counter
    BY <1>1 DEF downgradeScript
  <2>2. /\ lock.mode = "0" /\ x # NoEntry /\ ttl > time /\ c.owner \in Owners
        /\ Sound(lock) /\ x \in Entry /\ ttl \in Nat /\ time \in Nat
    BY <1>1, ReentrantFacts, CallFacts DEF known
  <2>3. x = lock.writer
    BY <2>2 DEF At, entry
  <2>4. e = x /\ Sound(z) /\ z.mode = "1" /\ Rewrites(lock, z, c.owner, x)
    BY <1>1, <2>2, <2>3, Lowering
  <2> HIDE DEF e, z, x
  <2>5. /\ granted' \in [Owners -> Grant]
        /\ \A p \in Owners \ {c.owner} : granted'[p] = granted[p]
        /\ granted'[c.owner] = IF x.expires <= Clock(c.owner) THEN NotGranted
                               ELSE [mode |-> "1", fence |-> x.fence, until |-> x.expires]
    BY <2>1, <2>2, <2>4, Granting
  <2>6. /\ \A p \in Owners : At(lock', p) = At(lock, p)
        /\ \A p \in Owners \ {c.owner} : At(lock, p) = NoEntry
    BY <2>1, <2>2, <2>4, SoundView DEF Rewrites, x
  <2>7. \A p \in Owners \ {c.owner} : Stays(p)
    BY <2>6 DEF Stays
  <2>8. Continues(c.owner) /\ Agrees(c.owner)
    BY <2>1, <2>2, <2>4, <2>5, <2>6 DEF Continues, Agrees, x
  <2>9. counter' \in counter .. MaxFence
    BY <2>1, CallFacts DEF Inv
  <2>10. \A p \in Owners : At(lock', p).expires <= ttl' + Offset[p]
    BY <2>1, <2>6, CallFacts
  <2>11. ttl' # 0
    BY <2>1, <2>2
  <2> QED BY <2>1, <2>2, <2>4, <2>5, <2>7, <2>8, <2>9, <2>10, <2>11 DEF Outcome
<1>2. CASE Refuse
  BY <1>2, RefusedOutcome
<1> QED BY <1>1, <1>2 DEF downgradeScript

LEMMA ScriptOutcome ==
  ASSUME Inv, NEW c \in calls, Script(c)
  PROVE  Outcome(c)
<1>1. c.op = "downgrade" => c.mode = "0"
  BY DEF Inv, Sent
<1> QED
  BY <1>1, AcquireOutcome, RefreshOutcome, ReleaseOutcome, DowngradeOutcome DEF Script

-----------------------------------------------------------------------------
(* The invariant, first for the part that Run disturbs.                    *)

Backend ==
  /\ Sound(lock) /\ Expiry
  /\ counter \in 0 .. MaxFence
  /\ granted \in [Owners -> Grant]
  /\ FencesIssued
  /\ \A o \in Owners : Kept(o) /\ Newer(o)

LEMMA GrantFacts ==
  ASSUME NEW g \in Grant
  PROVE  g.mode \in {"0", "1", "none"} /\ g.fence \in Nat /\ g.until \in Nat
BY Constants DEF Grant

(* A grant in the record excludes every conflicting one from it.           *)
LEMMA OutcomeNewer ==
  ASSUME Inv, NEW c \in calls, Outcome(c), time' = time, NEW p \in Owners
  PROVE  Newer(p)'
<1> DEFINE a == c.owner
<1>1. /\ a \in Owners /\ Sound(lock) /\ Sound(lock') /\ counter' \in counter .. MaxFence
      /\ counter \in Nat /\ granted[p] \in Grant
  BY CallFacts DEF Outcome, Inv
<1>2. SUFFICES ASSUME NEW o \in Owners \ {p},
                      granted'[p].mode # "none", At(lock', o) # NoEntry,
                      "0" \in {lock'.mode, granted'[p].mode}
               PROVE  At(lock', o).fence > granted'[p].fence
  BY DEF Newer, At
<1>3. /\ At(lock, o) \in Entry /\ At(lock', o) \in Entry
      /\ At(lock, o).fence \in Nat /\ At(lock', o).fence \in Nat
      /\ granted[p].fence \in Nat /\ granted[p].fence <= counter
  BY <1>1, SoundView, EntryFacts, GrantFacts, Constants DEF Inv, FencesIssued
<1>4. /\ granted[p].mode # "none" /\ At(lock, o) # NoEntry
      /\ "0" \in {lock.mode, granted[p].mode}
      => At(lock, o).fence > granted[p].fence
  BY DEF Inv, Newer
<1>5. CASE granted'[p] = granted[p] /\ o # a
  <2>1. Stays(o)
    BY <1>2, <1>5 DEF Outcome, Purged
  <2> QED BY <1>2, <1>4, <1>5, <2>1 DEF Stays
<1>6. CASE granted'[p] = granted[p] /\ o = a
  <2>1. CASE Stays(a)
    BY <1>2, <1>4, <1>6, <2>1 DEF Stays
  <2>2. CASE Continues(a)
    <3>1. CASE At(lock', o).fence = counter' /\ counter' = counter + 1
      BY <1>1, <1>3, <1>6, <3>1
    <3>2. CASE /\ At(lock, o) # NoEntry /\ At(lock', o).fence = At(lock, o).fence
               /\ lock'.mode = "0" => lock.mode = "0"
      BY <1>2, <1>4, <1>6, <3>2
    <3> QED BY <1>2, <1>6, <2>2, <3>1, <3>2 DEF Continues
  <2> QED BY <1>2, <1>6, <2>1, <2>2 DEF Outcome, Purged
<1>7. CASE granted'[p] # granted[p]
  <2>1. p = a /\ Agrees(a)
    BY <1>7 DEF Outcome
  <2>2. granted'[p] # NotGranted
    BY <1>2 DEF NotGranted
  <2>3. At(lock', p) # NoEntry /\ granted'[p].mode = lock'.mode
    BY <2>1, <2>2 DEF Agrees
  <2>4. lock'.mode = "0"
    BY <1>2, <2>3
  <2> QED BY <1>1, <1>2, <2>3, <2>4, SoundView
<1> QED BY <1>5, <1>6, <1>7

LEMMA OutcomeKept ==
  ASSUME Inv, NEW c \in calls, Outcome(c), time' = time, NEW o \in Owners
  PROVE  Kept(o)'
<1>1. SUFFICES ASSUME granted'[o].mode # "none", \A p \in Owners : granted'[o].until > Clock(p)
               PROVE  /\ lock'.mode = granted'[o].mode
                      /\ At(lock', o).fence = granted'[o].fence
                      /\ At(lock', o).expires = granted'[o].until
  BY DEF Kept, Clock, At
<1>2. CASE Continues(o) /\ Agrees(o)
  <2>1. granted'[o] # NotGranted
    BY <1>1 DEF NotGranted
  <2> QED BY <1>2, <2>1 DEF Agrees
<1>3. CASE granted'[o] = granted[o] /\ (Stays(o) \/ Purged(o, c.now))
  <2>1. /\ lock.mode = granted[o].mode
        /\ At(lock, o).fence = granted[o].fence
        /\ At(lock, o).expires = granted[o].until
    BY <1>1, <1>3 DEF Inv, Kept
  <2>2. /\ granted[o].until > Clock(c.owner) /\ c.now <= Clock(c.owner)
        /\ Clock(c.owner) \in Nat /\ c.now \in Nat
    BY <1>1, <1>3, CallFacts
  <2>3. At(lock, o).expires \in Nat
    BY CallFacts, EntryFacts
  <2>4. ~ Purged(o, c.now) /\ At(lock, o) # NoEntry
    BY <2>1, <2>2, <2>3, EntryFacts DEF Purged
  <2> QED BY <1>3, <2>1, <2>4 DEF Stays
<1> QED BY <1>2, <1>3, CallFacts DEF Outcome

LEMMA OutcomeBackend ==
  ASSUME Inv, NEW c \in calls, Outcome(c), time' = time
  PROVE  Backend'
<1>1. /\ Sound(lock)' /\ granted' \in [Owners -> Grant]
      /\ counter' \in counter .. MaxFence /\ counter \in Nat
  BY CallFacts DEF Outcome, Sound
<1>2. Expiry'
  BY DEF Outcome, Expiry, ReclaimTakesOnlyTheDead, At
<1>3. ASSUME NEW o \in Owners
      PROVE  At(lock', o).fence <= counter' /\ granted'[o].fence <= counter'
  <2>1. /\ At(lock, o).fence <= counter /\ granted[o].fence <= counter
        /\ At(lock, o).fence \in Nat /\ granted[o].fence \in Nat
    BY CallFacts, EntryFacts, GrantFacts DEF Inv, FencesIssued
  <2>2. \/ granted'[o] = granted[o] /\ (Stays(o) \/ Purged(o, c.now))
        \/ Continues(o) /\ Agrees(o)
    BY DEF Outcome
  <2>3. At(lock', o).fence <= counter'
    BY <1>1, <2>1, <2>2, EntryFacts DEF Stays, Purged, Continues
  <2>4. granted'[o].fence <= counter'
    BY <1>1, <2>1, <2>2, <2>3 DEF Agrees, NotGranted
  <2> QED BY <2>3, <2>4
<1>4. FencesIssued'
  BY <1>3 DEF FencesIssued, At
<1> QED BY <1>1, <1>2, <1>4, OutcomeKept, OutcomeNewer, CallFacts DEF Backend

LEMMA SentStays ==
  ASSUME Sent, NEW S \in SUBSET calls, calls' = S, time \in Nat, time' \in Nat, time' >= time
  PROVE  Sent'
<1>1. IsFiniteSet(S) /\ Cardinality(S) <= Cardinality(calls)
  BY FS_Subset DEF Sent
<1>2. Cardinality(S) \in Nat /\ Cardinality(calls) \in Nat
  BY <1>1, FS_CardinalityType DEF Sent
<1>3. Cardinality(S) <= MaxCalls
  BY <1>1, <1>2, Constants DEF Sent
<1>4. ASSUME NEW c \in S
      PROVE  /\ c \in Call /\ c.now <= Clock(c.owner)'
             /\ c.op = "downgrade" => c.mode = "0"
             /\ c.op \in {"acquire", "refresh"} => c.lease \in Leases
  <2>1. /\ c \in Call /\ c.now <= Clock(c.owner)
        /\ c.op = "downgrade" => c.mode = "0"
        /\ c.op \in {"acquire", "refresh"} => c.lease \in Leases
    BY DEF Sent
  <2>2. c.owner \in Owners /\ c.now \in Nat
    BY <2>1 DEF Call
  <2> QED BY <2>1, <2>2, Constants DEF Clock
<1> QED BY <1>1, <1>3, <1>4 DEF Sent

LEMMA RunInv == ASSUME Inv, NEW c \in calls, Run(c) PROVE Inv'
<1>1. Script(c) /\ calls' \in SUBSET calls /\ time' = time
  BY DEF Run
<1>2. Backend'
  BY <1>1, ScriptOutcome, OutcomeBackend
<1>3. Sent'
  BY <1>1, SentStays, CallFacts DEF Inv
<1> QED BY <1>1, <1>2, <1>3 DEF Inv, Backend

-----------------------------------------------------------------------------
(* The other actions.                                                      *)

LEMMA BackendStays ==
  ASSUME Backend, UNCHANGED <<lock, ttl, counter, time, granted>>
  PROVE  Backend'
<1>1. Expiry'
  BY DEF Backend, Expiry, ReclaimTakesOnlyTheDead
<1>2. FencesIssued'
  BY DEF Backend, FencesIssued
<1>3. \A o \in Owners : Kept(o)'
  BY DEF Backend, Kept, Clock
<1>4. \A o \in Owners : Newer(o)'
  BY DEF Backend, Newer
<1> QED BY <1>1, <1>2, <1>3, <1>4 DEF Backend, Sound

LEMMA SendInv ==
  ASSUME Inv, NEW c \in Call, c.now <= Clock(c.owner), c.op = "downgrade" => c.mode = "0",
         c.op \in {"acquire", "refresh"} => c.lease \in Leases,
         Send(c)
  PROVE  Inv'
<1>1. /\ calls' = calls \cup {c} /\ Cardinality(calls) < MaxCalls
      /\ UNCHANGED <<lock, ttl, counter, time, granted>>
  BY DEF Send
<1>2. IsFiniteSet(calls) /\ Cardinality(calls) \in Nat
  BY FS_CardinalityType DEF Inv, Sent
<1>3. IsFiniteSet(calls') /\ (Cardinality(calls') = Cardinality(calls)
                              \/ Cardinality(calls') = Cardinality(calls) + 1)
  BY <1>1, <1>2, FS_AddElement
<1>4. Cardinality(calls') <= MaxCalls
  BY <1>1, <1>2, <1>3, Constants
<1>5. Sent'
  BY <1>1, <1>3, <1>4 DEF Inv, Sent, Clock
<1> QED BY <1>1, <1>5, BackendStays DEF Inv, Backend

LEMMA MethodInv ==
  ASSUME Inv, NEW o \in Owners, NEW m \in {"0", "1"}, NEW f \in 0 .. MaxFence,
         NEW l \in Leases \cup {0},
         NEW op \in {"acquire", "refresh", "release", "downgrade"}, op = "downgrade" => m = "0",
         op \in {"acquire", "refresh"} => l \in Leases,
         Send([op |-> op, owner |-> o, mode |-> m, fence |-> f, now |-> Clock(o), lease |-> l])
  PROVE  Inv'
<1> DEFINE c == [op |-> op, owner |-> o, mode |-> m, fence |-> f, now |-> Clock(o), lease |-> l]
<1>1. Clock(o) \in Nat
  BY Constants DEF Clock, Inv
<1>2. /\ c \in Call /\ c.now <= Clock(c.owner)
      /\ c.op = "downgrade" => c.mode = "0"
      /\ c.op \in {"acquire", "refresh"} => c.lease \in Leases
  BY <1>1 DEF Call
<1> HIDE DEF c
<1>3. Send(c)
  BY DEF c
<1> QED BY <1>2, <1>3, SendInv

LEMMA LoseInv == ASSUME Inv, NEW c \in calls, Lose(c) PROVE Inv'
<1>1. /\ calls' \in SUBSET calls /\ time \in Nat /\ time' = time
      /\ UNCHANGED <<lock, ttl, counter, time, granted>>
  BY CallFacts DEF Lose
<1>2. Sent'
  BY <1>1, SentStays DEF Inv
<1> QED BY <1>1, <1>2, BackendStays DEF Inv, Backend

(* Without a record and without grants there is nothing to violate.        *)
LEMMA EmptyBackend ==
  ASSUME lock = NoKey, ttl = 0, time \in Nat, counter \in 0 .. MaxFence,
         granted = [o \in Owners |-> NotGranted]
  PROVE  Backend
<1>1. /\ Sound(lock) /\ lock.mode = "nil"
      /\ \A p \in Owners : At(lock, p) = NoEntry /\ At(lock, p).fence = 0 /\ At(lock, p).expires = 0
  BY NoKeyView, EntryFacts
<1>2. /\ \A o \in Owners : granted[o] = NotGranted
      /\ NotGranted.mode = "none" /\ NotGranted.fence = 0
      /\ NotGranted \in Grant
  BY Constants DEF NotGranted, Grant
<1>3. Expiry
  BY <1>1, Constants DEF Expiry, ReclaimTakesOnlyTheDead, At
<1>4. FencesIssued
  BY <1>1, <1>2, Constants DEF FencesIssued
<1>5. \A o \in Owners : Kept(o) /\ Newer(o)
  BY <1>2 DEF Kept, Newer
<1> QED BY <1>1, <1>2, <1>3, <1>4, <1>5 DEF Backend

LEMMA InitInv == Init => Inv
<1> SUFFICES ASSUME Init PROVE Inv
  OBVIOUS
<1>1. Backend
  BY EmptyBackend, Constants DEF Init
<1>2. Sent
  BY FS_EmptySet, Constants DEF Init, Sent
<1> QED BY <1>1, <1>2, Constants DEF Inv, Backend, Init

LEMMA DropInv == ASSUME Inv, Drop PROVE Inv'
<1>1. /\ lock' = NoKey /\ ttl' = 0 /\ granted' = [o \in Owners |-> NotGranted]
      /\ counter' = counter /\ time' = time /\ calls' = calls
      /\ counter \in 0 .. MaxFence /\ time \in 0 .. MaxTime /\ time \in Nat
  BY Constants DEF Drop, Inv
<1>2. Backend'
  <2>1. /\ Sound(lock)' /\ lock'.mode = "nil"
        /\ \A p \in Owners : At(lock', p) = NoEntry /\ At(lock', p).fence = 0 /\ At(lock', p).expires = 0
    BY <1>1, NoKeyView, EntryFacts DEF Sound
  <2>2. /\ \A o \in Owners : granted'[o] = NotGranted
        /\ NotGranted.mode = "none" /\ NotGranted.fence = 0
        /\ NotGranted \in Grant
    BY <1>1, Constants DEF NotGranted, Grant
  <2>3. Expiry'
    BY <1>1, <2>1, Constants DEF Expiry, ReclaimTakesOnlyTheDead, At
  <2>4. FencesIssued'
    BY <1>1, <2>1, <2>2, Constants DEF FencesIssued
  <2>5. \A o \in Owners : Kept(o)' /\ Newer(o)'
    BY <2>2 DEF Kept, Newer
  <2> QED BY <1>1, <2>1, <2>2, <2>3, <2>4, <2>5 DEF Backend
<1>3. Sent'
  BY <1>1, SentStays DEF Inv
<1> QED BY <1>1, <1>2, <1>3 DEF Inv, Backend

LEMMA TickInv == ASSUME Inv, Tick PROVE Inv'
<1>1. /\ time \in Nat /\ time' = time + 1 /\ time' \in 0 .. MaxTime
      /\ counter' = counter /\ calls' = calls /\ counter \in Nat
      /\ ttl \in Nat /\ Sound(lock)
      /\ lock.mode = "nil" <=> ttl = 0
      /\ granted \in [Owners -> Grant]
  BY Constants DEF Tick, Inv, Expiry
<1>2. \/ ttl # 0 /\ ttl <= time + 1 /\ lock' = NoKey /\ ttl' = 0
      \/ (ttl = 0 \/ ttl > time + 1) /\ lock' = lock /\ ttl' = ttl
  BY <1>1 DEF Tick
<1>3. ASSUME NEW o \in Owners
      PROVE  /\ granted'[o] = granted[o] \/ granted'[o] = NotGranted
             /\ Clock(o)' = time + 1 + Offset[o] /\ Clock(o)' > Clock(o)
             /\ Clock(o) \in Nat /\ Clock(o)' \in Nat
             /\ At(lock, o).expires <= ttl + Offset[o] /\ At(lock, o).expires \in Nat
             /\ granted[o].until \in Nat
  <2>1. granted'[o] = granted[o] \/ granted'[o] = NotGranted
    BY DEF Tick
  <2>2. At(lock, o).expires <= ttl + Offset[o] /\ At(lock, o).expires \in Nat
    BY <1>1, SoundView, EntryFacts DEF Inv, Expiry, ReclaimTakesOnlyTheDead, At
  <2> QED BY <1>1, <2>1, <2>2, GrantFacts, Constants DEF Clock
<1>4. /\ NotGranted.mode = "none" /\ NotGranted.fence = 0 /\ NotGranted \in Grant
  BY Constants DEF NotGranted, Grant
<1>5. granted' \in [Owners -> Grant]
  BY <1>1, <1>4 DEF Tick
<1>6. Sound(lock')
  BY <1>1, <1>2, NoKeyView
<1>7. \A o \in Owners : At(lock', o) = At(lock, o) \/ At(lock', o) = NoEntry
  BY <1>2, NoKeyView
<1>8. Expiry'
  <2>1. CASE lock' = NoKey /\ ttl' = 0
    BY <1>1, <2>1, NoKeyView, EntryFacts, Constants DEF Expiry, ReclaimTakesOnlyTheDead, At
  <2>2. CASE (ttl = 0 \/ ttl > time + 1) /\ lock' = lock /\ ttl' = ttl
    BY <1>1, <2>2 DEF Inv, Expiry, ReclaimTakesOnlyTheDead
  <2> QED BY <1>2, <2>1, <2>2
<1>9. FencesIssued'
  <2>1. ASSUME NEW o \in Owners
        PROVE  At(lock', o).fence <= counter' /\ granted'[o].fence <= counter'
    BY <1>1, <1>3, <1>4, <1>7, EntryFacts DEF Inv, FencesIssued
  <2> QED BY <2>1 DEF FencesIssued, At
<1>10. ASSUME NEW o \in Owners PROVE Kept(o)'
  <2>1. SUFFICES ASSUME granted'[o].mode # "none", \A p \in Owners : granted'[o].until > Clock(p)'
                 PROVE  /\ lock'.mode = granted'[o].mode
                        /\ At(lock', o).fence = granted'[o].fence
                        /\ At(lock', o).expires = granted'[o].until
    BY DEF Kept, At
  <2>2. granted'[o] = granted[o]
    BY <1>3, <1>4, <2>1
  <2>3. \A p \in Owners : granted[o].until > Clock(p)
    BY <1>3, <2>1, <2>2
  <2>4. /\ lock.mode = granted[o].mode
        /\ At(lock, o).fence = granted[o].fence
        /\ At(lock, o).expires = granted[o].until
    BY <2>1, <2>2, <2>3 DEF Inv, Kept
  <2>5. granted[o].until > time + 1 + Offset[o]
    BY <1>3, <2>1, <2>2
  <2>6. ~ (ttl <= time + 1)
    BY <1>1, <1>3, <2>4, <2>5, Constants
  <2> QED BY <1>2, <2>2, <2>4, <2>6
<1>11. ASSUME NEW p \in Owners PROVE Newer(p)'
  <2>1. SUFFICES ASSUME NEW o \in Owners \ {p},
                        granted'[p].mode # "none", At(lock', o) # NoEntry,
                        "0" \in {lock'.mode, granted'[p].mode}
                 PROVE  At(lock', o).fence > granted'[p].fence
    BY DEF Newer, At
  <2>2. granted'[p] = granted[p] /\ lock' = lock
    BY <1>2, <1>3, <1>4, <2>1, NoKeyView
  <2> QED BY <2>1, <2>2 DEF Inv, Newer
<1>12. Sent'
  BY <1>1, SentStays DEF Inv
<1>13. counter' \in 0 .. MaxFence
  BY <1>1 DEF Inv
<1> QED BY <1>1, <1>5, <1>6, <1>8, <1>9, <1>10, <1>11, <1>12, <1>13 DEF Inv, Sound

LEMMA NextInv == Inv /\ [Next]_vars => Inv'
<1> SUFFICES ASSUME Inv, [Next]_vars PROVE Inv'
  OBVIOUS
<1>1. ASSUME NEW m \in Modes PROVE modeArg(m) \in {"0", "1"}
  BY DEF modeArg
<1>2. /\ 0 \in 0 .. MaxFence /\ 0 \in Leases \cup {0} /\ \A l \in Leases : l \in Leases \cup {0}
      /\ \A f \in 1 .. counter : f \in 0 .. MaxFence
  BY Constants DEF Inv
<1>3. ASSUME NEW o \in Owners, NEW m \in Modes, NEW l \in Leases, TryAcquire(o, m, l) PROVE Inv'
  BY <1>1, <1>2, <1>3, MethodInv DEF TryAcquire
<1>4. ASSUME NEW o \in Owners, NEW m \in Modes, NEW f \in 1 .. counter, NEW l \in Leases,
             Refresh(o, m, f, l)
      PROVE  Inv'
  BY <1>1, <1>2, <1>4, MethodInv DEF Refresh
<1>5. ASSUME NEW o \in Owners, NEW m \in Modes, NEW f \in 1 .. counter, Release(o, m, f)
      PROVE  Inv'
  BY <1>1, <1>2, <1>5, MethodInv DEF Release
<1>6. ASSUME NEW o \in Owners, NEW f \in 1 .. counter, Downgrade(o, f) PROVE Inv'
  BY <1>2, <1>6, MethodInv DEF Downgrade
<1>7. ASSUME UNCHANGED vars PROVE Inv'
  <2>1. Backend /\ time \in Nat
    BY Constants DEF Inv, Backend
  <2>2. Backend' /\ Sent'
    BY <1>7, <2>1, BackendStays, SentStays DEF vars, Inv
  <2> QED BY <1>7, <2>2 DEF Inv, Backend, vars
<1> QED
  BY <1>3, <1>4, <1>5, <1>6, <1>7, RunInv, LoseInv, DropInv, TickInv DEF Next

LEMMA Invariance == Spec => []Inv
<1>1. Init => Inv
  BY InitInv
<1>2. Inv /\ [Next]_vars => Inv'
  BY NextInv
<1> QED BY <1>1, <1>2, PTL DEF Spec

-----------------------------------------------------------------------------
(* The theorems.                                                           *)

(* The hash, its TTL, the scripts in flight and the grants have their      *)
(* types: a script leaves a record with one writer or with readers, or no  *)
(* record at all.                                                          *)
THEOREM Types == Spec => []TypeOK
<1>1. Inv => TypeOK
  BY DEF Inv, TypeOK, Sound, Hash, Expiry, Sent, Grant
<1> QED BY <1>1, Invariance, PTL

(* A lease that runs on every clock stays in the record as it was granted, *)
(* and the server's TTL takes no record with a lease that runs on the      *)
(* clock of its owner.                                                     *)
THEOREM LeasesStay == Spec => []RunningLeasesAreKept
<1>1. Inv => RunningLeasesAreKept
  <2> SUFFICES ASSUME Inv PROVE RunningLeasesAreKept
    OBVIOUS
  <2>1. ReclaimTakesOnlyTheDead
    BY DEF Inv, Expiry
  <2>2. ASSUME NEW o \in Owners, granted[o].mode # "none",
               \A p \in Owners : granted[o].until > Clock(p)
        PROVE  /\ lock.mode = granted[o].mode
               /\ entry(lock, granted[o].mode, o).fence = granted[o].fence
               /\ entry(lock, granted[o].mode, o).expires = granted[o].until
    BY <2>2 DEF Inv, Kept, At
  <2> QED BY <2>1, <2>2 DEF RunningLeasesAreKept
<1> QED BY <1>1, Invariance, PTL

(* Two leases that conflict run together only on the clock of the older    *)
(* one, and no longer than the clock of some competitor is ahead of it,    *)
(* however late the scripts arrive.                                        *)
THEOREM Exclusion == Spec => []ExclusionUpToSkew
<1>1. Inv => ExclusionUpToSkew
  <2> SUFFICES ASSUME Inv, NEW o \in Owners, NEW p \in Owners,
                      "0" \in {granted[o].mode, granted[p].mode},
                      "none" \notin {granted[o].mode, granted[p].mode},
                      granted[o].fence < granted[p].fence
               PROVE  \E q \in Owners : granted[o].until - Clock(o) <= Offset[q] - Offset[o]
    BY DEF ExclusionUpToSkew
  <2>1. /\ granted[o].fence \in Nat /\ granted[p].fence \in Nat /\ granted[o].until \in Nat
        /\ time \in Nat /\ \A q \in Owners : Offset[q] \in Nat
    BY GrantFacts, Constants DEF Inv
  <2>2. CASE \A q \in Owners : granted[o].until > Clock(q)
    <3>1. lock.mode = granted[o].mode /\ At(lock, o).fence = granted[o].fence
      BY <2>2 DEF Inv, Kept
    <3>2. lock.mode # "nil" /\ o # p
      BY <2>1, <3>1, GrantFacts DEF Inv
    <3>3. At(lock, o).expires = granted[o].until /\ granted[o].until > 0
      BY <2>1, <2>2 DEF Inv, Kept, Clock
    <3>4. At(lock, o) # NoEntry
      BY <3>3, EntryFacts
    <3>5. At(lock, o).fence > granted[p].fence
      BY <3>1, <3>2, <3>4 DEF Inv, Newer
    <3> QED BY <2>1, <3>1, <3>5
  <2>3. CASE \E q \in Owners : ~ (granted[o].until > Clock(q))
    <3>1. PICK q \in Owners : ~ (granted[o].until > Clock(q))
      BY <2>3
    <3>2. granted[o].until - Clock(o) <= Offset[q] - Offset[o]
      BY <2>1, <3>1 DEF Clock
    <3> QED BY <3>2
  <2> QED BY <2>2, <2>3
<1> QED BY <1>1, Invariance, PTL

(* A mutation rewrites the caller's entry, whose fence it has named.       *)
Touches(c) ==
  \A o \in Owners : At(lock', o) # At(lock, o) => o = c.owner /\ At(lock, o).fence = c.fence

LEMMA KnownFacts ==
  ASSUME Inv, NEW c \in calls, known(c)
  PROVE  /\ reentrant(c) /\ At(lock, c.owner).fence = c.fence
         /\ entry(lock, c.mode, c.owner) = At(lock, c.owner)
         /\ At(lock, c.owner) \in Entry /\ At(lock, c.owner) # NoEntry
         /\ lock.mode = c.mode /\ c.owner \in Owners /\ Sound(lock)
BY ReentrantFacts, CallFacts DEF known

LEMMA RefreshTouches ==
  ASSUME Inv, NEW c \in calls, refreshScript(c) PROVE Touches(c)
<1> DEFINE e == [entry(lock, c.mode, c.owner) EXCEPT !.expires = c.now + c.lease]
<1>1. CASE known(c) /\ ~ Refuse
  <2>1. Record(withEntry(lock, c.mode, c.owner, e), extendedTTL(c.mode, ttl, c.lease))
    BY <1>1 DEF refreshScript
  <2>2. /\ e \in Entry /\ e # NoEntry /\ e.expires = c.now + c.lease
    BY <1>1, KnownFacts, CallFacts, RefreshedEntry
  <2> HIDE DEF e
  <2>3. \/ Rewrites(lock, lock', c.owner, e)
        \/ lock' = NoKey /\ lock.mode = "0"
    BY <1>1, <2>1, <2>2, KnownFacts, Prolonging
  <2>4. CASE Rewrites(lock, lock', c.owner, e)
    BY <1>1, <2>4, KnownFacts DEF Rewrites, Touches
  <2>5. CASE lock' = NoKey /\ lock.mode = "0"
    BY <1>1, <2>5, KnownFacts, NoKeyView, SoundView DEF Touches
  <2> QED BY <2>3, <2>4, <2>5
<1>2. CASE Refuse
  BY <1>2 DEF Refuse, Touches
<1> QED BY <1>1, <1>2 DEF refreshScript

LEMMA ReleaseTouches ==
  ASSUME Inv, NEW c \in calls, releaseScript(c) PROVE Touches(c)
<1>1. CASE known(c) /\ ~ Refuse
  <2>1. lock' = countedDown(c)
    BY <1>1 DEF releaseScript
  <2>2. \E e : Rewrites(lock, lock', c.owner, e)
    BY <1>1, <2>1, KnownFacts, CountingDown
  <2> QED BY <1>1, <2>2, KnownFacts DEF Rewrites, Touches
<1>2. CASE Refuse
  BY <1>2 DEF Refuse, Touches
<1> QED BY <1>1, <1>2 DEF releaseScript

LEMMA DowngradeTouches ==
  ASSUME Inv, NEW c \in calls, c.mode = "0", downgradeScript(c) PROVE Touches(c)
<1>1. CASE known(c) /\ lock.writer.count <= 1 /\ ~ Refuse
  <2>1. lock' = [NoKey EXCEPT !.mode = "1", !.readers[c.owner] = [lock.writer EXCEPT !.count = 1]]
    BY <1>1 DEF downgradeScript
  <2>2. /\ At(lock, c.owner) = lock.writer /\ lock.mode = "0"
    BY <1>1, KnownFacts DEF entry
  <2>3. Rewrites(lock, lock', c.owner, At(lock, c.owner))
    BY <1>1, <2>1, <2>2, KnownFacts, Lowering
  <2> QED BY <1>1, <2>3, KnownFacts DEF Rewrites, Touches
<1>2. CASE Refuse
  BY <1>2 DEF Refuse, Touches
<1> QED BY <1>1, <1>2 DEF downgradeScript

(* A refresh, release or downgrade that arrives late, or twice, changes no *)
(* entry but that of its own owner and its own generation.                 *)
THEOREM LateMutations == Spec => OldCallsTouchNothing
<1>1. Inv /\ [Next]_vars =>
        [\A c \in calls : c.op # "acquire" /\ Script(c) =>
           \A o \in Owners :
             LET e == entry(lock, lock.mode, o) IN
             entry(lock', lock'.mode, o) # e => o = c.owner /\ e.fence = c.fence]_vars
  <2> SUFFICES ASSUME Inv, NEW c \in calls, c.op # "acquire", Script(c) PROVE Touches(c)
    BY DEF Touches, At
  <2>1. c.op = "downgrade" => c.mode = "0"
    BY DEF Inv, Sent
  <2> QED BY <2>1, RefreshTouches, ReleaseTouches, DowngradeTouches DEF Script
<1> QED BY <1>1, Invariance, PTL DEF Spec, OldCallsTouchNothing

-----------------------------------------------------------------------------
(* Refinement.  The clocks agree, a script arrives before the next tick,   *)
(* and no lease rounds down to nothing: then every script is a step of the *)
(* abstract lock or none, and so is what the server does by itself.        *)

Synchronous ==
  /\ \A o \in Owners : Offset[o] = 0
  /\ MaxDelay = 0
  /\ 0 \notin Leases

InTime == \A c \in calls : c.now = time

modeName(m) == IF m = "1" THEN "read" ELSE "write"

Holds == [o \in Owners |-> Abs(o)]

(* What the abstract lock sees of o in the hash k at time t.               *)
Seen(k, o, t) ==
  IF At(k, o).expires > t
    THEN [mode |-> modeName(k.mode), count |-> At(k, o).count, fence |-> At(k, o).fence,
          left |-> At(k, o).expires - t]
    ELSE Gone

LEMMA SeenFacts ==
  /\ Gone = LL!NoHold /\ Gone.left = 0 /\ Gone.mode = "none"
  /\ Holds = [o \in Owners |-> Abs(o)]
  /\ \A o \in Owners : Abs(o) = Seen(lock, o, time) /\ Holds[o] = Abs(o)
  /\ \A o \in Owners : Abs(o)' = Seen(lock', o, time')
  /\ Holds' = [o \in Owners |-> Abs(o)']
BY DEF Gone, LL!NoHold, Abs, Seen, View, At, Holds, modeName

LEMMA SeenFields ==
  ASSUME NEW k, NEW o, NEW t
  PROVE  /\ At(k, o).expires > t =>
              /\ Seen(k, o, t) # Gone /\ Seen(k, o, t).mode = modeName(k.mode)
              /\ Seen(k, o, t).count = At(k, o).count /\ Seen(k, o, t).fence = At(k, o).fence
              /\ Seen(k, o, t).left = At(k, o).expires - t
         /\ ~ (At(k, o).expires > t) => Seen(k, o, t) = Gone
BY DEF Seen, Gone, modeName

LEMMA SameSeen ==
  ASSUME NEW k, NEW z, NEW o, NEW t, At(z, o) = At(k, o), z.mode = k.mode
  PROVE  Seen(z, o, t) = Seen(k, o, t)
BY DEF Seen

LEMMA NothingSeen ==
  ASSUME NEW k, NEW o, NEW t \in Nat, At(k, o) = NoEntry
  PROVE  Seen(k, o, t) = Gone
BY EntryFacts DEF Seen

LEMMA NoStep ==
  ASSUME counter' = counter, \A o \in Owners : Abs(o)' = Abs(o)
  PROVE  UNCHANGED LL!vars
<1>1. [o \in Owners |-> Abs(o)]' = [o \in Owners |-> Abs(o)']
  OBVIOUS
<1> QED BY <1>1 DEF LL!vars

(* The steps of the abstract lock, by what each owner's hold becomes.      *)
LEMMA GrantStep ==
  ASSUME NEW o \in Owners, NEW m, NEW l, counter + 1 \in 1 .. MaxFence, counter \in Nat,
         counter' = counter + 1,
         Abs(o) = Gone,
         \A p \in Owners \ {o} : Abs(p) # Gone => m = "read" /\ Abs(p).mode = "read",
         Abs(o)' = [mode |-> m, count |-> 1, fence |-> counter + 1, left |-> l],
         \A p \in Owners \ {o} : Abs(p)' = Abs(p)
  PROVE  LL!Grant(o, m, l)
<1>1. Holds' = LL!Granted(Holds, o, m, counter + 1, l)
  BY SeenFacts DEF LL!Granted
<1>2. LL!Rivals(Holds, o, m) = {}
  BY SeenFacts DEF LL!Rivals
<1>3. LL!Verdict(Holds, o, m) = "grant"
  BY <1>2, SeenFacts DEF LL!Verdict
<1>4. counter + 1 \in LL!Fences /\ counter + 1 > counter
  BY DEF LL!Fences
<1> QED BY <1>1, <1>3, <1>4 DEF LL!Grant, Holds

LEMMA ReenterStep ==
  ASSUME NEW o \in Owners, NEW m, NEW l, counter' = counter,
         Abs(o) # Gone, Abs(o).mode = m, Abs(o).count < MaxCount,
         Abs(o)' = [Abs(o) EXCEPT !.count = Abs(o).count + 1, !.left = l],
         \A p \in Owners \ {o} : Abs(p)' = Abs(p)
  PROVE  LL!Reenter(o, m, l)
<1>1. Holds' = LL!Reentered(Holds, o, l)
  BY SeenFacts DEF LL!Reentered
<1>2. LL!Verdict(Holds, o, m) = "reenter"
  BY SeenFacts DEF LL!Verdict
<1> QED BY <1>1, <1>2, SeenFacts DEF LL!Reenter, Holds

LEMMA RefreshStep ==
  ASSUME NEW o \in Owners, NEW m, NEW f, NEW l, counter' = counter,
         Abs(o) # Gone, Abs(o).mode = m, Abs(o).fence = f,
         Abs(o)' = [Abs(o) EXCEPT !.left = l],
         \A p \in Owners \ {o} : Abs(p)' = Abs(p)
  PROVE  LL!Refresh(o, m, f, l)
<1>1. Holds' = LL!Extended(Holds, o, l)
  BY SeenFacts DEF LL!Extended
<1>2. LL!Owns(Holds, o, m, f)
  BY SeenFacts DEF LL!Owns
<1> QED BY <1>1, <1>2 DEF LL!Refresh, Holds

LEMMA ReleaseStep ==
  ASSUME NEW o \in Owners, NEW m, NEW f, counter' = counter,
         Abs(o) # Gone, Abs(o).mode = m, Abs(o).fence = f,
         Abs(o)' = IF Abs(o).count > 1 THEN [Abs(o) EXCEPT !.count = Abs(o).count - 1] ELSE Gone,
         \A p \in Owners \ {o} : Abs(p)' = Abs(p)
  PROVE  LL!Release(o, m, f)
<1>1. Holds' = LL!Released(Holds, o)
  BY SeenFacts DEF LL!Released
<1>2. LL!Owns(Holds, o, m, f)
  BY SeenFacts DEF LL!Owns
<1> QED BY <1>1, <1>2 DEF LL!Release, Holds

LEMMA DowngradeStep ==
  ASSUME NEW o \in Owners, NEW f, counter' = counter,
         Abs(o) # Gone, Abs(o).mode = "write", Abs(o).fence = f, ~ (Abs(o).count > 1),
         Abs(o)' = [Abs(o) EXCEPT !.mode = "read", !.count = 1],
         \A p \in Owners \ {o} : Abs(p)' = Abs(p)
  PROVE  LL!Downgrade(o, f)
<1>1. Holds' = LL!Downgraded(Holds, o)
  BY SeenFacts DEF LL!Downgraded
<1>2. LL!DowngradeVerdict(Holds, o, f) = "ok"
  BY SeenFacts DEF LL!DowngradeVerdict, LL!Owns
<1> QED BY <1>1, <1>2 DEF LL!Downgrade, Holds

CountLeft(v, a, b) == [v EXCEPT !.count = a, !.left = b]
ModeCount(v, a, b) == [v EXCEPT !.mode = a, !.count = b]

LEMMA CountAndLeft ==
  ASSUME NEW m, NEW n, NEW f, NEW x, NEW a, NEW b, NEW v,
         v = [mode |-> m, count |-> n, fence |-> f, left |-> x]
  PROVE  CountLeft(v, a, b) = [mode |-> m, count |-> a, fence |-> f, left |-> b]
<1> DEFINE z == [v EXCEPT !.count = a]
<1>1. z = [mode |-> m, count |-> a, fence |-> f, left |-> x]
  OBVIOUS
<1>2. CountLeft(v, a, b) = [z EXCEPT !.left = b]
  BY DEF z, CountLeft
<1> HIDE DEF z
<1>3. [z EXCEPT !.left = b] = [mode |-> m, count |-> a, fence |-> f, left |-> b]
  BY <1>1
<1> QED BY <1>2, <1>3

LEMMA ModeAndCount ==
  ASSUME NEW m, NEW n, NEW f, NEW x, NEW a, NEW b, NEW v,
         v = [mode |-> m, count |-> n, fence |-> f, left |-> x]
  PROVE  ModeCount(v, a, b) = [mode |-> a, count |-> b, fence |-> f, left |-> x]
<1> DEFINE z == [v EXCEPT !.mode = a]
<1>1. z = [mode |-> a, count |-> n, fence |-> f, left |-> x]
  OBVIOUS
<1>2. ModeCount(v, a, b) = [z EXCEPT !.count = b]
  BY DEF z, ModeCount
<1> HIDE DEF z
<1>3. [z EXCEPT !.count = b] = [mode |-> a, count |-> b, fence |-> f, left |-> x]
  BY <1>1
<1> QED BY <1>2, <1>3

LEMMA EntryFields ==
  ASSUME NEW e \in Entry, e # NoEntry
  PROVE  /\ e.count > 1 =>
              LET y == [e EXCEPT !.count = e.count - 1] IN
              /\ y.count = e.count - 1 /\ y.fence = e.fence /\ y.expires = e.expires
BY DEF Entry, NoEntry

(* A script that runs at the time of its clock reading.                    *)
LEMMA OnTime ==
  ASSUME Inv, InTime, Synchronous, NEW c \in calls
  PROVE  /\ c.now = time /\ Clock(c.owner) = time
         /\ c.op \in {"acquire", "refresh"} => c.lease \in Leases /\ c.lease > 0
         /\ c.owner \in Owners /\ c.mode \in {"0", "1"} /\ c.fence \in 0 .. MaxFence
         /\ time \in Nat /\ counter \in Nat /\ c.lease \in Nat
         /\ modeName(c.mode) \in Modes /\ (c.mode = "0" <=> modeName(c.mode) = "write")
<1>1. c.op \in {"acquire", "refresh"} => c.lease \in Leases
  BY DEF Inv, Sent
<1>2. c.lease \in Leases => c.lease # 0
  BY DEF Synchronous
<1>3. c.now = time /\ Offset[c.owner] = 0
  BY CallFacts DEF InTime, Synchronous
<1> QED BY <1>1, <1>2, <1>3, CallFacts DEF modeName, Modes

(* The caller's hold, when the script finds its entry alive.               *)
LEMMA CallerSeen ==
  ASSUME Inv, InTime, Synchronous, NEW c \in calls, reentrant(c)
  PROVE  LET e == At(lock, c.owner) IN
         /\ e \in Entry /\ e # NoEntry /\ e.expires > time /\ lock.mode = c.mode
         /\ entry(lock, c.mode, c.owner) = e
         /\ Abs(c.owner) = [mode |-> modeName(c.mode), count |-> e.count, fence |-> e.fence,
                            left |-> e.expires - time]
         /\ Abs(c.owner) # Gone /\ Abs(c.owner).mode = modeName(c.mode)
         /\ Abs(c.owner).fence = e.fence /\ Abs(c.owner).count = e.count
<1> DEFINE e == At(lock, c.owner)
<1>1. e \in Entry /\ e # NoEntry /\ e.expires > time /\ lock.mode = c.mode
      /\ entry(lock, c.mode, c.owner) = e
  BY OnTime, ReentrantFacts, CallFacts
<1>2. Abs(c.owner) = Seen(lock, c.owner, time)
  BY OnTime, SeenFacts
<1>3. Abs(c.owner) = [mode |-> modeName(c.mode), count |-> e.count, fence |-> e.fence,
                      left |-> e.expires - time]
  BY <1>1, <1>2 DEF Seen
<1>4. /\ Abs(c.owner) # Gone /\ Abs(c.owner).mode = modeName(lock.mode)
      /\ Abs(c.owner).fence = e.fence /\ Abs(c.owner).count = e.count
  BY <1>1, <1>2, SeenFields
<1> QED BY <1>1, <1>3, <1>4

(* The other owners see the same, when the script rewrites one entry.      *)
LEMMA OthersSeen ==
  ASSUME Inv, time' = time, NEW o \in Owners, NEW e, Rewrites(lock, lock', o, e),
         lock'.mode = lock.mode \/ (lock'.mode = "nil" /\ Sound(lock'))
  PROVE  \A p \in Owners \ {o} : Abs(p)' = Abs(p)
<1> TAKE p \in Owners \ {o}
<1>1. At(lock', p) = At(lock, p) /\ time \in Nat
  BY Constants DEF Rewrites, Inv
<1>2. CASE lock'.mode = lock.mode
  BY <1>1, <1>2, SameSeen, SeenFacts
<1>3. CASE lock'.mode = "nil" /\ Sound(lock')
  <2>1. At(lock', p) = NoEntry
    BY <1>3, SoundView
  <2> QED BY <1>1, <2>1, NothingSeen, SeenFacts
<1> QED BY <1>2, <1>3

LEMMA ProlongStep ==
  ASSUME Inv, InTime, Synchronous, time' = time, NEW c \in calls, reentrant(c),
         c.op \in {"acquire", "refresh"},
         NEW e \in Entry, e # NoEntry, e.expires = c.now + c.lease,
         Record(withEntry(lock, c.mode, c.owner, e), extendedTTL(c.mode, ttl, c.lease))
  PROVE  /\ Abs(c.owner)' = [mode |-> modeName(c.mode), count |-> e.count, fence |-> e.fence,
                             left |-> c.lease]
         /\ \A p \in Owners \ {c.owner} : Abs(p)' = Abs(p)
<1>1. lock'.mode = lock.mode /\ Rewrites(lock, lock', c.owner, e)
  BY Prolonging, OnTime
<1>2. /\ At(lock', c.owner) = e /\ lock'.mode = c.mode
      /\ e.expires > time /\ e.expires - time = c.lease
  BY <1>1, OnTime, ReentrantFacts DEF Rewrites
<1>3. Abs(c.owner)' = [mode |-> modeName(c.mode), count |-> e.count, fence |-> e.fence,
                       left |-> c.lease]
  BY <1>2, OnTime, SeenFacts DEF Seen
<1> QED BY <1>1, <1>3, OthersSeen, OnTime

LEMMA AcquireStep ==
  ASSUME Inv, InTime, Synchronous, time' = time, NEW c \in calls, c.op = "acquire",
         acquireScript(c)
  PROVE  \/ LL!Grant(c.owner, modeName(c.mode), c.lease)
         \/ LL!Reenter(c.owner, modeName(c.mode), c.lease)
         \/ UNCHANGED LL!vars
<1> DEFINE o == c.owner
           m == modeName(c.mode)
<1>1. CASE AcquiresAgain(c)
  <2> DEFINE e    == At(lock, o)
             more == [count |-> e.count + 1, fence |-> e.fence, expires |-> c.now + c.lease]
  <2>1. reentrant(c) /\ counter' = counter
    BY <1>1 DEF AcquiresAgain
  <2>2. entry(lock, c.mode, c.owner) = e
    BY <2>1, ReentrantFacts
  <2>3. /\ Record(withEntry(lock, c.mode, c.owner, more), extendedTTL(c.mode, ttl, c.lease))
        /\ Granted(c.owner, c.mode, more) /\ e.count < MaxCount
    BY <1>1, <2>2 DEF AcquiresAgain
  <2>4. /\ more.expires = c.now + c.lease /\ more.count = e.count + 1 /\ more.fence = e.fence
    OBVIOUS
  <2> HIDE DEF more
  <2>5. more \in Entry /\ more # NoEntry
    BY <2>1, <2>3, ReentryOutcome DEF more
  <2>6. /\ Abs(o)' = [mode |-> m, count |-> e.count + 1, fence |-> e.fence, left |-> c.lease]
        /\ \A p \in Owners \ {o} : Abs(p)' = Abs(p)
    BY <2>1, <2>3, <2>4, <2>5, ProlongStep
  <2>7. /\ Abs(o) = [mode |-> m, count |-> e.count, fence |-> e.fence, left |-> e.expires - time]
        /\ Abs(o) # Gone /\ Abs(o).mode = m /\ Abs(o).count = e.count
    BY <2>1, CallerSeen
  <2>8. Abs(o)' = [Abs(o) EXCEPT !.count = Abs(o).count + 1, !.left = c.lease]
    <3> DEFINE v == Abs(o)
    <3>1. v = [mode |-> m, count |-> e.count, fence |-> e.fence, left |-> e.expires - time]
      BY <2>7
    <3> HIDE DEF v
    <3>2. CountLeft(v, e.count + 1, c.lease)
            = [mode |-> m, count |-> e.count + 1, fence |-> e.fence, left |-> c.lease]
      BY <3>1, CountAndLeft
    <3> QED BY <2>6, <2>7, <3>2 DEF v, CountLeft
  <2> QED BY <2>1, <2>3, <2>6, <2>7, <2>8, OnTime, ReenterStep
<1>2. CASE TurnedAway(c)
  <2>1. lock' = cleaned(c.now) /\ counter' = counter
    BY <1>2 DEF TurnedAway
  <2>2. \A p \in Owners : Abs(p)' = Abs(p)
    <3> TAKE p \in Owners
    <3>1. CASE At(lock', p) = At(lock, p) /\ lock'.mode = lock.mode
      BY <3>1, SameSeen, SeenFacts
    <3>2. CASE At(lock', p) = NoEntry /\ At(lock, p).expires <= time
      <4>1. Abs(p) = Gone
        BY <3>2, SeenFacts, SeenFields, CallFacts, EntryFacts, OnTime
      <4>2. Abs(p)' = Gone
        BY <3>2, NothingSeen, SeenFacts, OnTime
      <4> QED BY <4>1, <4>2
    <3> QED BY <2>1, <3>1, <3>2, CleanedView, OnTime
  <2> QED BY <2>1, <2>2, NoStep
<1>3. CASE Acquires(c)
  <2> DEFINE k == cleaned(c.now)
  <2>1. /\ ~ reentrant(c) /\ FreeFor(c) /\ counter < MaxFence /\ counter' = counter + 1
        /\ Record(FreshHash(c), FreshTTL(c))
    BY <1>3 DEF Acquires
  <2>2. lock' = FreshHash(c)
    BY <2>1, Storing, OnTime
  <2>3. /\ lock'.mode = c.mode /\ Rewrites(k, lock', o, Fresh(c))
        /\ k.mode # "nil" => c.mode = "1" /\ k.mode = "1"
    BY <2>1, <2>2, FreshView
  <2>4. Abs(o)' = [mode |-> m, count |-> 1, fence |-> counter + 1, left |-> c.lease]
    <3>1. At(lock', o) = Fresh(c)
      BY <2>3, OnTime DEF Rewrites
    <3>2. Fresh(c).expires > time /\ Fresh(c).expires - time = c.lease
      BY <2>1, FreshEntry, OnTime
    <3> QED BY <2>1, <2>3, <3>1, <3>2, FreshEntry, SeenFacts, OnTime DEF Seen
  <2>5. ASSUME NEW p \in Owners, Abs(p) # Gone
        PROVE  c.mode = "1" /\ lock.mode = "1" /\ k.mode = "1" /\ At(k, p) = At(lock, p)
               /\ At(lock, p) # NoEntry
    <3>1. At(lock, p).expires > time
      BY <2>5, SeenFacts, SeenFields
    <3>2. At(lock, p).expires \in Nat
      BY CallFacts, EntryFacts
    <3>3. At(lock, p) # NoEntry /\ At(k, p) = At(lock, p) /\ k.mode = lock.mode
      BY <3>1, <3>2, CleanedView, OnTime
    <3>4. lock.mode # "nil"
      BY <3>3, SoundView, CallFacts
    <3> QED BY <2>3, <3>3, <3>4
  <2>6. Abs(o) = Gone
    <3> SUFFICES ASSUME Abs(o) # Gone PROVE FALSE
      OBVIOUS
    <3>1. c.mode = "1" /\ lock.mode = "1" /\ k.mode = "1" /\ At(k, o) = At(lock, o)
          /\ At(lock, o) # NoEntry
      BY <2>5, OnTime
    <3>2. k.readers[o] = NoEntry
      BY <2>1, <3>1 DEF FreeFor
    <3> QED BY <3>1, <3>2 DEF At, entry
  <2>7. ASSUME NEW p \in Owners \ {o}
        PROVE  /\ Abs(p) # Gone => m = "read" /\ Abs(p).mode = "read"
               /\ Abs(p)' = Abs(p)
    <3>1. At(lock', p) = At(k, p)
      BY <2>3 DEF Rewrites
    <3>2. CASE Abs(p) # Gone
      <4>1. c.mode = "1" /\ lock.mode = "1" /\ At(lock', p) = At(lock, p)
        BY <2>5, <3>1, <3>2
      <4>2. Abs(p)' = Abs(p)
        BY <2>3, <4>1, SameSeen, SeenFacts
      <4>3. Abs(p).mode = modeName(lock.mode)
        BY <3>2, SeenFacts, SeenFields
      <4> QED BY <4>1, <4>2, <4>3 DEF modeName
    <3>3. CASE Abs(p) = Gone
      <4>1. ~ (At(lock, p).expires > time)
        BY <3>3, SeenFacts, SeenFields
      <4>2. At(k, p) = NoEntry
        BY <4>1, CleanedView, OnTime
      <4> QED BY <3>1, <3>3, <4>2, NothingSeen, SeenFacts, OnTime
    <3> QED BY <3>2, <3>3
  <2>8. counter + 1 \in 1 .. MaxFence
    BY <2>1, OnTime, Constants
  <2> HIDE DEF k, m, o
  <2>9. LL!Grant(o, m, c.lease)
    BY <2>1, <2>4, <2>6, <2>7, <2>8, OnTime, GrantStep DEF o
  <2> QED BY <2>9 DEF o, m
<1> QED BY <1>1, <1>2, <1>3, AcquireBranches

LEMMA RefreshScriptStep ==
  ASSUME Inv, InTime, Synchronous, time' = time, NEW c \in calls, c.op = "refresh",
         refreshScript(c)
  PROVE  \/ LL!Refresh(c.owner, modeName(c.mode), c.fence, c.lease)
         \/ UNCHANGED LL!vars
<1> DEFINE o == c.owner
           x == At(lock, o)
           e == [entry(lock, c.mode, c.owner) EXCEPT !.expires = c.now + c.lease]
<1>1. CASE known(c) /\ ~ Refuse
  <2>1. /\ Record(withEntry(lock, c.mode, c.owner, e), extendedTTL(c.mode, ttl, c.lease))
        /\ counter' = counter
    BY <1>1 DEF refreshScript
  <2>2. reentrant(c) /\ x.fence = c.fence /\ entry(lock, c.mode, c.owner) = x
        /\ x \in Entry /\ x # NoEntry
    BY <1>1, KnownFacts
  <2>3. /\ e \in Entry /\ e # NoEntry /\ e.expires = c.now + c.lease
        /\ e.fence = x.fence /\ e.count = x.count
    BY <2>2, CallFacts, RefreshedEntry
  <2> HIDE DEF e
  <2>4. /\ Abs(o)' = [mode |-> modeName(c.mode), count |-> x.count, fence |-> x.fence,
                      left |-> c.lease]
        /\ \A p \in Owners \ {o} : Abs(p)' = Abs(p)
    BY <2>1, <2>2, <2>3, ProlongStep
  <2>5. /\ Abs(o) = [mode |-> modeName(c.mode), count |-> x.count, fence |-> x.fence,
                     left |-> x.expires - time]
        /\ Abs(o) # Gone /\ Abs(o).mode = modeName(c.mode) /\ Abs(o).fence = x.fence
    BY <2>2, CallerSeen
  <2>6. Abs(o)' = [Abs(o) EXCEPT !.left = c.lease]
    BY <2>4, <2>5
  <2> QED BY <2>1, <2>2, <2>4, <2>5, <2>6, OnTime, RefreshStep
<1>2. CASE Refuse
  BY <1>2, NoStep, SeenFacts DEF Refuse
<1> QED BY <1>1, <1>2 DEF refreshScript

LEMMA ReleaseScriptStep ==
  ASSUME Inv, InTime, Synchronous, time' = time, NEW c \in calls, releaseScript(c)
  PROVE  LL!Release(c.owner, modeName(c.mode), c.fence) \/ UNCHANGED LL!vars
<1> DEFINE o == c.owner
           x == At(lock, o)
<1>1. CASE known(c) /\ ~ Refuse
  <2>1. lock' = countedDown(c) /\ counter' = counter
    BY <1>1 DEF releaseScript
  <2>2. /\ reentrant(c) /\ x.fence = c.fence /\ x \in Entry /\ x # NoEntry
        /\ lock.mode = c.mode /\ Sound(lock)
    BY <1>1, KnownFacts
  <2>3. /\ x.expires > time
        /\ Abs(o) = [mode |-> modeName(c.mode), count |-> x.count, fence |-> x.fence,
                     left |-> x.expires - time]
        /\ Abs(o) # Gone /\ Abs(o).mode = modeName(c.mode) /\ Abs(o).fence = x.fence
        /\ Abs(o).count = x.count
    BY <2>2, CallerSeen
  <2>4. CASE x.count > 1
    <3> DEFINE y == [x EXCEPT !.count = x.count - 1]
    <3>1. lock'.mode = lock.mode /\ Rewrites(lock, lock', o, y)
      BY <2>1, <2>2, <2>4, OnTime, CountingDown
    <3>2. y.count = x.count - 1 /\ y.fence = x.fence /\ y.expires = x.expires
      BY <2>2, <2>4, EntryFields
    <3> HIDE DEF y
    <3>3. At(lock', o) = y
      BY <3>1, OnTime DEF Rewrites
    <3>4. Abs(o)' = [mode |-> modeName(c.mode), count |-> x.count - 1, fence |-> x.fence,
                     left |-> x.expires - time]
      BY <2>2, <2>3, <3>1, <3>2, <3>3, OnTime, SeenFacts DEF Seen
    <3>5. Abs(o)' = [Abs(o) EXCEPT !.count = Abs(o).count - 1]
      BY <2>3, <3>4
    <3>6. \A p \in Owners \ {o} : Abs(p)' = Abs(p)
      BY <3>1, OthersSeen, OnTime
    <3> QED BY <2>1, <2>2, <2>3, <2>4, <3>5, <3>6, OnTime, ReleaseStep
  <2>5. CASE ~ (x.count > 1)
    <3>1. lock'.mode \in {lock.mode, "nil"} /\ Sound(lock') /\ Rewrites(lock, lock', o, NoEntry)
      BY <2>1, <2>2, <2>5, OnTime, CountingDown
    <3>2. At(lock', o) = NoEntry
      BY <3>1, OnTime DEF Rewrites
    <3>3. Abs(o)' = Gone
      BY <3>2, NothingSeen, SeenFacts, OnTime
    <3>4. \A p \in Owners \ {o} : Abs(p)' = Abs(p)
      BY <3>1, OthersSeen, OnTime
    <3> QED BY <2>1, <2>2, <2>3, <2>5, <3>3, <3>4, OnTime, ReleaseStep
  <2> QED BY <2>4, <2>5
<1>2. CASE Refuse
  BY <1>2, NoStep, SeenFacts DEF Refuse
<1> QED BY <1>1, <1>2 DEF releaseScript

LEMMA DowngradeScriptStep ==
  ASSUME Inv, InTime, Synchronous, time' = time, NEW c \in calls, c.mode = "0",
         downgradeScript(c)
  PROVE  LL!Downgrade(c.owner, c.fence) \/ UNCHANGED LL!vars
<1> DEFINE o == c.owner
           x == At(lock, o)
<1>1. CASE known(c) /\ lock.writer.count <= 1 /\ ~ Refuse
  <2>1. /\ lock' = [NoKey EXCEPT !.mode = "1", !.readers[c.owner] = [lock.writer EXCEPT !.count = 1]]
        /\ counter' = counter
    BY <1>1 DEF downgradeScript
  <2>2. /\ reentrant(c) /\ x.fence = c.fence /\ x \in Entry /\ x # NoEntry
        /\ lock.mode = "0" /\ Sound(lock) /\ x = lock.writer
    BY <1>1, KnownFacts DEF entry
  <2>3. x.count <= 1 /\ x.count = 1
    BY <1>1, <2>2, EntryFacts, Constants
  <2>4. Sound(lock') /\ lock'.mode = "1" /\ Rewrites(lock, lock', o, x)
    BY <2>1, <2>2, <2>3, OnTime, Lowering
  <2>5. /\ x.expires > time
        /\ Abs(o) = [mode |-> "write", count |-> x.count, fence |-> x.fence,
                     left |-> x.expires - time]
        /\ Abs(o) # Gone /\ Abs(o).mode = "write" /\ Abs(o).fence = x.fence
        /\ Abs(o).count = x.count
    BY <2>2, CallerSeen, OnTime
  <2>6. At(lock', o) = x
    BY <2>4, OnTime DEF Rewrites
  <2>7. Abs(o)' = [mode |-> "read", count |-> 1, fence |-> x.fence, left |-> x.expires - time]
    BY <2>3, <2>4, <2>5, <2>6, SeenFacts, OnTime DEF Seen, modeName
  <2>8. Abs(o)' = [Abs(o) EXCEPT !.mode = "read", !.count = 1]
    <3> DEFINE v == Abs(o)
    <3>1. v = [mode |-> "write", count |-> x.count, fence |-> x.fence, left |-> x.expires - time]
      BY <2>5
    <3> HIDE DEF v
    <3>2. ModeCount(v, "read", 1)
            = [mode |-> "read", count |-> 1, fence |-> x.fence, left |-> x.expires - time]
      BY <3>1, ModeAndCount
    <3> QED BY <2>7, <3>2 DEF v, ModeCount
  <2>9. \A p \in Owners \ {o} : Abs(p)' = Abs(p)
    <3> TAKE p \in Owners \ {o}
    <3>1. At(lock, p) = NoEntry
      BY <2>2, SoundView, OnTime
    <3>2. At(lock', p) = NoEntry
      BY <2>4, <3>1 DEF Rewrites
    <3> QED BY <3>1, <3>2, NothingSeen, SeenFacts, OnTime
  <2>10. ~ (Abs(o).count > 1)
    BY <2>3, <2>5
  <2> QED BY <2>1, <2>2, <2>5, <2>8, <2>9, <2>10, OnTime, DowngradeStep
<1>2. CASE Refuse
  BY <1>2, NoStep, SeenFacts DEF Refuse
<1> QED BY <1>1, <1>2 DEF downgradeScript

LEMMA OwnedFence ==
  ASSUME Inv, NEW o \in Owners, NEW m, NEW f, LL!Owns(Holds, o, m, f)
  PROVE  f \in LL!Fences
<1>1. Abs(o) # Gone /\ Abs(o).fence = f
  BY SeenFacts DEF LL!Owns
<1>2. At(lock, o).expires > time /\ f = At(lock, o).fence
  BY <1>1, SeenFacts, SeenFields
<1>3. At(lock, o) \in Entry /\ time \in Nat
  BY SoundView, Constants DEF Inv
<1>4. At(lock, o) # NoEntry
  BY <1>2, <1>3, EntryFacts
<1> QED BY <1>2, <1>3, <1>4, EntryFacts DEF LL!Fences

LEMMA ScriptStep ==
  ASSUME Inv, InTime, Synchronous, NEW c \in calls, Script(c), time' = time
  PROVE  LL!Next \/ UNCHANGED LL!vars
<1> DEFINE o == c.owner
           m == modeName(c.mode)
<1>1. o \in Owners /\ m \in Modes /\ LL!Modes = Modes /\ "write" \in Modes
  BY OnTime DEF LL!Modes, Modes
<1>2. /\ c.op \in {"acquire", "refresh"} => c.lease \in Leases
      /\ c.op = "downgrade" => c.mode = "0"
  BY DEF Inv, Sent
<1> HIDE DEF o, m
<1>3. CASE c.op = "acquire" /\ acquireScript(c)
  BY <1>1, <1>2, <1>3, AcquireStep DEF o, m, LL!Next
<1>4. CASE c.op = "refresh" /\ refreshScript(c)
  <2>1. LL!Refresh(o, m, c.fence, c.lease) \/ UNCHANGED LL!vars
    BY <1>4, RefreshScriptStep DEF o, m
  <2>2. LL!Refresh(o, m, c.fence, c.lease) => c.fence \in LL!Fences
    BY <1>1, OwnedFence DEF LL!Refresh, Holds
  <2> QED BY <1>1, <1>2, <1>4, <2>1, <2>2 DEF LL!Next
<1>5. CASE c.op = "release" /\ releaseScript(c)
  <2>1. LL!Release(o, m, c.fence) \/ UNCHANGED LL!vars
    BY <1>5, ReleaseScriptStep DEF o, m
  <2>2. LL!Release(o, m, c.fence) => c.fence \in LL!Fences
    BY <1>1, OwnedFence DEF LL!Release, Holds
  <2> QED BY <1>1, <2>1, <2>2 DEF LL!Next
<1>6. CASE c.op = "downgrade" /\ downgradeScript(c)
  <2>1. LL!Downgrade(o, c.fence) \/ UNCHANGED LL!vars
    BY <1>2, <1>6, DowngradeScriptStep DEF o
  <2>2. ASSUME LL!Downgrade(o, c.fence) PROVE c.fence \in LL!Fences
    <3>1. LL!DowngradeVerdict(Holds, o, c.fence) = "ok"
      BY <2>2 DEF LL!Downgrade, Holds
    <3>2. LL!Owns(Holds, o, "write", c.fence)
      BY <3>1 DEF LL!DowngradeVerdict
    <3> QED BY <1>1, <3>2, OwnedFence
  <2> QED BY <1>1, <2>1, <2>2 DEF LL!Next
<1> QED BY <1>3, <1>4, <1>5, <1>6 DEF Script

LEMMA DropStep == ASSUME Inv, Drop PROVE LL!Drop
<1>1. lock' = NoKey /\ counter' = counter /\ time' = time /\ time \in Nat
  BY Constants DEF Drop, Inv
<1>2. \A p \in Owners : Abs(p)' = Gone
  BY <1>1, NoKeyView, NothingSeen, SeenFacts
<1>3. Holds' = LL!Vacant
  BY <1>2, SeenFacts DEF LL!Vacant
<1> QED BY <1>1, <1>3 DEF LL!Drop, Holds

LEMMA TickStep ==
  ASSUME Inv, Synchronous, Tick
  PROVE  LL!Tick
<1>1. /\ time \in Nat /\ time' = time + 1 /\ counter' = counter
      /\ ttl \in Nat /\ Sound(lock)
      /\ \A p \in Owners : At(lock, p).expires <= ttl + Offset[p] /\ Offset[p] = 0
  BY Constants DEF Tick, Inv, Expiry, ReclaimTakesOnlyTheDead, At, Synchronous
<1>2. ASSUME NEW p \in Owners
      PROVE  Abs(p)' = IF Abs(p).left > 1 THEN [Abs(p) EXCEPT !.left = Abs(p).left - 1] ELSE Gone
  <2> DEFINE e == At(lock, p)
             v == Abs(p)
  <2>1. e \in Entry /\ e.expires \in Nat /\ e.expires <= ttl
    BY <1>1, SoundView, EntryFacts
  <2>2. /\ e.expires > time => v = [mode |-> modeName(lock.mode), count |-> e.count,
                                    fence |-> e.fence, left |-> e.expires - time]
        /\ ~ (e.expires > time) => v = Gone
    BY SeenFacts DEF Seen
  <2>3. CASE e.expires > time + 1
    <3>1. lock' = lock
      BY <1>1, <2>1, <2>3 DEF Tick
    <3>2. Abs(p)' = [mode |-> modeName(lock.mode), count |-> e.count,
                     fence |-> e.fence, left |-> e.expires - (time + 1)]
      BY <1>1, <2>3, <3>1, SeenFacts DEF Seen
    <3>3. v = [mode |-> modeName(lock.mode), count |-> e.count, fence |-> e.fence,
               left |-> e.expires - time]
      BY <1>1, <2>1, <2>2, <2>3
    <3>4. v.left > 1 /\ v.left - 1 = e.expires - (time + 1)
      BY <1>1, <2>1, <2>3, <3>3
    <3> HIDE DEF v
    <3>5. [v EXCEPT !.left = v.left - 1] = Abs(p)'
      BY <3>2, <3>3, <3>4
    <3> QED BY <3>4, <3>5 DEF v
  <2>4. CASE ~ (e.expires > time + 1)
    <3>1. At(lock', p) = e \/ At(lock', p) = NoEntry
      BY NoKeyView DEF Tick
    <3>2. ~ (At(lock', p).expires > time')
      BY <1>1, <2>1, <2>4, <3>1, EntryFacts
    <3>3. Abs(p)' = Gone
      BY <3>2, SeenFacts DEF Seen
    <3>4. ~ (v.left > 1)
      BY <1>1, <2>1, <2>2, <2>4, SeenFacts
    <3> QED BY <3>3, <3>4
  <2> QED BY <2>3, <2>4
<1>3. Holds' = LL!Aged(Holds)
  BY <1>2, SeenFacts DEF LL!Aged
<1> QED BY <1>1, <1>3 DEF LL!Tick, Holds

LEMMA InTimeStep ==
  ASSUME Inv, InTime, Synchronous, [Next]_vars
  PROVE  InTime'
<1>1. time \in Nat /\ \A o \in Owners : Clock(o) = time
  BY Constants DEF Inv, Synchronous, Clock
<1>2. ASSUME NEW c, c.now = time, Send(c) PROVE InTime'
  BY <1>2 DEF Send, InTime
<1>3. ASSUME NEW o \in Owners, NEW m \in Modes, NEW l \in Leases, TryAcquire(o, m, l) PROVE InTime'
  BY <1>1, <1>2, <1>3 DEF TryAcquire
<1>4. ASSUME NEW o \in Owners, NEW m \in Modes, NEW f \in 1 .. counter, NEW l \in Leases,
             Refresh(o, m, f, l)
      PROVE  InTime'
  BY <1>1, <1>2, <1>4 DEF Refresh
<1>5. ASSUME NEW o \in Owners, NEW m \in Modes, NEW f \in 1 .. counter, Release(o, m, f)
      PROVE  InTime'
  BY <1>1, <1>2, <1>5 DEF Release
<1>6. ASSUME NEW o \in Owners, NEW f \in 1 .. counter, Downgrade(o, f) PROVE InTime'
  BY <1>1, <1>2, <1>6 DEF Downgrade
<1>7. ASSUME NEW c \in calls, Run(c) \/ Lose(c) PROVE InTime'
  BY <1>7 DEF Run, Lose, InTime
<1>8. CASE Drop \/ UNCHANGED vars
  BY <1>8 DEF Drop, vars, InTime
<1>9. CASE Tick
  <2>1. \A c \in calls : FALSE
    BY <1>1, <1>9, CallFacts DEF Tick, InTime, Synchronous
  <2> QED BY <1>9, <2>1 DEF Tick, InTime
<1> QED BY <1>3, <1>4, <1>5, <1>6, <1>7, <1>8, <1>9 DEF Next

LEMMA StepLemma ==
  ASSUME Inv, InTime, Synchronous, [Next]_vars
  PROVE  [LL!Next]_(LL!vars)
<1>1. ASSUME UNCHANGED <<lock, ttl, counter, time, granted>> PROVE UNCHANGED LL!vars
  <2>1. \A p \in Owners : Abs(p)' = Abs(p)
    BY <1>1, SeenFacts
  <2> QED BY <1>1, <2>1, NoStep
<1>2. ASSUME NEW c, Send(c) PROVE UNCHANGED LL!vars
  BY <1>1, <1>2 DEF Send
<1>3. ASSUME NEW c \in calls, Run(c) PROVE LL!Next \/ UNCHANGED LL!vars
  BY <1>3, ScriptStep DEF Run
<1>4. ASSUME NEW c \in calls, Lose(c) PROVE UNCHANGED LL!vars
  BY <1>1, <1>4 DEF Lose
<1>5. CASE Drop
  BY <1>5, DropStep DEF LL!Next
<1>6. CASE Tick
  BY <1>6, TickStep DEF LL!Next
<1>7. CASE UNCHANGED vars
  BY <1>1, <1>7 DEF vars
<1>8. ASSUME NEW o \in Owners, NEW m \in Modes, NEW l \in Leases, TryAcquire(o, m, l)
      PROVE  UNCHANGED LL!vars
  BY <1>2, <1>8 DEF TryAcquire
<1>9. ASSUME NEW o \in Owners, NEW m \in Modes, NEW f \in 1 .. counter, NEW l \in Leases,
             Refresh(o, m, f, l)
      PROVE  UNCHANGED LL!vars
  BY <1>2, <1>9 DEF Refresh
<1>10. ASSUME NEW o \in Owners, NEW m \in Modes, NEW f \in 1 .. counter, Release(o, m, f)
       PROVE  UNCHANGED LL!vars
  BY <1>2, <1>10 DEF Release
<1>11. ASSUME NEW o \in Owners, NEW f \in 1 .. counter, Downgrade(o, f)
       PROVE  UNCHANGED LL!vars
  BY <1>2, <1>11 DEF Downgrade
<1> QED
  BY <1>3, <1>4, <1>5, <1>6, <1>7, <1>8, <1>9, <1>10, <1>11 DEF Next

(* Where clocks agree and scripts arrive at once, Redis keeps the promise  *)
(* of driver.go: it implements LeaseLock, for any owners, leases and       *)
(* bounds, also when scripts are lost or run twice.                        *)
THEOREM ImplementsLeaseLock ==
  ASSUME Synchronous
  PROVE  Spec => Contract
<1>1. Init => Inv /\ InTime /\ LL!Init
  <2> SUFFICES ASSUME Init PROVE Inv /\ InTime /\ LL!Init
    OBVIOUS
  <2>1. InTime
    BY DEF Init, InTime
  <2>2. \A p \in Owners : Abs(p) = Gone
    BY NoKeyView, NothingSeen, SeenFacts DEF Init
  <2>3. Holds = LL!Vacant
    BY <2>2, SeenFacts DEF LL!Vacant
  <2> QED BY <2>1, <2>3, InitInv DEF LL!Init, Holds, Init
<1>2. Inv /\ InTime /\ [Next]_vars => Inv' /\ InTime' /\ [LL!Next]_(LL!vars)
  BY NextInv, InTimeStep, StepLemma
<1> QED BY <1>1, <1>2, PTL DEF Spec, Contract, LL!Spec

=============================================================================
