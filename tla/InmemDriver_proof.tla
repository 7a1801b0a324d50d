-------------------------- MODULE InmemDriver_proof --------------------------
(***************************************************************************)
(* locktest/inmem.go keeps the promise of LeaseLock, for every set of      *)
(* owners and leases and every bound.  The record has one of three shapes  *)
(* (Shape), which is the invariant the refinement rests on; the lemmas say *)
(* what the helpers of the source do to the view of a record of that       *)
(* shape.                                                                  *)
(***************************************************************************)
EXTENDS InmemDriver, TLAPS

MaybeHold == InmemHold \cup {NilHold}

WriteRec(o, h) == [mode |-> "write", owner |-> o, writer |-> h, readers |-> NoReaders]
ReadRec(R)     == [mode |-> "read", owner |-> NoOwner, writer |-> NilHold, readers |-> R]

Shape(r) ==
  \/ r = NilRec
  \/ \E o \in Owners, h \in InmemHold : r = WriteRec(o, h)
  \/ \E R \in [Owners -> MaybeHold] : r = ReadRec(R)

Inv ==
  /\ Shape(rec)
  /\ counter \in 0 .. MaxFence
  /\ now \in 0 .. MaxTime

LEMMA HoldFacts ==
  /\ \A h \in InmemHold : h # NilHold /\ h.expires \in Nat /\ h.count \in Nat \ {0}
                          /\ h.fence \in 1 .. MaxFence
  /\ NilHold.expires = 0 /\ NilHold.count = 0 /\ NilHold.fence = 0
  /\ \A p \in Owners : NoReaders[p] = NilHold
  /\ NoReaders \in [Owners -> MaybeHold]
BY DEF InmemHold, NilHold, NoReaders, MaybeHold

LEMMA UnexpiredView ==
  ASSUME NEW h, NEW m, NEW t \in Nat
  PROVE  View(unexpired(h, t), m, t) = View(h, m, t)
<1>1. CASE h.expires > t
  BY <1>1 DEF unexpired
<1>2. CASE ~ (h.expires > t)
  <2>1. unexpired(h, t) = NilHold
    BY <1>2 DEF unexpired
  <2>2. ~ (NilHold.expires > t)
    BY HoldFacts
  <2> QED BY <1>2, <2>1, <2>2 DEF View
<1> QED BY <1>1, <1>2

LEMMA GoneFacts ==
  \A h, m, t : View(h, m, t) # Gone => h.expires > t
BY DEF View

(* The view of each of the three shapes.                                   *)
LEMMA HeldNil == ASSUME NEW t \in Nat, NEW p \in Owners
                 PROVE  Held(NilRec, t, p) = Gone
BY InmemAssumption, HoldFacts DEF Held, holdOf, NilRec, View

LEMMA HeldWrite ==
  ASSUME NEW t \in Nat, NEW p \in Owners, NEW o \in Owners, NEW h \in MaybeHold
  PROVE  Held(WriteRec(o, h), t, p) = IF p = o THEN View(h, "write", t) ELSE Gone
BY HoldFacts DEF Held, holdOf, WriteRec, View

LEMMA HeldRead ==
  ASSUME NEW t \in Nat, NEW p \in Owners, NEW R \in [Owners -> MaybeHold]
  PROVE  Held(ReadRec(R), t, p) = View(R[p], "read", t)
BY DEF Held, holdOf, ReadRec

(* What purge makes of each shape.                                         *)
LEMMA PurgeShapes ==
  ASSUME NEW t \in Nat
  PROVE  /\ purge(NilRec, t) = NilRec
         /\ \A o \in Owners, h \in InmemHold :
              purge(WriteRec(o, h), t) = WriteRec(o, unexpired(h, t))
         /\ \A R \in [Owners -> MaybeHold] :
              purge(ReadRec(R), t) = ReadRec([p \in Owners |-> unexpired(R[p], t)])
<1>1. purge(NilRec, t) = NilRec
  BY HoldFacts DEF purge, NilRec, unexpired
<1>2. ASSUME NEW o \in Owners, NEW h \in InmemHold
      PROVE  purge(WriteRec(o, h), t) = WriteRec(o, unexpired(h, t))
  BY DEF purge, WriteRec
<1>3. ASSUME NEW R \in [Owners -> MaybeHold]
      PROVE  purge(ReadRec(R), t) = ReadRec([p \in Owners |-> unexpired(R[p], t)])
  BY DEF purge, ReadRec
<1> QED BY <1>1, <1>2, <1>3

(* Purging changes no live hold; it leaves a record in shape if any is     *)
(* live, and if none is then nobody held the Key.                          *)
LEMMA Purging ==
  ASSUME NEW r, Shape(r), NEW t \in Nat
  PROVE  LET q == purge(r, t) IN
         /\ live(q, t) => Shape(q) /\ q.mode \in Modes
         /\ ~ live(q, t) => \A p \in Owners : Held(r, t, p) = Gone
         /\ \A p \in Owners : Held(q, t, p) = Held(r, t, p)
         /\ \A p \in Owners : holdOf(q, q.mode, p) = NilHold \/
                (holdOf(q, q.mode, p) \in InmemHold /\ holdOf(q, q.mode, p).expires > t)
<1> DEFINE q == purge(r, t)
<1>1. CASE r = NilRec
  <2>1. q = NilRec
    BY <1>1, PurgeShapes
  <2>2. ~ live(NilRec, t)
    BY DEF live, NilRec
  <2>3. \A p \in Owners : holdOf(NilRec, NilRec.mode, p) = NilHold
    BY InmemAssumption DEF holdOf, NilRec
  <2> QED BY <1>1, <2>1, <2>2, <2>3, HeldNil
<1>2. ASSUME NEW o \in Owners, NEW h \in InmemHold, r = WriteRec(o, h)
      PROVE  /\ live(q, t) => Shape(q) /\ q.mode \in Modes
             /\ ~ live(q, t) => \A p \in Owners : Held(r, t, p) = Gone
             /\ \A p \in Owners : Held(q, t, p) = Held(r, t, p)
             /\ \A p \in Owners : holdOf(q, q.mode, p) = NilHold \/
                    (holdOf(q, q.mode, p) \in InmemHold /\ holdOf(q, q.mode, p).expires > t)
  <2> DEFINE u == unexpired(h, t)
  <2>1. q = WriteRec(o, u)
    BY <1>2, PurgeShapes
  <2>2. u = IF h.expires > t THEN h ELSE NilHold
    BY DEF unexpired
  <2>3. u \in MaybeHold
    BY <2>2 DEF MaybeHold
  <2>4. live(WriteRec(o, u), t) <=> h.expires > t
    BY <2>2, HoldFacts DEF live, WriteRec
  <2>5. \A p \in Owners : Held(q, t, p) = Held(r, t, p)
    <3>1. View(u, "write", t) = View(h, "write", t)
      BY UnexpiredView
    <3>2. h \in MaybeHold
      BY DEF MaybeHold
    <3> HIDE DEF u
    <3>3. \A p \in Owners : Held(WriteRec(o, u), t, p) = IF p = o THEN View(u, "write", t) ELSE Gone
      BY <2>3, HeldWrite
    <3>4. \A p \in Owners : Held(WriteRec(o, h), t, p) = IF p = o THEN View(h, "write", t) ELSE Gone
      BY <3>2, HeldWrite
    <3> QED BY <1>2, <2>1, <3>1, <3>3, <3>4
  <2>6. \A p \in Owners : h.expires > t \/ Held(r, t, p) = Gone
    BY <1>2, HeldWrite DEF View, MaybeHold
  <2>7. \A p \in Owners : holdOf(q, q.mode, p) \in {u, NilHold}
    BY <2>1 DEF holdOf, WriteRec
  <2>8. h.expires > t => Shape(q) /\ q.mode \in Modes
    BY <2>1, <2>2 DEF Shape, WriteRec, Modes
  <2> HIDE DEF u, q
  <2> QED BY <2>1, <2>2, <2>4, <2>5, <2>6, <2>7, <2>8
<1>3. ASSUME NEW R \in [Owners -> MaybeHold], r = ReadRec(R)
      PROVE  /\ live(q, t) => Shape(q) /\ q.mode \in Modes
             /\ ~ live(q, t) => \A p \in Owners : Held(r, t, p) = Gone
             /\ \A p \in Owners : Held(q, t, p) = Held(r, t, p)
             /\ \A p \in Owners : holdOf(q, q.mode, p) = NilHold \/
                    (holdOf(q, q.mode, p) \in InmemHold /\ holdOf(q, q.mode, p).expires > t)
  <2> DEFINE U == [p \in Owners |-> unexpired(R[p], t)]
  <2>1. q = ReadRec(U)
    BY <1>3, PurgeShapes
  <2>2. \A p \in Owners : U[p] = IF R[p].expires > t THEN R[p] ELSE NilHold
    BY DEF unexpired
  <2>3. U \in [Owners -> MaybeHold]
    BY <2>2 DEF MaybeHold
  <2> HIDE DEF U
  <2>4. live(ReadRec(U), t) <=> \E p \in Owners : R[p].expires > t
    BY <2>2, HoldFacts DEF live, ReadRec, MaybeHold
  <2>5. \A p \in Owners : Held(q, t, p) = Held(r, t, p)
    <3>1. \A p \in Owners : View(U[p], "read", t) = View(R[p], "read", t)
      <4> TAKE p \in Owners
      <4>1. U[p] = unexpired(R[p], t)
        BY DEF U
      <4> QED BY <4>1, UnexpiredView
    <3>2. \A p \in Owners : Held(ReadRec(U), t, p) = View(U[p], "read", t)
      BY <2>3, HeldRead
    <3>3. \A p \in Owners : Held(ReadRec(R), t, p) = View(R[p], "read", t)
      BY HeldRead
    <3> QED BY <1>3, <2>1, <3>1, <3>2, <3>3
  <2>6. \A p \in Owners : R[p].expires > t \/ Held(r, t, p) = Gone
    BY <1>3, HeldRead DEF View
  <2>7. \A p \in Owners : holdOf(q, q.mode, p) = U[p]
    BY <2>1 DEF holdOf, ReadRec
  <2>8. Shape(q) /\ q.mode \in Modes
    BY <2>1, <2>3 DEF Shape, ReadRec, Modes
  <2>9. \A p \in Owners : U[p] = NilHold \/ (U[p] \in InmemHold /\ U[p].expires > t)
    BY <2>2, HoldFacts DEF MaybeHold
  <2> HIDE DEF q
  <2> QED BY <2>1, <2>4, <2>5, <2>6, <2>7, <2>8, <2>9
<1> QED
  BY <1>1, <1>2, <1>3 DEF Shape

-----------------------------------------------------------------------------
(* What an assignment through holdOf, and a fresh record, do to the views. *)

LEMMA WithHold ==
  ASSUME NEW r, Shape(r), NEW t \in Nat, NEW m \in Modes, NEW o \in Owners,
         NEW h \in MaybeHold, r.mode = m, m = "read" \/ r.owner = o
  PROVE  /\ \A p \in Owners :
              Held(withHold(r, m, o, h), t, p) = IF p = o THEN View(h, m, t) ELSE Held(r, t, p)
         /\ m = "read" \/ h \in InmemHold => Shape(withHold(r, m, o, h))
<1>1. r # NilRec
  BY DEF NilRec, Modes
<1>2. ASSUME NEW a \in Owners, NEW g \in InmemHold, r = WriteRec(a, g)
      PROVE  /\ \A p \in Owners :
                  Held(withHold(r, m, o, h), t, p) = IF p = o THEN View(h, m, t) ELSE Held(r, t, p)
             /\ m = "read" \/ h \in InmemHold => Shape(withHold(r, m, o, h))
  <2>1. a = o /\ m = "write"
    BY <1>2 DEF WriteRec
  <2>2. withHold(r, m, o, h) = WriteRec(o, h)
    BY <1>2, <2>1 DEF withHold, WriteRec
  <2>3. g \in MaybeHold
    BY DEF MaybeHold
  <2>4. \A p \in Owners : Held(WriteRec(o, h), t, p) = IF p = o THEN View(h, "write", t) ELSE Gone
    BY HeldWrite
  <2>5. \A p \in Owners : Held(WriteRec(o, g), t, p) = IF p = o THEN View(g, "write", t) ELSE Gone
    BY <2>3, HeldWrite
  <2>6. h \in InmemHold => Shape(WriteRec(o, h))
    BY DEF Shape
  <2> QED BY <1>2, <2>1, <2>2, <2>4, <2>5, <2>6
<1>3. ASSUME NEW R \in [Owners -> MaybeHold], r = ReadRec(R)
      PROVE  /\ \A p \in Owners :
                  Held(withHold(r, m, o, h), t, p) = IF p = o THEN View(h, m, t) ELSE Held(r, t, p)
             /\ m = "read" \/ h \in InmemHold => Shape(withHold(r, m, o, h))
  <2> DEFINE S == [R EXCEPT ![o] = h]
  <2>1. m = "read"
    BY <1>3 DEF ReadRec
  <2>2. withHold(r, m, o, h) = ReadRec(S)
    BY <1>3, <2>1 DEF withHold, ReadRec
  <2>3. S \in [Owners -> MaybeHold]
    OBVIOUS
  <2>4. \A p \in Owners : S[p] = IF p = o THEN h ELSE R[p]
    OBVIOUS
  <2> HIDE DEF S
  <2>5. \A p \in Owners : Held(ReadRec(S), t, p) = View(S[p], "read", t)
    BY <2>3, HeldRead
  <2>6. \A p \in Owners : Held(ReadRec(R), t, p) = View(R[p], "read", t)
    BY HeldRead
  <2>7. Shape(ReadRec(S))
    BY <2>3 DEF Shape
  <2> QED BY <1>3, <2>1, <2>2, <2>4, <2>5, <2>6, <2>7
<1> QED
  BY <1>1, <1>2, <1>3 DEF Shape

LEMMA NewRec ==
  ASSUME NEW t \in Nat, NEW m \in Modes, NEW o \in Owners, NEW h \in InmemHold
  PROVE  /\ Shape(newRec(m, o, h))
         /\ \A p \in Owners :
              Held(newRec(m, o, h), t, p) = IF p = o THEN View(h, m, t) ELSE Gone
<1>1. h \in MaybeHold
  BY DEF MaybeHold
<1>2. CASE m = "write"
  <2>1. newRec(m, o, h) = WriteRec(o, h)
    BY <1>2 DEF newRec, WriteRec
  <2>2. \A p \in Owners : Held(WriteRec(o, h), t, p) = IF p = o THEN View(h, "write", t) ELSE Gone
    BY <1>1, HeldWrite
  <2> QED BY <1>2, <2>1, <2>2 DEF Shape
<1>3. CASE m = "read"
  <2> DEFINE S == [NoReaders EXCEPT ![o] = h]
  <2>1. newRec(m, o, h) = ReadRec(S)
    BY <1>3 DEF newRec, ReadRec
  <2>2. S \in [Owners -> MaybeHold] /\ \A p \in Owners : S[p] = IF p = o THEN h ELSE NilHold
    BY <1>1, HoldFacts
  <2> HIDE DEF S
  <2>3. \A p \in Owners : Held(ReadRec(S), t, p) = View(S[p], "read", t)
    BY <2>2, HeldRead
  <2>4. View(NilHold, "read", t) = Gone
    BY HoldFacts DEF View
  <2> QED BY <1>3, <2>1, <2>2, <2>3, <2>4 DEF Shape
<1> QED BY <1>2, <1>3 DEF Modes

(* A hold whose lease runs is seen as it is; one that starts a lease of l  *)
(* now has l left.                                                         *)
LEMMA Seen ==
  ASSUME NEW h, NEW m, NEW t, h.expires > t
  PROVE  /\ View(h, m, t) = [mode |-> m, count |-> h.count, fence |-> h.fence,
                             left |-> h.expires - t]
         /\ m # "none" => View(h, m, t) # Gone
<1>1. View(h, m, t) = [mode |-> m, count |-> h.count, fence |-> h.fence, left |-> h.expires - t]
  BY DEF View
<1>2. View(h, m, t).mode = m
  BY <1>1
<1>3. Gone.mode = "none"
  BY DEF Gone
<1> QED BY <1>1, <1>2, <1>3

(* A record seen through the mode it has: who is live holds in that mode.  *)
LEMMA ModeOfRecord ==
  ASSUME NEW r, NEW t \in Nat, NEW p \in Owners
  PROVE  Held(r, t, p) # Gone =>
           /\ Held(r, t, p).mode = r.mode
           /\ holdOf(r, r.mode, p).expires > t
           /\ r.mode = "read" \/ r.owner = p
<1>1. ASSUME Held(r, t, p) # Gone
      PROVE  holdOf(r, r.mode, p).expires > t
  BY <1>1 DEF Held, View
<1>2. ASSUME Held(r, t, p) # Gone
      PROVE  Held(r, t, p).mode = r.mode
  BY <1>1, <1>2, Seen DEF Held
<1>3. ASSUME Held(r, t, p) # Gone, r.mode # "read"
      PROVE  r.owner = p
  <2>1. ~ (NilHold.expires > t)
    BY HoldFacts
  <2> QED BY <1>1, <1>3, <2>1 DEF holdOf
<1> QED BY <1>1, <1>2, <1>3

-----------------------------------------------------------------------------
(* The steps of the abstract lock, stated on the views of the record: each *)
(* lemma turns "only o's view changed, and thus" into the abstract action. *)

Holds == [o \in Owners |-> Abs(o)]

Started(l) == [count |-> 1, fence |-> counter + 1, expires |-> now + l]

LEMMA ViewFields ==
  /\ Gone = LL!NoHold
  /\ \A p \in Owners : Holds[p] = Abs(p)
  /\ Holds = [p \in Owners |-> Abs(p)]
BY DEF Gone, LL!NoHold, Holds

LEMMA StartedView ==
  ASSUME Inv, NEW m \in Modes, NEW l \in Leases, counter < MaxFence
  PROVE  /\ Started(l) \in InmemHold
         /\ View(Started(l), m, now) =
              [mode |-> m, count |-> 1, fence |-> counter + 1, left |-> l]
<1>1. /\ now \in Nat /\ counter \in Nat /\ l \in Nat /\ l > 0
      /\ counter + 1 \in 1 .. MaxFence /\ now + l \in Nat
  BY InmemAssumption DEF Inv
<1>2. Started(l).expires = now + l /\ Started(l).count = 1 /\ Started(l).fence = counter + 1
  BY DEF Started
<1>3. Started(l) \in InmemHold
  BY <1>1 DEF Started, InmemHold
<1>4. Started(l).expires > now /\ Started(l).expires - now = l
  BY <1>1, <1>2
<1> QED BY <1>2, <1>3, <1>4, Seen

LEMMA GrantStep ==
  ASSUME Inv, NEW o \in Owners, NEW m \in Modes, NEW l \in Leases,
         counter < MaxFence, counter' = counter + 1,
         LL!Verdict(Holds, o, m) = "grant",
         \A p \in Owners : Abs(p)' = IF p = o THEN View(Started(l), m, now) ELSE Abs(p)
  PROVE  LL!Grant(o, m, l)
<1>1. counter + 1 \in LL!Fences /\ counter + 1 > counter
  BY InmemAssumption DEF Inv, LL!Fences
<1>2. Holds' = [p \in Owners |-> Abs(p)']
  BY DEF Holds
<1>3. Holds' = LL!Granted(Holds, o, m, counter + 1, l)
  BY <1>2, StartedView, ViewFields DEF LL!Granted
<1> QED BY <1>1, <1>3 DEF LL!Grant, Holds

(* The reentry of the source writes two fields of a hold, the abstract one *)
(* two fields of its view.                                                 *)
MoreHold(h, e) == [h EXCEPT !.count = h.count + 1, !.expires = e]
MoreView(v, l) == [v EXCEPT !.count = v.count + 1, !.left = l]

LEMMA ReenterStep ==
  ASSUME NEW o \in Owners, NEW m \in Modes, NEW l \in Leases,
         Abs(o) # Gone, Abs(o).mode = m, Abs(o).count < MaxCount, counter' = counter,
         \A p \in Owners : Abs(p)' =
           IF p = o THEN MoreView(Abs(o), l) ELSE Abs(p)
  PROVE  LL!Reenter(o, m, l)
<1>1. Holds' = [p \in Owners |-> Abs(p)']
  BY DEF Holds
<1>2. Holds' = LL!Reentered(Holds, o, l)
  BY <1>1, ViewFields DEF LL!Reentered, MoreView
<1>3. LL!Verdict(Holds, o, m) = "reenter"
  BY ViewFields DEF LL!Verdict
<1> QED BY <1>2, <1>3, ViewFields DEF LL!Reenter, Holds

LEMMA RefreshStep ==
  ASSUME NEW o \in Owners, NEW m \in Modes, NEW f, NEW l \in Leases,
         Abs(o) # Gone, Abs(o).mode = m, Abs(o).fence = f, counter' = counter,
         \A p \in Owners : Abs(p)' = IF p = o THEN [Abs(o) EXCEPT !.left = l] ELSE Abs(p)
  PROVE  LL!Refresh(o, m, f, l)
<1>1. Holds' = [p \in Owners |-> Abs(p)']
  BY DEF Holds
<1>2. Holds' = LL!Extended(Holds, o, l)
  BY <1>1, ViewFields DEF LL!Extended
<1>3. LL!Owns(Holds, o, m, f)
  BY ViewFields DEF LL!Owns
<1> QED BY <1>2, <1>3 DEF LL!Refresh, Holds

LEMMA ReleaseStep ==
  ASSUME NEW o \in Owners, NEW m \in Modes, NEW f,
         Abs(o) # Gone, Abs(o).mode = m, Abs(o).fence = f, counter' = counter,
         \A p \in Owners : Abs(p)' =
           IF p = o THEN IF Abs(o).count > 1 THEN [Abs(o) EXCEPT !.count = Abs(o).count - 1]
                                             ELSE Gone
                    ELSE Abs(p)
  PROVE  LL!Release(o, m, f)
<1>1. Holds' = [p \in Owners |-> Abs(p)']
  BY DEF Holds
<1>2. Holds' = LL!Released(Holds, o)
  BY <1>1, ViewFields DEF LL!Released
<1>3. LL!Owns(Holds, o, m, f)
  BY ViewFields DEF LL!Owns
<1> QED BY <1>2, <1>3 DEF LL!Release, Holds

(* The abstract downgrade writes two fields of the view.                   *)
ReadView(v) == [v EXCEPT !.mode = "read", !.count = 1]

LEMMA DowngradeStep ==
  ASSUME NEW o \in Owners, NEW f,
         Abs(o) # Gone, Abs(o).mode = "write", Abs(o).fence = f, ~ (Abs(o).count > 1),
         counter' = counter,
         \A p \in Owners : Abs(p)' =
           IF p = o THEN ReadView(Abs(o)) ELSE Abs(p)
  PROVE  LL!Downgrade(o, f)
<1>1. Holds' = [p \in Owners |-> Abs(p)']
  BY DEF Holds
<1>2. Holds' = LL!Downgraded(Holds, o)
  BY <1>1, ViewFields DEF LL!Downgraded, ReadView
<1>3. LL!DowngradeVerdict(Holds, o, f) = "ok"
  BY ViewFields DEF LL!DowngradeVerdict, LL!Owns
<1> QED BY <1>2, <1>3 DEF LL!Downgrade, Holds

LEMMA ReenteredHold ==
  ASSUME NEW h \in InmemHold, NEW e \in Nat
  PROVE  /\ MoreHold(h, e) \in InmemHold /\ MoreHold(h, e).count = h.count + 1
         /\ MoreHold(h, e).fence = h.fence /\ MoreHold(h, e).expires = e
<1> DEFINE z == [h EXCEPT !.count = h.count + 1]
<1>1. z \in InmemHold /\ z.count = h.count + 1 /\ z.fence = h.fence
  BY DEF InmemHold
<1>2. MoreHold(h, e) = [z EXCEPT !.expires = e]
  BY DEF z, MoreHold
<1> HIDE DEF z
<1>3. LET y == [z EXCEPT !.expires = e]
      IN  y \in InmemHold /\ y.count = h.count + 1 /\ y.fence = h.fence /\ y.expires = e
  BY <1>1 DEF InmemHold
<1> QED BY <1>2, <1>3

LEMMA ReenteredView ==
  ASSUME NEW m, NEW c, NEW f, NEW x, NEW l, NEW v,
         v = [mode |-> m, count |-> c, fence |-> f, left |-> x]
  PROVE  MoreView(v, l) = [mode |-> m, count |-> c + 1, fence |-> f, left |-> l]
<1> DEFINE z == [v EXCEPT !.count = v.count + 1]
<1>1. z = [mode |-> m, count |-> c + 1, fence |-> f, left |-> x]
  OBVIOUS
<1>2. MoreView(v, l) = [z EXCEPT !.left = l]
  BY DEF z, MoreView
<1> HIDE DEF z
<1>3. [z EXCEPT !.left = l] = [mode |-> m, count |-> c + 1, fence |-> f, left |-> l]
  BY <1>1
<1> QED BY <1>2, <1>3

LEMMA NoStep ==
  ASSUME counter' = counter, \A p \in Owners : Abs(p)' = Abs(p)
  PROVE  UNCHANGED LL!vars
<1>1. [p \in Owners |-> Abs(p)]' = [p \in Owners |-> Abs(p)']
  OBVIOUS
<1> QED BY <1>1 DEF LL!vars

-----------------------------------------------------------------------------
(* Each method of the driver, as a step of the abstract lock.              *)

Refused == reply'.result # "ok" /\ UNCHANGED LL!vars

LEMMA TryAcquireStep ==
  ASSUME Inv, NEW o \in Owners, NEW m \in Modes, NEW l \in Leases, TryAcquire(o, m, l)
  PROVE  /\ Inv'
         /\ reply'.op = "TryAcquire" /\ reply'.owner = o
         /\ reply'.mode = m
         /\ \/ reply'.result = "ok" /\ (LL!Grant(o, m, l) \/ LL!Reenter(o, m, l))
            \/ Refused
<1> DEFINE q    == purge(rec, now)
           mine == holdOf(q, q.mode, o)
           Goal == /\ Inv'
                   /\ reply'.op = "TryAcquire" /\ reply'.owner = o
                   /\ reply'.mode = m
                   /\ \/ reply'.result = "ok" /\ (LL!Grant(o, m, l) \/ LL!Reenter(o, m, l))
                      \/ Refused
<1>1. /\ now \in Nat /\ counter \in Nat /\ now' = now
      /\ l \in Nat /\ l > 0
  BY InmemAssumption DEF Inv, TryAcquire
<1>2. /\ live(q, now) => Shape(q) /\ q.mode \in Modes
      /\ ~ live(q, now) => \A p \in Owners : Abs(p) = Gone
      /\ \A p \in Owners : Held(q, now, p) = Abs(p)
      /\ mine = NilHold \/ (mine \in InmemHold /\ mine.expires > now)
  BY <1>1, Purging DEF Abs, Inv
<1>3. \A p \in Owners : Abs(p) # Gone => Abs(p).mode = q.mode /\ (q.mode = "read" \/ q.owner = p)
  BY <1>1, <1>2, ModeOfRecord
<1>4. /\ mine = NilHold => Abs(o) = Gone
      /\ mine # NilHold => Abs(o) = View(mine, q.mode, now)
  BY <1>1, <1>2, HoldFacts DEF Held, View
<1>5. /\ mine \in MaybeHold
      /\ \A p \in Owners : Abs(p)' = Held(rec', now, p)
  BY <1>1, <1>2 DEF MaybeHold, Abs
<1>6. CASE /\ ~ live(q, now)
           /\ counter < MaxFence
           /\ rec' = newRec(m, o, Started(l))
           /\ counter' = counter + 1
           /\ Return("TryAcquire", o, m, counter + 1, "ok")
  <2>1. LL!Verdict(Holds, o, m) = "grant"
    BY <1>2, <1>6, ViewFields DEF LL!Verdict, LL!Rivals
  <2>2. /\ Shape(rec')
        /\ \A p \in Owners : Abs(p)' = IF p = o THEN View(Started(l), m, now) ELSE Abs(p)
    BY <1>1, <1>2, <1>5, <1>6, StartedView, NewRec
  <2>3. LL!Grant(o, m, l)
    BY <1>6, <2>1, <2>2, GrantStep
  <2>4. counter + 1 \in 0 .. MaxFence
    BY <1>1, <1>6, InmemAssumption
  <2> QED BY <1>1, <1>6, <2>2, <2>3, <2>4 DEF Inv, Return
<1>7. CASE /\ live(q, now) /\ q.mode = m /\ mine # NilHold
           /\ mine.count < MaxCount
           /\ rec' = withHold(q, m, o, MoreHold(mine, now + l))
           /\ Return("TryAcquire", o, m, mine.fence, "ok")
           /\ UNCHANGED counter
  <2> DEFINE new == MoreHold(mine, now + l)
  <2>1. mine \in InmemHold /\ mine.expires > now
    BY <1>2, <1>7
  <2>2. /\ new \in InmemHold /\ new.count = mine.count + 1
        /\ new.fence = mine.fence /\ new.expires = now + l
    <3>1. now + l \in Nat
      BY <1>1
    <3> QED BY <2>1, <3>1, ReenteredHold
  <2> HIDE DEF new
  <2>3. new.expires > now /\ new.expires - now = l
    BY <1>1, <2>2
  <2>4. Abs(o) = [mode |-> m, count |-> mine.count, fence |-> mine.fence,
                  left |-> mine.expires - now] /\ Abs(o) # Gone
    BY <1>4, <1>7, <2>1, Seen DEF Modes
  <2>5. View(new, m, now) = [mode |-> m, count |-> mine.count + 1, fence |-> mine.fence, left |-> l]
    BY <2>2, <2>3, Seen
  <2>6. View(new, m, now) = MoreView(Abs(o), l)
    BY <2>4, <2>5, ReenteredView
  <2>7. q.mode = "read" \/ q.owner = o
    BY <1>3, <2>4
  <2>8. /\ Shape(rec')
        /\ \A p \in Owners : Abs(p)' = IF p = o THEN View(new, m, now) ELSE Abs(p)
    <3>1. new \in MaybeHold /\ rec' = withHold(q, m, o, new)
      BY <1>7, <2>2 DEF MaybeHold, new
    <3> QED BY <1>1, <1>2, <1>5, <1>7, <2>2, <2>7, <3>1, WithHold
  <2>9. LL!Reenter(o, m, l)
    <3>1. Abs(o).mode = m /\ Abs(o).count = mine.count /\ Abs(o) # Gone
      BY <2>4
    <3> HIDE DEF mine, q
    <3>2. Abs(o).count < MaxCount /\ counter' = counter
      BY <1>7, <3>1
    <3>3. \A p \in Owners : Abs(p)' =
            IF p = o THEN MoreView(Abs(o), l) ELSE Abs(p)
      BY <2>6, <2>8
    <3> QED BY <3>1, <3>2, <3>3, ReenterStep
  <2> QED BY <1>1, <1>7, <2>8, <2>9 DEF Inv, Return
<1>8. CASE /\ live(q, now) /\ q.mode = "read" /\ m = "read" /\ mine = NilHold
           /\ counter < MaxFence
           /\ rec' = withHold(q, "read", o, Started(l))
           /\ counter' = counter + 1
           /\ Return("TryAcquire", o, m, counter + 1, "ok")
  <2>1. LL!Verdict(Holds, o, m) = "grant"
    BY <1>3, <1>4, <1>8, ViewFields DEF LL!Verdict, LL!Rivals
  <2>2. /\ Shape(rec')
        /\ \A p \in Owners : Abs(p)' = IF p = o THEN View(Started(l), m, now) ELSE Abs(p)
    <3>1. Started(l) \in MaybeHold
      BY <1>8, StartedView DEF MaybeHold
    <3> QED BY <1>1, <1>2, <1>5, <1>8, <3>1, WithHold
  <2>3. LL!Grant(o, m, l)
    BY <1>8, <2>1, <2>2, GrantStep
  <2>4. counter + 1 \in 0 .. MaxFence
    BY <1>1, <1>8, InmemAssumption
  <2> QED BY <1>1, <1>8, <2>2, <2>3, <2>4 DEF Inv, Return
<1>9. CASE /\ live(q, now)
           /\ rec' = q
           /\ \/ Return("TryAcquire", o, m, 0, "ErrModeConflict")
              \/ Return("TryAcquire", o, m, 0, "ErrHeld")
           /\ UNCHANGED counter
  <2>1. UNCHANGED LL!vars
    BY <1>2, <1>5, <1>9, NoStep
  <2> QED BY <1>1, <1>2, <1>9, <2>1 DEF Inv, Return, Refused
<1> HIDE DEF Goal
<1> QED
  BY <1>6, <1>7, <1>8, <1>9 DEF TryAcquire, Started, MoreHold, Goal

(* What the checks of Refresh and Release establish.                       *)
LEMMA Accepted ==
  ASSUME Inv, NEW o \in Owners, NEW m \in Modes, NEW f, accepts(m, o, f)
  PROVE  LET h == holdOf(rec, m, o) IN
         /\ h \in InmemHold /\ h.expires > now /\ h.fence = f
         /\ rec.mode = m /\ (m = "read" \/ rec.owner = o)
         /\ Abs(o) = [mode |-> m, count |-> h.count, fence |-> f, left |-> h.expires - now]
         /\ Abs(o) # Gone
<1> DEFINE h == holdOf(rec, m, o)
<1>1. /\ rec.mode = m /\ h # NilHold /\ h.fence = f /\ h.expires > now
  BY DEF accepts
<1>2. h \in InmemHold
  <2>1. ASSUME NEW a \in Owners, NEW g \in InmemHold, rec = WriteRec(a, g)
        PROVE  h \in InmemHold
    BY <1>1, <2>1 DEF holdOf, WriteRec
  <2>2. ASSUME NEW R \in [Owners -> MaybeHold], rec = ReadRec(R)
        PROVE  h \in InmemHold
    BY <1>1, <2>2 DEF holdOf, ReadRec, MaybeHold
  <2>3. rec # NilRec
    BY <1>1 DEF NilRec, Modes
  <2> QED BY <2>1, <2>2, <2>3 DEF Inv, Shape
<1>3. m = "read" \/ rec.owner = o
  BY <1>1 DEF holdOf
<1>4. Abs(o) = View(h, m, now)
  BY <1>1 DEF Abs, Held
<1>5. m # "none"
  BY DEF Modes
<1> QED BY <1>1, <1>2, <1>3, <1>4, <1>5, Seen

LEMMA RefreshMethod ==
  ASSUME Inv, NEW o \in Owners, NEW m \in Modes, NEW f, NEW l \in Leases, Refresh(o, m, f, l)
  PROVE  /\ Inv'
         /\ reply'.op = "Refresh" /\ reply'.owner = o /\ reply'.mode = m /\ reply'.fence = f
         /\ (reply'.result = "ok" /\ LL!Refresh(o, m, f, l)) \/ Refused
<1> DEFINE h   == holdOf(rec, m, o)
           new == [h EXCEPT !.expires = now + l]
<1>1. /\ now \in Nat /\ counter' = counter /\ now' = now /\ l \in Nat /\ l > 0
      /\ \A p \in Owners : Abs(p)' = Held(rec', now, p)
  BY InmemAssumption DEF Inv, Refresh, Abs
<1>2. CASE accepts(m, o, f) /\ rec' = withHold(rec, m, o, new) /\ Return("Refresh", o, m, f, "ok")
  <2>1. /\ h \in InmemHold /\ h.fence = f
        /\ rec.mode = m /\ (m = "read" \/ rec.owner = o)
        /\ Abs(o) = [mode |-> m, count |-> h.count, fence |-> f, left |-> h.expires - now]
        /\ Abs(o) # Gone
    BY <1>2, Accepted
  <2>2. new \in InmemHold /\ new.count = h.count /\ new.fence = f /\ new.expires = now + l
    <3> HIDE DEF h
    <3> QED BY <1>1, <2>1 DEF InmemHold
  <2> HIDE DEF new, h
  <2>3. new.expires > now /\ new.expires - now = l /\ new \in MaybeHold
    BY <1>1, <2>2 DEF MaybeHold
  <2>4. View(new, m, now) = [Abs(o) EXCEPT !.left = l]
    BY <2>1, <2>2, <2>3, Seen
  <2>5. /\ Shape(rec')
        /\ \A p \in Owners : Abs(p)' = IF p = o THEN View(new, m, now) ELSE Abs(p)
    BY <1>1, <1>2, <2>1, <2>2, <2>3, WithHold DEF Inv, Abs
  <2>6. Abs(o).mode = m /\ Abs(o).fence = f
    BY <2>1
  <2>7. LL!Refresh(o, m, f, l)
    <3>1. \A p \in Owners : Abs(p)' = IF p = o THEN [Abs(o) EXCEPT !.left = l] ELSE Abs(p)
      BY <2>4, <2>5
    <3> QED BY <1>1, <2>1, <2>6, <3>1, RefreshStep
  <2> QED BY <1>1, <1>2, <2>5, <2>7 DEF Inv, Return
<1>3. CASE Return("Refresh", o, m, f, "ErrNotOwner") /\ UNCHANGED rec
  <2>1. UNCHANGED LL!vars
    BY <1>1, <1>3, NoStep DEF Abs
  <2> QED BY <1>1, <1>3, <2>1 DEF Inv, Return, Refused
<1> QED BY <1>2, <1>3 DEF Refresh

(* One count less: of the hold, and of its view.                           *)
LessHold(h) == [h EXCEPT !.count = h.count - 1]

LEMMA CountDown ==
  ASSUME Inv, NEW o \in Owners, NEW m \in Modes, NEW f, accepts(m, o, f)
  PROVE  LET r2 == countDown(rec, m, o) IN
         /\ Shape(r2)
         /\ \A p \in Owners : Held(r2, now, p) =
              IF p = o THEN IF Abs(o).count > 1 THEN [Abs(o) EXCEPT !.count = Abs(o).count - 1]
                                                ELSE Gone
                       ELSE Abs(p)
<1> DEFINE h    == holdOf(rec, m, o)
           r2   == countDown(rec, m, o)
           gone == withHold(rec, m, o, NilHold)
           Goal == /\ Shape(r2)
                   /\ \A p \in Owners : Held(r2, now, p) =
                        IF p = o THEN IF Abs(o).count > 1
                                        THEN [Abs(o) EXCEPT !.count = Abs(o).count - 1]
                                        ELSE Gone
                                 ELSE Abs(p)
<1>1. /\ h \in InmemHold /\ h.expires > now /\ h.fence = f
      /\ rec.mode = m /\ (m = "read" \/ rec.owner = o)
      /\ Abs(o) = [mode |-> m, count |-> h.count, fence |-> f, left |-> h.expires - now]
      /\ Abs(o) # Gone
  BY Accepted
<1>2. now \in Nat /\ Abs(o).count = h.count
  BY <1>1 DEF Inv
<1>3. /\ h.count > 1 => r2 = withHold(rec, m, o, LessHold(h))
      /\ ~ (h.count > 1) => r2 = IF m = "read" /\ gone.readers # NoReaders THEN gone ELSE NilRec
  BY DEF countDown, LessHold
<1> HIDE DEF h
<1>4. CASE h.count > 1
  <2> DEFINE new == LessHold(h)
  <2>1. new \in InmemHold /\ new.count = h.count - 1 /\ new.fence = f /\ new.expires = h.expires
    BY <1>1, <1>4 DEF InmemHold, LessHold
  <2> HIDE DEF new
  <2>2. new \in MaybeHold /\ new.expires > now
    BY <1>1, <2>1 DEF MaybeHold
  <2>3. View(new, m, now) = [Abs(o) EXCEPT !.count = Abs(o).count - 1]
    <3>1. View(new, m, now) =
            [mode |-> m, count |-> h.count - 1, fence |-> f, left |-> h.expires - now]
      BY <2>1, <2>2, Seen
    <3> QED BY <1>1, <3>1
  <2>4. r2 = withHold(rec, m, o, new)
    BY <1>3, <1>4 DEF new
  <2>5. /\ Shape(r2)
        /\ \A p \in Owners : Held(r2, now, p) = IF p = o THEN View(new, m, now) ELSE Held(rec, now, p)
    BY <1>1, <1>2, <2>1, <2>2, <2>4, WithHold DEF Inv
  <2> QED BY <1>2, <1>4, <2>3, <2>5 DEF Abs
<1>5. CASE ~ (h.count > 1)
  <2>1. NilHold \in MaybeHold /\ View(NilHold, m, now) = Gone
    BY <1>2, HoldFacts DEF MaybeHold, View
  <2>2. /\ m = "read" => Shape(gone)
        /\ \A p \in Owners : Held(gone, now, p) = IF p = o THEN Gone ELSE Abs(p)
    BY <1>1, <1>2, <2>1, WithHold DEF Inv, Abs
  <2>3. CASE m = "read" /\ gone.readers # NoReaders
    BY <1>2, <1>3, <1>5, <2>2, <2>3
  <2>4. CASE ~ (m = "read" /\ gone.readers # NoReaders)
    <3>1. r2 = NilRec /\ Shape(NilRec)
      BY <1>3, <1>5, <2>4 DEF Shape
    <3>2. \A p \in Owners \ {o} : Abs(p) = Gone
      <4>1. CASE m = "write"
        BY <1>1, <1>2, <4>1, ModeOfRecord DEF Abs
      <4>2. CASE m = "read"
        <5>1. gone.readers = NoReaders
          BY <2>4, <4>2
        <5>2. gone.mode = "read"
          BY <1>1, <4>2 DEF withHold
        <5>3. \A p \in Owners : holdOf(gone, gone.mode, p) = NilHold
          BY <5>1, <5>2, HoldFacts DEF holdOf
        <5>4. \A p \in Owners : Held(gone, now, p) = View(NilHold, gone.mode, now)
          BY <5>3 DEF Held
        <5> QED BY <2>1, <2>2, <4>2, <5>2, <5>4
      <4> QED BY <4>1, <4>2 DEF Modes
    <3>3. \A p \in Owners : Held(NilRec, now, p) = Gone
      BY <1>2, HeldNil
    <3> QED BY <1>2, <1>5, <3>1, <3>2, <3>3
  <2> QED BY <2>3, <2>4
<1> QED BY <1>4, <1>5

LEMMA ReleaseMethod ==
  ASSUME Inv, NEW o \in Owners, NEW m \in Modes, NEW f, Release(o, m, f)
  PROVE  /\ Inv'
         /\ reply'.op = "Release" /\ reply'.owner = o /\ reply'.mode = m /\ reply'.fence = f
         /\ (reply'.result = "ok" /\ LL!Release(o, m, f)) \/ Refused
<1>1. /\ counter' = counter /\ now' = now
      /\ \A p \in Owners : Abs(p)' = Held(rec', now, p)
  BY DEF Release, Abs
<1>2. CASE accepts(m, o, f) /\ rec' = countDown(rec, m, o) /\ Return("Release", o, m, f, "ok")
  <2>1. Abs(o).mode = m /\ Abs(o).fence = f /\ Abs(o) # Gone
    BY <1>2, Accepted
  <2>2. Shape(rec')
    BY <1>2, CountDown
  <2>3. LL!Release(o, m, f)
    <3>1. \A p \in Owners : Abs(p)' =
            IF p = o THEN IF Abs(o).count > 1 THEN [Abs(o) EXCEPT !.count = Abs(o).count - 1]
                                              ELSE Gone
                     ELSE Abs(p)
      BY <1>1, <1>2, CountDown
    <3> QED BY <1>1, <2>1, <3>1, ReleaseStep
  <2> QED BY <1>1, <1>2, <2>2, <2>3 DEF Inv, Return
<1>3. CASE Return("Release", o, m, f, "ErrNotOwner") /\ UNCHANGED rec
  <2>1. UNCHANGED LL!vars
    BY <1>1, <1>3, NoStep DEF Abs
  <2> QED BY <1>1, <1>3, <2>1 DEF Inv, Return, Refused
<1> QED BY <1>2, <1>3 DEF Release

LEMMA DowngradedView ==
  ASSUME NEW m, NEW c, NEW f, NEW x, NEW v,
         v = [mode |-> m, count |-> c, fence |-> f, left |-> x]
  PROVE  ReadView(v) = [mode |-> "read", count |-> 1, fence |-> f, left |-> x]
<1> DEFINE z == [v EXCEPT !.mode = "read"]
<1>1. z = [mode |-> "read", count |-> c, fence |-> f, left |-> x]
  OBVIOUS
<1>2. ReadView(v) = [z EXCEPT !.count = 1]
  BY DEF z, ReadView
<1> HIDE DEF z
<1>3. [z EXCEPT !.count = 1] = [mode |-> "read", count |-> 1, fence |-> f, left |-> x]
  BY <1>1
<1> QED BY <1>2, <1>3

LEMMA DowngradeMethod ==
  ASSUME Inv, NEW o \in Owners, NEW f, Downgrade(o, f)
  PROVE  /\ Inv'
         /\ reply'.op = "Downgrade" /\ reply'.owner = o /\ reply'.fence = f
         /\ (reply'.result = "ok" /\ LL!Downgrade(o, f)) \/ Refused
<1> DEFINE new == [rec.writer EXCEPT !.count = 1]
<1>1. /\ now \in Nat /\ counter' = counter /\ now' = now
      /\ \A p \in Owners : Abs(p)' = Held(rec', now, p)
  BY DEF Inv, Downgrade, Abs
<1>2. CASE /\ rec.mode = "write" /\ rec.owner = o /\ live(rec, now) /\ rec.writer.fence = f
           /\ rec.writer.count <= 1
           /\ rec' = newRec("read", o, new)
           /\ Return("Downgrade", o, "write", f, "ok")
  <2>1. PICK g \in InmemHold : rec = WriteRec(o, g)
    BY <1>2 DEF Inv, Shape, NilRec, WriteRec, ReadRec
  <2>2. rec.writer = g /\ g.expires > now /\ g.fence = f /\ g.count <= 1 /\ g.count \in Nat
    BY <1>2, <2>1, HoldFacts DEF WriteRec, live
  <2>3. new \in InmemHold /\ new.count = 1 /\ new.fence = f /\ new.expires = g.expires
    BY <2>2 DEF InmemHold
  <2> HIDE DEF new
  <2>4. \A p \in Owners : Abs(p) = IF p = o THEN View(g, "write", now) ELSE Gone
    <3>1. g \in MaybeHold
      BY DEF MaybeHold
    <3> QED BY <1>1, <2>1, <3>1, HeldWrite DEF Abs
  <2>5. /\ Abs(o) = [mode |-> "write", count |-> g.count, fence |-> f, left |-> g.expires - now]
        /\ Abs(o) # Gone
    BY <2>2, <2>4, Seen
  <2>6. View(new, "read", now) =
          [mode |-> "read", count |-> 1, fence |-> f, left |-> g.expires - now]
    BY <2>2, <2>3, Seen
  <2>7. View(new, "read", now) = ReadView(Abs(o))
    BY <2>5, <2>6, DowngradedView
  <2>8. /\ Shape(rec')
        /\ \A p \in Owners : Abs(p)' = IF p = o THEN ReadView(Abs(o)) ELSE Abs(p)
    <3>1. "read" \in Modes
      BY DEF Modes
    <3> QED BY <1>1, <1>2, <2>3, <2>4, <2>7, <3>1, NewRec
  <2>9. Abs(o).mode = "write" /\ Abs(o).fence = f /\ ~ (Abs(o).count > 1)
    BY <2>2, <2>5
  <2>10. LL!Downgrade(o, f)
    BY <1>1, <2>5, <2>8, <2>9, DowngradeStep
  <2> QED BY <1>1, <1>2, <2>8, <2>10 DEF Inv, Return
<1>3. CASE /\ UNCHANGED rec
           /\ \/ Return("Downgrade", o, "write", f, "ErrModeConflict")
              \/ Return("Downgrade", o, "write", f, "ErrNotOwner")
  <2>1. UNCHANGED LL!vars
    BY <1>1, <1>3, NoStep DEF Abs
  <2> QED BY <1>1, <1>3, <2>1 DEF Inv, Return, Refused
<1> QED BY <1>2, <1>3 DEF Downgrade

LEMMA DropMethod ==
  ASSUME Inv, Drop
  PROVE  Inv' /\ reply'.op = "none" /\ LL!Drop
<1>1. /\ \A p \in Owners : Abs(p)' = Gone
      /\ Shape(rec')
  BY HeldNil DEF Drop, Abs, Inv, Shape
<1>2. [p \in Owners |-> Abs(p)]' = LL!Vacant
  BY <1>1 DEF LL!Vacant, LL!NoHold, Gone
<1> QED BY <1>1, <1>2 DEF Drop, LL!Drop, Inv, NoReply

LEMMA OtherKeyStep ==
  ASSUME Inv, OtherKey
  PROVE  Inv' /\ reply'.op = "none" /\ LL!Skip
<1>1. counter + 1 \in LL!Fences /\ counter + 1 > counter /\ counter + 1 \in 0 .. MaxFence
  BY InmemAssumption DEF Inv, OtherKey, LL!Fences
<1>2. \A p \in Owners : Abs(p)' = Abs(p)
  BY DEF OtherKey, Abs
<1>3. [p \in Owners |-> Abs(p)]' = [p \in Owners |-> Abs(p)]
  BY <1>2
<1> QED BY <1>1, <1>3 DEF OtherKey, LL!Skip, Inv, NoReply

(* A tick takes one off every lease that runs, and ends the last ones.     *)
LEMMA OneTick ==
  ASSUME NEW h \in MaybeHold, NEW m \in Modes, NEW t \in Nat
  PROVE  View(h, m, t + 1) =
           IF View(h, m, t).left > 1
             THEN [View(h, m, t) EXCEPT !.left = View(h, m, t).left - 1] ELSE Gone
<1>1. h.expires \in Nat
  BY HoldFacts DEF MaybeHold
<1>2. CASE h.expires > t + 1
  <2>1. h.expires > t /\ h.expires - t > 1 /\ (h.expires - t) - 1 = h.expires - (t + 1)
    BY <1>1, <1>2
  <2>2. /\ View(h, m, t) =
             [mode |-> m, count |-> h.count, fence |-> h.fence, left |-> h.expires - t]
        /\ View(h, m, t + 1) =
             [mode |-> m, count |-> h.count, fence |-> h.fence, left |-> h.expires - (t + 1)]
    BY <1>2, <2>1, Seen
  <2>3. View(h, m, t).left = h.expires - t
    BY <2>2
  <2> QED BY <2>1, <2>2, <2>3
<1>3. CASE ~ (h.expires > t + 1)
  <2>1. View(h, m, t + 1) = Gone
    BY <1>3 DEF View
  <2>2. ~ (View(h, m, t).left > 1)
    <3>1. CASE h.expires > t
      <4>1. View(h, m, t).left = h.expires - t
        BY <3>1, Seen
      <4> QED BY <1>1, <1>3, <4>1
    <3>2. CASE ~ (h.expires > t)
      BY <3>2 DEF View, Gone
    <3> QED BY <3>1, <3>2
  <2> QED BY <2>1, <2>2
<1> QED BY <1>2, <1>3

LEMMA TickStep ==
  ASSUME Inv, Tick
  PROVE  Inv' /\ reply'.op = "none" /\ LL!Tick
<1>1. now \in Nat /\ now' = now + 1 /\ now + 1 \in 0 .. MaxTime /\ rec' = rec
      /\ counter' = counter /\ reply' = NoReply
  BY InmemAssumption DEF Inv, Tick
<1>2. ASSUME NEW p \in Owners
      PROVE  Abs(p)' = IF Abs(p).left > 1 THEN [Abs(p) EXCEPT !.left = Abs(p).left - 1] ELSE Gone
  <2>1. CASE rec = NilRec
    <3>1. Abs(p) = Gone /\ Abs(p)' = Gone
      BY <1>1, <2>1, HeldNil DEF Abs
    <3>2. ~ (Gone.left > 1)
      BY DEF Gone
    <3> QED BY <3>1, <3>2
  <2>2. CASE rec # NilRec
    <3> DEFINE h == holdOf(rec, rec.mode, p)
    <3>1. rec.mode \in Modes /\ h \in MaybeHold
      <4>1. ASSUME NEW a \in Owners, NEW g \in InmemHold, rec = WriteRec(a, g)
            PROVE  rec.mode \in Modes /\ h \in MaybeHold
        BY <4>1 DEF holdOf, WriteRec, MaybeHold, Modes
      <4>2. ASSUME NEW R \in [Owners -> MaybeHold], rec = ReadRec(R)
            PROVE  rec.mode \in Modes /\ h \in MaybeHold
        BY <4>2 DEF holdOf, ReadRec, Modes
      <4> QED BY <2>2, <4>1, <4>2 DEF Inv, Shape
    <3>2. Abs(p) = View(h, rec.mode, now) /\ Abs(p)' = View(h, rec.mode, now + 1)
      BY <1>1 DEF Abs, Held
    <3> HIDE DEF h
    <3> QED BY <1>1, <3>1, <3>2, OneTick
  <2> QED BY <2>1, <2>2
<1>3. Holds' = [p \in Owners |-> Abs(p)']
  BY DEF Holds
<1>4. Holds' = LL!Aged(Holds)
  BY <1>2, <1>3, ViewFields DEF LL!Aged
<1> QED BY <1>1, <1>4 DEF LL!Tick, Inv, NoReply, Holds

-----------------------------------------------------------------------------

LEMMA InitInv == Init => Inv /\ LL!Init
<1> SUFFICES ASSUME Init PROVE Inv /\ LL!Init
  OBVIOUS
<1>1. Inv
  BY InmemAssumption DEF Init, Inv, Shape
<1>2. \A p \in Owners : Abs(p) = Gone
  BY HeldNil DEF Init, Abs
<1>3. [p \in Owners |-> Abs(p)] = LL!Vacant
  BY <1>2 DEF LL!Vacant, LL!NoHold, Gone
<1> QED BY <1>1, <1>3 DEF Init, LL!Init

(* What one step of the driver is, for the abstract lock.                  *)
CallIsStep ==
  IF reply'.op = "none" THEN LL!Drop \/ LL!Skip \/ LL!Tick
  ELSE IF reply'.result = "ok"
    THEN Operation(reply'.op, reply'.owner, reply'.mode, reply'.fence)
    ELSE UNCHANGED LL!vars

LEMMA StepLemma ==
  ASSUME Inv, Next
  PROVE  Inv' /\ CallIsStep /\ (LL!Next \/ UNCHANGED LL!vars)
<1>1. ASSUME NEW o \in Owners, NEW m \in Modes, NEW l \in Leases, TryAcquire(o, m, l)
      PROVE  Inv' /\ CallIsStep /\ (LL!Next \/ UNCHANGED LL!vars)
  <2>1. /\ Inv'
        /\ reply'.op = "TryAcquire" /\ reply'.owner = o /\ reply'.mode = m
        /\ \/ reply'.result = "ok" /\ (LL!Grant(o, m, l) \/ LL!Reenter(o, m, l))
           \/ Refused
    BY <1>1, TryAcquireStep
  <2>2. CallIsStep
    BY <2>1 DEF CallIsStep, Operation, Refused
  <2>3. LL!Grant(o, m, l) \/ LL!Reenter(o, m, l) => LL!Next
    BY DEF LL!Next, Modes, LL!Modes
  <2> QED BY <2>1, <2>2, <2>3 DEF Refused
<1>2. ASSUME NEW o \in Owners, NEW m \in Modes, NEW f \in 1 .. MaxFence, NEW l \in Leases,
             Refresh(o, m, f, l)
      PROVE  Inv' /\ CallIsStep /\ (LL!Next \/ UNCHANGED LL!vars)
  <2>1. /\ Inv'
        /\ reply'.op = "Refresh" /\ reply'.owner = o /\ reply'.mode = m /\ reply'.fence = f
        /\ (reply'.result = "ok" /\ LL!Refresh(o, m, f, l)) \/ Refused
    BY <1>2, RefreshMethod
  <2>2. CallIsStep
    BY <2>1 DEF CallIsStep, Operation, Refused
  <2>3. LL!Refresh(o, m, f, l) => LL!Next
    BY DEF LL!Next, LL!Fences, Modes, LL!Modes
  <2> QED BY <2>1, <2>2, <2>3 DEF Refused
<1>3. ASSUME NEW o \in Owners, NEW m \in Modes, NEW f \in 1 .. MaxFence, Release(o, m, f)
      PROVE  Inv' /\ CallIsStep /\ (LL!Next \/ UNCHANGED LL!vars)
  <2>1. /\ Inv'
        /\ reply'.op = "Release" /\ reply'.owner = o /\ reply'.mode = m /\ reply'.fence = f
        /\ (reply'.result = "ok" /\ LL!Release(o, m, f)) \/ Refused
    BY <1>3, ReleaseMethod
  <2>2. CallIsStep
    BY <2>1 DEF CallIsStep, Operation, Refused
  <2>3. LL!Release(o, m, f) => LL!Next
    BY DEF LL!Next, LL!Fences, Modes, LL!Modes
  <2> QED BY <2>1, <2>2, <2>3 DEF Refused
<1>4. ASSUME NEW o \in Owners, NEW f \in 1 .. MaxFence, Downgrade(o, f)
      PROVE  Inv' /\ CallIsStep /\ (LL!Next \/ UNCHANGED LL!vars)
  <2>1. /\ Inv'
        /\ reply'.op = "Downgrade" /\ reply'.owner = o /\ reply'.fence = f
        /\ (reply'.result = "ok" /\ LL!Downgrade(o, f)) \/ Refused
    BY <1>4, DowngradeMethod
  <2>2. CallIsStep
    BY <2>1 DEF CallIsStep, Operation, Refused
  <2>3. LL!Downgrade(o, f) => LL!Next
    BY DEF LL!Next, LL!Fences
  <2> QED BY <2>1, <2>2, <2>3 DEF Refused
<1>5. CASE Drop
  BY <1>5, DropMethod DEF CallIsStep, LL!Next
<1>6. CASE OtherKey
  BY <1>6, OtherKeyStep DEF CallIsStep, LL!Next
<1>7. CASE Tick
  BY <1>7, TickStep DEF CallIsStep, LL!Next
<1> QED BY <1>1, <1>2, <1>3, <1>4, <1>5, <1>6, <1>7 DEF Next

LEMMA StutterLemma ==
  ASSUME Inv, UNCHANGED vars
  PROVE  Inv' /\ UNCHANGED LL!vars
<1>1. rec' = rec /\ counter' = counter /\ now' = now
  BY DEF vars
<1>2. \A p \in Owners : Abs(p)' = Abs(p)
  BY <1>1 DEF Abs
<1> QED BY <1>1, <1>2, NoStep DEF Inv

(* A record of inmem.go always has one of three shapes: absent, one writer *)
(* and no reader, or readers and no writer.  No caller, however confused,  *)
(* drives the map into another one.                                        *)
THEOREM RecordsKeepTheirShape == Spec => []Inv
<1>1. Init => Inv
  BY InitInv
<1>2. Inv /\ [Next]_vars => Inv'
  BY StepLemma, StutterLemma
<1> QED BY <1>1, <1>2, PTL DEF Spec

(* The in-memory driver implements LeaseLock: whatever modes, owners and   *)
(* fences its callers pass and however the clock runs, each call is one    *)
(* grant, reentry, refresh, release or downgrade of the abstract lock, or  *)
(* changes no live hold.  MutualExclusion and the fence properties proved  *)
(* of LeaseLock are thereby properties of the driver.                      *)
THEOREM ImplementsLeaseLock == Spec => Contract
<1>1. Init => LL!Init
  BY InitInv
<1>2. Inv /\ [Next]_vars => [LL!Next]_(LL!vars)
  BY StepLemma, StutterLemma
<1>3. Spec => []Inv
  BY RecordsKeepTheirShape
<1> QED BY <1>1, <1>2, <1>3, PTL DEF Spec, Contract, LL!Spec

(* A call that answers "ok" is the operation it names, with the caller's   *)
(* own owner, mode and fence, and a refused call touches no live hold.     *)
THEOREM AnsweredCallsAreSteps == Spec => CallsAreSteps
<1>1. Inv /\ [Next]_vars => [CallIsStep]_vars
  BY StepLemma
<1>2. Spec => []Inv
  BY RecordsKeepTheirShape
<1>3. CallsAreSteps <=> [][CallIsStep]_vars
  BY DEF CallsAreSteps, CallIsStep
<1> QED BY <1>1, <1>2, <1>3, PTL DEF Spec

-----------------------------------------------------------------------------
(* What a call answers.                                                    *)

ReplyType ==
  [op : {"none", "TryAcquire", "Refresh", "Release", "Downgrade"},
   owner : Owners \cup {NoOwner}, mode : Modes, fence : 0 .. MaxFence, result : Results]

Answered == reply \in ReplyType /\ AnswersAreTrue

(* The answer, checked against the record that the call leaves.            *)
LEMMA Answering ==
  ASSUME NEW op \in {"TryAcquire", "Refresh", "Release", "Downgrade"}, NEW o \in Owners,
         NEW m \in Modes, NEW f \in 0 .. MaxFence, NEW res \in Results,
         Return(op, o, m, f, res), NEW v, v = Held(rec', now', o),
         res = "ErrHeld" =>
           v = Gone /\ \E p \in Owners : /\ Held(rec', now', p) # Gone
                                         /\ ~ (Held(rec', now', p).mode = "read" /\ m = "read"),
         res = "ErrModeConflict" => IF op = "Downgrade" THEN v.count > 1 ELSE v.mode \notin {"none", m},
         res = "ErrNotOwner" => ~ (v.mode = m /\ v.fence = f),
         res = "ok" /\ op = "TryAcquire" => v.mode = m /\ v.fence = f
  PROVE  Answered'
<1>1. reply' = [op |-> op, owner |-> o, mode |-> m, fence |-> f, result |-> res]
  BY DEF Return
<1>2. reply' \in ReplyType
  BY <1>1 DEF ReplyType
<1>3. /\ reply'.op = op /\ reply'.owner = o /\ reply'.mode = m /\ reply'.fence = f /\ reply'.result = res
  BY <1>1
<1>4. AnswersAreTrue'
  BY <1>3 DEF AnswersAreTrue, Abs
<1> QED
  BY <1>2, <1>4 DEF Answered

LEMMA NoAnswer == ASSUME reply' = NoReply PROVE Answered'
<1>1. NoReply \in ReplyType /\ NoReply.op = "none"
  BY InmemAssumption DEF NoReply, ReplyType, Modes, Results
<1> QED
  BY <1>1 DEF Answered, AnswersAreTrue

(* A record is live when, and only when, somebody is seen to hold it.      *)
LEMMA LiveIsHeld ==
  ASSUME NEW r, Shape(r), NEW t \in Nat
  PROVE  live(r, t) <=> \E p \in Owners : Held(r, t, p) # Gone
<1>1. CASE r = NilRec
  <2>1. ~ live(NilRec, t)
    BY DEF live, NilRec
  <2> QED BY <1>1, <2>1, HeldNil
<1>2. ASSUME NEW a \in Owners, NEW g \in InmemHold, r = WriteRec(a, g)
      PROVE  live(r, t) <=> \E p \in Owners : Held(r, t, p) # Gone
  <2>1. live(r, t) <=> g.expires > t
    BY <1>2, HoldFacts DEF live, WriteRec
  <2>2. g \in MaybeHold
    BY DEF MaybeHold
  <2>3. \A p \in Owners : Held(r, t, p) = IF p = a THEN View(g, "write", t) ELSE Gone
    BY <1>2, <2>2, HeldWrite
  <2>4. View(g, "write", t) # Gone <=> g.expires > t
    BY Seen, GoneFacts
  <2> QED BY <2>1, <2>3, <2>4
<1>3. ASSUME NEW R \in [Owners -> MaybeHold], r = ReadRec(R)
      PROVE  live(r, t) <=> \E p \in Owners : Held(r, t, p) # Gone
  <2>1. live(r, t) <=> \E p \in Owners : R[p].expires > t
    BY <1>3, HoldFacts DEF live, ReadRec, MaybeHold
  <2>2. \A p \in Owners : Held(r, t, p) = View(R[p], "read", t)
    BY <1>3, HeldRead
  <2>3. \A p \in Owners : View(R[p], "read", t) # Gone <=> R[p].expires > t
    BY Seen, GoneFacts
  <2> QED BY <2>1, <2>2, <2>3
<1> QED
  BY <1>1, <1>2, <1>3 DEF Shape

LEMMA TryAcquireAnswer ==
  ASSUME Inv, NEW o \in Owners, NEW m \in Modes, NEW l \in Leases, TryAcquire(o, m, l)
  PROVE  Answered'
<1> DEFINE q    == purge(rec, now)
           mine == holdOf(q, q.mode, o)
           v    == Held(rec', now', o)
<1>1. now \in Nat /\ counter \in 0 .. MaxFence /\ now' = now /\ l \in Nat /\ l > 0
      /\ MaxFence \in Nat
  BY InmemAssumption DEF Inv, TryAcquire
<1>2. /\ live(q, now) => Shape(q) /\ q.mode \in Modes
      /\ mine = NilHold \/ (mine \in InmemHold /\ mine.expires > now)
  BY <1>1, Purging DEF Inv
<1>r. {"ok", "ErrHeld", "ErrModeConflict"} \subseteq Results
  BY DEF Results
<1>3. /\ mine = NilHold => Held(q, now, o) = Gone
      /\ mine # NilHold => Held(q, now, o) = View(mine, q.mode, now)
  BY <1>1, <1>2, HoldFacts DEF Held, View
<1>4. ASSUME NEW h \in InmemHold, h.expires > now, v = View(h, m, now),
             Return("TryAcquire", o, m, h.fence, "ok")
      PROVE  Answered'
  <2>1. v = [mode |-> m, count |-> h.count, fence |-> h.fence, left |-> h.expires - now]
    BY <1>4, Seen
  <2>2. v.mode = m /\ v.fence = h.fence /\ h.fence \in 0 .. MaxFence
    BY <2>1, HoldFacts, <1>1
  <2> HIDE DEF v
  <2> QED BY <1>4, <1>r, <2>2, Answering DEF v
<1>5. ASSUME counter < MaxFence PROVE Started(l) \in InmemHold /\ Started(l).expires > now
                                      /\ Started(l).fence = counter + 1 /\ Started(l) \in MaybeHold
  <2>1. Started(l) \in InmemHold
    BY <1>5, StartedView
  <2>2. Started(l).expires = now + l /\ Started(l).fence = counter + 1
    BY DEF Started
  <2>3. now + l > now
    BY <1>1
  <2> QED BY <2>1, <2>2, <2>3 DEF MaybeHold
<1>6. CASE /\ counter < MaxFence
           /\ rec' = newRec(m, o, Started(l))
           /\ Return("TryAcquire", o, m, counter + 1, "ok")
  BY <1>1, <1>4, <1>5, <1>6, NewRec
<1>7. CASE /\ live(q, now) /\ q.mode = m /\ mine # NilHold
           /\ rec' = withHold(q, m, o, MoreHold(mine, now + l))
           /\ Return("TryAcquire", o, m, mine.fence, "ok")
  <2> DEFINE new == MoreHold(mine, now + l)
  <2>1. mine \in InmemHold /\ now + l \in Nat
    BY <1>1, <1>2, <1>7
  <2>2. new \in InmemHold /\ new.fence = mine.fence /\ new.expires = now + l
    <3> HIDE DEF mine
    <3> QED BY <2>1, ReenteredHold
  <2>3. new \in MaybeHold /\ new.expires > now
    BY <1>1, <2>2 DEF MaybeHold
  <2>4. Held(q, now, o) # Gone
    BY <1>2, <1>3, <1>7, Seen DEF Modes
  <2>5. m = "read" \/ q.owner = o
    BY <1>1, <1>7, <2>4, ModeOfRecord
  <2>6. rec' = withHold(q, m, o, new)
    BY <1>7
  <2> HIDE DEF new, mine, q
  <2>7. v = View(new, m, now)
    BY <1>1, <1>2, <1>7, <2>3, <2>5, <2>6, WithHold
  <2> QED BY <1>4, <1>7, <2>2, <2>3, <2>7
<1>8. CASE /\ live(q, now) /\ q.mode = "read" /\ m = "read"
           /\ counter < MaxFence
           /\ rec' = withHold(q, "read", o, Started(l))
           /\ Return("TryAcquire", o, m, counter + 1, "ok")
  <2>1. v = View(Started(l), m, now)
    BY <1>1, <1>2, <1>5, <1>8, WithHold
  <2> QED BY <1>4, <1>5, <1>8, <2>1
<1>9. CASE /\ live(q, now) /\ q.mode # m /\ mine # NilHold /\ rec' = q
           /\ Return("TryAcquire", o, m, 0, "ErrModeConflict")
  <2>1. v = View(mine, q.mode, now) /\ mine.expires > now /\ q.mode # "none"
    BY <1>1, <1>2, <1>3, <1>9 DEF Modes
  <2>2. v = [mode |-> q.mode, count |-> mine.count, fence |-> mine.fence, left |-> mine.expires - now]
    BY <2>1, Seen
  <2>3. v.mode \notin {"none", m} /\ 0 \in 0 .. MaxFence
    BY <1>1, <1>9, <2>1, <2>2
  <2> HIDE DEF v
  <2> QED BY <1>9, <1>r, <2>3, Answering DEF v
<1>10. CASE /\ live(q, now) /\ ~ (q.mode = "read" /\ m = "read") /\ mine = NilHold /\ rec' = q
            /\ Return("TryAcquire", o, m, 0, "ErrHeld")
  <2>1. v = Gone /\ rec' = q /\ now' = now /\ 0 \in 0 .. MaxFence
    BY <1>1, <1>3, <1>10
  <2>2. PICK p \in Owners : Held(q, now, p) # Gone
    BY <1>1, <1>2, <1>10, LiveIsHeld
  <2>3. Held(q, now, p).mode = q.mode
    BY <1>1, <2>2, ModeOfRecord
  <2>4. \E s \in Owners : /\ Held(rec', now', s) # Gone
                          /\ ~ (Held(rec', now', s).mode = "read" /\ m = "read")
    BY <1>10, <2>1, <2>2, <2>3
  <2> HIDE DEF v
  <2> QED BY <1>10, <1>r, <2>1, <2>4, Answering DEF v
<1> QED
  BY <1>6, <1>7, <1>8, <1>9, <1>10 DEF TryAcquire, Started, MoreHold

(* The live holder passes the checks, so whom they refuse is not he.       *)
LEMMA RefusedOwner ==
  ASSUME Inv, NEW o \in Owners, NEW m \in Modes, NEW f, Abs(o).mode = m, Abs(o).fence = f
  PROVE  accepts(m, o, f) /\ live(rec, now) /\ (m = "read" \/ rec.owner = o)
         /\ rec.mode = m /\ holdOf(rec, m, o).fence = f
<1>1. now \in Nat /\ Shape(rec)
  BY DEF Inv
<1>2. Abs(o) # Gone
  BY DEF Gone, Modes
<1>3. rec.mode = m /\ holdOf(rec, m, o).expires > now /\ (m = "read" \/ rec.owner = o)
  BY <1>1, <1>2, ModeOfRecord DEF Abs
<1>4. live(rec, now)
  BY <1>1, <1>2, LiveIsHeld DEF Abs
<1>5. holdOf(rec, m, o).fence = f
  <2>1. Abs(o) = View(holdOf(rec, m, o), m, now)
    BY <1>3 DEF Abs, Held
  <2>2. Abs(o) = [mode |-> m, count |-> holdOf(rec, m, o).count, fence |-> holdOf(rec, m, o).fence,
                  left |-> holdOf(rec, m, o).expires - now]
    BY <2>1, <1>3, Seen
  <2> QED BY <2>2
<1>6. ~ (NilHold.expires > now)
  BY <1>1, HoldFacts
<1> QED
  BY <1>3, <1>4, <1>5, <1>6 DEF accepts

LEMMA RefreshAnswer ==
  ASSUME Inv, NEW o \in Owners, NEW m \in Modes, NEW f \in 1 .. MaxFence, NEW l \in Leases,
         Refresh(o, m, f, l)
  PROVE  Answered'
<1>1. f \in 0 .. MaxFence /\ {"ok", "ErrNotOwner"} \subseteq Results /\ now' = now
  BY InmemAssumption DEF Results, Refresh
<1>2. CASE Return("Refresh", o, m, f, "ok")
  BY <1>1, <1>2, Answering
<1>3. CASE ~ accepts(m, o, f) /\ Return("Refresh", o, m, f, "ErrNotOwner") /\ UNCHANGED rec
  <2>1. ~ (Held(rec', now', o).mode = m /\ Held(rec', now', o).fence = f)
    BY <1>1, <1>3, RefusedOwner DEF Abs
  <2> QED BY <1>1, <1>3, <2>1, Answering
<1> QED
  BY <1>2, <1>3 DEF Refresh

LEMMA ReleaseAnswer ==
  ASSUME Inv, NEW o \in Owners, NEW m \in Modes, NEW f \in 1 .. MaxFence, Release(o, m, f)
  PROVE  Answered'
<1>1. f \in 0 .. MaxFence /\ {"ok", "ErrNotOwner"} \subseteq Results /\ now' = now
  BY InmemAssumption DEF Results, Release
<1>2. CASE Return("Release", o, m, f, "ok")
  BY <1>1, <1>2, Answering
<1>3. CASE ~ accepts(m, o, f) /\ Return("Release", o, m, f, "ErrNotOwner") /\ UNCHANGED rec
  <2>1. ~ (Held(rec', now', o).mode = m /\ Held(rec', now', o).fence = f)
    BY <1>1, <1>3, RefusedOwner DEF Abs
  <2> QED BY <1>1, <1>3, <2>1, Answering
<1> QED
  BY <1>2, <1>3 DEF Release

LEMMA DowngradeAnswer ==
  ASSUME Inv, NEW o \in Owners, NEW f \in 1 .. MaxFence, Downgrade(o, f)
  PROVE  Answered'
<1> DEFINE known == rec.mode = "write" /\ rec.owner = o /\ live(rec, now) /\ rec.writer.fence = f
           v     == Held(rec', now', o)
<1>1. /\ f \in 0 .. MaxFence /\ {"ok", "ErrModeConflict", "ErrNotOwner"} \subseteq Results
      /\ now' = now /\ "write" \in Modes /\ now \in Nat
  BY InmemAssumption DEF Results, Downgrade, Modes, Inv
<1>2. CASE Return("Downgrade", o, "write", f, "ok")
  BY <1>1, <1>2, Answering
<1>3. CASE /\ known /\ rec.writer.count > 1
           /\ Return("Downgrade", o, "write", f, "ErrModeConflict") /\ UNCHANGED rec
  <2>1. rec.writer.expires > now /\ v = View(rec.writer, "write", now)
    BY <1>1, <1>3 DEF live, Held, holdOf
  <2>2. v = [mode |-> "write", count |-> rec.writer.count, fence |-> rec.writer.fence,
             left |-> rec.writer.expires - now]
    BY <2>1, Seen
  <2>3. v.count > 1
    BY <1>3, <2>2
  <2> HIDE DEF v
  <2> QED BY <1>1, <1>3, <2>3, Answering DEF v
<1>4. CASE ~ known /\ Return("Downgrade", o, "write", f, "ErrNotOwner") /\ UNCHANGED rec
  <2>1. ~ (v.mode = "write" /\ v.fence = f)
    BY <1>1, <1>4, RefusedOwner DEF Abs, holdOf
  <2> HIDE DEF v
  <2> QED BY <1>1, <1>4, <2>1, Answering DEF v
<1> QED
  BY <1>2, <1>3, <1>4 DEF Downgrade

LEMMA AnsweredStep == Inv /\ Answered /\ [Next]_vars => Answered'
<1> SUFFICES ASSUME Inv, Answered, [Next]_vars PROVE Answered'
  OBVIOUS
<1>1. CASE Drop \/ OtherKey \/ Tick
  BY <1>1, NoAnswer DEF Drop, OtherKey, Tick
<1>2. CASE UNCHANGED vars
  BY <1>2 DEF vars, Answered, AnswersAreTrue, Abs
<1> QED
  BY <1>1, <1>2, TryAcquireAnswer, RefreshAnswer, ReleaseAnswer, DowngradeAnswer DEF Next

(* driver.go: what a call answers is true of the record it leaves, for any *)
(* caller: ErrHeld names a rival, ErrModeConflict the owner's own hold,    *)
(* and ErrNotOwner is never said to the live holder.                       *)
THEOREM TrueAnswers == Spec => []AnswersAreTrue
<1>1. Init => Answered
  <2>1. NoReply \in ReplyType /\ NoReply.op = "none"
    BY InmemAssumption DEF NoReply, ReplyType, Modes, Results
  <2> QED BY <2>1 DEF Init, Answered, AnswersAreTrue
<1>2. Answered => AnswersAreTrue
  BY DEF Answered
<1> QED
  BY <1>1, <1>2, AnsweredStep, RecordsKeepTheirShape, PTL DEF Spec

(* The record, the counter, the clock and the answers keep their types.    *)
THEOREM Types == Spec => []TypeOK
<1>1. Init => Answered
  <2>1. NoReply \in ReplyType /\ NoReply.op = "none"
    BY InmemAssumption DEF NoReply, ReplyType, Modes, Results
  <2> QED BY <2>1 DEF Init, Answered, AnswersAreTrue
<1>2. Inv => rec \in InmemRec \cup {NilRec}
  BY HoldFacts DEF Inv, Shape, InmemRec, WriteRec, ReadRec, Modes, MaybeHold
<1>3. Inv /\ Answered => TypeOK
  BY <1>2 DEF Inv, Answered, TypeOK, ReplyType
<1> QED
  BY <1>1, <1>3, AnsweredStep, RecordsKeepTheirShape, PTL DEF Spec

=============================================================================
