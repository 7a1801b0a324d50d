------------------------- MODULE HoldLifecycle_proof -------------------------
(***************************************************************************)
(* What HoldLifecycle guarantees, for any number of handles and owners, any *)
(* leases, methods and faults.  None of its properties is inductive: each   *)
(* rests on where the threads of a handle can be (Control, Families), on    *)
(* the fences as names of generations (Generations), on the Releases that   *)
(* have been carried out (Settled) and on what the backend has told the     *)
(* threads (Told).                                                          *)
(***************************************************************************)
EXTENDS HoldLifecycle, LeaseHolds_proof, FiniteSetTheorems, TLAPS

HeirOf(h) == Heir(First(h))
FenceOf(h) == handle[First(h)].fence

(* A call of thread t of id i may still reach the backend.                 *)
InFlight(i, t) == pc[i][t] = "calling" \/ <<i, t>> \in late

-----------------------------------------------------------------------------
(* Where the threads of one id can be.                                     *)

(* The fence comes with the answer of the only acquisition that succeeds,  *)
(* which may be a late one.                                                *)
Acquisition(i) ==
  /\ i[2] = "heir" => pc[i]["acquire"] \in {"idle", "done"}
  /\ <<i, "acquire">> \in late => pc[i]["acquire"] = "transport"
  /\ pc[i]["acquire"] \in {"ok", "done"} => handle[i].fence # 0
  /\ handle[i].fence # 0 =>
       pc[i]["acquire"] \in {"ok", "done", "transport"} /\ <<i, "acquire">> \notin late

(* Nothing happens to a handle before the application has it.              *)
Unopened(i) ==
  Opened(i) \/ /\ \A t \in {"release", "refresh", "downgrade"} : pc[i][t] = "idle"
               /\ pc[i]["watchdog"] = "off"
               /\ ~ handle[i].dead
               /\ handle[i].lost = "open"
               /\ \A t \in Threads \ {"acquire"} : <<i, t>> \notin late

(* A handle is dead because of one of its two ends.                        *)
Ending(i) ==
  /\ pc[i]["release"] \in {"idle", "stopping", "calling", "ok", "ErrNotOwner", "transport"}
  /\ <<i, "release">> \in late => pc[i]["release"] = "transport"
  /\ pc[i]["release"] = "calling" => WatchdogGone(i)
  /\ pc[i]["release"] # "idle" => handle[i].dead
  /\ pc[i]["downgrade"] = "stopping" => handle[i].dead /\ pc[i]["release"] = "idle"
  /\ handle[i].dead => pc[i]["release"] # "idle" \/ pc[i]["downgrade"] \in {"stopping", "done"}
  /\ pc[i]["downgrade"] # "idle" \/ <<i, "downgrade">> \in late => Mode(i) = "write"

Control == \A i \in Ids : Acquisition(i) /\ Unopened(i) /\ Ending(i)

(* The heir takes over a handle that has come to its end.                  *)
Family(h) ==
  Opened(HeirOf(h)) =>
    /\ Opened(First(h))
    /\ handle[HeirOf(h)].fence = FenceOf(h)
    /\ pc[First(h)]["downgrade"] = "done"
    /\ pc[First(h)]["release"] = "idle"
    /\ handle[First(h)].dead
    /\ WatchdogGone(First(h))

Families == \A h \in Handles : Family(h)

-----------------------------------------------------------------------------
(* The backend and the fences the handles have got.                        *)

Reasons == {"open", "ended", "ErrNotOwner", "transport"}

HandleType == [fence : Nat, dead : BOOLEAN, lost : Reasons]

Types ==
  /\ holds \in Table
  /\ issued \in Nat
  /\ handle \in [Ids -> HandleType]
  /\ pc \in [Ids -> [Threads -> Labels]]
  /\ late \subseteq Ids \X Threads
  /\ faults \in 0 .. MaxFaults
  /\ gone \subseteq Handles
  /\ released \subseteq Handles

(* Every generation has one of the acquisitions to itself.                 *)
FencesCount ==
  /\ \A i \in Ids : handle[i].fence <= issued
  /\ issued <= Cardinality({h \in Handles : FenceOf(h) # 0})

Held(o) == holds[o] # NoHold

(* Live generations have different fences, none above issued, and exclude  *)
(* each other.                                                             *)
Apart ==
  /\ \A o \in Owners : Held(o) => holds[o].fence <= issued
  /\ \A o, p \in Owners : o # p /\ Held(o) /\ Held(p) =>
       /\ holds[o].fence # holds[p].fence
       /\ holds[o].mode = "read" /\ holds[p].mode = "read"

(* A fence names an owner.                                                 *)
FencesName ==
  /\ \A g, h \in Handles : FenceOf(g) = FenceOf(h) /\ FenceOf(h) # 0 => OwnerOf[g] = OwnerOf[h]
  /\ \A h \in Handles, o \in Owners : Held(o) /\ FenceOf(h) = holds[o].fence => OwnerOf[h] = o

(* A younger generation of another owner has met the live hold as a reader.*)
Younger ==
  \A h \in Handles, o \in Owners :
    Held(o) /\ OwnerOf[h] # o /\ FenceOf(h) > holds[o].fence =>
      holds[o].mode = "read" /\ ModeOf[h] = "read"

Generations == FencesCount /\ Apart /\ FencesName /\ Younger

-----------------------------------------------------------------------------
(* The Releases that have been carried out.                                *)

(* The Release of i has reached the backend, and cannot reach it again.    *)
Served(i) == pc[i]["release"] \in Answers /\ <<i, "release">> \notin late

Settled ==
  /\ \A h \in released : Served(First(h)) \/ (Opened(HeirOf(h)) /\ Served(HeirOf(h)))
  /\ \A i \in Ids : pc[i]["release"] = "ok" => i[1] \in released

-----------------------------------------------------------------------------
(* What the backend has told, and stays true.                              *)

(* i has been refused.                                                     *)
Refused(i) ==
  \/ handle[i].lost = "ErrNotOwner"
  \/ \E t \in {"release", "refresh", "downgrade", "watchdog"} : pc[i][t] = "ErrNotOwner"

(* The generation of i is a read hold, if it lives.                        *)
ReadOnly(i) == holds[Owner(i)].fence = handle[i].fence => holds[Owner(i)].mode = "read"

(* i can tell.                                                             *)
Reader(i) ==
  /\ handle[i].fence # 0
  /\ Mode(i) = "read" \/ pc[i]["downgrade"] \in {"ok", "stopping", "done"}

Told(i) ==
  /\ Refused(i) => ~ Mine(i)
  /\ Reader(i) => ReadOnly(i)

Telling == \A i \in Ids : Told(i)

-----------------------------------------------------------------------------
(* Before the first fault.                                                 *)

(* A Release that has overtaken a Downgrade.                               *)
Stranded(h) ==
  /\ pc[First(h)]["release"] # "idle"
  /\ pc[First(h)]["downgrade"] \in {"ok", "done"}
  /\ ~ Opened(HeirOf(h))

(* Who has downgraded the hold of the write handle h: h itself, or one of  *)
(* its generation that it has left behind.                                 *)
DowngradedBy(h) ==
  \/ pc[First(h)]["downgrade"] \in {"ok", "stopping"}
  \/ Opened(HeirOf(h))
  \/ Stranded(h)

DowngradedFor(h) ==
  \/ DowngradedBy(h)
  \/ \E g \in Handles : OwnerOf[g] = OwnerOf[h] /\ FenceOf(g) = FenceOf(h) /\ Stranded(g)

(* The hold h has acquired for writing is a read hold now.                 *)
TurnedReader(h) ==
  /\ Held(OwnerOf[h]) /\ FenceOf(h) = holds[OwnerOf[h]].fence
  /\ ModeOf[h] = "write" /\ holds[OwnerOf[h]].mode = "read"

Quiet ==
  faults = MaxFaults =>
    /\ late = {} /\ gone = {}
    /\ \A i \in Ids, t \in Threads : pc[i][t] # "transport"
    /\ \A h \in Handles \ released : TurnedReader(h) => DowngradedFor(h)

Inv ==
  /\ Types /\ Control /\ Families
  /\ Generations /\ CountIsUnreleased
  /\ Settled /\ Telling /\ Quiet
-----------------------------------------------------------------------------
(* Ids.  After these two lemmas the pairs are never taken apart again.     *)

LEMMA IdsOfHandle ==
  ASSUME NEW h \in Handles
  PROVE  /\ First(h) \in Ids /\ First(h)[1] = h /\ First(h)[2] = "first"
         /\ HeirOf(h) \in Ids /\ HeirOf(h)[1] = h /\ HeirOf(h)[2] = "heir"
         /\ Owner(First(h)) = OwnerOf[h] /\ Owner(HeirOf(h)) = OwnerOf[h]
         /\ Mode(First(h)) = ModeOf[h] /\ Mode(HeirOf(h)) = "read"
         /\ OwnerOf[h] \in Owners /\ ModeOf[h] \in Modes
BY HoldLifecycleAssumption DEF First, Heir, HeirOf, Ids, Owner, Mode

LEMMA HandleOfId ==
  ASSUME NEW i \in Ids
  PROVE  /\ i[1] \in Handles
         /\ \/ i[2] = "first" /\ i = First(i[1]) /\ Mode(i) = ModeOf[i[1]]
            \/ i[2] = "heir" /\ i = HeirOf(i[1]) /\ Mode(i) = "read"
         /\ Heir(i) = HeirOf(i[1])
         /\ Owner(i) = OwnerOf[i[1]] /\ Owner(i) \in Owners
         /\ Mode(i) \in Modes /\ Lease(i) \in Nat \ {0}
BY HoldLifecycleAssumption DEF First, Heir, HeirOf, Ids, Owner, Mode, Modes, Lease

-----------------------------------------------------------------------------
(* How a step changes the place of a thread and the fields of a handle.    *)

LEMMA GotoFacts ==
  ASSUME Types, NEW i \in Ids, NEW t \in Threads, NEW label \in Labels, Goto(i, t, label)
  PROVE  /\ pc' \in [Ids -> [Threads -> Labels]]
         /\ \A j \in Ids \ {i} : pc'[j] = pc[j]
         /\ pc'[i][t] = label
         /\ \A s \in Threads \ {t} : pc'[i][s] = pc[i][s]
BY DEF Types, Goto

LEMMA CloseFacts ==
  ASSUME Types, NEW i \in Ids, NEW why \in Reasons, Close(i, why)
  PROVE  /\ handle' \in [Ids -> HandleType]
         /\ \A j \in Ids \ {i} : handle'[j] = handle[j]
         /\ handle'[i].fence = handle[i].fence
         /\ handle'[i].dead = handle[i].dead
         /\ handle'[i].lost = IF handle[i].lost = "open" THEN why ELSE handle[i].lost
BY DEF Types, Close, HandleType, Reasons

LEMMA DeadFacts ==
  ASSUME Types, NEW i \in Ids, handle' = [handle EXCEPT ![i].dead = TRUE]
  PROVE  /\ handle' \in [Ids -> HandleType]
         /\ \A j \in Ids \ {i} : handle'[j] = handle[j]
         /\ handle'[i].fence = handle[i].fence
         /\ handle'[i].dead
         /\ handle'[i].lost = handle[i].lost
BY DEF Types, HandleType, Reasons

LEMMA FenceFacts ==
  ASSUME Types, NEW i \in Ids, NEW f \in Nat, handle' = [handle EXCEPT ![i].fence = f]
  PROVE  /\ handle' \in [Ids -> HandleType]
         /\ \A j \in Ids \ {i} : handle'[j] = handle[j]
         /\ handle'[i].fence = f
         /\ handle'[i].dead = handle[i].dead
         /\ handle'[i].lost = handle[i].lost
BY DEF Types, HandleType, Reasons
-----------------------------------------------------------------------------
(* What a step leaves alone.                                               *)

(* Nothing about j has changed.                                            *)
Same(j) ==
  /\ pc'[j] = pc[j] /\ handle'[j] = handle[j]
  /\ \A t \in Threads : <<j, t>> \in late' <=> <<j, t>> \in late

LEMMA SameControl ==
  ASSUME NEW j \in Ids, Same(j)
  PROVE  /\ Acquisition(j)' = Acquisition(j)
         /\ Unopened(j)' = Unopened(j)
         /\ Ending(j)' = Ending(j)
BY DEF Same, Acquisition, Unopened, Ending, Opened, WatchdogGone, Threads

LEMMA ControlFrame ==
  ASSUME Control,
         \A j \in Ids : Same(j) \/ (Acquisition(j) /\ Unopened(j) /\ Ending(j))'
  PROVE  Control'
BY SameControl DEF Control

(* The part of a step that Families depends on.                            *)
Succeeds(i) ==
  /\ i[2] = "heir" => /\ pc'[i]["acquire"] = pc[i]["acquire"]
                      /\ handle'[i].fence = handle[i].fence
  /\ i[2] = "first" /\ Opened(HeirOf(i[1])) =>
       /\ Opened(i)'
       /\ handle'[i].fence = handle[i].fence
       /\ pc'[i]["downgrade"] = "done"
       /\ pc'[i]["release"] = "idle"
       /\ handle'[i].dead
       /\ WatchdogGone(i)'

LEMMA FamiliesFrame ==
  ASSUME Families, \A j \in Ids : Same(j) \/ Succeeds(j)
  PROVE  Families'
<1> SUFFICES ASSUME NEW h \in Handles, Opened(HeirOf(h))' PROVE Family(h)'
  BY DEF Families, Family
<1> DEFINE i == First(h)
           k == HeirOf(h)
<1>ids. /\ i \in Ids /\ i[1] = h /\ i[2] = "first"
        /\ k \in Ids /\ k[1] = h /\ k[2] = "heir"
  BY IdsOfHandle
<1> HIDE DEF i, k
<1>1. Opened(k) /\ handle'[k].fence = handle[k].fence
  BY <1>ids DEF Same, Succeeds, Opened, k
<1>2. /\ Opened(i) /\ handle[k].fence = handle[i].fence
      /\ pc[i]["downgrade"] = "done" /\ pc[i]["release"] = "idle"
      /\ handle[i].dead /\ WatchdogGone(i)
  BY <1>1 DEF Families, Family, FenceOf, i, k
<1>3. /\ Opened(i)' /\ handle'[i].fence = handle[i].fence
      /\ pc'[i]["downgrade"] = "done" /\ pc'[i]["release"] = "idle"
      /\ handle'[i].dead /\ WatchdogGone(i)'
  <2>1. CASE Same(i)
    BY <2>1, <1>2 DEF Same, Opened, WatchdogGone
  <2>2. CASE Succeeds(i)
    BY <2>2, <1>ids, <1>1 DEF Succeeds, k
  <2> QED BY <2>1, <2>2, <1>ids
<1> QED BY <1>1, <1>2, <1>3 DEF Family, FenceOf, i, k

(* The part of a step that Settled depends on, without a Release.          *)
Unsettled(i) ==
  /\ Opened(i) => Opened(i)'
  /\ Served(i) => Served(i)'
  /\ pc'[i]["release"] = "ok" => pc[i]["release"] = "ok"

LEMMA SameSettled ==
  ASSUME NEW j \in Ids, Same(j)
  PROVE  Unsettled(j)
BY DEF Same, Unsettled, Opened, Served, Threads

LEMMA SettledFrame ==
  ASSUME Types, Settled, released' = released, \A j \in Ids : Same(j) \/ Unsettled(j)
  PROVE  Settled'
<1>1. \A j \in Ids : Unsettled(j)
  BY SameSettled
<1>2. \A h \in released : First(h) \in Ids /\ HeirOf(h) \in Ids
  BY IdsOfHandle DEF Types
<1> QED BY <1>1, <1>2 DEF Settled, Unsettled
(* The backend ages, downgrades or drops what it has ...                   *)
Subsides ==
  \A o \in Owners : holds'[o] # NoHold =>
    /\ Held(o)
    /\ holds'[o].fence = holds[o].fence
    /\ holds'[o].mode \in {holds[o].mode, "read"}

(* ... or opens a new generation.                                          *)
Evolves ==
  \A o \in Owners : holds'[o] # NoHold =>
    \/ /\ Held(o)
       /\ holds'[o].fence = holds[o].fence
       /\ holds'[o].mode \in {holds[o].mode, "read"}
    \/ holds'[o].fence > issued

(* What is told stays true, unless the step tells more.                    *)
LEMMA ToldStable ==
  ASSUME Types, Types', FencesCount, Evolves,
         NEW j \in Ids, Told(j),
         handle[j].fence # 0, handle'[j].fence = handle[j].fence,
         Refused(j)' => Refused(j) \/ ~ Mine(j)',
         Reader(j)' => Reader(j) \/ ReadOnly(j)'
  PROVE  Told(j)'
<1> DEFINE o == Owner(j)
           f == handle[j].fence
<1>1. o \in Owners /\ Mode(j) \in Modes
  BY HandleOfId
<1>2. f \in Nat /\ f <= issued /\ issued \in Nat
  BY DEF Types, HandleType, FencesCount
<1>3. holds'[o].fence = f => holds'[o] # NoHold
  BY <1>1, <1>2, FencesOfHolds
<1>4. holds'[o].fence = f =>
        Held(o) /\ holds[o].fence = f /\ holds'[o].mode \in {holds[o].mode, "read"}
  <2>1. holds' \in Table
    BY DEF Types
  <2>2. holds'[o] # NoHold => holds'[o].fence \in Nat
    BY <2>1, <1>1, FencesOfHolds DEF Table
  <2> QED BY <1>1, <1>2, <1>3, <2>2 DEF Evolves
<1>5. ReadOnly(j) => ReadOnly(j)'
  BY <1>4 DEF ReadOnly
<1>6. Reader(j)' => ReadOnly(j)'
  BY <1>5 DEF Told
<1>7. ASSUME ~ Mine(j), Mine(j)' PROVE FALSE
  <2>1. /\ Held(o) /\ holds[o].fence = f
        /\ holds'[o].mode \in {holds[o].mode, "read"} /\ holds'[o].mode = Mode(j)
    BY <1>4, <1>7 DEF Mine, Owns
  <2>2. holds[o].mode # Mode(j)
    BY <1>7, <2>1 DEF Mine, Owns, Held
  <2>3. Reader(j)
    BY <2>1, <2>2 DEF Reader
  <2>4. holds[o].mode = "read"
    BY <2>1, <2>3 DEF Told, ReadOnly
  <2> QED BY <2>1, <2>2, <2>4
<1>8. Refused(j)' => ~ Mine(j)'
  BY <1>7 DEF Told
<1> QED BY <1>6, <1>8 DEF Told

(* Nothing is told to a handle without a fence.                            *)
LEMMA NothingTold ==
  ASSUME Types', NEW j \in Ids, handle'[j].fence = 0
  PROVE  Told(j)'
<1>1. Owner(j) \in Owners
  BY HandleOfId
<1>2. ~ Mine(j)'
  BY <1>1, FencesOfHolds DEF Mine, Owns, Types, Table
<1>3. ~ Reader(j)'
  BY DEF Reader
<1> QED BY <1>2, <1>3 DEF Told

LEMMA SameTold ==
  ASSUME Types, Types', FencesCount, Evolves, NEW j \in Ids, Told(j), Same(j)
  PROVE  Told(j)'
<1>1. CASE handle[j].fence # 0
  <2>1. Refused(j)' => Refused(j)
    BY DEF Same, Refused
  <2>2. Reader(j)' => Reader(j)
    BY DEF Same, Reader
  <2>3. handle'[j].fence = handle[j].fence
    BY DEF Same
  <2> QED BY <1>1, <2>1, <2>2, <2>3, ToldStable
<1>2. CASE handle[j].fence = 0
  <2>1. handle'[j].fence = 0
    BY <1>2 DEF Same
  <2> QED BY <2>1, NothingTold
<1> QED BY <1>1, <1>2

LEMMA TellingFrame ==
  ASSUME Types, Types', FencesCount, Evolves, Telling,
         \A j \in Ids : Same(j) \/ Told(j)'
  PROVE  Telling'
BY SameTold DEF Telling

(* The part of a step that Quiet depends on.                               *)
Calm(i) ==
  /\ \A t \in Threads : pc'[i][t] = "transport" => pc[i][t] = "transport"
  /\ handle[i].fence # 0 => handle'[i].fence = handle[i].fence
  /\ pc[i]["release"] # "idle" => pc'[i]["release"] # "idle"
  /\ Opened(i) => Opened(i)'
  /\ i[2] = "heir" => (Opened(i)' => Opened(i))
  /\ pc[i]["downgrade"] = "done" => pc'[i]["downgrade"] = "done"
  /\ pc[i]["downgrade"] \in {"ok", "stopping"} =>
       \/ pc'[i]["downgrade"] = pc[i]["downgrade"]
       \/ pc'[i]["downgrade"] = "stopping" /\ pc[i]["release"] = "idle"
       \/ pc'[i]["downgrade"] = "done" /\ pc'[i]["release"] # "idle"

LEMMA SameCalm ==
  ASSUME NEW j \in Ids, Same(j)
  PROVE  Calm(j)
BY DEF Same, Calm, Opened

LEMMA CalmFamily ==
  ASSUME NEW h \in Handles, \A j \in Ids : Same(j) \/ Calm(j)
  PROVE  /\ DowngradedBy(h) => DowngradedBy(h)'
         /\ Stranded(h) => Stranded(h)'
<1> DEFINE i == First(h)
           k == HeirOf(h)
<1>1. Calm(i) /\ Calm(k) /\ k[2] = "heir"
  BY SameCalm, IdsOfHandle
<1>2. Opened(k)' <=> Opened(k)
  BY <1>1 DEF Calm
<1>3. Stranded(h) => Stranded(h)'
  BY <1>1, <1>2 DEF Stranded, Calm
<1>4. DowngradedBy(h) => DowngradedBy(h)'
  <2>1. CASE pc[i]["downgrade"] \in {"ok", "stopping"}
    BY <2>1, <1>1, <1>2 DEF DowngradedBy, Stranded, Calm
  <2> QED BY <2>1, <1>2, <1>3 DEF DowngradedBy
<1> QED BY <1>3, <1>4

(* A step without a fault, that downgrades nothing.                        *)
LEMMA QuietFrame ==
  ASSUME Types, Quiet, faults' = faults, late' \subseteq late, gone' = gone,
         released \subseteq released',
         \A i \in Ids, t \in Threads : pc'[i][t] = "transport" => pc[i][t] = "transport",
         \A i \in Ids : handle[i].fence # 0 => handle'[i].fence = handle[i].fence,
         faults = MaxFaults =>
           \A h \in Handles \ released' : TurnedReader(h)' => TurnedReader(h) \/ DowngradedFor(h)',
         \A h \in Handles : DowngradedBy(h) => DowngradedBy(h)',
         \A h \in Handles : Stranded(h) => Stranded(h)'
  PROVE  Quiet'
<1> SUFFICES ASSUME faults = MaxFaults
             PROVE  /\ late' = {} /\ gone' = {}
                    /\ \A i \in Ids, t \in Threads : pc'[i][t] # "transport"
                    /\ \A h \in Handles \ released' : TurnedReader(h)' => DowngradedFor(h)'
  BY DEF Quiet
<1>1. /\ late' = {} /\ gone' = {}
      /\ \A i \in Ids, t \in Threads : pc'[i][t] # "transport"
  BY DEF Quiet
<1>2. ASSUME NEW h \in Handles \ released', TurnedReader(h)', TurnedReader(h)
      PROVE  DowngradedFor(h)'
  <2>1. DowngradedFor(h)
    BY <1>2 DEF Quiet
  <2>2. \A g \in Handles : FenceOf(g) # 0 => FenceOf(g)' = FenceOf(g)
    BY IdsOfHandle DEF FenceOf
  <2>3. FenceOf(h) # 0
    BY <1>2, IdsOfHandle, FencesOfHolds DEF TurnedReader, Types, Table, Held
  <2>4. CASE DowngradedBy(h)
    BY <2>4 DEF DowngradedFor
  <2>5. CASE \E g \in Handles : OwnerOf[g] = OwnerOf[h] /\ FenceOf(g) = FenceOf(h) /\ Stranded(g)
    <3>1. PICK g \in Handles : OwnerOf[g] = OwnerOf[h] /\ FenceOf(g) = FenceOf(h) /\ Stranded(g)
      BY <2>5
    <3>2. FenceOf(g)' = FenceOf(h)' /\ Stranded(g)'
      BY <3>1, <2>2, <2>3
    <3> QED BY <3>1, <3>2 DEF DowngradedFor
  <2> QED BY <2>1, <2>4, <2>5 DEF DowngradedFor
<1> QED BY <1>1, <1>2

LEMMA QuietAfterFault == ASSUME Types, faults' = faults - 1 PROVE Quiet'
<1>1. faults' # MaxFaults
  BY HoldLifecycleAssumption DEF Types
<1> QED BY <1>1 DEF Quiet

-----------------------------------------------------------------------------
(* Generations and counts, in a step that gives no handle of the           *)
(* application a fence.                                                    *)

LEMMA GenerationsFrame ==
  ASSUME Types, Types', Generations, Subsides, issued' = issued,
         \A h \in Handles : FenceOf(h)' = FenceOf(h),
         \A i \in Ids : handle'[i].fence <= issued
  PROVE  Generations'
<1>1. FencesCount'
  <2>1. {h \in Handles : FenceOf(h)' # 0} = {h \in Handles : FenceOf(h) # 0}
    OBVIOUS
  <2> QED BY <2>1 DEF Generations, FencesCount
<1>2. \A o \in Owners : Held(o)' =>
        /\ Held(o) /\ holds'[o].fence = holds[o].fence
        /\ holds'[o].mode \in {holds[o].mode, "read"}
  BY DEF Subsides, Held
<1>3. Apart'
  BY <1>2 DEF Generations, Apart
<1>4. FencesName'
  BY <1>2 DEF Generations, FencesName
<1>5. Younger'
  BY <1>2 DEF Generations, Younger
<1> QED BY <1>1, <1>3, <1>4, <1>5 DEF Generations

LEMMA CountFrame ==
  ASSUME CountIsUnreleased, released' = released,
         \A h \in Handles : FenceOf(h)' = FenceOf(h),
         \A o \in Owners : Held(o)' =>
           Held(o) /\ holds'[o].fence = holds[o].fence /\ holds'[o].count = holds[o].count
  PROVE  CountIsUnreleased'
<1> SUFFICES ASSUME NEW o \in Owners, holds'[o] # NoHold
             PROVE  holds'[o].count =
                      Cardinality({h \in Handles \ released' :
                        OwnerOf[h] = o /\ handle'[First(h)].fence = holds'[o].fence})
  BY DEF CountIsUnreleased
<1>1. Held(o) /\ holds'[o].fence = holds[o].fence /\ holds'[o].count = holds[o].count
  BY DEF Held
<1>2. {h \in Handles \ released' : OwnerOf[h] = o /\ handle'[First(h)].fence = holds'[o].fence}
      = {h \in Handles \ released : OwnerOf[h] = o /\ handle[First(h)].fence = holds[o].fence}
  BY <1>1 DEF FenceOf
<1> QED BY <1>1, <1>2 DEF CountIsUnreleased, Held

-----------------------------------------------------------------------------
(* A step of one id on its own.                                            *)

Local(i) ==
  /\ UNCHANGED <<holds, issued, released, late, faults, gone>>
  /\ \A j \in Ids \ {i} : pc'[j] = pc[j] /\ handle'[j] = handle[j]
  /\ handle'[i].fence = handle[i].fence

(* What its threads learn from it.                                         *)
Learns(i) ==
  /\ Refused(i)' => Refused(i)
  /\ Reader(i)' => Reader(i)

(* It leaves everything else alone, whatever becomes of its calls.         *)
LEMMA ThreadStep ==
  ASSUME Inv, NEW i \in Ids,
         UNCHANGED <<holds, issued, released>>,
         \A j \in Ids \ {i} : Same(j),
         handle'[i].fence = handle[i].fence,
         Types', Quiet',
         (Acquisition(i) /\ Unopened(i) /\ Ending(i))',
         Succeeds(i), Unsettled(i), Learns(i)
  PROVE  Inv'
<1> USE DEF Inv
<1>same. \A j \in Ids : j # i => Same(j)
  OBVIOUS
<1>fence. \A j \in Ids : handle'[j].fence = handle[j].fence
  BY DEF Same
<1>fences. \A h \in Handles : FenceOf(h)' = FenceOf(h)
  BY <1>fence, IdsOfHandle DEF FenceOf
<1>1. Control'
  <2>1. \A j \in Ids : Same(j) \/ (Acquisition(j) /\ Unopened(j) /\ Ending(j))'
    BY <1>same
  <2> QED BY <2>1, ControlFrame
<1>2. Families'
  <2>1. \A j \in Ids : Same(j) \/ Succeeds(j)
    BY <1>same
  <2> QED BY <2>1, FamiliesFrame
<1>3. Generations'
  <2>1. Subsides
    BY DEF Subsides, Held
  <2>2. \A j \in Ids : handle'[j].fence <= issued
    BY <1>fence DEF Generations, FencesCount
  <2> QED BY <1>fences, <2>1, <2>2, GenerationsFrame
<1>4. CountIsUnreleased'
  <2>1. \A o \in Owners : Held(o)' =>
           Held(o) /\ holds'[o].fence = holds[o].fence /\ holds'[o].count = holds[o].count
    BY DEF Held
  <2> QED BY <1>fences, <2>1, CountFrame
<1>5. Settled'
  <2>1. \A j \in Ids : Same(j) \/ Unsettled(j)
    BY <1>same
  <2> QED BY <2>1, SettledFrame
<1>6. Telling'
  <2>1. Evolves
    BY DEF Evolves, Held
  <2>2. Told(i)'
    <3>1. CASE handle[i].fence # 0
      <4>1. Told(i)
        BY DEF Telling
      <4> QED BY <3>1, <4>1, <2>1, <1>fence, ToldStable DEF Learns, Generations
    <3>2. CASE handle[i].fence = 0
      BY <3>2, <1>fence, NothingTold
    <3> QED BY <3>1, <3>2
  <2>3. \A j \in Ids : Same(j) \/ Told(j)'
    BY <2>2, <1>same
  <2> QED BY <2>1, <2>3, TellingFrame DEF Generations
<1> QED BY <1>1, <1>2, <1>3, <1>4, <1>5, <1>6

LEMMA LocalStep ==
  ASSUME Inv, NEW i \in Ids, Local(i),
         pc' \in [Ids -> [Threads -> Labels]], handle' \in [Ids -> HandleType],
         (Acquisition(i) /\ Unopened(i) /\ Ending(i))',
         Succeeds(i), Unsettled(i), Calm(i), Learns(i)
  PROVE  Inv'
<1> USE DEF Inv
<1>types. Types'
  BY DEF Local, Types
<1>same. \A j \in Ids \ {i} : Same(j)
  BY DEF Local, Same
<1>fence. \A j \in Ids : handle'[j].fence = handle[j].fence
  BY DEF Local
<1>quiet. Quiet'
  <2>1. \A j \in Ids : Same(j) \/ Calm(j)
    BY <1>same
  <2>2. \A j \in Ids, t \in Threads : pc'[j][t] = "transport" => pc[j][t] = "transport"
    BY <1>same DEF Calm, Same
  <2>3. \A h \in Handles : TurnedReader(h)' => TurnedReader(h)
    BY <1>fence, IdsOfHandle DEF TurnedReader, FenceOf, Local, Held
  <2>4. \A h \in Handles : (DowngradedBy(h) => DowngradedBy(h)') /\ (Stranded(h) => Stranded(h)')
    BY <2>1, CalmFamily
  <2>5. /\ faults' = faults /\ late' \subseteq late /\ gone' = gone
        /\ released \subseteq released'
    BY DEF Local
  <2> QED BY <1>fence, <2>2, <2>3, <2>4, <2>5, QuietFrame
<1>1. UNCHANGED <<holds, issued, released>> /\ handle'[i].fence = handle[i].fence
  BY DEF Local
<1> QED BY <1>types, <1>same, <1>quiet, <1>1, ThreadStep

(* What the invariant says of the id that takes a step.                    *)
LEMMA Now ==
  ASSUME Inv, NEW i \in Ids
  PROVE  /\ Types /\ Acquisition(i) /\ Unopened(i) /\ Ending(i) /\ Told(i)
         /\ handle[i] \in HandleType /\ pc[i] \in [Threads -> Labels]
         /\ i[2] = "heir" => i # First(i[1])
         /\ i[2] = "first" => i = First(i[1])
         /\ i[2] = "first" /\ Opened(HeirOf(i[1])) =>
              /\ Opened(i) /\ handle[HeirOf(i[1])].fence = handle[i].fence
              /\ pc[i]["downgrade"] = "done" /\ pc[i]["release"] = "idle"
              /\ handle[i].dead /\ WatchdogGone(i)
<1>1. i[1] \in Handles
  BY HandleOfId
<1>2. Types /\ Acquisition(i) /\ Unopened(i) /\ Ending(i) /\ Told(i)
  BY DEF Inv, Control, Telling
<1>3. handle[i] \in HandleType /\ pc[i] \in [Threads -> Labels]
  BY <1>2 DEF Types
<1>4. (i[2] = "heir" => i # First(i[1])) /\ (i[2] = "first" => i = First(i[1]))
  BY <1>1, HandleOfId, IdsOfHandle
<1>5. i[2] = "first" /\ Opened(HeirOf(i[1])) =>
              /\ Opened(i) /\ handle[HeirOf(i[1])].fence = handle[i].fence
              /\ pc[i]["downgrade"] = "done" /\ pc[i]["release"] = "idle"
              /\ handle[i].dead /\ WatchdogGone(i)
  BY <1>1, <1>4 DEF Inv, Families, Family, FenceOf
<1> QED BY <1>2, <1>3, <1>4, <1>5

(* Refresh.                                                                *)
LEMMA RefreshCallInv ==
  ASSUME Inv, NEW i \in Ids, RefreshCall(i)
  PROVE  Inv'
<1>now. /\ Types /\ Acquisition(i) /\ Unopened(i) /\ Ending(i)
        /\ i[2] = "first" /\ Opened(HeirOf(i[1])) =>
              /\ Opened(i)
              /\ pc[i]["downgrade"] = "done" /\ pc[i]["release"] = "idle"
              /\ handle[i].dead /\ WatchdogGone(i)
  BY Now
<1>pc. /\ pc' \in [Ids -> [Threads -> Labels]]
       /\ \A j \in Ids \ {i} : pc'[j] = pc[j]
       /\ pc'[i]["refresh"] = "calling"
       /\ \A s \in Threads \ {"refresh"} : pc'[i][s] = pc[i][s]
  BY <1>now, GotoFacts DEF RefreshCall, Threads, Labels
<1>local. Local(i) /\ handle' = handle /\ late' = late
  BY <1>pc DEF RefreshCall, Local, backend
<1>opened. Opened(i)
  BY DEF RefreshCall, MayCall
<1>1. (Acquisition(i) /\ Unopened(i) /\ Ending(i))'
  BY <1>now, <1>pc, <1>local, <1>opened DEF Acquisition, Unopened, Ending, Opened, WatchdogGone, Threads
<1>2. Succeeds(i) /\ Unsettled(i)
  BY <1>now, <1>pc, <1>local, <1>opened DEF Succeeds, Unsettled, Opened, WatchdogGone, Served, Threads
<1>3. Calm(i) /\ Learns(i)
  BY <1>now, <1>pc, <1>local, <1>opened DEF Calm, Learns, Opened, Refused, Reader, Threads
<1> QED BY <1>pc, <1>local, <1>1, <1>2, <1>3, LocalStep DEF Inv, Types
LEMMA RefreshReturnInv ==
  ASSUME Inv, NEW i \in Ids, RefreshReturn(i)
  PROVE  Inv'
<1>now. /\ Types /\ Acquisition(i) /\ Unopened(i) /\ Ending(i)
        /\ i[2] = "first" /\ Opened(HeirOf(i[1])) =>
              /\ Opened(i)
              /\ pc[i]["downgrade"] = "done" /\ pc[i]["release"] = "idle"
              /\ handle[i].dead /\ WatchdogGone(i)
  BY Now
<1>pc. /\ pc' \in [Ids -> [Threads -> Labels]]
       /\ \A j \in Ids \ {i} : pc'[j] = pc[j]
       /\ pc'[i]["refresh"] = "idle"
       /\ \A s \in Threads \ {"refresh"} : pc'[i][s] = pc[i][s]
  BY <1>now, GotoFacts DEF RefreshReturn, Threads, Labels
<1>handle. /\ handle' \in [Ids -> HandleType]
           /\ \A j \in Ids \ {i} : handle'[j] = handle[j]
           /\ handle'[i].fence = handle[i].fence
           /\ handle'[i].dead = handle[i].dead
           /\ handle'[i].lost \in {handle[i].lost, pc[i]["refresh"]}
  BY <1>now, CloseFacts DEF RefreshReturn, Types, Reasons
<1>told. handle'[i].lost = "ErrNotOwner" => Refused(i)
  BY <1>now, <1>handle DEF Refused
<1>local. Local(i) /\ late' = late
  BY <1>pc, <1>handle DEF RefreshReturn, Local, backend
<1>opened. Opened(i)
  BY <1>now DEF RefreshReturn, Unopened
<1>1. (Acquisition(i) /\ Unopened(i) /\ Ending(i))'
  BY <1>now, <1>pc, <1>local, <1>handle, <1>told, <1>opened DEF Acquisition, Unopened, Ending, Opened, WatchdogGone, Threads
<1>2. Succeeds(i) /\ Unsettled(i)
  BY <1>now, <1>pc, <1>local, <1>handle, <1>told, <1>opened DEF Succeeds, Unsettled, Opened, WatchdogGone, Served, Threads, Answers
<1>3. Calm(i) /\ Learns(i)
  BY <1>now, <1>pc, <1>local, <1>handle, <1>told, <1>opened DEF Calm, Learns, Opened, Refused, Reader, Threads
<1> QED BY <1>pc, <1>local, <1>handle, <1>1, <1>2, <1>3, LocalStep DEF Inv, Types

(* The watchdog.                                                           *)
LEMMA WatchdogWakeInv ==
  ASSUME Inv, NEW i \in Ids, WatchdogWake(i)
  PROVE  Inv'
<1>now. /\ Types /\ Acquisition(i) /\ Unopened(i) /\ Ending(i)
        /\ i[2] = "first" /\ Opened(HeirOf(i[1])) =>
              /\ Opened(i)
              /\ pc[i]["downgrade"] = "done" /\ pc[i]["release"] = "idle"
              /\ handle[i].dead /\ WatchdogGone(i)
  BY Now
<1>pc. /\ pc' \in [Ids -> [Threads -> Labels]]
       /\ \A j \in Ids \ {i} : pc'[j] = pc[j]
       /\ pc'[i]["watchdog"] \in {"exited", "calling"}
       /\ \A s \in Threads \ {"watchdog"} : pc'[i][s] = pc[i][s]
  BY <1>now, GotoFacts DEF WatchdogWake, Threads, Labels
<1>awake. pc[i]["watchdog"] = "sleeping"
  BY DEF WatchdogWake
<1>local. Local(i) /\ handle' = handle /\ late' = late
  BY <1>pc DEF WatchdogWake, Local, backend
<1>opened. Opened(i)
  BY <1>now, <1>awake DEF Unopened
<1>1. (Acquisition(i) /\ Unopened(i) /\ Ending(i))'
  BY <1>now, <1>pc, <1>local, <1>opened, <1>awake DEF Acquisition, Unopened, Ending, Opened, WatchdogGone, Threads
<1>2. Succeeds(i) /\ Unsettled(i)
  BY <1>now, <1>pc, <1>local, <1>opened, <1>awake DEF Succeeds, Unsettled, Opened, WatchdogGone, Served, Threads, Answers
<1>3. Calm(i) /\ Learns(i)
  BY <1>now, <1>pc, <1>local, <1>opened, <1>awake DEF Calm, Learns, Opened, Refused, Reader, Threads
<1> QED BY <1>pc, <1>local, <1>1, <1>2, <1>3, LocalStep DEF Inv, Types

LEMMA WatchdogReturnInv ==
  ASSUME Inv, NEW i \in Ids, WatchdogReturn(i)
  PROVE  Inv'
<1>now. /\ Types /\ Acquisition(i) /\ Unopened(i) /\ Ending(i)
        /\ i[2] = "first" /\ Opened(HeirOf(i[1])) =>
              /\ Opened(i)
              /\ pc[i]["downgrade"] = "done" /\ pc[i]["release"] = "idle"
              /\ handle[i].dead /\ WatchdogGone(i)
  BY Now
<1>pc. /\ pc' \in [Ids -> [Threads -> Labels]]
       /\ \A j \in Ids \ {i} : pc'[j] = pc[j]
       /\ pc'[i]["watchdog"] \in {"exited", "sleeping"}
       /\ \A s \in Threads \ {"watchdog"} : pc'[i][s] = pc[i][s]
  BY <1>now, GotoFacts DEF WatchdogReturn, Threads, Labels
<1>awake. pc[i]["watchdog"] \in {"ok", "ErrNotOwner", "transport"}
  BY DEF WatchdogReturn
<1>handle. /\ handle' \in [Ids -> HandleType]
           /\ \A j \in Ids \ {i} : handle'[j] = handle[j]
           /\ handle'[i].fence = handle[i].fence
           /\ handle'[i].dead = handle[i].dead
           /\ handle'[i].lost \in {handle[i].lost, pc[i]["watchdog"]}
  BY <1>now, <1>awake, CloseFacts DEF WatchdogReturn, Types, Reasons
<1>told. handle'[i].lost = "ErrNotOwner" => Refused(i)
  BY <1>now, <1>handle DEF Refused
<1>local. Local(i) /\ late' = late
  BY <1>pc, <1>handle DEF WatchdogReturn, Local, backend
<1>opened. Opened(i)
  BY <1>now, <1>awake DEF Unopened
<1>1. (Acquisition(i) /\ Unopened(i) /\ Ending(i))'
  BY <1>now, <1>pc, <1>local, <1>handle, <1>told, <1>opened, <1>awake DEF Acquisition, Unopened, Ending, Opened, WatchdogGone, Threads
<1>2. Succeeds(i) /\ Unsettled(i)
  BY <1>now, <1>pc, <1>local, <1>handle, <1>told, <1>opened, <1>awake DEF Succeeds, Unsettled, Opened, WatchdogGone, Served, Threads, Answers
<1>3. Calm(i) /\ Learns(i)
  BY <1>now, <1>pc, <1>local, <1>handle, <1>told, <1>opened, <1>awake DEF Calm, Learns, Opened, Refused, Reader, Threads
<1> QED BY <1>pc, <1>local, <1>handle, <1>1, <1>2, <1>3, LocalStep DEF Inv, Types

(* Acquisition.                                                            *)
LEMMA AcquireCallInv ==
  ASSUME Inv, NEW h \in Handles, AcquireCall(h)
  PROVE  Inv'
<1> DEFINE i == First(h)
<1>id. i \in Ids /\ i[2] = "first" /\ i[1] = h
  BY IdsOfHandle
<1>act. /\ pc[i]["acquire"] = "idle" /\ Goto(i, "acquire", "calling")
           /\ UNCHANGED <<holds, issued, released, handle, late, faults, gone>>
  BY DEF AcquireCall, backend
<1> HIDE DEF i
<1>now. /\ Types /\ Acquisition(i) /\ Unopened(i) /\ Ending(i)
        /\ i[2] = "first" /\ Opened(HeirOf(i[1])) =>
              /\ Opened(i)
              /\ pc[i]["downgrade"] = "done" /\ pc[i]["release"] = "idle"
              /\ handle[i].dead /\ WatchdogGone(i)
  BY Now, <1>id
<1>pc. /\ pc' \in [Ids -> [Threads -> Labels]]
       /\ \A j \in Ids \ {i} : pc'[j] = pc[j]
       /\ pc'[i]["acquire"] = "calling"
       /\ \A s \in Threads \ {"acquire"} : pc'[i][s] = pc[i][s]
  BY <1>now, <1>id, <1>act, GotoFacts DEF Threads, Labels
<1>local. Local(i) /\ handle' = handle /\ late' = late
  BY <1>pc, <1>act DEF Local
<1>1. (Acquisition(i) /\ Unopened(i) /\ Ending(i))'
  BY <1>now, <1>id, <1>act, <1>pc, <1>local DEF Acquisition, Unopened, Ending, Opened, WatchdogGone, Threads
<1>2. Succeeds(i) /\ Unsettled(i)
  BY <1>now, <1>id, <1>act, <1>pc, <1>local DEF Succeeds, Unsettled, Opened, WatchdogGone, Served, Threads, Answers
<1>3. Calm(i) /\ Learns(i)
  BY <1>now, <1>id, <1>act, <1>pc, <1>local DEF Calm, Learns, Opened, Refused, Reader, Threads
<1> QED BY <1>pc, <1>local, <1>id, <1>1, <1>2, <1>3, LocalStep DEF Inv, Types

LEMMA AcquireRetryInv ==
  ASSUME Inv, NEW h \in Handles, AcquireRetry(h)
  PROVE  Inv'
<1> DEFINE i == First(h)
<1>id. i \in Ids /\ i[2] = "first" /\ i[1] = h
  BY IdsOfHandle
<1>act. /\ pc[i]["acquire"] = "ErrHeld" /\ Goto(i, "acquire", "calling")
           /\ UNCHANGED <<holds, issued, released, handle, late, faults, gone>>
  BY DEF AcquireRetry, backend
<1> HIDE DEF i
<1>now. /\ Types /\ Acquisition(i) /\ Unopened(i) /\ Ending(i)
        /\ i[2] = "first" /\ Opened(HeirOf(i[1])) =>
              /\ Opened(i)
              /\ pc[i]["downgrade"] = "done" /\ pc[i]["release"] = "idle"
              /\ handle[i].dead /\ WatchdogGone(i)
  BY Now, <1>id
<1>pc. /\ pc' \in [Ids -> [Threads -> Labels]]
       /\ \A j \in Ids \ {i} : pc'[j] = pc[j]
       /\ pc'[i]["acquire"] = "calling"
       /\ \A s \in Threads \ {"acquire"} : pc'[i][s] = pc[i][s]
  BY <1>now, <1>id, <1>act, GotoFacts DEF Threads, Labels
<1>local. Local(i) /\ handle' = handle /\ late' = late
  BY <1>pc, <1>act DEF Local
<1>1. (Acquisition(i) /\ Unopened(i) /\ Ending(i))'
  BY <1>now, <1>id, <1>act, <1>pc, <1>local DEF Acquisition, Unopened, Ending, Opened, WatchdogGone, Threads
<1>2. Succeeds(i) /\ Unsettled(i)
  BY <1>now, <1>id, <1>act, <1>pc, <1>local DEF Succeeds, Unsettled, Opened, WatchdogGone, Served, Threads, Answers
<1>3. Calm(i) /\ Learns(i)
  BY <1>now, <1>id, <1>act, <1>pc, <1>local DEF Calm, Learns, Opened, Refused, Reader, Threads
<1> QED BY <1>pc, <1>local, <1>id, <1>1, <1>2, <1>3, LocalStep DEF Inv, Types

LEMMA AcquireReturnInv ==
  ASSUME Inv, NEW h \in Handles, AcquireReturn(h)
  PROVE  Inv'
<1> DEFINE i == First(h)
<1>id. i \in Ids /\ i[2] = "first" /\ i[1] = h
  BY IdsOfHandle
<1>act. /\ pc[i]["acquire"] = "ok" /\ Started(i) \in {"sleeping", "off"}
           /\ pc' = [pc EXCEPT ![i]["acquire"] = "done", ![i]["watchdog"] = Started(i)]
           /\ UNCHANGED <<holds, issued, released, handle, late, faults, gone>>
  BY DEF AcquireReturn, backend, Started
<1> HIDE DEF i
<1>now. /\ Types /\ Acquisition(i) /\ Unopened(i) /\ Ending(i)
        /\ i[2] = "first" /\ Opened(HeirOf(i[1])) =>
              /\ Opened(i)
              /\ pc[i]["downgrade"] = "done" /\ pc[i]["release"] = "idle"
              /\ handle[i].dead /\ WatchdogGone(i)
  BY Now, <1>id
<1>pc. /\ pc' \in [Ids -> [Threads -> Labels]]
       /\ \A j \in Ids \ {i} : pc'[j] = pc[j]
       /\ pc'[i]["acquire"] = "done" /\ pc'[i]["watchdog"] \in {"sleeping", "off"}
       /\ \A s \in Threads \ {"acquire", "watchdog"} : pc'[i][s] = pc[i][s]
  BY <1>now, <1>id, <1>act DEF Types, Threads, Labels
<1>local. Local(i) /\ handle' = handle /\ late' = late
  BY <1>pc, <1>act DEF Local
<1>1. (Acquisition(i) /\ Unopened(i) /\ Ending(i))'
  BY <1>now, <1>id, <1>act, <1>pc, <1>local DEF Acquisition, Unopened, Ending, Opened, WatchdogGone, Threads
<1>2. Succeeds(i) /\ Unsettled(i)
  BY <1>now, <1>id, <1>act, <1>pc, <1>local DEF Succeeds, Unsettled, Opened, WatchdogGone, Served, Threads, Answers
<1>3. Calm(i) /\ Learns(i)
  BY <1>now, <1>id, <1>act, <1>pc, <1>local DEF Calm, Learns, Opened, Refused, Reader, Threads
<1> QED BY <1>pc, <1>local, <1>id, <1>1, <1>2, <1>3, LocalStep DEF Inv, Types

(* Release.                                                                *)
LEMMA ReleaseCallInv ==
  ASSUME Inv, NEW i \in Ids, ReleaseCall(i)
  PROVE  Inv'
<1>now. /\ Types /\ Acquisition(i) /\ Unopened(i) /\ Ending(i)
        /\ i[2] = "first" /\ Opened(HeirOf(i[1])) =>
              /\ Opened(i)
              /\ pc[i]["downgrade"] = "done" /\ pc[i]["release"] = "idle"
              /\ handle[i].dead /\ WatchdogGone(i)
  BY Now
<1>pc. /\ pc' \in [Ids -> [Threads -> Labels]]
       /\ \A j \in Ids \ {i} : pc'[j] = pc[j]
       /\ pc'[i]["release"] = "stopping"
       /\ \A s \in Threads \ {"release"} : pc'[i][s] = pc[i][s]
  BY <1>now, GotoFacts DEF ReleaseCall, Threads, Labels
<1>handle. /\ handle' \in [Ids -> HandleType]
           /\ \A j \in Ids \ {i} : handle'[j] = handle[j]
           /\ handle'[i].fence = handle[i].fence
           /\ handle'[i].dead
           /\ handle'[i].lost = handle[i].lost
  BY <1>now, DeadFacts DEF ReleaseCall
<1>act. Opened(i) /\ pc[i]["release"] = "idle" /\ ~ handle[i].dead
  BY DEF ReleaseCall, MayCall
<1>local. Local(i) /\ late' = late
  BY <1>pc, <1>handle DEF ReleaseCall, Local, backend
<1>1. (Acquisition(i) /\ Unopened(i) /\ Ending(i))'
  BY <1>now, <1>pc, <1>local, <1>handle, <1>act DEF Acquisition, Unopened, Ending, Opened, WatchdogGone, Threads
<1>2. Succeeds(i) /\ Unsettled(i)
  BY <1>now, <1>pc, <1>local, <1>handle, <1>act DEF Succeeds, Unsettled, Opened, WatchdogGone, Served, Threads, Answers
<1>3. Calm(i) /\ Learns(i)
  BY <1>now, <1>pc, <1>local, <1>handle, <1>act DEF Calm, Learns, Opened, Refused, Reader, Threads
<1> QED BY <1>pc, <1>local, <1>handle, <1>1, <1>2, <1>3, LocalStep DEF Inv, Types

LEMMA ReleaseSendInv ==
  ASSUME Inv, NEW i \in Ids, ReleaseSend(i)
  PROVE  Inv'
<1>now. /\ Types /\ Acquisition(i) /\ Unopened(i) /\ Ending(i)
        /\ i[2] = "first" /\ Opened(HeirOf(i[1])) =>
              /\ Opened(i)
              /\ pc[i]["downgrade"] = "done" /\ pc[i]["release"] = "idle"
              /\ handle[i].dead /\ WatchdogGone(i)
  BY Now
<1>pc. /\ pc' \in [Ids -> [Threads -> Labels]]
       /\ \A j \in Ids \ {i} : pc'[j] = pc[j]
       /\ pc'[i]["release"] = "calling"
       /\ \A s \in Threads \ {"release"} : pc'[i][s] = pc[i][s]
  BY <1>now, GotoFacts DEF ReleaseSend, Threads, Labels
<1>handle. /\ handle' \in [Ids -> HandleType]
           /\ \A j \in Ids \ {i} : handle'[j] = handle[j]
           /\ handle'[i].fence = handle[i].fence
           /\ handle'[i].dead = handle[i].dead
           /\ handle'[i].lost \in {handle[i].lost, "ended"}
  BY <1>now, CloseFacts DEF ReleaseSend, Types, Reasons
<1>act. pc[i]["release"] = "stopping" /\ WatchdogGone(i)
  BY DEF ReleaseSend
<1>local. Local(i) /\ late' = late
  BY <1>pc, <1>handle DEF ReleaseSend, Local, backend
<1>opened. Opened(i)
  BY <1>now, <1>act DEF Unopened
<1>1. (Acquisition(i) /\ Unopened(i) /\ Ending(i))'
  BY <1>now, <1>pc, <1>local, <1>handle, <1>act, <1>opened DEF Acquisition, Unopened, Ending, Opened, WatchdogGone, Threads
<1>2. Succeeds(i) /\ Unsettled(i)
  BY <1>now, <1>pc, <1>local, <1>handle, <1>act, <1>opened DEF Succeeds, Unsettled, Opened, WatchdogGone, Served, Threads, Answers
<1>3. Calm(i) /\ Learns(i)
  BY <1>now, <1>pc, <1>local, <1>handle, <1>act, <1>opened DEF Calm, Learns, Opened, Refused, Reader, Threads
<1> QED BY <1>pc, <1>local, <1>handle, <1>1, <1>2, <1>3, LocalStep DEF Inv, Types

(* Downgrade, up to the end of the write handle.                           *)
LEMMA DowngradeCallInv ==
  ASSUME Inv, NEW i \in Ids, DowngradeCall(i)
  PROVE  Inv'
<1>now. /\ Types /\ Acquisition(i) /\ Unopened(i) /\ Ending(i)
        /\ i[2] = "first" /\ Opened(HeirOf(i[1])) =>
              /\ Opened(i)
              /\ pc[i]["downgrade"] = "done" /\ pc[i]["release"] = "idle"
              /\ handle[i].dead /\ WatchdogGone(i)
  BY Now
<1>pc. /\ pc' \in [Ids -> [Threads -> Labels]]
       /\ \A j \in Ids \ {i} : pc'[j] = pc[j]
       /\ pc'[i]["downgrade"] = "calling"
       /\ \A s \in Threads \ {"downgrade"} : pc'[i][s] = pc[i][s]
  BY <1>now, GotoFacts DEF DowngradeCall, Threads, Labels
<1>act. Opened(i) /\ pc[i]["downgrade"] = "idle" /\ ~ handle[i].dead /\ Mode(i) = "write"
  BY DEF DowngradeCall, MayCall, Ended
<1>local. Local(i) /\ handle' = handle /\ late' = late
  BY <1>pc DEF DowngradeCall, Local, backend
<1>1. (Acquisition(i) /\ Unopened(i) /\ Ending(i))'
  BY <1>now, <1>pc, <1>local, <1>act DEF Acquisition, Unopened, Ending, Opened, WatchdogGone, Threads
<1>2. Succeeds(i) /\ Unsettled(i)
  BY <1>now, <1>pc, <1>local, <1>act DEF Succeeds, Unsettled, Opened, WatchdogGone, Served, Threads, Answers
<1>3. Calm(i) /\ Learns(i)
  BY <1>now, <1>pc, <1>local, <1>act DEF Calm, Learns, Opened, Refused, Reader, Threads
<1> QED BY <1>pc, <1>local, <1>1, <1>2, <1>3, LocalStep DEF Inv, Types

LEMMA DowngradeFailInv ==
  ASSUME Inv, NEW i \in Ids, DowngradeFail(i)
  PROVE  Inv'
<1>now. /\ Types /\ Acquisition(i) /\ Unopened(i) /\ Ending(i)
        /\ i[2] = "first" /\ Opened(HeirOf(i[1])) =>
              /\ Opened(i)
              /\ pc[i]["downgrade"] = "done" /\ pc[i]["release"] = "idle"
              /\ handle[i].dead /\ WatchdogGone(i)
  BY Now
<1>pc. /\ pc' \in [Ids -> [Threads -> Labels]]
       /\ \A j \in Ids \ {i} : pc'[j] = pc[j]
       /\ pc'[i]["downgrade"] = "idle"
       /\ \A s \in Threads \ {"downgrade"} : pc'[i][s] = pc[i][s]
  BY <1>now, GotoFacts DEF DowngradeFail, Threads, Labels
<1>act. pc[i]["downgrade"] \in {"ErrNotOwner", "ErrModeConflict", "transport"}
  BY DEF DowngradeFail
<1>handle. /\ handle' \in [Ids -> HandleType]
           /\ \A j \in Ids \ {i} : handle'[j] = handle[j]
           /\ handle'[i].fence = handle[i].fence
           /\ handle'[i].dead = handle[i].dead
           /\ handle'[i].lost \in {handle[i].lost, pc[i]["downgrade"]}
  BY <1>now, CloseFacts DEF DowngradeFail, Types, Reasons
<1>told. handle'[i].lost = "ErrNotOwner" => Refused(i)
  BY <1>now, <1>handle DEF Refused
<1>local. Local(i) /\ late' = late
  BY <1>pc, <1>handle DEF DowngradeFail, Local, backend
<1>opened. Opened(i)
  BY <1>now, <1>act DEF Unopened
<1>1. (Acquisition(i) /\ Unopened(i) /\ Ending(i))'
  BY <1>now, <1>pc, <1>local, <1>handle, <1>told, <1>act, <1>opened DEF Acquisition, Unopened, Ending, Opened, WatchdogGone, Threads
<1>2. Succeeds(i) /\ Unsettled(i)
  BY <1>now, <1>pc, <1>local, <1>handle, <1>told, <1>act, <1>opened DEF Succeeds, Unsettled, Opened, WatchdogGone, Served, Threads, Answers
<1>3. Calm(i) /\ Learns(i)
  BY <1>now, <1>pc, <1>local, <1>handle, <1>told, <1>act, <1>opened DEF Calm, Learns, Opened, Refused, Reader, Threads
<1> QED BY <1>pc, <1>local, <1>handle, <1>1, <1>2, <1>3, LocalStep DEF Inv, Types

LEMMA DowngradeTakeInv ==
  ASSUME Inv, NEW i \in Ids, DowngradeTake(i)
  PROVE  Inv'
<1>now. /\ Types /\ Acquisition(i) /\ Unopened(i) /\ Ending(i)
        /\ i[2] = "first" /\ Opened(HeirOf(i[1])) =>
              /\ Opened(i)
              /\ pc[i]["downgrade"] = "done" /\ pc[i]["release"] = "idle"
              /\ handle[i].dead /\ WatchdogGone(i)
  BY Now
<1>pc. /\ pc' \in [Ids -> [Threads -> Labels]]
       /\ \A j \in Ids \ {i} : pc'[j] = pc[j]
       /\ \/ pc'[i]["downgrade"] = "stopping" /\ ~ handle[i].dead
          \/ pc'[i]["downgrade"] = "done" /\ handle[i].dead
       /\ \A s \in Threads \ {"downgrade"} : pc'[i][s] = pc[i][s]
  BY <1>now, GotoFacts DEF DowngradeTake, Threads, Labels
<1>handle. /\ handle' \in [Ids -> HandleType]
           /\ \A j \in Ids \ {i} : handle'[j] = handle[j]
           /\ handle'[i].fence = handle[i].fence
           /\ handle'[i].dead
           /\ handle'[i].lost = handle[i].lost
  BY <1>now, DeadFacts DEF DowngradeTake
<1>act. pc[i]["downgrade"] = "ok"
  BY DEF DowngradeTake
<1>local. Local(i) /\ late' = late
  BY <1>pc, <1>handle DEF DowngradeTake, Local, backend
<1>opened. Opened(i)
  BY <1>now, <1>act DEF Unopened
<1>1. (Acquisition(i) /\ Unopened(i) /\ Ending(i))'
  BY <1>now, <1>pc, <1>local, <1>handle, <1>act, <1>opened DEF Acquisition, Unopened, Ending, Opened, WatchdogGone, Threads
<1>2. Succeeds(i) /\ Unsettled(i)
  BY <1>now, <1>pc, <1>local, <1>handle, <1>act, <1>opened DEF Succeeds, Unsettled, Opened, WatchdogGone, Served, Threads, Answers
<1>3. Calm(i) /\ Learns(i)
  BY <1>now, <1>pc, <1>local, <1>handle, <1>act, <1>opened DEF Ending, Calm, Learns, Opened, Refused, Reader, Threads
<1> QED BY <1>pc, <1>local, <1>handle, <1>1, <1>2, <1>3, LocalStep DEF Inv, Types
(* A call is given up.                                                     *)
LEMMA TimeoutInv ==
  ASSUME Inv, NEW i \in Ids, NEW t \in Threads, Timeout(i, t)
  PROVE  Inv'
<1>now. /\ Types /\ Acquisition(i) /\ Unopened(i) /\ Ending(i)
        /\ i[2] = "first" /\ Opened(HeirOf(i[1])) =>
              /\ Opened(i)
              /\ pc[i]["downgrade"] = "done" /\ pc[i]["release"] = "idle"
              /\ handle[i].dead /\ WatchdogGone(i)
  BY Now
<1>pc. /\ pc' \in [Ids -> [Threads -> Labels]]
       /\ \A j \in Ids \ {i} : pc'[j] = pc[j]
       /\ pc'[i][t] = "transport"
       /\ \A s \in Threads \ {t} : pc'[i][s] = pc[i][s]
  BY <1>now, GotoFacts DEF Timeout, Labels, Answers
<1>act. /\ pc[i][t] = "calling" /\ handle' = handle /\ faults' = faults - 1 /\ faults > 0
        /\ UNCHANGED <<holds, issued, released, gone>>
        /\ late' = late \cup {<<i, t>>}
  BY DEF Timeout
<1>late. \A s \in Threads : <<i, s>> \in late' <=> <<i, s>> \in late \/ s = t
  BY <1>act
<1>same. \A j \in Ids \ {i} : Same(j)
  BY <1>pc, <1>act DEF Same
<1>types. Types'
  BY <1>now, <1>pc, <1>act, HoldLifecycleAssumption DEF Types
<1>1. (Acquisition(i) /\ Unopened(i) /\ Ending(i))'
  BY <1>now, <1>pc, <1>act, <1>late
     DEF Acquisition, Unopened, Ending, Opened, WatchdogGone, Threads, Answers, Mode
<1>2. Succeeds(i) /\ Unsettled(i)
  <2>1. pc'[i]["acquire"] \notin {pc[i]["acquire"]} => t = "acquire"
    BY <1>pc DEF Threads
  <2> QED BY <1>now, <1>pc, <1>act, <1>late, <2>1
     DEF Acquisition, Succeeds, Unsettled, Opened, WatchdogGone, Served, Threads, Answers
<1>3. Learns(i)
  BY <1>now, <1>pc, <1>act DEF Learns, Opened, Refused, Reader, Threads
<1>4. Quiet'
  BY <1>now, <1>act, QuietAfterFault
<1> QED BY <1>same, <1>types, <1>act, <1>1, <1>2, <1>3, <1>4, ThreadStep

(* A step of the backend on its own, or the death of a process.            *)
LEMMA WorldStep ==
  ASSUME Inv, Types', Quiet', Subsides,
         UNCHANGED <<issued, handle, pc, late, released>>,
         \A o \in Owners : Held(o)' =>
           Held(o) /\ holds'[o].fence = holds[o].fence /\ holds'[o].count = holds[o].count
  PROVE  Inv'
<1> USE DEF Inv
<1>same. \A j \in Ids : Same(j)
  BY DEF Same
<1>fences. \A h \in Handles : FenceOf(h)' = FenceOf(h)
  BY DEF FenceOf
<1>1. Control'
  BY <1>same, ControlFrame
<1>2. Families'
  BY <1>same, FamiliesFrame
<1>3. Generations'
  <2>1. \A j \in Ids : handle'[j].fence <= issued
    BY DEF Generations, FencesCount
  <2> QED BY <1>fences, <2>1, GenerationsFrame
<1>4. CountIsUnreleased'
  BY <1>fences, CountFrame
<1>5. Settled'
  BY <1>same, SettledFrame
<1>6. Telling'
  <2>1. Evolves
    BY DEF Evolves, Subsides
  <2> QED BY <1>same, <2>1, TellingFrame DEF Generations
<1> QED BY <1>1, <1>2, <1>3, <1>4, <1>5, <1>6

LEMMA TickInv == ASSUME Inv, Tick PROVE Inv'
<1>types. Types
  BY DEF Inv
<1>1. /\ holds' \in Table
      /\ \A o \in Owners : holds'[o] # NoHold =>
           /\ holds[o] # NoHold /\ holds'[o].mode = holds[o].mode
           /\ holds'[o].fence = holds[o].fence /\ holds'[o].count = holds[o].count
  BY <1>types, AgedEffect DEF Tick, Types
<1>2. UNCHANGED <<issued, handle, pc, late, faults, gone, released>>
  BY DEF Tick
<1>3. Types'
  BY <1>types, <1>1, <1>2 DEF Types
<1>4. Subsides
  BY <1>1 DEF Subsides, Held
<1>5. \A o \in Owners : Held(o)' =>
        Held(o) /\ holds'[o].fence = holds[o].fence /\ holds'[o].count = holds[o].count
  BY <1>1 DEF Held
<1>6. Quiet'
  <2>1. \A h \in Handles : TurnedReader(h)' => TurnedReader(h)
    BY <1>1, <1>2, IdsOfHandle DEF TurnedReader, Held, FenceOf
  <2>2. \A h \in Handles : (DowngradedBy(h) => DowngradedBy(h)') /\ (Stranded(h) => Stranded(h)')
    BY <1>2 DEF DowngradedBy, Stranded, Opened
  <2> QED BY <1>types, <1>2, <2>1, <2>2, QuietFrame DEF Inv
<1> QED BY <1>2, <1>3, <1>4, <1>5, <1>6, WorldStep

LEMMA DropInv == ASSUME Inv, Drop PROVE Inv'
<1>types. Types
  BY DEF Inv
<1>1. holds' \in Table /\ \A o \in Owners : holds'[o] = NoHold
  BY DEF Drop, Vacant, Table
<1>2. /\ UNCHANGED <<issued, handle, pc, late, gone, released>>
      /\ faults > 0 /\ faults' = faults - 1
  BY DEF Drop
<1>3. Types'
  BY <1>types, <1>1, <1>2, HoldLifecycleAssumption DEF Types
<1>4. Subsides
  BY <1>1 DEF Subsides
<1>5. \A o \in Owners : Held(o)' =>
        Held(o) /\ holds'[o].fence = holds[o].fence /\ holds'[o].count = holds[o].count
  BY <1>1 DEF Held
<1>6. Quiet'
  BY <1>types, <1>2, QuietAfterFault
<1> QED BY <1>2, <1>3, <1>4, <1>5, <1>6, WorldStep

LEMMA CrashInv == ASSUME Inv, NEW h \in Handles, Crash(h) PROVE Inv'
<1>types. Types
  BY DEF Inv
<1>1. /\ UNCHANGED <<holds, issued, handle, pc, late, released>>
      /\ faults > 0 /\ faults' = faults - 1 /\ gone' = gone \cup {h}
  BY DEF Crash
<1>2. Types'
  BY <1>types, <1>1, HoldLifecycleAssumption DEF Types
<1>3. Subsides
  BY <1>1 DEF Subsides, Held
<1>4. \A o \in Owners : Held(o)' =>
        Held(o) /\ holds'[o].fence = holds[o].fence /\ holds'[o].count = holds[o].count
  BY <1>1 DEF Held
<1>5. Quiet'
  BY <1>types, <1>1, QuietAfterFault
<1> QED BY <1>1, <1>2, <1>3, <1>4, <1>5, WorldStep

(* The heir comes to life.                                                 *)
LEMMA HandOverFacts ==
  ASSUME Inv, NEW i \in Ids, DowngradeHandOver(i), NEW k, k = Heir(i)
  PROVE  /\ k \in Ids /\ k # i /\ k[2] = "heir" /\ k = HeirOf(i[1]) /\ i = First(i[1])
         /\ Opened(i) /\ ~ Opened(k) /\ handle[i].fence # 0 /\ handle[k].fence = 0
         /\ pc[i]["downgrade"] = "stopping" /\ WatchdogGone(i)
         /\ handle[i].dead /\ pc[i]["release"] = "idle"
         /\ Owner(k) = Owner(i)
<1>1. /\ Types /\ Acquisition(i) /\ Unopened(i) /\ Ending(i)
      /\ i[2] = "first" /\ Opened(HeirOf(i[1])) => pc[i]["downgrade"] = "done"
  BY Now
<1>2. pc[i]["downgrade"] = "stopping" /\ WatchdogGone(i)
  BY DEF DowngradeHandOver
<1>3. Mode(i) = "write"
  BY <1>1, <1>2 DEF Ending
<1>4. i[1] \in Handles /\ i[2] = "first" /\ i = First(i[1]) /\ k = HeirOf(i[1])
  BY <1>3, HandleOfId
<1>5. k \in Ids /\ k[2] = "heir" /\ k # i /\ Owner(k) = Owner(i)
  BY <1>4, IdsOfHandle
<1>6. ~ Opened(k)
  BY <1>1, <1>2, <1>4
<1>7. Acquisition(k)
  BY <1>5, Now
<1>8. handle[k].fence = 0
  BY <1>5, <1>6, <1>7 DEF Acquisition, Opened
<1>9. Opened(i)
  BY <1>1, <1>2 DEF Unopened
<1>10. handle[i].fence # 0 /\ handle[i].dead /\ pc[i]["release"] = "idle"
  BY <1>1, <1>2, <1>9 DEF Acquisition, Ending, Opened
<1> QED BY <1>2, <1>4, <1>5, <1>6, <1>8, <1>9, <1>10

LEMMA HandOverChange ==
  ASSUME Inv, NEW i \in Ids, DowngradeHandOver(i), NEW k \in Ids, k = Heir(i), k # i
  PROVE  /\ handle' \in [Ids -> HandleType]
         /\ \A j \in Ids \ {i, k} : Same(j)
         /\ handle'[i].fence = handle[i].fence /\ handle'[i].dead = handle[i].dead
         /\ handle'[i].lost = "ErrNotOwner" => handle[i].lost = "ErrNotOwner"
         /\ handle'[k].fence = handle[i].fence
         /\ ~ handle'[k].dead /\ handle'[k].lost = "open"
         /\ pc' \in [Ids -> [Threads -> Labels]]
         /\ pc'[i]["downgrade"] = "done"
         /\ \A s \in Threads \ {"downgrade"} : pc'[i][s] = pc[i][s]
         /\ pc'[k]["acquire"] = "done"
         /\ \A s \in {"release", "refresh", "downgrade"} : pc'[k][s] = pc[k][s]
         /\ UNCHANGED <<holds, issued, released, late, faults, gone>>
<1>types. handle \in [Ids -> HandleType] /\ pc \in [Ids -> [Threads -> Labels]]
  BY DEF Inv, Types
<1>1. UNCHANGED <<holds, issued, released, late, faults, gone>>
  BY DEF DowngradeHandOver, backend
<1> DEFINE new  == [NewHandle EXCEPT !.fence = handle[i].fence]
           old  == [handle EXCEPT ![i].lost = IF @ = "open" THEN "ended" ELSE @]
<1>2. /\ new \in HandleType /\ new.fence = handle[i].fence
      /\ ~ new.dead /\ new.lost = "open"
  BY <1>types DEF NewHandle, HandleType, Reasons
<1>3. /\ old \in [Ids -> HandleType] /\ \A j \in Ids \ {i} : old[j] = handle[j]
      /\ old[i].fence = handle[i].fence /\ old[i].dead = handle[i].dead
      /\ old[i].lost = "ErrNotOwner" => handle[i].lost = "ErrNotOwner"
  BY <1>types DEF HandleType, Reasons
<1>4. handle' = [old EXCEPT ![k] = new]
  BY DEF DowngradeHandOver
<1> HIDE DEF new, old
<1>5. /\ handle' \in [Ids -> HandleType]
      /\ \A j \in Ids \ {i, k} : handle'[j] = handle[j]
      /\ handle'[i].fence = handle[i].fence /\ handle'[i].dead = handle[i].dead
      /\ handle'[i].lost = "ErrNotOwner" => handle[i].lost = "ErrNotOwner"
      /\ handle'[k].fence = handle[i].fence
      /\ ~ handle'[k].dead /\ handle'[k].lost = "open"
  BY <1>2, <1>3, <1>4
<1>6. pc' = [pc EXCEPT ![i]["downgrade"] = "done",
                       ![k]["acquire"] = "done", ![k]["watchdog"] = Started(i)]
  BY DEF DowngradeHandOver
<1>7. Started(i) \in Labels
  BY DEF Started, Labels
<1>8. /\ pc' \in [Ids -> [Threads -> Labels]]
      /\ \A j \in Ids \ {i, k} : pc'[j] = pc[j]
      /\ pc'[i]["downgrade"] = "done"
      /\ \A s \in Threads \ {"downgrade"} : pc'[i][s] = pc[i][s]
      /\ pc'[k]["acquire"] = "done"
      /\ \A s \in Threads \ {"acquire", "watchdog"} : pc'[k][s] = pc[k][s]
  BY <1>types, <1>6, <1>7 DEF Threads, Labels
<1>9. \A j \in Ids \ {i, k} : Same(j)
  BY <1>1, <1>5, <1>8 DEF Same
<1> QED BY <1>1, <1>5, <1>8, <1>9 DEF Threads

LEMMA HandOverInv ==
  ASSUME Inv, NEW i \in Ids, DowngradeHandOver(i)
  PROVE  Inv'
<1> DEFINE k == Heir(i)
<1>facts. /\ k \in Ids /\ k # i /\ k[2] = "heir" /\ k = HeirOf(i[1]) /\ i = First(i[1])
          /\ Opened(i) /\ ~ Opened(k) /\ handle[i].fence # 0 /\ handle[k].fence = 0
          /\ pc[i]["downgrade"] = "stopping" /\ WatchdogGone(i)
          /\ handle[i].dead /\ pc[i]["release"] = "idle"
          /\ Owner(k) = Owner(i)
  BY HandOverFacts
<1>k. k = Heir(i)
  OBVIOUS
<1> HIDE DEF k
<1>change. /\ handle' \in [Ids -> HandleType]
           /\ \A j \in Ids \ {i, k} : Same(j)
           /\ handle'[i].fence = handle[i].fence /\ handle'[i].dead = handle[i].dead
           /\ handle'[i].lost = "ErrNotOwner" => handle[i].lost = "ErrNotOwner"
           /\ handle'[k].fence = handle[i].fence
           /\ ~ handle'[k].dead /\ handle'[k].lost = "open"
           /\ pc' \in [Ids -> [Threads -> Labels]]
           /\ pc'[i]["downgrade"] = "done"
           /\ \A s \in Threads \ {"downgrade"} : pc'[i][s] = pc[i][s]
           /\ pc'[k]["acquire"] = "done"
           /\ \A s \in {"release", "refresh", "downgrade"} : pc'[k][s] = pc[k][s]
           /\ UNCHANGED <<holds, issued, released, late, faults, gone>>
  BY <1>facts, <1>k, HandOverChange
<1>now. Types /\ Acquisition(i) /\ Unopened(i) /\ Ending(i) /\ Told(i)
  BY Now
<1>heir. Acquisition(k) /\ Unopened(k) /\ Ending(k) /\ Told(k)
  BY <1>facts, Now
<1>types. Types'
  BY <1>now, <1>change DEF Types
<1>dom. i[1] \in Handles /\ \A h \in Handles : First(h) = i \/ HeirOf(h) = k => h = i[1]
  BY <1>facts, IdsOfHandle, HandleOfId
<1>apart. \A h \in Handles : First(h) # k /\ HeirOf(h) # i
  BY <1>facts, IdsOfHandle, HandleOfId
<1>others. \A h \in Handles \ {i[1]} : Same(First(h)) /\ Same(HeirOf(h))
  BY <1>dom, <1>apart, <1>change, IdsOfHandle
<1>fences. \A h \in Handles : FenceOf(h)' = FenceOf(h)
  BY <1>others, <1>facts, <1>change DEF FenceOf, Same
<1>1. Control'
  <2>1. (Acquisition(i) /\ Unopened(i) /\ Ending(i))'
    BY <1>now, <1>facts, <1>change
       DEF Acquisition, Unopened, Ending, Opened, WatchdogGone, Threads, Answers
  <2>2. (Acquisition(k) /\ Unopened(k) /\ Ending(k))'
    BY <1>heir, <1>facts, <1>change
       DEF Acquisition, Unopened, Ending, Opened, WatchdogGone, Threads, Answers
  <2>3. \A j \in Ids : Same(j) \/ (Acquisition(j) /\ Unopened(j) /\ Ending(j))'
    BY <1>change, <2>1, <2>2
  <2> QED BY <2>3, ControlFrame DEF Inv
<1>2. Families'
  <2>1. Family(i[1])'
    <3>1. /\ Opened(i)' /\ handle'[k].fence = handle'[i].fence
          /\ pc'[i]["downgrade"] = "done" /\ pc'[i]["release"] = "idle"
          /\ handle'[i].dead /\ WatchdogGone(i)'
      BY <1>facts, <1>change DEF Opened, WatchdogGone, Threads
    <3>2. k = HeirOf(i[1]) /\ i = First(i[1])
      BY <1>facts
    <3> QED BY <3>1, <3>2 DEF Family, FenceOf
  <2>2. ASSUME NEW h \in Handles \ {i[1]} PROVE Family(h)'
    <3>1. Same(First(h)) /\ Same(HeirOf(h)) /\ Family(h)
      BY <1>others DEF Inv, Families
    <3> QED BY <3>1 DEF Same, Family, FenceOf, Opened, WatchdogGone
  <2> QED BY <2>1, <2>2 DEF Families
<1>3. Generations'
  <2>1. Subsides
    BY <1>change DEF Subsides, Held
  <2>2. \A j \in Ids : handle'[j].fence <= issued
    BY <1>change DEF Same, Inv, Generations, FencesCount
  <2> QED BY <1>now, <1>types, <1>fences, <1>change, <2>1, <2>2, GenerationsFrame DEF Inv
<1>4. CountIsUnreleased'
  BY <1>fences, <1>change, CountFrame DEF Held, Inv
<1>5. Settled'
  <2>1. Unsettled(i) /\ Unsettled(k)
    BY <1>facts, <1>change DEF Unsettled, Opened, Served, Threads
  <2> QED BY <1>now, <1>change, <2>1, SettledFrame DEF Inv
<1>6. Telling'
  <2>1. Evolves
    BY <1>change DEF Evolves, Held
  <2>2. ReadOnly(i)
    BY <1>now, <1>facts DEF Told, Reader
  <2>3. Told(k)'
    <3>1. ~ Refused(k)'
      <4>1. pc'[k]["watchdog"] # "ErrNotOwner"
        BY <1>types, <1>k, <1>facts DEF DowngradeHandOver, Started, Inv, Types, Threads
      <4> QED BY <1>facts, <1>heir, <1>change, <4>1 DEF Refused, Unopened
    <3>2. ReadOnly(k)'
      BY <2>2, <1>facts, <1>change DEF ReadOnly, Owner
    <3> QED BY <3>1, <3>2 DEF Told
  <2>4. Told(i)'
    <3>1. Refused(i)' => Refused(i)
      BY <1>change DEF Refused, Threads
    <3>2. Reader(i)
      BY <1>facts DEF Reader
    <3> QED BY <1>now, <1>types, <1>facts, <1>change, <2>1, <3>1, <3>2, ToldStable
            DEF Inv, Generations
  <2>5. \A j \in Ids : Same(j) \/ Told(j)'
    BY <1>change, <2>3, <2>4
  <2> QED BY <1>now, <1>types, <2>1, <2>5, TellingFrame DEF Inv, Generations
<1>7. Quiet'
  <2>1. \A j \in Ids, t \in Threads : pc'[j][t] = "transport" => pc[j][t] = "transport"
    <3>1. pc'[k]["watchdog"] # "transport"
      BY <1>types, <1>k, <1>facts DEF DowngradeHandOver, Started, Inv, Types, Threads
    <3>2. \A t \in Threads : pc'[k][t] = "transport" => pc[k][t] = "transport"
      BY <1>change, <3>1 DEF Threads
    <3>3. \A t \in Threads : pc'[i][t] = "transport" => pc[i][t] = "transport"
      BY <1>change DEF Threads
    <3> QED BY <1>change, <3>2, <3>3 DEF Same
  <2>2. \A j \in Ids : handle[j].fence # 0 => handle'[j].fence = handle[j].fence
    BY <1>change, <1>facts DEF Same
  <2>3. \A h \in Handles : TurnedReader(h)' => TurnedReader(h)
    BY <1>fences, <1>change DEF TurnedReader, Held
  <2>4. ASSUME NEW h \in Handles
        PROVE  (DowngradedBy(h) => DowngradedBy(h)') /\ (Stranded(h) => Stranded(h)')
    <3>1. CASE h = i[1]
      BY <3>1, <1>facts, <1>change DEF DowngradedBy, Stranded, Opened
    <3>2. CASE h # i[1]
      <4>1. Same(First(h)) /\ Same(HeirOf(h))
        BY <3>2, <1>others
      <4> QED BY <4>1 DEF DowngradedBy, Stranded, Opened, Same
    <3> QED BY <3>1, <3>2
  <2> QED BY <1>now, <1>change, <2>1, <2>2, <2>3, <2>4, QuietFrame DEF Inv
<1> QED BY <1>types, <1>1, <1>2, <1>3, <1>4, <1>5, <1>6, <1>7 DEF Inv

-----------------------------------------------------------------------------
(* The backend carries out a call of thread t of id i, at once or late.    *)

Answer(i, t, a) ==
  \/ pc[i][t] = "calling" /\ Goto(i, t, a) /\ late' = late
  \/ <<i, t>> \in late /\ pc' = pc /\ late' = late \ {<<i, t>>}

LEMMA AnswerFacts ==
  ASSUME Types, NEW i \in Ids, NEW t \in Threads, NEW a \in Answers, Answer(i, t, a),
         handle' \in [Ids -> HandleType],
         \A j \in Ids \ {i} : handle'[j] = handle[j]
  PROVE  /\ pc' \in [Ids -> [Threads -> Labels]]
         /\ late' \subseteq late
         /\ \A j \in Ids \ {i} : Same(j)
         /\ \A s \in Threads \ {t} : /\ pc'[i][s] = pc[i][s]
                                     /\ <<i, s>> \in late' <=> <<i, s>> \in late
         /\ \/ /\ pc[i][t] = "calling" /\ pc'[i][t] = a
               /\ <<i, t>> \in late' <=> <<i, t>> \in late
            \/ /\ <<i, t>> \in late /\ <<i, t>> \notin late'
               /\ pc'[i][t] = pc[i][t]
<1>1. CASE pc[i][t] = "calling" /\ Goto(i, t, a) /\ late' = late
  <2>1. /\ pc' \in [Ids -> [Threads -> Labels]]
        /\ \A j \in Ids \ {i} : pc'[j] = pc[j]
        /\ pc'[i][t] = a
        /\ \A s \in Threads \ {t} : pc'[i][s] = pc[i][s]
    BY <1>1, GotoFacts DEF Labels
  <2> QED BY <1>1, <2>1 DEF Same
<1>2. CASE <<i, t>> \in late /\ pc' = pc /\ late' = late \ {<<i, t>>}
  BY <1>2 DEF Types, Same
<1> QED BY <1>1, <1>2 DEF Answer

(* What all calls but an acquisition have in common.                       *)
LEMMA CallStep ==
  ASSUME Inv, NEW i \in Ids, NEW t \in Threads \ {"acquire"}, NEW a \in Answers,
         Answer(i, t, a), a # "transport", t = "release" => a \in {"ok", "ErrNotOwner"},
         holds' \in Table, Subsides,
         UNCHANGED <<issued, handle, faults, gone>>,
         released' = IF t = "release" /\ a = "ok" THEN released \cup {i[1]} ELSE released,
         CountIsUnreleased',
         a = "ErrNotOwner" => ~ Mine(i)',
         t = "downgrade" /\ a = "ok" => ReadOnly(i)',
         faults = MaxFaults =>
           \A h \in Handles \ released' : TurnedReader(h)' => TurnedReader(h) \/ DowngradedFor(h)'
  PROVE  Inv'
<1>now. /\ Types /\ Acquisition(i) /\ Unopened(i) /\ Ending(i) /\ Told(i)
        /\ i[2] = "first" /\ Opened(HeirOf(i[1])) =>
              /\ Opened(i)
              /\ pc[i]["downgrade"] = "done" /\ pc[i]["release"] = "idle"
              /\ handle[i].dead /\ WatchdogGone(i)
  BY Now
<1>id. i[1] \in Handles /\ (i = First(i[1]) \/ i = HeirOf(i[1]))
  BY HandleOfId
<1>change. /\ pc' \in [Ids -> [Threads -> Labels]]
           /\ late' \subseteq late
           /\ \A j \in Ids \ {i} : Same(j)
           /\ \A s \in Threads \ {t} : /\ pc'[i][s] = pc[i][s]
                                       /\ <<i, s>> \in late' <=> <<i, s>> \in late
           /\ \/ /\ pc[i][t] = "calling" /\ pc'[i][t] = a
                 /\ <<i, t>> \in late' <=> <<i, t>> \in late
              \/ /\ <<i, t>> \in late /\ <<i, t>> \notin late'
                 /\ pc'[i][t] = pc[i][t]
  BY <1>now, AnswerFacts DEF Types
<1>opened. Opened(i)
  BY <1>now, <1>change DEF Unopened, Threads
<1>types. Types'
  BY <1>now, <1>change, <1>id DEF Types
<1>1. Control'
  <2>1. (Acquisition(i) /\ Unopened(i))'
    BY <1>now, <1>change, <1>opened DEF Acquisition, Unopened, Opened, Threads
  <2>2. Ending(i)'
    BY <1>now, <1>change, <1>opened DEF Ending, Opened, WatchdogGone, Threads, Answers, Mode
  <2>3. \A j \in Ids : Same(j) \/ (Acquisition(j) /\ Unopened(j) /\ Ending(j))'
    BY <1>change, <2>1, <2>2
  <2> QED BY <2>3, ControlFrame DEF Inv
<1>2. Families'
  <2>1. Succeeds(i)
    BY <1>now, <1>change, <1>opened DEF Succeeds, Opened, WatchdogGone, Threads
  <2>2. \A j \in Ids : Same(j) \/ Succeeds(j)
    BY <1>change, <2>1
  <2> QED BY <2>2, FamiliesFrame DEF Inv
<1>3. Generations'
  <2>1. \A h \in Handles : FenceOf(h)' = FenceOf(h)
    BY DEF FenceOf
  <2>2. \A j \in Ids : handle'[j].fence <= issued
    BY DEF Inv, Generations, FencesCount
  <2> QED BY <1>now, <1>types, <2>1, <2>2, GenerationsFrame DEF Inv
<1>4. Settled'
  <2>1. pc'[i]["release"] = "ok" => pc[i]["release"] = "ok" \/ (t = "release" /\ a = "ok")
    BY <1>change DEF Threads
  <2>2. Opened(i)' /\ (Served(i) => Served(i)')
    BY <1>now, <1>change, <1>opened DEF Opened, Served, Threads, Ending
  <2>3. t = "release" => Served(i)'
    BY <1>now, <1>change DEF Served, Ending, Answers
  <2>4. \A j \in Ids : (Opened(j) => Opened(j)') /\ (Served(j) => Served(j)')
    <3>1. \A j \in Ids \ {i} : Unsettled(j)
      BY <1>change, SameSettled
    <3> QED BY <2>2, <3>1 DEF Unsettled
  <2>5. ASSUME NEW h \in released'
        PROVE  (Served(First(h)) \/ (Opened(HeirOf(h)) /\ Served(HeirOf(h))))'
    <3>1. CASE h \in released
      <4>1. First(h) \in Ids /\ HeirOf(h) \in Ids
        BY <3>1, <1>now, IdsOfHandle DEF Types
      <4>2. Served(First(h)) \/ (Opened(HeirOf(h)) /\ Served(HeirOf(h)))
        BY <3>1 DEF Inv, Settled
      <4> QED BY <2>4, <4>1, <4>2
    <3>2. CASE h = i[1] /\ t = "release"
      BY <3>2, <2>2, <2>3, <1>id
    <3> QED BY <3>1, <3>2
  <2>6. ASSUME NEW j \in Ids, pc'[j]["release"] = "ok" PROVE j[1] \in released'
    <3>1. CASE pc[j]["release"] = "ok"
      BY <3>1 DEF Inv, Settled
    <3>2. CASE pc[j]["release"] # "ok"
      <4>1. j = i
        BY <3>2, <2>6, <1>change DEF Same
      <4> QED BY <4>1, <3>2, <2>6, <2>1
    <3> QED BY <3>1, <3>2
  <2> QED BY <2>5, <2>6 DEF Settled
<1>5. Telling'
  <2>1. Evolves
    BY DEF Evolves, Subsides
  <2>2. Refused(i)' => Refused(i) \/ a = "ErrNotOwner"
    <3>1. ASSUME NEW s \in Threads, pc'[i][s] = "ErrNotOwner", a # "ErrNotOwner"
          PROVE  pc[i][s] = "ErrNotOwner"
      BY <1>change, <3>1
    <3> QED BY <3>1 DEF Refused, Threads
  <2>3. Reader(i)' => Reader(i) \/ (t = "downgrade" /\ a = "ok")
    BY <1>change DEF Reader, Threads, Answers
  <2>4. Told(i)'
    <3>1. handle[i].fence # 0
      BY <1>now, <1>opened DEF Acquisition, Opened
    <3> QED BY <1>now, <1>types, <2>1, <2>2, <2>3, <3>1, ToldStable DEF Inv, Generations
  <2>5. \A j \in Ids : Same(j) \/ Told(j)'
    BY <1>change, <2>4
  <2> QED BY <1>now, <1>types, <2>1, <2>5, TellingFrame DEF Inv, Generations
<1>6. Quiet'
  <2>1. Calm(i)
    BY <1>now, <1>change, <1>opened DEF Calm, Opened, Threads, Answers
  <2>2. \A j \in Ids : Same(j) \/ Calm(j)
    BY <2>1, <1>change
  <2>3. \A j \in Ids, s \in Threads : pc'[j][s] = "transport" => pc[j][s] = "transport"
    BY <2>1, <1>change DEF Calm, Same
  <2>4. \A h \in Handles : (DowngradedBy(h) => DowngradedBy(h)') /\ (Stranded(h) => Stranded(h)')
    BY <2>2, CalmFamily
  <2> QED BY <1>now, <1>change, <2>3, <2>4, QuietFrame DEF Inv
<1> QED BY <1>types, <1>1, <1>2, <1>3, <1>4, <1>5, <1>6 DEF Inv

(* Refresh, by the application or by the watchdog.                         *)
LEMMA DoRefreshInv ==
  ASSUME Inv, NEW i \in Ids, NEW t \in {"refresh", "watchdog"}, NEW a \in Answers,
         DoRefresh(i, a), Answer(i, t, a), UNCHANGED <<faults, gone>>
  PROVE  Inv'
<1> DEFINE o == Owner(i)
           Kept == /\ holds' \in Table
                   /\ \A p \in Owners : holds'[p] # NoHold =>
                        /\ holds[p] # NoHold /\ holds'[p].mode = holds[p].mode
                        /\ holds'[p].fence = holds[p].fence
                        /\ holds'[p].count = holds[p].count
<1>types. Types
  BY DEF Inv
<1>o. o \in Owners /\ Lease(i) \in Nat \ {0}
  BY HandleOfId
<1>same. UNCHANGED <<issued, released, handle>>
  BY DEF DoRefresh
<1>1. ASSUME Mine(i), holds' = Extended(holds, o, Lease(i)) PROVE Kept
  <2>1. holds[o] # NoHold
    BY <1>1 DEF Mine, Owns
  <2>2. /\ OnlyOf(holds, holds', o) /\ holds'[o] \in Hold
        /\ holds'[o].mode = holds[o].mode /\ holds'[o].fence = holds[o].fence
        /\ holds'[o].count = holds[o].count
    BY <1>1, <1>o, <1>types, <2>1, ExtendedEffect DEF Types
  <2> QED BY <2>1, <2>2 DEF OnlyOf
<1>2. ASSUME holds' = holds PROVE Kept
  BY <1>2, <1>types DEF Types
<1>3. Kept /\ (a = "ok" \/ (a = "ErrNotOwner" /\ ~ Mine(i) /\ holds' = holds))
  BY <1>1, <1>2 DEF DoRefresh
<1>4. Subsides
  BY <1>3 DEF Subsides, Held
<1>5. CountIsUnreleased'
  <2>1. \A h \in Handles : FenceOf(h)' = FenceOf(h)
    BY <1>same DEF FenceOf
  <2>2. \A p \in Owners : Held(p)' =>
           Held(p) /\ holds'[p].fence = holds[p].fence /\ holds'[p].count = holds[p].count
    BY <1>3 DEF Held
  <2> QED BY <1>same, <2>1, <2>2, CountFrame DEF Inv
<1>6. a = "ErrNotOwner" => ~ Mine(i)'
  BY <1>3, <1>same DEF Mine
<1>7. \A h \in Handles : TurnedReader(h)' => TurnedReader(h)
  BY <1>3, <1>same, IdsOfHandle DEF TurnedReader, FenceOf, Held
<1>8. t \in Threads \ {"acquire"} /\ t # "release" /\ t # "downgrade" /\ a # "transport"
  BY <1>3 DEF Threads
<1> QED BY <1>same, <1>3, <1>4, <1>5, <1>6, <1>7, <1>8, CallStep

(* No Release is carried out twice.                                        *)
LEMMA ReleasedOnce ==
  ASSUME Inv, NEW i \in Ids, InFlight(i, "release")
  PROVE  i[1] \in Handles \ released /\ FenceOf(i[1]) = handle[i].fence
<1> DEFINE h == i[1]
<1>1. /\ h \in Handles
      /\ i = First(h) \/ (i = HeirOf(h) /\ i[2] = "heir")
  BY HandleOfId
<1>2. Unopened(i) /\ Ending(i)
  BY Now
<1>3. Opened(i)
  BY <1>2 DEF Unopened, InFlight, Threads
<1>4. ~ Served(i) /\ pc[i]["release"] # "idle"
  BY <1>2 DEF Served, InFlight, Ending, Answers
<1>5. Family(h)
  BY <1>1 DEF Inv, Families
<1>6. h \in released => Served(First(h)) \/ (Opened(HeirOf(h)) /\ Served(HeirOf(h)))
  BY DEF Inv, Settled
<1>7. CASE i = First(h)
  <2>1. ~ Opened(HeirOf(h))
    BY <1>4, <1>5, <1>7 DEF Family
  <2> QED BY <1>1, <1>4, <1>6, <1>7, <2>1 DEF FenceOf
<1>8. CASE i = HeirOf(h)
  <2>1. pc[First(h)]["release"] = "idle" /\ handle[i].fence = FenceOf(h)
    BY <1>3, <1>5, <1>8 DEF Family
  <2>2. ~ Served(First(h))
    BY <2>1 DEF Served, Answers
  <2> QED BY <1>1, <1>4, <1>6, <1>8, <2>1, <2>2
<1> QED BY <1>1, <1>7, <1>8

(* The acquisitions that are not released, for the generation with fence f.*)
Unreleased(o, f) == {h \in Handles \ released : OwnerOf[h] = o /\ FenceOf(h) = f}

LEMMA UnreleasedFinite ==
  ASSUME NEW o, NEW f
  PROVE  IsFiniteSet(Unreleased(o, f))
<1>1. Unreleased(o, f) \subseteq Handles
  BY DEF Unreleased
<1> QED BY <1>1, FS_Subset, HoldLifecycleAssumption

LEMMA DoReleaseInv ==
  ASSUME Inv, NEW i \in Ids, NEW a \in Answers,
         DoRelease(i, a), Answer(i, "release", a), UNCHANGED <<faults, gone>>
  PROVE  Inv'
<1> DEFINE o == Owner(i)
           f == handle[i].fence
<1>types. Types
  BY DEF Inv
<1>o. o \in Owners /\ o = OwnerOf[i[1]] /\ i[1] \in Handles
  BY HandleOfId
<1>same. UNCHANGED <<issued, handle>>
  BY DEF DoRelease
<1>once. i[1] \in Handles \ released /\ FenceOf(i[1]) = f
  BY ReleasedOnce DEF Answer, InFlight
<1>8. "release" \in Threads \ {"acquire"}
  BY DEF Threads
<1>1. CASE /\ Mine(i) /\ a = "ok" /\ holds' = Released(holds, o)
           /\ released' = released \cup {i[1]}
  <2>1. holds[o] # NoHold /\ holds[o].fence = f
    BY <1>1 DEF Mine, Owns
  <2>2. /\ OnlyOf(holds, holds', o)
        /\ holds'[o] # NoHold => /\ holds'[o] \in Hold
                                 /\ holds'[o].mode = holds[o].mode
                                 /\ holds'[o].fence = holds[o].fence
                                 /\ holds'[o].count = holds[o].count - 1
    BY <1>1, <1>o, <1>types, <2>1, ReleasedEffect DEF Types
  <2>3. /\ holds' \in Table
        /\ \A p \in Owners : holds'[p] # NoHold =>
             /\ holds[p] # NoHold /\ holds'[p].mode = holds[p].mode
             /\ holds'[p].fence = holds[p].fence
             /\ p # o => holds'[p].count = holds[p].count
    BY <2>1, <2>2 DEF OnlyOf
  <2>4. Subsides
    BY <2>3 DEF Subsides, Held
  <2>5. CountIsUnreleased'
    <3> SUFFICES ASSUME NEW p \in Owners, holds'[p] # NoHold
                 PROVE  holds'[p].count =
                      Cardinality({h \in Handles \ released' :
                        OwnerOf[h] = p /\ handle'[First(h)].fence = holds'[p].fence})
      BY DEF CountIsUnreleased
    <3>1. {h \in Handles \ released' : OwnerOf[h] = p /\ handle'[First(h)].fence = holds'[p].fence}
          = Unreleased(p, holds[p].fence) \ {i[1]}
      BY <2>3, <1>1, <1>same DEF Unreleased, FenceOf
    <3>2. holds[p].count = Cardinality(Unreleased(p, holds[p].fence))
      BY <2>3 DEF Inv, CountIsUnreleased, Unreleased, FenceOf
    <3>3. CASE p # o
      <4>1. i[1] \notin Unreleased(p, holds[p].fence)
        BY <3>3, <1>o DEF Unreleased
      <4>2. Unreleased(p, holds[p].fence) \ {i[1]} = Unreleased(p, holds[p].fence)
        BY <4>1
      <4> QED BY <3>1, <3>2, <3>3, <4>2, <2>3
    <3>4. CASE p = o
      <4>1. i[1] \in Unreleased(o, holds[o].fence)
        BY <1>o, <1>once, <2>1 DEF Unreleased
      <4>2. Cardinality(Unreleased(o, holds[o].fence) \ {i[1]})
            = Cardinality(Unreleased(o, holds[o].fence)) - 1
        BY <4>1, UnreleasedFinite, FS_RemoveElement
      <4> QED BY <3>1, <3>2, <3>4, <4>2, <2>2
    <3> QED BY <3>3, <3>4
  <2>6. \A h \in Handles : TurnedReader(h)' => TurnedReader(h)
    BY <2>3, <1>same, IdsOfHandle DEF TurnedReader, FenceOf, Held
  <2> QED BY <1>1, <1>8, <1>same, <2>3, <2>4, <2>5, <2>6, CallStep
<1>2. CASE ~ Mine(i) /\ a = "ErrNotOwner" /\ holds' = holds /\ released' = released
  <2>1. Subsides
    BY <1>2 DEF Subsides, Held
  <2>2. CountIsUnreleased'
    BY <1>2, <1>same, CountFrame DEF Inv, FenceOf, Held
  <2>3. ~ Mine(i)'
    BY <1>2, <1>same DEF Mine
  <2>4. \A h \in Handles : TurnedReader(h)' => TurnedReader(h)
    BY <1>2, <1>same DEF TurnedReader, FenceOf, Held
  <2>5. holds' \in Table
    BY <1>2, <1>types DEF Types
  <2> QED BY <1>2, <1>8, <1>same, <2>1, <2>2, <2>3, <2>4, <2>5, CallStep
<1> QED BY <1>1, <1>2 DEF DoRelease

(* Downgrade.                                                              *)
LEMMA DoDowngradeInv ==
  ASSUME Inv, NEW i \in Ids, NEW a \in Answers,
         DoDowngrade(i, a), Answer(i, "downgrade", a), UNCHANGED <<faults, gone>>
  PROVE  Inv'
<1> DEFINE o == Owner(i)
           f == handle[i].fence
           h == i[1]
<1>types. Types
  BY DEF Inv
<1>same. UNCHANGED <<issued, handle, released>>
  BY DEF DoDowngrade
<1>now. Ending(i) /\ Unopened(i)
  BY Now
<1>mode. Mode(i) = "write"
  BY <1>now DEF Answer, Ending
<1>o. o \in Owners /\ o = OwnerOf[h] /\ h \in Handles /\ i = First(h)
  BY <1>mode, HandleOfId
<1>8. "downgrade" \in Threads \ {"acquire"}
  BY DEF Threads
<1>fences. \A g \in Handles : FenceOf(g)' = FenceOf(g)
  BY <1>same DEF FenceOf
<1>1. CASE a = "ok"
  <2>1. Mine(i) /\ holds[o].count <= 1 /\ holds' = Downgraded(holds, o)
    <3>1. Owns(holds, o, "write", f) /\ ~ holds[o].count > 1
      BY <1>1 DEF DoDowngrade, DowngradeVerdict
    <3>2. holds[o] # NoHold
      BY <3>1 DEF Owns
    <3>3. holds[o].count \in Nat
      BY <3>2, <1>o, <1>types, FencesOfHolds DEF Types, Table
    <3> QED BY <1>1, <1>mode, <3>1, <3>3 DEF DoDowngrade, Mine
  <2>2. holds[o] # NoHold /\ holds[o].fence = f /\ holds[o].mode = "write"
    BY <2>1, <1>mode DEF Mine, Owns
  <2>3. holds[o].count = 1
    <3>1. holds[o] \in Hold
      BY <2>2, <1>o, <1>types DEF Types, Table
    <3>2. holds[o].count \in Nat \ {0}
      BY <3>1, FencesOfHolds
    <3> QED BY <2>1, <3>2
  <2>4. /\ OnlyOf(holds, holds', o) /\ holds'[o] \in Hold
        /\ holds'[o].mode = "read" /\ holds'[o].fence = holds[o].fence
        /\ holds'[o].count = 1
    BY <2>1, <2>2, <1>o, <1>types, DowngradedEffect DEF Types
  <2>5. /\ holds' \in Table
        /\ \A p \in Owners : holds'[p] # NoHold =>
             /\ holds[p] # NoHold /\ holds'[p].mode \in {holds[p].mode, "read"}
             /\ p # o => holds'[p].mode = holds[p].mode
             /\ holds'[p].fence = holds[p].fence /\ holds'[p].count = holds[p].count
    BY <2>2, <2>3, <2>4 DEF OnlyOf
  <2>6. Subsides
    BY <2>5 DEF Subsides, Held
  <2>7. CountIsUnreleased'
    BY <2>5, <1>same, <1>fences, CountFrame DEF Inv, Held
  <2>8. ReadOnly(i)'
    BY <2>4 DEF ReadOnly, Owner
  <2>9. ASSUME faults = MaxFaults, NEW g \in Handles \ released', TurnedReader(g)'
        PROVE  TurnedReader(g) \/ DowngradedFor(g)'
    <3>1. CASE OwnerOf[g] # o
      BY <3>1, <2>5, <2>9, <1>fences, IdsOfHandle DEF TurnedReader, Held
    <3>2. CASE OwnerOf[g] = o
      <4>1. FenceOf(g) = f
        BY <3>2, <2>9, <2>2, <2>4, <1>fences DEF TurnedReader
      <4>2. late = {} /\ pc[i]["downgrade"] = "calling" /\ pc'[i]["downgrade"] = "ok"
        <5>1. late = {}
          BY <2>9 DEF Inv, Quiet
        <5> QED BY <5>1, <1>1, <1>types, GotoFacts DEF Answer, Threads, Labels
      <4>3. CASE h \notin released
        <5>1. Cardinality(Unreleased(o, f)) = 1
          BY <2>2, <2>3, <1>o DEF Inv, CountIsUnreleased, Unreleased, FenceOf
        <5>2. g \in Unreleased(o, f) /\ h \in Unreleased(o, f)
          BY <4>1, <4>3, <3>2, <1>o, <1>same DEF Unreleased, FenceOf
        <5>3. g = h
          <6>1. PICK x : Unreleased(o, f) = {x}
            BY <5>1, UnreleasedFinite, FS_Singleton
          <6> QED BY <5>2, <6>1
        <5> QED BY <5>3, <4>2, <1>o DEF DowngradedFor, DowngradedBy
      <4>4. CASE h \in released
        <5>1. ~ Opened(HeirOf(h))
          BY <4>2, <1>o DEF Inv, Families, Family
        <5>2. pc[First(h)]["release"] # "idle"
          BY <4>4, <5>1 DEF Inv, Settled, Served, Answers
        <5>3. HeirOf(h) \in Ids /\ HeirOf(h) # First(h)
          BY <1>o, IdsOfHandle
        <5>4. Goto(i, "downgrade", a)
          BY <4>2 DEF Answer
        <5>5. /\ \A j \in Ids \ {i} : pc'[j] = pc[j]
              /\ \A s \in Threads \ {"downgrade"} : pc'[i][s] = pc[i][s]
          BY <5>4, <1>1, <1>types, GotoFacts DEF Threads, Labels
        <5>6. pc'[First(h)]["release"] # "idle" /\ ~ Opened(HeirOf(h))'
          BY <5>1, <5>2, <5>3, <5>5, <1>o DEF Opened, Threads
        <5>7. Stranded(h)'
          BY <5>6, <4>2, <1>o DEF Stranded
        <5>8. OwnerOf[h] = OwnerOf[g] /\ FenceOf(h)' = FenceOf(g)'
          BY <4>1, <3>2, <1>o, <1>fences DEF FenceOf
        <5> QED BY <5>7, <5>8, <1>o DEF DowngradedFor
      <4> QED BY <4>3, <4>4
    <3> QED BY <3>1, <3>2
  <2> QED BY <1>1, <1>8, <1>same, <2>5, <2>6, <2>7, <2>8, <2>9, CallStep
<1>2. CASE a # "ok"
  <2>1. holds' = holds /\ a \in {"ErrNotOwner", "ErrModeConflict"}
    BY <1>2 DEF DoDowngrade, DowngradeVerdict
  <2>2. Subsides
    BY <2>1 DEF Subsides, Held
  <2>3. CountIsUnreleased'
    BY <2>1, <1>same, <1>fences, CountFrame DEF Inv, Held
  <2>4. a = "ErrNotOwner" => ~ Mine(i)'
    <3>1. a = "ErrNotOwner" => ~ Owns(holds, o, "write", f)
      BY DEF DoDowngrade, DowngradeVerdict
    <3> QED BY <3>1, <2>1, <1>mode, <1>same DEF Mine, Mode, Owner
  <2>5. \A g \in Handles : TurnedReader(g)' => TurnedReader(g)
    BY <2>1, <1>fences DEF TurnedReader, Held
  <2>6. holds' \in Table
    BY <2>1, <1>types DEF Types
  <2> QED BY <1>2, <1>8, <1>same, <2>1, <2>2, <2>3, <2>4, <2>5, <2>6, CallStep
<1> QED BY <1>1, <1>2

(* TryAcquire.  Only the first of a family asks, and has nothing yet.      *)
LEMMA AskerFacts ==
  ASSUME Inv, NEW i \in Ids, InFlight(i, "acquire"), NEW h, h = i[1]
  PROVE  /\ h \in Handles \ released /\ i = First(h) /\ i[2] = "first"
         /\ handle[i].fence = 0
         /\ ~ Opened(i) /\ ~ Opened(HeirOf(h))
         /\ Owner(i) = OwnerOf[h] /\ Mode(i) = ModeOf[h]
<1>1. Acquisition(i) /\ Unopened(i) /\ Types
  BY Now
<1>2. h \in Handles /\ i = First(h) /\ i[2] = "first"
  BY <1>1, HandleOfId DEF Acquisition, InFlight
<1>3. ~ Opened(i) /\ handle[i].fence = 0
  BY <1>1 DEF Acquisition, InFlight, Opened
<1>4. ~ Opened(HeirOf(h))
  BY <1>2, <1>3 DEF Inv, Families, Family
<1>5. pc[i]["release"] = "idle"
  BY <1>1, <1>3 DEF Unopened
<1>6. h \notin released
  BY <1>2, <1>4, <1>5 DEF Inv, Settled, Served, Answers
<1> QED BY <1>2, <1>3, <1>4, <1>6, HandleOfId

LEMMA AcquireStep ==
  ASSUME Inv, NEW i \in Ids, NEW a \in {"ok", "ErrHeld", "ErrModeConflict"},
         Answer(i, "acquire", a),
         handle' \in [Ids -> HandleType],
         \A j \in Ids \ {i} : handle'[j] = handle[j],
         handle'[i].dead = handle[i].dead, handle'[i].lost = handle[i].lost,
         handle'[i].fence # 0 <=> a = "ok",
         holds' \in Table, issued' \in Nat,
         UNCHANGED <<released, faults, gone>>,
         Generations', CountIsUnreleased', Evolves,
         a = "ok" /\ Mode(i) = "read" => ReadOnly(i)',
         \A g \in Handles : TurnedReader(g)' => TurnedReader(g)
  PROVE  Inv'
<1>now. Types /\ Acquisition(i) /\ Unopened(i) /\ Ending(i)
  BY Now
<1>id. /\ i[1] \in Handles /\ i = First(i[1]) /\ i[2] = "first"
       /\ handle[i].fence = 0
       /\ ~ Opened(i) /\ ~ Opened(HeirOf(i[1]))
  BY AskerFacts DEF Answer, InFlight
<1>change. /\ pc' \in [Ids -> [Threads -> Labels]]
           /\ late' \subseteq late
           /\ \A j \in Ids \ {i} : Same(j)
           /\ \A s \in Threads \ {"acquire"} : /\ pc'[i][s] = pc[i][s]
                                               /\ <<i, s>> \in late' <=> <<i, s>> \in late
           /\ \/ /\ pc[i]["acquire"] = "calling" /\ pc'[i]["acquire"] = a
                 /\ <<i, "acquire">> \in late' <=> <<i, "acquire">> \in late
              \/ /\ <<i, "acquire">> \in late /\ <<i, "acquire">> \notin late'
                 /\ pc'[i]["acquire"] = pc[i]["acquire"]
  BY <1>now, AnswerFacts DEF Answers, Threads
<1>types. Types'
  BY <1>now, <1>change DEF Types
<1>1. Control'
  <2>1. Acquisition(i)'
    <3>1. handle'[i].fence # 0 <=> a = "ok"
      OBVIOUS
    <3>2. CASE pc[i]["acquire"] = "calling"
      <4>1. pc'[i]["acquire"] = a /\ <<i, "acquire">> \notin late'
        BY <1>now, <1>change, <3>2 DEF Acquisition
      <4> QED BY <1>id, <3>1, <4>1 DEF Acquisition
    <3>3. CASE pc[i]["acquire"] # "calling"
      <4>1. pc'[i]["acquire"] = "transport" /\ <<i, "acquire">> \notin late'
        BY <1>now, <1>change, <3>3 DEF Acquisition
      <4> QED BY <1>id, <3>1, <4>1 DEF Acquisition
    <3> QED BY <3>2, <3>3
  <2>4. Unopened(i)'
    <3>1. \A s \in Threads \ {"acquire"} : pc'[i][s] = pc[i][s] /\ (<<i, s>> \in late' <=> <<i, s>> \in late)
      BY <1>change
    <3> QED BY <1>now, <1>id, <3>1 DEF Unopened, Threads
  <2>2. Ending(i)'
    <3>1. /\ pc'[i]["release"] = pc[i]["release"]
          /\ pc'[i]["downgrade"] = pc[i]["downgrade"]
          /\ pc'[i]["watchdog"] = pc[i]["watchdog"]
          /\ <<i, "release">> \in late' <=> <<i, "release">> \in late
          /\ <<i, "downgrade">> \in late' <=> <<i, "downgrade">> \in late
      BY <1>change DEF Threads
    <3>2. handle'[i].dead <=> handle[i].dead
      OBVIOUS
    <3>3. Ending(i)
      BY <1>now
    <3> QED BY <3>1, <3>2, <3>3 DEF Ending, WatchdogGone, Mode
  <2>3. \A j \in Ids : Same(j) \/ (Acquisition(j) /\ Unopened(j) /\ Ending(j))'
    BY <1>change, <2>1, <2>2, <2>4
  <2> QED BY <2>3, ControlFrame DEF Inv
<1>2. Families'
  <2>1. Succeeds(i)
    BY <1>id DEF Succeeds
  <2> QED BY <1>change, <2>1, FamiliesFrame DEF Inv
<1>3. Settled'
  <2>1. Unsettled(i)
    BY <1>id, <1>change DEF Unsettled, Served, Threads
  <2> QED BY <1>now, <1>change, <2>1, SettledFrame DEF Inv
<1>4. Telling'
  <2>1. CASE a = "ok"
    <3>0. /\ handle[i].lost = "open" /\ handle'[i].lost = "open"
          /\ pc[i]["watchdog"] = "off"
          /\ \A s \in {"release", "refresh", "downgrade"} : pc[i][s] = "idle"
      BY <1>now, <1>id, <1>change DEF Unopened
    <3>1. ~ Refused(i)'
      BY <3>0, <1>change DEF Refused, Threads
    <3>2. Reader(i)' => ReadOnly(i)'
      BY <1>now, <1>id, <1>change, <2>1 DEF Unopened, Reader, Threads, Mode
    <3>3. Told(i)'
      BY <3>1, <3>2 DEF Told
    <3> QED BY <1>now, <1>types, <1>change, <3>3, TellingFrame DEF Inv, Generations
  <2>2. CASE a # "ok"
    <3>1. Told(i)'
      BY <1>types, <2>2, NothingTold
    <3> QED BY <1>now, <1>types, <1>change, <3>1, TellingFrame DEF Inv, Generations
  <2> QED BY <2>1, <2>2
<1>5. Quiet'
  <2>1. Calm(i)
    BY <1>now, <1>id, <1>change DEF Calm, Opened, Threads
  <2>2. \A j \in Ids : Same(j) \/ Calm(j)
    BY <2>1, <1>change
  <2>3. \A j \in Ids, s \in Threads : pc'[j][s] = "transport" => pc[j][s] = "transport"
    BY <2>1, <1>change DEF Calm, Same
  <2>4. \A j \in Ids : handle[j].fence # 0 => handle'[j].fence = handle[j].fence
    BY <1>id
  <2>5. \A h \in Handles : (DowngradedBy(h) => DowngradedBy(h)') /\ (Stranded(h) => Stranded(h)')
    BY <2>2, CalmFamily
  <2> QED BY <1>now, <1>change, <2>3, <2>4, <2>5, QuietFrame DEF Inv
<1> QED BY <1>types, <1>1, <1>2, <1>3, <1>4, <1>5 DEF Inv

(* One more of the acquisitions has a fence.                               *)
LEMMA Fenced ==
  ASSUME Types, NEW h \in Handles, FenceOf(h) = 0, FenceOf(h)' # 0,
         \A g \in Handles \ {h} : FenceOf(g)' = FenceOf(g)
  PROVE  Cardinality({g \in Handles : FenceOf(g)' # 0})
           = Cardinality({g \in Handles : FenceOf(g) # 0}) + 1
<1> DEFINE S == {g \in Handles : FenceOf(g) # 0}
<1>1. {g \in Handles : FenceOf(g)' # 0} = S \cup {h}
  OBVIOUS
<1>2. S \subseteq Handles /\ h \notin S
  OBVIOUS
<1>3. IsFiniteSet(S)
  BY <1>2, FS_Subset, HoldLifecycleAssumption
<1> HIDE DEF S
<1>4. Cardinality(S \cup {h}) = Cardinality(S) + 1
  BY <1>2, <1>3, FS_AddElement
<1> QED BY <1>1, <1>4 DEF S

(* A fresh acquisition.                                                    *)
LEMMA GrantInv ==
  ASSUME Inv, NEW i \in Ids, Answer(i, "acquire", "ok"),
         Verdict(holds, Owner(i), Mode(i)) = "grant",
         issued' = issued + 1,
         holds' = Granted(holds, Owner(i), Mode(i), issued + 1, Lease(i)),
         handle' = [handle EXCEPT ![i].fence = issued + 1],
         UNCHANGED <<released, faults, gone>>
  PROVE  Inv'
<1> DEFINE o == Owner(i)
           m == Mode(i)
           h == i[1]
           f == issued + 1
<1>types. Types /\ issued \in Nat /\ f \in Nat \ {0}
  BY DEF Inv, Types
<1>o. o \in Owners /\ m \in Modes /\ Lease(i) \in Nat \ {0}
  BY HandleOfId
<1>id. /\ h \in Handles \ released /\ i = First(h) /\ i[2] = "first"
       /\ handle[i].fence = 0 /\ o = OwnerOf[h] /\ m = ModeOf[h]
  BY AskerFacts DEF Answer, InFlight
<1>free. ~ Held(o) /\ Rivals(holds, o, m) = {}
  BY DEF Verdict, Held
<1>holds. /\ holds' \in Table /\ \A p \in Owners \ {o} : holds'[p] = holds[p]
          /\ holds'[o] # NoHold
          /\ holds'[o].mode = m /\ holds'[o].fence = f /\ holds'[o].count = 1
  BY <1>types, <1>o, GrantedEffect, NoHoldIsNone DEF Types, OnlyOf
<1>handle. /\ handle' \in [Ids -> HandleType]
           /\ \A j \in Ids \ {i} : handle'[j] = handle[j]
           /\ handle'[i].fence = f
           /\ handle'[i].dead = handle[i].dead
           /\ handle'[i].lost = handle[i].lost
  BY <1>types, FenceFacts
<1>fences. FenceOf(h)' = f /\ \A g \in Handles \ {h} : FenceOf(g)' = FenceOf(g)
  BY <1>id, <1>handle, IdsOfHandle DEF FenceOf
<1>old. /\ \A g \in Handles : FenceOf(g) \in Nat /\ FenceOf(g) <= issued
        /\ \A p \in Owners : Held(p) => holds[p].fence \in Nat \ {0} /\ holds[p].fence <= issued
  <2>1. \A g \in Handles : FenceOf(g) \in Nat /\ FenceOf(g) <= issued
    BY <1>types, IdsOfHandle DEF Inv, Generations, FencesCount, FenceOf, Types, HandleType
  <2>2. \A p \in Owners : Held(p) => holds[p] \in Hold
    BY <1>types DEF Types, Table, Held
  <2> QED BY <2>1, <2>2, FencesOfHolds DEF Inv, Generations, Apart
<1>others. \A p \in Owners \ {o} : Held(p) => m = "read" /\ holds[p].mode = "read"
  BY <1>free DEF Rivals, Held
<1> HIDE DEF o, m, h, f
<1>new. f = issued + 1 /\ issued' = f
  BY DEF f
<1>1. FencesCount'
  <2>1. Cardinality({g \in Handles : FenceOf(g)' # 0})
           = Cardinality({g \in Handles : FenceOf(g) # 0}) + 1
    BY <1>types, <1>id, <1>fences, Fenced DEF FenceOf
  <2>2. issued <= Cardinality({g \in Handles : FenceOf(g) # 0})
    BY DEF Inv, Generations, FencesCount
  <2>3. Cardinality({g \in Handles : FenceOf(g) # 0}) \in Nat
    <3>1. {g \in Handles : FenceOf(g) # 0} \subseteq Handles
      OBVIOUS
    <3> QED BY <3>1, FS_Subset, FS_CardinalityType, HoldLifecycleAssumption
  <2>4. issued' <= Cardinality({g \in Handles : FenceOf(g)' # 0})
    BY <1>types, <1>new, <2>1, <2>2, <2>3
  <2>5. ASSUME NEW j \in Ids PROVE handle'[j].fence <= issued'
    <3>1. handle[j].fence \in Nat /\ handle[j].fence <= issued
      BY <1>types DEF Types, HandleType, Inv, Generations, FencesCount
    <3> QED BY <1>types, <1>handle, <1>new, <3>1
  <2> QED BY <2>4, <2>5 DEF FencesCount
<1>2. Apart'
  <2>1. \A p \in Owners : Held(p)' => holds'[p].fence <= issued'
    BY <1>types, <1>holds, <1>old, <1>new DEF Held
  <2>2. ASSUME NEW p \in Owners, NEW q \in Owners, p # q, Held(p)', Held(q)'
        PROVE  /\ holds'[p].fence # holds'[q].fence
               /\ holds'[p].mode = "read" /\ holds'[q].mode = "read"
    <3>1. CASE p # o /\ q # o
      BY <2>2, <3>1, <1>holds DEF Held, Inv, Generations, Apart
    <3>2. CASE p = o
      BY <2>2, <3>2, <1>types, <1>holds, <1>old, <1>new, <1>others DEF Held
    <3>3. CASE q = o
      BY <2>2, <3>3, <1>types, <1>holds, <1>old, <1>new, <1>others DEF Held
    <3> QED BY <3>1, <3>2, <3>3
  <2> QED BY <2>1, <2>2 DEF Apart
<1>3. FencesName'
  <2>1. ASSUME NEW g \in Handles, NEW k \in Handles, FenceOf(g)' = FenceOf(k)', FenceOf(k)' # 0
        PROVE  OwnerOf[g] = OwnerOf[k]
    <3>1. CASE g # h /\ k # h
      BY <2>1, <3>1, <1>fences DEF Inv, Generations, FencesName
    <3>2. CASE g = h \/ k = h
      BY <2>1, <3>2, <1>types, <1>fences, <1>old, <1>new
    <3> QED BY <3>1, <3>2
  <2>2. ASSUME NEW g \in Handles, NEW p \in Owners, Held(p)', FenceOf(g)' = holds'[p].fence
        PROVE  OwnerOf[g] = p
    <3>1. CASE g # h /\ p # o
      BY <2>2, <3>1, <1>fences, <1>holds DEF Held, Inv, Generations, FencesName
    <3>2. CASE g = h \/ p = o
      BY <2>2, <3>2, <1>types, <1>fences, <1>old, <1>new, <1>holds, <1>id DEF Held
    <3> QED BY <3>1, <3>2
  <2> QED BY <2>1, <2>2 DEF FencesName
<1>4. Younger'
  <2> SUFFICES ASSUME NEW g \in Handles, NEW p \in Owners,
                      Held(p)', OwnerOf[g] # p, FenceOf(g)' > holds'[p].fence
               PROVE  holds'[p].mode = "read" /\ ModeOf[g] = "read"
    BY DEF Younger
  <2>1. p # o
    BY <1>types, <1>fences, <1>old, <1>new, <1>holds
  <2>2. CASE g = h
    BY <2>1, <2>2, <1>holds, <1>others, <1>id DEF Held
  <2>3. CASE g # h
    BY <2>1, <2>3, <1>holds, <1>fences DEF Held, Inv, Generations, Younger
  <2> QED BY <2>2, <2>3
<1>5. CountIsUnreleased'
  <2> SUFFICES ASSUME NEW p \in Owners, holds'[p] # NoHold
               PROVE  holds'[p].count =
                      Cardinality({g \in Handles \ released' :
                        OwnerOf[g] = p /\ handle'[First(g)].fence = holds'[p].fence})
    BY DEF CountIsUnreleased
  <2> DEFINE S == {g \in Handles \ released' :
                     OwnerOf[g] = p /\ handle'[First(g)].fence = holds'[p].fence}
  <2>1. S = {g \in Handles \ released : OwnerOf[g] = p /\ FenceOf(g)' = holds'[p].fence}
    BY DEF FenceOf
  <2>2. CASE p = o
    <3>1. \A g \in Handles \ {h} : FenceOf(g)' # f
      BY <1>types, <1>fences, <1>old, <1>new
    <3>2. S = {h}
      BY <2>1, <2>2, <3>1, <1>fences, <1>holds, <1>id
    <3> QED BY <2>2, <3>2, <1>holds, FS_Singleton
  <2>3. CASE p # o
    <3>1. holds'[p] = holds[p] /\ Held(p)
      BY <2>3, <1>holds DEF Held
    <3>2. S = {g \in Handles \ released : OwnerOf[g] = p /\ FenceOf(g) = holds[p].fence}
      BY <2>1, <2>3, <3>1, <1>fences, <1>id
    <3> QED BY <3>1, <3>2 DEF Inv, CountIsUnreleased, FenceOf, Held
  <2> QED BY <2>2, <2>3
<1>6. Evolves
  BY <1>types, <1>holds, <1>new DEF Evolves, Held
<1>7. m = "read" => ReadOnly(i)'
  BY <1>holds DEF ReadOnly, o, Owner
<1>8. ASSUME NEW g \in Handles, TurnedReader(g)' PROVE TurnedReader(g)
  <2>1. OwnerOf[g] \in Owners
    BY IdsOfHandle
  <2>2. CASE OwnerOf[g] = o
    <3>1. FenceOf(g)' = f
      BY <1>8, <2>2, <1>holds DEF TurnedReader
    <3>2. g = h
      BY <3>1, <1>types, <1>fences, <1>old, <1>new
    <3> QED BY <1>8, <2>2, <3>2, <1>holds, <1>id DEF TurnedReader
  <2>3. CASE OwnerOf[g] # o
    BY <1>8, <2>1, <2>3, <1>holds, <1>fences, <1>id DEF TurnedReader, Held
  <2> QED BY <2>2, <2>3
<1>9. handle'[i].fence # 0 /\ issued' \in Nat
  BY <1>types, <1>handle, <1>new
<1>10. Generations'
  BY <1>1, <1>2, <1>3, <1>4 DEF Generations
<1>11. "ok" = "ok" /\ Mode(i) = "read" => ReadOnly(i)'
  BY <1>7 DEF m
<1> QED BY <1>handle, <1>holds, <1>5, <1>6, <1>8, <1>9, <1>10, <1>11, AcquireStep

(* A reentry.                                                              *)
LEMMA ReenterInv ==
  ASSUME Inv, NEW i \in Ids, Answer(i, "acquire", "ok"),
         Verdict(holds, Owner(i), Mode(i)) = "reenter",
         holds' = Reentered(holds, Owner(i), Lease(i)),
         handle' = [handle EXCEPT ![i].fence = holds[Owner(i)].fence],
         UNCHANGED <<issued, released, faults, gone>>
  PROVE  Inv'
<1> DEFINE o == Owner(i)
           m == Mode(i)
           h == i[1]
           f == holds[o].fence
<1>types. Types /\ issued \in Nat
  BY DEF Inv, Types
<1>o. o \in Owners /\ m \in Modes /\ Lease(i) \in Nat \ {0}
  BY HandleOfId
<1>id. /\ h \in Handles \ released /\ i = First(h) /\ i[2] = "first"
       /\ handle[i].fence = 0 /\ o = OwnerOf[h] /\ m = ModeOf[h]
  BY AskerFacts DEF Answer, InFlight
<1>held. Held(o) /\ holds[o].mode = m
  BY DEF Verdict, Held
<1>f. holds[o] \in Hold /\ f \in Nat \ {0} /\ holds[o].count \in Nat
  <2>1. holds[o] \in Hold
    BY <1>held, <1>types, <1>o DEF Held, Types, Table
  <2> QED BY <2>1, FencesOfHolds
<1>holds. /\ holds' \in Table /\ \A p \in Owners \ {o} : holds'[p] = holds[p]
          /\ holds'[o] # NoHold
          /\ holds'[o].mode = m /\ holds'[o].fence = f
          /\ holds'[o].count = holds[o].count + 1
  BY <1>types, <1>o, <1>held, ReenteredEffect, NoHoldIsNone DEF Types, OnlyOf, Held
<1>handle. /\ handle' \in [Ids -> HandleType]
           /\ \A j \in Ids \ {i} : handle'[j] = handle[j]
           /\ handle'[i].fence = f
           /\ handle'[i].dead = handle[i].dead
           /\ handle'[i].lost = handle[i].lost
  BY <1>types, <1>f, FenceFacts
<1>fences. FenceOf(h)' = f /\ \A g \in Handles \ {h} : FenceOf(g)' = FenceOf(g)
  BY <1>id, <1>handle, IdsOfHandle DEF FenceOf
<1>same. \A p \in Owners : Held(p)' <=> Held(p)
  BY <1>holds, <1>held DEF Held
<1>kept. \A p \in Owners : holds'[p].fence = holds[p].fence /\ holds'[p].mode = holds[p].mode
  BY <1>holds, <1>held
<1>apart. /\ f <= issued
          /\ \A p \in Owners \ {o} : Held(p) =>
               f # holds[p].fence /\ m = "read" /\ holds[p].mode = "read"
  BY <1>o, <1>held DEF Inv, Generations, Apart
<1> HIDE DEF o, m, h, f
<1>1. FencesCount'
  <2>1. Cardinality({g \in Handles : FenceOf(g)' # 0})
           = Cardinality({g \in Handles : FenceOf(g) # 0}) + 1
    BY <1>types, <1>id, <1>f, <1>fences, Fenced DEF FenceOf
  <2>2. issued <= Cardinality({g \in Handles : FenceOf(g) # 0})
    BY DEF Inv, Generations, FencesCount
  <2>3. Cardinality({g \in Handles : FenceOf(g) # 0}) \in Nat
    <3>1. {g \in Handles : FenceOf(g) # 0} \subseteq Handles
      OBVIOUS
    <3> QED BY <3>1, FS_Subset, FS_CardinalityType, HoldLifecycleAssumption
  <2>4. issued' <= Cardinality({g \in Handles : FenceOf(g)' # 0})
    BY <1>types, <2>1, <2>2, <2>3
  <2>5. ASSUME NEW j \in Ids PROVE handle'[j].fence <= issued'
    BY <1>handle, <1>apart DEF Inv, Generations, FencesCount
  <2> QED BY <2>4, <2>5 DEF FencesCount
<1>2. Apart'
  BY <1>same, <1>kept DEF Inv, Generations, Apart
<1>named. \A g \in Handles : FenceOf(g) = f => OwnerOf[g] = o
  BY <1>o, <1>held DEF Inv, Generations, FencesName, f
<1>3. FencesName'
  <2>1. ASSUME NEW g \in Handles, NEW k \in Handles, FenceOf(g)' = FenceOf(k)', FenceOf(k)' # 0
        PROVE  OwnerOf[g] = OwnerOf[k]
    <3>1. CASE g # h /\ k # h
      BY <2>1, <3>1, <1>fences DEF Inv, Generations, FencesName
    <3>2. CASE g = h \/ k = h
      BY <2>1, <3>2, <1>fences, <1>named, <1>id
    <3> QED BY <3>1, <3>2
  <2>2. ASSUME NEW g \in Handles, NEW p \in Owners, Held(p)', FenceOf(g)' = holds'[p].fence
        PROVE  OwnerOf[g] = p
    <3>1. CASE g # h
      BY <2>2, <3>1, <1>fences, <1>same, <1>kept DEF Inv, Generations, FencesName
    <3>2. CASE g = h
      BY <2>2, <3>2, <1>fences, <1>same, <1>kept, <1>apart, <1>id
    <3> QED BY <3>1, <3>2
  <2> QED BY <2>1, <2>2 DEF FencesName
<1>4. Younger'
  <2> SUFFICES ASSUME NEW g \in Handles, NEW p \in Owners,
                      Held(p)', OwnerOf[g] # p, FenceOf(g)' > holds'[p].fence
               PROVE  holds'[p].mode = "read" /\ ModeOf[g] = "read"
    BY DEF Younger
  <2>1. CASE g = h
    BY <2>1, <1>same, <1>kept, <1>apart, <1>id
  <2>2. CASE g # h
    BY <2>2, <1>same, <1>kept, <1>fences DEF Inv, Generations, Younger
  <2> QED BY <2>1, <2>2
<1>5. CountIsUnreleased'
  <2> SUFFICES ASSUME NEW p \in Owners, holds'[p] # NoHold
               PROVE  holds'[p].count =
                      Cardinality({g \in Handles \ released' :
                        OwnerOf[g] = p /\ handle'[First(g)].fence = holds'[p].fence})
    BY DEF CountIsUnreleased
  <2> DEFINE S == {g \in Handles \ released' :
                     OwnerOf[g] = p /\ handle'[First(g)].fence = holds'[p].fence}
  <2>1. S = {g \in Handles \ released : OwnerOf[g] = p /\ FenceOf(g)' = holds[p].fence}
    BY <1>kept DEF FenceOf
  <2>2. Held(p) /\ holds[p].count = Cardinality(Unreleased(p, holds[p].fence))
    BY <1>same DEF Inv, CountIsUnreleased, FenceOf, Held, Unreleased
  <2>3. CASE p = o
    <3>1. S = Unreleased(o, f) \cup {h}
      BY <2>1, <2>3, <1>fences, <1>id DEF Unreleased, f
    <3>2. h \notin Unreleased(o, f)
      BY <1>f, <1>id DEF Unreleased, FenceOf
    <3>3. Cardinality(Unreleased(o, f) \cup {h}) = Cardinality(Unreleased(o, f)) + 1
      BY <3>2, UnreleasedFinite, FS_AddElement
    <3>4. holds[o].count = Cardinality(Unreleased(o, f))
      BY <2>2, <2>3 DEF f
    <3> HIDE DEF S
    <3>5. Cardinality(S) = holds[o].count + 1
      BY <3>1, <3>3, <3>4
    <3> QED BY <2>3, <3>5, <1>holds DEF S
  <2>4. CASE p # o
    <3>1. S = Unreleased(p, holds[p].fence)
      BY <2>1, <2>4, <1>fences, <1>id DEF Unreleased, FenceOf
    <3> QED BY <2>2, <2>4, <3>1, <1>holds
  <2> QED BY <2>3, <2>4
<1>6. Evolves
  BY <1>same, <1>kept DEF Evolves, Held
<1>7. m = "read" => ReadOnly(i)'
  BY <1>holds DEF ReadOnly, o, Owner
<1>8. ASSUME NEW g \in Handles, TurnedReader(g)' PROVE TurnedReader(g)
  <2>1. OwnerOf[g] \in Owners
    BY IdsOfHandle
  <2>2. CASE g = h
    BY <1>8, <2>2, <1>holds, <1>id DEF TurnedReader
  <2>3. CASE g # h
    BY <1>8, <2>1, <2>3, <1>same, <1>kept, <1>fences DEF TurnedReader
  <2> QED BY <2>2, <2>3
<1>9. handle'[i].fence # 0 /\ issued' \in Nat
  BY <1>types, <1>f, <1>handle
<1>10. Generations'
  BY <1>1, <1>2, <1>3, <1>4 DEF Generations
<1>11. "ok" = "ok" /\ Mode(i) = "read" => ReadOnly(i)'
  BY <1>7 DEF m
<1> QED BY <1>handle, <1>holds, <1>5, <1>6, <1>8, <1>9, <1>10, <1>11, AcquireStep

(* A refusal.                                                              *)
LEMMA RefusalInv ==
  ASSUME Inv, NEW i \in Ids, NEW a \in {"ErrHeld", "ErrModeConflict"}, Answer(i, "acquire", a),
         UNCHANGED <<holds, issued, handle, released, faults, gone>>
  PROVE  Inv'
<1>types. Types
  BY DEF Inv
<1>id. handle[i].fence = 0
  BY AskerFacts DEF Answer, InFlight
<1>fences. \A h \in Handles : FenceOf(h)' = FenceOf(h)
  BY DEF FenceOf
<1>1. Generations'
  <2>1. FencesCount' /\ Apart'
    BY DEF Inv, Generations, FencesCount, Apart, FenceOf, Held
  <2>2. FencesName' /\ Younger'
    BY DEF Inv, Generations, FencesName, Younger, FenceOf, Held
  <2> QED BY <2>1, <2>2 DEF Generations
<1>2. CountIsUnreleased'
  BY <1>fences, CountFrame DEF Inv, Held
<1>3. Evolves
  BY DEF Evolves, Held
<1>4. \A g \in Handles : TurnedReader(g)' => TurnedReader(g)
  BY DEF TurnedReader, FenceOf, Held
<1>5. handle'[i].fence # 0 <=> a = "ok"
  BY <1>id
<1>6. holds' \in Table /\ issued' \in Nat /\ handle' \in [Ids -> HandleType]
  BY <1>types DEF Types
<1>7. a \in {"ok", "ErrHeld", "ErrModeConflict"} /\ a # "ok"
  OBVIOUS
<1> QED BY <1>1, <1>2, <1>3, <1>4, <1>5, <1>6, <1>7, AcquireStep

LEMMA DoInv ==
  ASSUME Inv, NEW i \in Ids, NEW t \in Threads, NEW a \in Answers,
         Do(i, t, a), Answer(i, t, a), UNCHANGED <<faults, gone>>
  PROVE  Inv'
<1>1. CASE t = "acquire" /\ DoAcquire(i, a)
  <2>1. CASE a = "ok"
    <3>1. released' = released
      BY <1>1 DEF DoAcquire
    <3>2. \/ /\ Verdict(holds, Owner(i), Mode(i)) = "grant"
             /\ issued' = issued + 1
             /\ holds' = Granted(holds, Owner(i), Mode(i), issued + 1, Lease(i))
             /\ handle' = [handle EXCEPT ![i].fence = issued + 1]
          \/ /\ Verdict(holds, Owner(i), Mode(i)) = "reenter"
             /\ holds' = Reentered(holds, Owner(i), Lease(i))
             /\ handle' = [handle EXCEPT ![i].fence = holds[Owner(i)].fence]
             /\ issued' = issued
      BY <1>1, <2>1 DEF DoAcquire
    <3> QED BY <1>1, <2>1, <3>1, <3>2, GrantInv, ReenterInv
  <2>2. CASE a # "ok"
    <3>1. a \in {"ErrHeld", "ErrModeConflict"} /\ UNCHANGED <<holds, issued, handle, released>>
      BY <1>1, <2>2 DEF DoAcquire
    <3> QED BY <1>1, <3>1, RefusalInv
  <2> QED BY <2>1, <2>2
<1>2. CASE t \in {"refresh", "watchdog"} /\ DoRefresh(i, a)
  BY <1>2, DoRefreshInv
<1>3. CASE t = "release" /\ DoRelease(i, a)
  BY <1>3, DoReleaseInv
<1>4. CASE t = "downgrade" /\ DoDowngrade(i, a)
  BY <1>4, DoDowngradeInv
<1> QED BY <1>1, <1>2, <1>3, <1>4 DEF Do

-----------------------------------------------------------------------------

LEMMA InitInv == Init => Inv
<1> SUFFICES ASSUME Init PROVE Inv
  OBVIOUS
<1>id. \A h \in Handles : First(h) \in Ids /\ HeirOf(h) \in Ids
  BY IdsOfHandle
<1>handle. \A i \in Ids : handle[i].fence = 0 /\ ~ handle[i].dead /\ handle[i].lost = "open"
  BY DEF Init, NewHandle
<1>pc. \A i \in Ids : /\ pc[i]["watchdog"] = "off"
                      /\ \A t \in Threads \ {"watchdog"} : pc[i][t] = "idle"
  BY DEF Init, Threads
<1>holds. holds \in Table /\ \A o \in Owners : ~ Held(o) /\ holds[o].fence = 0
  BY FencesOfHolds DEF Init, Vacant, Held, Table
<1>rest. issued = 0 /\ late = {} /\ released = {}
  BY DEF Init
<1>1. Types
  <2>1. NewHandle \in HandleType
    BY DEF NewHandle, HandleType, Reasons
  <2> QED BY <1>holds, <2>1, HoldLifecycleAssumption
          DEF Init, Types, Labels, Threads
<1>2. Control
  <2> SUFFICES ASSUME NEW i \in Ids PROVE Acquisition(i) /\ Unopened(i) /\ Ending(i)
    BY DEF Control
  <2>1. Acquisition(i)
    BY <1>pc, <1>handle, <1>rest DEF Acquisition, Threads
  <2>2. Unopened(i)
    BY <1>pc, <1>handle, <1>rest DEF Unopened, Threads
  <2>3. Ending(i)
    BY <1>pc, <1>handle, <1>rest DEF Ending, Threads
  <2> QED BY <2>1, <2>2, <2>3
<1>3. Families
  BY <1>id, <1>pc DEF Families, Family, Opened, Threads
<1>4. Generations
  <2>1. FencesCount
    <3>1. {h \in Handles : FenceOf(h) # 0} \subseteq Handles
      OBVIOUS
    <3>2. Cardinality({h \in Handles : FenceOf(h) # 0}) \in Nat
      BY <3>1, FS_Subset, FS_CardinalityType, HoldLifecycleAssumption
    <3> QED BY <3>2, <1>handle, <1>rest DEF FencesCount
  <2>2. Apart /\ FencesName /\ Younger
    BY <1>id, <1>handle, <1>holds DEF Apart, FencesName, Younger, FenceOf
  <2> QED BY <2>1, <2>2 DEF Generations
<1>5. CountIsUnreleased
  BY <1>holds DEF CountIsUnreleased, Held
<1>6. Settled
  BY <1>rest, <1>pc DEF Settled, Threads
<1>7. Telling
  <2> SUFFICES ASSUME NEW i \in Ids PROVE Told(i)
    BY DEF Telling
  <2>1. ~ Refused(i)
    BY <1>handle, <1>pc DEF Refused, Threads
  <2>2. ~ Reader(i)
    BY <1>handle DEF Reader
  <2> QED BY <2>1, <2>2 DEF Told
<1>8. Quiet
  <2>1. gone = {}
    BY DEF Init
  <2>2. \A h \in Handles : ~ TurnedReader(h)
    BY <1>holds, IdsOfHandle DEF TurnedReader
  <2>3. \A i \in Ids, t \in Threads : pc[i][t] # "transport"
    BY <1>pc DEF Threads
  <2> QED BY <1>rest, <2>1, <2>2, <2>3 DEF Quiet
<1> QED BY <1>1, <1>2, <1>3, <1>4, <1>5, <1>6, <1>7, <1>8 DEF Inv

LEMMA NextInv == Inv /\ [Next]_vars => Inv'
<1> SUFFICES ASSUME Inv, [Next]_vars PROVE Inv'
  OBVIOUS
<1>1. ASSUME NEW i \in Ids, NEW t \in Threads, Serve(i, t) PROVE Inv'
  <2>1. PICK a \in Answers : Do(i, t, a) /\ Goto(i, t, a)
    BY <1>1 DEF Serve
  <2>2. Answer(i, t, a) /\ UNCHANGED <<faults, gone>>
    BY <1>1, <2>1 DEF Serve, Answer
  <2> QED BY <2>1, <2>2, DoInv
<1>2. ASSUME NEW i \in Ids, NEW t \in Threads, ServeLate(i, t) PROVE Inv'
  <2>1. PICK a \in Answers : Do(i, t, a)
    BY <1>2 DEF ServeLate
  <2>2. Answer(i, t, a) /\ UNCHANGED <<faults, gone>>
    BY <1>2 DEF ServeLate, Answer
  <2> QED BY <2>1, <2>2, DoInv
<1>3. ASSUME NEW i \in Ids, NEW t \in Threads, Timeout(i, t) PROVE Inv'
  BY <1>3, TimeoutInv
<1>4. ASSUME NEW h \in Handles, Crash(h) \/ AcquireCall(h) \/ AcquireRetry(h) \/ AcquireReturn(h)
      PROVE  Inv'
  BY <1>4, CrashInv, AcquireCallInv, AcquireRetryInv, AcquireReturnInv
<1>5. ASSUME NEW i \in Ids, ReleaseCall(i) \/ ReleaseSend(i) \/ RefreshCall(i) \/ RefreshReturn(i)
      PROVE  Inv'
  BY <1>5, ReleaseCallInv, ReleaseSendInv, RefreshCallInv, RefreshReturnInv
<1>6. ASSUME NEW i \in Ids,
             DowngradeCall(i) \/ DowngradeFail(i) \/ DowngradeTake(i) \/ DowngradeHandOver(i)
      PROVE  Inv'
  BY <1>6, DowngradeCallInv, DowngradeFailInv, DowngradeTakeInv, HandOverInv
<1>7. ASSUME NEW i \in Ids, WatchdogWake(i) \/ WatchdogReturn(i) PROVE Inv'
  BY <1>7, WatchdogWakeInv, WatchdogReturnInv
<1>8. CASE UNCHANGED vars
  <2>1. UNCHANGED <<holds, issued, handle, pc, late, faults, gone, released>>
    BY <1>8 DEF vars
  <2>2. Types' /\ Subsides
    BY <2>1 DEF Inv, Types, Subsides, Held
  <2>3. Quiet'
    BY <2>1, QuietFrame DEF Inv, TurnedReader, DowngradedBy, Stranded, Opened, FenceOf, Held
  <2> QED BY <2>1, <2>2, <2>3, WorldStep DEF Held
<1> QED BY <1>1, <1>2, <1>3, <1>4, <1>5, <1>6, <1>7, <1>8, TickInv, DropInv DEF Next

LEMMA Invariance == Spec => []Inv
<1>1. Init => Inv
  BY InitInv
<1>2. Inv /\ [Next]_vars => Inv'
  BY NextInv
<1> QED BY <1>1, <1>2, PTL DEF Spec

(* The variables have their types: as many generations as handles at most, *)
(* and no handle has a fence that was not issued.                          *)
THEOREM TypeCorrect == Spec => []TypeOK
<1>1. Inv => TypeOK
  <2> SUFFICES ASSUME Inv PROVE TypeOK
    OBVIOUS
  <2>1. Types /\ FencesCount
    BY DEF Inv, Generations
  <2>2. issued \in 0 .. Cardinality(Handles)
    <3> DEFINE S == {h \in Handles : FenceOf(h) # 0}
    <3>1. S \subseteq Handles
      OBVIOUS
    <3> HIDE DEF S
    <3>2. /\ Cardinality(S) \in Nat /\ Cardinality(Handles) \in Nat
          /\ Cardinality(S) <= Cardinality(Handles)
      BY <3>1, FS_Subset, FS_CardinalityType, HoldLifecycleAssumption
    <3>3. issued \in Nat /\ issued <= Cardinality(S)
      BY <2>1 DEF Types, FencesCount, S
    <3> QED BY <3>2, <3>3
  <2>3. handle \in [Ids -> [fence : 0 .. issued, dead : BOOLEAN,
                            lost : {"open", "ended", "ErrNotOwner", "transport"}]]
    <3>1. handle = [i \in Ids |-> handle[i]]
      BY <2>1 DEF Types
    <3>2. ASSUME NEW i \in Ids
          PROVE  handle[i] \in [fence : 0 .. issued, dead : BOOLEAN,
                                lost : {"open", "ended", "ErrNotOwner", "transport"}]
      <4>1. handle[i] \in HandleType
        BY <2>1 DEF Types
      <4>2. handle[i].fence \in 0 .. issued
        BY <2>1, <4>1 DEF HandleType, FencesCount, Types
      <4> QED BY <4>1, <4>2 DEF HandleType, Reasons
    <3> QED BY <3>1, <3>2
  <2> QED BY <2>1, <2>2, <2>3 DEF Types, TypeOK, Table
<1> QED BY <1>1, Invariance, PTL

(* Of two processes that think they hold conflicting locks, the one that   *)
(* the backend backs has the greater fence, whatever was lost or late.     *)
THEOREM FencesOrder == Spec => []FencingOrdersConflict
<1>1. Inv => FencingOrdersConflict
  <2> SUFFICES ASSUME Inv, NEW i \in Ids, NEW j \in Ids,
                      Usable(i), Usable(j), Conflicting(i, j), Mine(j)
               PROVE  ~ Mine(i) /\ handle[i].fence < handle[j].fence
    BY DEF FencingOrdersConflict
  <2> DEFINE g == i[1]
             h == j[1]
             o == Owner(i)
             p == Owner(j)
  <2>1. /\ g \in Handles /\ h \in Handles /\ o \in Owners /\ p \in Owners
        /\ o = OwnerOf[g] /\ p = OwnerOf[h] /\ o # p
        /\ ModeOf[g] = "read" => Mode(i) = "read"
        /\ ~ (Mode(i) = "read" /\ Mode(j) = "read")
    BY HandleOfId DEF Conflicting
  <2>2. FenceOf(g) = handle[i].fence /\ FenceOf(h) = handle[j].fence
    <3>1. ASSUME NEW k \in Ids, Opened(k) PROVE FenceOf(k[1]) = handle[k].fence
      <4>1. Family(k[1])
        BY HandleOfId DEF Inv, Families
      <4> QED BY <3>1, <4>1, HandleOfId DEF Family, FenceOf
    <3> QED BY <3>1 DEF Usable
  <2>3. Held(p) /\ holds[p].mode = Mode(j) /\ holds[p].fence = FenceOf(h)
    BY <2>2 DEF Mine, Owns, Held
  <2>4. ~ Mine(i)
    <3>1. Mine(i) => Held(o) /\ holds[o].mode = Mode(i)
      BY DEF Mine, Owns, Held
    <3>2. Held(o) => holds[o].mode = "read" /\ holds[p].mode = "read"
      BY <2>1, <2>3 DEF Inv, Generations, Apart
    <3> QED BY <2>1, <2>3, <3>1, <3>2
  <2>5. ~ FenceOf(g) > FenceOf(h)
    <3>1. FenceOf(g) > FenceOf(h) => holds[p].mode = "read" /\ ModeOf[g] = "read"
      BY <2>1, <2>3 DEF Inv, Generations, Younger
    <3> QED BY <2>1, <2>3, <3>1
  <2>6. FenceOf(g) # FenceOf(h)
    BY <2>1, <2>3 DEF Inv, Generations, FencesName
  <2>7. FenceOf(g) \in Nat /\ FenceOf(h) \in Nat
    BY <2>1, IdsOfHandle DEF FenceOf, Inv, Types, HandleType
  <2> QED BY <2>2, <2>4, <2>5, <2>6, <2>7
<1> QED BY <1>1, Invariance, PTL

(* Release reaches the backend only after the watchdog has come to rest,   *)
(* and the watchdogs of a write lock and of its heir never overlap.        *)
THEOREM OneRenewal == Spec => []OneRenewalPerHold
<1>1. Inv => OneRenewalPerHold
  <2> SUFFICES ASSUME Inv, NEW i \in Ids
               PROVE  /\ pc[i]["release"] = "calling" => WatchdogGone(i)
                      /\ i[2] = "first" /\ ~ WatchdogGone(Heir(i)) => WatchdogGone(i)
    BY DEF OneRenewalPerHold
  <2>1. pc[i]["release"] = "calling" => WatchdogGone(i)
    BY DEF Inv, Control, Ending
  <2>2. ASSUME i[2] = "first", ~ WatchdogGone(Heir(i)) PROVE WatchdogGone(i)
    <3>1. i[1] \in Handles /\ Heir(i) = HeirOf(i[1]) /\ HeirOf(i[1]) \in Ids
      BY HandleOfId, IdsOfHandle
    <3>2. Opened(HeirOf(i[1]))
      BY <2>2, <3>1 DEF Inv, Control, Unopened, WatchdogGone
    <3> QED BY <2>2, <3>2, Now
  <2> QED BY <2>1, <2>2
<1> QED BY <1>1, Invariance, PTL

(* The count of a live hold is the number of acquisitions of its           *)
(* generation that have not been released.                                 *)
THEOREM Counting == Spec => []CountIsUnreleased
<1>1. Inv => CountIsUnreleased
  BY DEF Inv
<1> QED BY <1>1, Invariance, PTL

(* A lost alarm for ErrNotOwner is true when it goes off, and for ever.    *)
THEOREM AlarmsAreTrue == Spec => []AlarmMeansLoss
<1>1. Inv => AlarmMeansLoss
  BY DEF Inv, Telling, Told, Refused, AlarmMeansLoss
<1> QED BY <1>1, Invariance, PTL

(* As long as no fault has happened, every live hold has a handle that can *)
(* give it back, but for a Release that has overtaken a Downgrade.         *)
THEOREM NothingLeaks == Spec => []EveryHoldIsReleasable
<1>1. Inv => EveryHoldIsReleasable
  <2> SUFFICES ASSUME Inv, faults = MaxFaults, NEW o \in Owners, Held(o)
               PROVE  \E i \in Ids :
                        /\ Owner(i) = o
                        /\ handle[First(i[1])].fence = holds[o].fence
                        /\ (Mode(i) = holds[o].mode /\ Releasable(i)) \/ Overtaken(i)
    BY DEF EveryHoldIsReleasable, Held
  <2> DEFINE Fits(i) == /\ Owner(i) = o
                        /\ handle[First(i[1])].fence = holds[o].fence
                        /\ (Mode(i) = holds[o].mode /\ Releasable(i)) \/ Overtaken(i)
             f == holds[o].fence
  <2>hold. holds[o] \in Hold /\ f \in Nat \ {0} /\ holds[o].count \in Nat \ {0} /\ holds[o].mode \in Modes
    <3>1. holds[o] \in Hold
      BY DEF Inv, Types, Table, Held
    <3> QED BY <3>1, FencesOfHolds, NoHoldIsNone
  <2>quiet. /\ late = {} /\ gone = {}
            /\ \A i \in Ids, t \in Threads : pc[i][t] # "transport"
            /\ \A h \in Handles \ released : TurnedReader(h) => DowngradedFor(h)
    BY DEF Inv, Quiet
  <2>1. PICK h \in Handles \ released : OwnerOf[h] = o /\ FenceOf(h) = f
    <3>1. holds[o].count = Cardinality(Unreleased(o, f))
      BY DEF Inv, CountIsUnreleased, Unreleased, FenceOf, Held
    <3>2. Unreleased(o, f) # {}
      BY <3>1, <2>hold, FS_EmptySet
    <3> QED BY <3>2 DEF Unreleased
  <2> DEFINE i == First(h)
             k == HeirOf(h)
  <2>id. /\ i \in Ids /\ i[1] = h /\ k \in Ids /\ k[1] = h /\ k[2] = "heir"
         /\ Owner(i) = o /\ Owner(k) = o /\ Mode(i) = ModeOf[h] /\ Mode(k) = "read"
         /\ k # i
    BY <2>1, IdsOfHandle
  <2>now. /\ Acquisition(i) /\ Unopened(i) /\ Ending(i) /\ Told(i)
          /\ Acquisition(k) /\ Unopened(k) /\ Ending(k) /\ Told(k)
          /\ Family(h)
    BY <2>id, <2>1, Now DEF Inv, Families
  <2>fence. handle[i].fence = f /\ handle[First(k[1])].fence = f /\ handle[First(i[1])].fence = f
    BY <2>1, <2>id DEF FenceOf
  <2>alive. Alive(i) /\ Alive(k)
    BY <2>quiet DEF Alive
  <2>2. \* The release of an id that still fits the hold has not been answered.
        ASSUME NEW x \in {i, k}, Mode(x) = holds[o].mode, handle[x].fence = f
        PROVE  pc[x]["release"] \in {"idle", "stopping", "calling"}
    <3>1. x \in Ids /\ Told(x) /\ Ending(x) /\ Owner(x) = o /\ x[1] = h
      BY <2>id, <2>now
    <3>2. Mine(x)
      BY <2>2, <3>1 DEF Mine, Owns, Held
    <3>3. pc[x]["release"] # "ErrNotOwner"
      BY <3>1, <3>2 DEF Told, Refused
    <3>4. pc[x]["release"] # "ok"
      BY <3>1, <2>1 DEF Inv, Settled
    <3>5. pc[x]["release"] # "transport"
      BY <3>1, <2>quiet DEF Threads
    <3> QED BY <3>1, <3>3, <3>4, <3>5 DEF Ending
  <2>3. ASSUME NEW x \in {i, k}, Mode(x) = holds[o].mode, handle[x].fence = f
        PROVE  Fits(x)
    <3>1. /\ x \in Ids /\ Told(x) /\ Ending(x) /\ Acquisition(x)
          /\ Owner(x) = o /\ x[1] = h /\ Alive(x)
      BY <2>id, <2>now, <2>alive
    <3>2. pc[x]["acquire"] \in {"ok", "done"}
      BY <3>1, <2>3, <2>hold, <2>quiet DEF Acquisition, Threads
    <3>3. pc[x]["downgrade"] \notin {"stopping", "done"}
      <4>1. SUFFICES ASSUME pc[x]["downgrade"] \in {"stopping", "done"} PROVE FALSE
        OBVIOUS
      <4>2. Mode(x) = "write"
        BY <3>1, <4>1 DEF Ending
      <4>3. holds[o].mode = "read"
        BY <2>3, <2>hold, <3>1, <4>1 DEF Told, Reader, ReadOnly
      <4> QED BY <2>3, <4>2, <4>3
    <3>4. pc[x]["release"] \in {"stopping", "calling"} \/ ~ handle[x].dead
      BY <2>2, <2>3, <3>1, <3>3 DEF Ending
    <3>5. Releasable(x)
      BY <3>1, <3>2, <3>4 DEF Releasable
    <3> QED BY <3>1, <3>5, <2>3, <2>fence, <2>id
  <2>4. CASE Mode(i) = holds[o].mode
    BY <2>3, <2>4, <2>fence, <2>id
  <2>5. CASE Mode(i) # holds[o].mode
    <3>1. Mode(i) = "write" /\ holds[o].mode = "read"
      <4>1. Mode(i) = "read" => holds[o].mode = "read"
        BY <2>now, <2>fence, <2>hold, <2>id DEF Told, Reader, ReadOnly
      <4> QED BY <4>1, <2>5, <2>hold, <2>id, HandleOfId DEF Modes
    <3>2. TurnedReader(h)
      BY <2>1, <2>id, <3>1 DEF TurnedReader
    <3>3. DowngradedFor(h)
      BY <2>quiet, <3>2
    <3>4. CASE pc[i]["downgrade"] \in {"ok", "stopping"}
      <4>1. First(k[1]) = i
        BY <2>id
      <4>2. Releasable(k)
        BY <2>alive, <2>id, <3>4, <4>1 DEF Releasable
      <4> QED BY <4>2, <3>1, <2>id, <2>fence
    <3>5. CASE Opened(k)
      <4>1. handle[k].fence = f
        BY <2>now, <2>1, <3>5 DEF Family
      <4> QED BY <4>1, <2>3, <3>1, <2>id
    <3>6. ASSUME NEW g \in Handles, OwnerOf[g] = o, FenceOf(g) = f, Stranded(g)
          PROVE  Fits(First(g))
      <4>1. First(g) \in Ids /\ First(g)[1] = g /\ Owner(First(g)) = OwnerOf[g]
        BY IdsOfHandle
      <4>2. Overtaken(First(g))
        BY <3>6 DEF Stranded, Overtaken, HeirOf
      <4> QED BY <3>6, <4>1, <4>2 DEF FenceOf
    <3> QED BY <3>3, <3>4, <3>5, <3>6, <2>1, IdsOfHandle DEF DowngradedFor, DowngradedBy
  <2> QED BY <2>4, <2>5
<1> QED BY <1>1, Invariance, PTL

=============================================================================
