------------------------ MODULE WatchdogTiming_proof ------------------------
(***************************************************************************)
(* The numbers of the watchdog, for every size of the group, every lease   *)
(* and every length of a trip under WatchdogTimingAssumption.  The proof   *)
(* keeps a ledger: at each place of the watchdog, how much time may have   *)
(* passed since a member's lease was last granted (LeasesLast), since the  *)
(* backend lost it (LossAges), and since Release began (ReleaseAges).      *)
(***************************************************************************)
EXTENDS WatchdogTiming, TLAPS

(* k calls one after another take at most this long.                       *)
Trips(k) == k * MaxTrip

(* What the current sleep or the current call has used of its timer.       *)
Elapsed == iv - timer

Answerable == call.state \in {"sent", "ok", "ErrNotOwner"}

(* Where the watchdog can be, and what a call of each place can look like. *)
Places ==
  /\ at = "off" <=> stage = "acquiring"
  /\ at = "off" => have < Size /\ call.state \in {"none", "sent", "ok"}
  /\ at \in {"sleeping", "exited"} => call = NoCall
  /\ at = "calling" => call.state # "none"
  /\ lost => at = "exited"
  /\ at = "exited" /\ stage = "held" => lost
  /\ dropped => stage # "acquiring"
  /\ (call.state = "lost" \/ dropped) => faults < MaxFaults

(* The timer of a call and the way of its message run side by side.        *)
Clocks ==
  /\ at # "off" => timer <= iv
  /\ at = "calling" /\ Answerable => timer + MaxTrip = iv + call.due
  /\ silent > 0 => dropped
  /\ waited > 0 => stage = "ending"

(* What acquireAll has used of the trip of its call.                       *)
Used == IF call.state = "none" THEN 0 ELSE MaxTrip - call.due

LeftWhileAcquiring ==
  at = "off" =>
    /\ \A m \in Members : m <= have =>
         left[m] >= Lease - (MaxWait - timer) - Trips(have - m + 1) - Used
    /\ call.state = "ok" => left[have + 1] >= Lease - Used

LeftWhileSleeping ==
  at = "sleeping" /\ ~ dropped =>
    \A m \in Members : left[m] >= Lease - MaxWait - Trips(Size - m + 1) - Elapsed

LeftWhileCalling ==
  at = "calling" /\ ~ dropped =>
    /\ call.state # "ErrNotOwner"
    /\ \A m \in Members :
         IF m < turn \/ (m = turn /\ call.state = "ok")
           THEN left[m] >= Lease - Trips(turn - m) - Elapsed
           ELSE left[m] >= Lease - MaxWait - Trips(Size - m + 1) - Longest
                             - Trips(turn - 1) - Elapsed

LeasesLast == LeftWhileAcquiring /\ LeftWhileSleeping /\ LeftWhileCalling

(* The member whose loss the watchdog will meet.                           *)
LossAge(m) ==
  /\ left[m] = 0
  /\ at = "sleeping" => silent <= Trips(Size - m + 1) + Elapsed
  /\ at = "calling" =>
       IF m < turn \/ (m = turn /\ call.state = "ok")
         THEN silent <= Trips(turn - m) + Elapsed
         ELSE silent <= Trips(Size - m + 1) + Longest + Trips(turn - 1) + Elapsed

LossAges ==
  stage = "held" /\ dropped /\ at # "exited" => \E m \in Members : LossAge(m)

ReleaseAges ==
  stage = "ending" =>
    /\ at = "sleeping" => waited = 0 \/ timer > 0
    /\ at = "calling" =>
         IF turn = Size THEN waited <= Elapsed
                        ELSE waited <= Trips(turn - 1) + Elapsed

NothingOverdue == AlarmInTime /\ ReleaseIsPrompt

Inv == TypeOK /\ Places /\ Clocks /\ LeasesLast /\ LossAges /\ ReleaseAges /\ NothingOverdue

-----------------------------------------------------------------------------
(* Arithmetic.  The proofs below use Interval, Longest and Trips only      *)
(* through these facts.                                                    *)

LEMMA ConstantFacts ==
  /\ Size \in Nat \ {0} /\ Lease \in Nat /\ Swing \in Nat
  /\ MaxTrip \in Nat /\ MaxWait \in Nat /\ MaxFaults \in Nat
  /\ Interval \in Nat /\ Swing < Interval
  /\ Longest \in Nat /\ Longest = Interval + Swing
  /\ 2 * Longest + Trips(Size) + MaxWait < Lease
<1>1. /\ Size \in Nat \ {0} /\ Lease \in Nat /\ Swing \in Nat
      /\ MaxTrip \in Nat /\ MaxWait \in Nat /\ MaxFaults \in Nat
  BY WatchdogTimingAssumption
<1>2. Interval \in Nat
  BY <1>1 DEF Interval
<1>3. Swing < Interval /\ 2 * (Interval + Swing) + Size * MaxTrip + MaxWait < Lease
  BY WatchdogTimingAssumption DEF Interval
<1> QED
  BY <1>1, <1>2, <1>3 DEF Longest, Trips

LEMMA TripsFacts ==
  /\ Trips(0) = 0 /\ Trips(1) = MaxTrip
  /\ \A k \in Nat : Trips(k) \in Nat /\ Trips(k + 1) = Trips(k) + MaxTrip
  /\ \A j, k \in Nat : Trips(j + k) = Trips(j) + Trips(k)
<1>1. MaxTrip \in Nat
  BY ConstantFacts
<1>2. \A k \in Nat : k * MaxTrip \in Nat /\ (k + 1) * MaxTrip = k * MaxTrip + MaxTrip
  BY <1>1
<1>3. \A j, k \in Nat : (j + k) * MaxTrip = j * MaxTrip + k * MaxTrip
  BY <1>1
<1> QED
  BY <1>1, <1>2, <1>3 DEF Trips

LEMMA TripsGrow ==
  ASSUME NEW j \in Nat, NEW k \in Nat, j <= k
  PROVE  Trips(j) <= Trips(k)
<1>1. k - j \in Nat /\ k = j + (k - j)
  OBVIOUS
<1>2. Trips(k) = Trips(j) + Trips(k - j) /\ Trips(k - j) \in Nat /\ Trips(j) \in Nat
  BY <1>1, TripsFacts
<1> QED
  BY <1>2

-----------------------------------------------------------------------------
(* The inductive invariant, one lemma per action.                          *)

LEMMA TripBounds ==
  ASSUME NEW m \in Members
  PROVE  /\ Trips(m) \in Nat /\ Trips(m - 1) \in Nat /\ Trips(Size - m) \in Nat
         /\ Trips(m) = Trips(m - 1) + MaxTrip
         /\ Trips(Size - m + 1) = Trips(Size - m) + MaxTrip
         /\ Trips(Size) = Trips(Size - m) + Trips(m)
         /\ Trips(Size) \in Nat
<1>1. m - 1 \in Nat /\ Size - m \in Nat /\ m \in Nat /\ Size \in Nat
      /\ m = (m - 1) + 1 /\ Size = (Size - m) + m
  BY ConstantFacts DEF Members
<1> QED
  <2>1. /\ Trips(m) \in Nat /\ Trips(m - 1) \in Nat /\ Trips(Size - m) \in Nat /\ Trips(Size) \in Nat
        /\ Trips(Size - m + 1) = Trips(Size - m) + MaxTrip
        /\ Trips((m - 1) + 1) = Trips(m - 1) + MaxTrip
    BY <1>1, TripsFacts
  <2>2. Trips((Size - m) + m) = Trips(Size - m) + Trips(m)
    BY <1>1, TripsFacts
  <2> QED BY <1>1, <2>1, <2>2

LEMMA InitInv == Init => Inv
<1> SUFFICES ASSUME Init PROVE Inv
  OBVIOUS
<1> USE DEF Init
<1>1. TypeOK
  <2>1. left \in [Members -> 0 .. Lease]
    BY ConstantFacts
  <2>2. call \in [state : {"none", "sent", "ok", "ErrNotOwner", "lost"}, due : 0 .. MaxTrip]
    BY ConstantFacts DEF NoCall
  <2>3. turn \in Members
    BY ConstantFacts DEF Members
  <2>4. timer \in 0 .. IF stage = "acquiring" THEN MaxWait ELSE Longest
    BY ConstantFacts
  <2>5. have \in 0 .. Size /\ iv \in 0 .. Longest /\ faults \in 0 .. MaxFaults
    BY ConstantFacts
  <2>6. /\ stage \in {"acquiring", "held", "ending"}
        /\ at \in {"off", "sleeping", "calling", "exited"}
        /\ lost \in BOOLEAN /\ dropped \in BOOLEAN
        /\ silent \in Nat /\ waited \in Nat
    OBVIOUS
  <2> HIDE DEF Init
  <2> QED BY <2>1, <2>2, <2>3, <2>4, <2>5, <2>6 DEF TypeOK
<1>2. Places /\ Clocks
  BY ConstantFacts DEF Places, Clocks, NoCall
<1>3. LeasesLast
  BY ConstantFacts DEF LeasesLast, LeftWhileAcquiring, LeftWhileSleeping,
     LeftWhileCalling, Members, NoCall
<1>4. LossAges /\ ReleaseAges
  BY DEF LossAges, ReleaseAges
<1>5. NothingOverdue
  <2>1. Size > 1 => (Size - 2) * MaxTrip \in Nat
    BY ConstantFacts, TripsFacts DEF Trips
  <2> QED BY <2>1, ConstantFacts, TripsFacts DEF NothingOverdue, AlarmInTime, ReleaseIsPrompt, Trips
<1> QED
  BY <1>1, <1>2, <1>3, <1>4, <1>5 DEF Inv

(* acquireAll: the watchdog is off.                                        *)
LEMMA AcquireMemberInv == Inv /\ AcquireMember => Inv'
<1> SUFFICES ASSUME Inv, AcquireMember PROVE Inv'
  OBVIOUS
<1> USE DEF Inv, AcquireMember
<1>1. TypeOK'
  BY ConstantFacts DEF TypeOK
<1>2. Places' /\ Clocks'
  BY ConstantFacts DEF Places, Clocks, Answerable, TypeOK
<1>3. LeasesLast'
  BY ConstantFacts DEF LeasesLast, LeftWhileAcquiring, LeftWhileSleeping,
     LeftWhileCalling, Places, Members, Used
<1>4. LossAges' /\ ReleaseAges' /\ NothingOverdue'
  BY DEF LossAges, ReleaseAges, NothingOverdue, AlarmInTime, ReleaseIsPrompt
<1> QED
  BY <1>1, <1>2, <1>3, <1>4

(* What the three places that the watchdog can move to begin with.         *)
LEMMA SleepBegins ==
  ASSUME Sleep
  PROVE  /\ at' = "sleeping" /\ turn' = 1 /\ call' = NoCall
         /\ iv' \in 1 .. Longest /\ timer' = iv' /\ timer' > 0 /\ Elapsed' = 0
         /\ 1 \in Members
<1>1. PICK d \in Jittered : iv' = d /\ timer' = d
  BY DEF Sleep
<1>2. d \in 1 .. Longest
  BY ConstantFacts DEF Jittered
<1> QED
  BY <1>1, <1>2, ConstantFacts DEF Sleep, Elapsed, Members

LEMMA CallBegins ==
  ASSUME TypeOK, NEW m \in Members, Renew(m), ~ Dead(m)
  PROVE  /\ at' = "calling" /\ turn' = m /\ iv' = iv /\ timer' = iv /\ Elapsed' = 0
         /\ call' = [state |-> "sent", due |-> MaxTrip]
         /\ call' \in [state : {"none", "sent", "ok", "ErrNotOwner", "lost"}, due : 0 .. MaxTrip]
         /\ call'.state = "sent" /\ call'.due = MaxTrip
BY ConstantFacts DEF Renew, Elapsed, TypeOK

LEMMA AcquiredInv == Inv /\ Acquired => Inv'
<1> SUFFICES ASSUME Inv, Acquired PROVE Inv'
  OBVIOUS
<1> USE DEF Inv, Acquired
<1>0. at = "off" /\ have \in 0 .. Size /\ have < Size /\ have + 1 \in Members /\ timer \in 0 .. MaxWait
  BY ConstantFacts DEF TypeOK, Places, Members
<1>used. MaxTrip - call.due \in 0 .. MaxTrip
  BY ConstantFacts DEF TypeOK
<1>left. \A m \in Members : m <= have + 1 =>
           left[m] >= Lease - (MaxWait - timer) - Trips(have + 1 - m + 1)
  <2> TAKE m \in Members
  <2>1. left[m] \in Nat
    BY DEF TypeOK
  <2>2. CASE m <= have
    <3>1. have - m + 1 \in Nat /\ have + 1 - m + 1 = (have - m + 1) + 1
      BY <2>2, <1>0 DEF Members
    <3>3. /\ Trips(have - m + 1) \in Nat
          /\ Trips(have + 1 - m + 1) = Trips(have - m + 1) + MaxTrip
      BY <3>1, TripsFacts
    <3>2. left[m] >= Lease - (MaxWait - timer) - Trips(have - m + 1) - (MaxTrip - call.due)
      BY <2>2, <1>0 DEF LeasesLast, LeftWhileAcquiring, Used
    <3> QED BY <3>2, <3>3, <2>1, <1>0, <1>used, ConstantFacts DEF TypeOK
  <2>3. CASE m = have + 1
    <3>1. left[m] >= Lease - (MaxTrip - call.due)
      BY <2>3, <1>0 DEF LeasesLast, LeftWhileAcquiring, Used
    <3>2. have + 1 - m + 1 = 1
      BY <2>3, <1>0
    <3>3. Trips(have + 1 - m + 1) = MaxTrip
      BY <3>2, TripsFacts
    <3> QED BY <3>1, <3>3, <2>1, <1>0, <1>used, ConstantFacts
  <2> QED BY <2>2, <2>3, <1>0, ConstantFacts DEF Members
<1>age. silent = 0 /\ ~ lost /\ waited = 0
  BY <1>0 DEF TypeOK, Clocks, Places
<1>1. CASE have + 1 < Size /\ call' = NoCall /\ UNCHANGED <<stage, at, turn, iv, timer>>
  <2> HIDE DEF Acquired
  <2>0. have' = have + 1 /\ UNCHANGED <<left, lost, dropped, silent, waited, faults>> /\ stage = "acquiring"
    BY DEF Acquired
  <2>1. TypeOK'
    BY <1>1, <1>0, <2>0, ConstantFacts DEF TypeOK, NoCall
  <2>2. Places' /\ Clocks'
    BY <1>1, <1>0, <2>0, ConstantFacts DEF Places, Clocks, NoCall, Answerable
  <2>3. LeasesLast'
    <3>1. \A m \in Members : m <= have + 1 =>
            left[m] >= Lease - (MaxWait - timer) - Trips(have + 1 - m + 1) - 0
      <4> TAKE m \in Members
      <4>1. SUFFICES ASSUME m <= have + 1
                     PROVE  left[m] >= Lease - (MaxWait - timer) - Trips(have + 1 - m + 1) - 0
        OBVIOUS
      <4>2. have + 1 - m + 1 \in Nat
        BY <4>1, <1>0 DEF Members
      <4>3. Trips(have + 1 - m + 1) \in Nat
        BY <4>2, TripsFacts
      <4> QED BY <4>1, <4>3, <1>left, <1>0, ConstantFacts
    <3>2. LeftWhileAcquiring'
      <4>1. Used' = 0
        BY <1>1 DEF NoCall, Used
      <4>2. call'.state # "ok"
        BY <1>1 DEF NoCall
      <4>3. left' = left /\ have' = have + 1 /\ timer' = timer
        BY <1>1, <2>0
      <4> QED BY <3>1, <4>1, <4>2, <4>3, <1>0, ConstantFacts DEF LeftWhileAcquiring, Members
    <3> QED BY <3>2, <1>1, <1>0, <2>0 DEF LeasesLast, LeftWhileSleeping, LeftWhileCalling
  <2>4. LossAges' /\ ReleaseAges' /\ NothingOverdue'
    BY <1>1, <1>0, <2>0 DEF LossAges, ReleaseAges, NothingOverdue, AlarmInTime, ReleaseIsPrompt
  <2> QED BY <2>1, <2>2, <2>3, <2>4
<1>2. CASE have + 1 = Size /\ stage' = "held" /\ Sleep
  <2> HIDE DEF Acquired
  <2>0. have' = have + 1 /\ UNCHANGED <<left, lost, dropped, silent, waited, faults>> /\ stage = "acquiring"
    BY DEF Acquired
  <2> USE SleepBegins, <1>2
  <2>1. TypeOK'
    BY <1>0, <2>0, ConstantFacts DEF TypeOK, NoCall
  <2>2. Places' /\ Clocks'
    BY <1>0, <2>0, <1>age, ConstantFacts DEF Places, Clocks, NoCall, Answerable
  <2>3. LeasesLast'
    <3>1. \A m \in Members : left[m] >= Lease - (MaxWait - timer) - Trips(Size - m + 1)
      <4> TAKE m \in Members
      <4>1. m <= have + 1 /\ Size - m + 1 = have + 1 - m + 1
        BY <1>0, ConstantFacts DEF Members
      <4> QED BY <4>1, <1>left
    <3>2. \A m \in Members : left[m] >= Lease - MaxWait - Trips(Size - m + 1) - 0
      BY <3>1, <1>0, TripBounds, ConstantFacts DEF TypeOK
    <3> QED BY <3>2, <2>0 DEF LeasesLast, LeftWhileAcquiring, LeftWhileSleeping, LeftWhileCalling
  <2>4. ReleaseAges' /\ NothingOverdue'
    BY <1>0, <2>0 DEF ReleaseAges, NothingOverdue, AlarmInTime, ReleaseIsPrompt
  <2>5. LossAges'
    BY <1>0, <2>0, <1>age DEF LossAges, Places
  <2> QED BY <2>1, <2>2, <2>3, <2>4, <2>5
<1> QED
  BY <1>1, <1>2

LEMMA ReleaseInv == Inv /\ Release => Inv'
<1> SUFFICES ASSUME Inv, Release PROVE Inv'
  OBVIOUS
<1> USE DEF Inv, Release
<1>1. TypeOK'
  BY DEF TypeOK
<1>2. Places' /\ Clocks'
  BY DEF Places, Clocks, Answerable
<1>3. LeasesLast'
  BY DEF LeasesLast, LeftWhileAcquiring, LeftWhileSleeping, LeftWhileCalling, Elapsed, Used
<1>4. waited = 0
  BY DEF TypeOK, Clocks
<1>5. ReleaseAges'
  <2>1. Trips(turn - 1) \in Nat
    BY TripBounds DEF TypeOK
  <2>2. at = "calling" => Elapsed \in Nat
    BY DEF Clocks, TypeOK, Elapsed
  <2> QED BY <1>4, <2>1, <2>2 DEF ReleaseAges, Elapsed
<1>6. LossAges' /\ NothingOverdue'
  BY DEF LossAges, NothingOverdue, AlarmInTime, ReleaseIsPrompt
<1> QED
  BY <1>1, <1>2, <1>3, <1>5, <1>6

(* The watchdog may exit at any time, if a group that still counts as held *)
(* is marked lost with it.                                                 *)
LEMMA ExitInv ==
  ASSUME Inv, Exit, at # "off", lost' \in BOOLEAN, stage = "held" => lost',
         UNCHANGED <<stage, have, left, dropped, silent, waited, faults>>
  PROVE  Inv'
<1> USE DEF Inv, Exit
<1>1. TypeOK'
  <2>1. timer' \in 0 .. IF stage' = "acquiring" THEN MaxWait ELSE Longest
    BY ConstantFacts DEF TypeOK
  <2>2. call' \in [state : {"none", "sent", "ok", "ErrNotOwner", "lost"}, due : 0 .. MaxTrip]
    BY ConstantFacts DEF NoCall
  <2> QED BY <2>1, <2>2 DEF TypeOK
<1>2. Places' /\ Clocks'
  BY DEF Places, Clocks, Answerable, NoCall, TypeOK
<1>3. LeasesLast'
  BY DEF LeasesLast, LeftWhileAcquiring, LeftWhileSleeping, LeftWhileCalling
<1>4. LossAges' /\ ReleaseAges' /\ NothingOverdue'
  BY DEF LossAges, ReleaseAges, NothingOverdue, AlarmInTime, ReleaseIsPrompt
<1> QED
  BY <1>1, <1>2, <1>3, <1>4

LEMMA StopInv == Inv /\ Stop => Inv'
BY ExitInv DEF Stop, Inv, TypeOK

LEMMA FailedInv == Inv /\ Failed => Inv'
<1> SUFFICES ASSUME Inv, Failed PROVE Inv'
  OBVIOUS
<1>1. stage = "held" => lost'
  BY DEF Failed, Dead
<1> QED
  BY <1>1, ExitInv DEF Failed, Inv, TypeOK

(* The step to the next call is the same from the sleep and from a call:   *)
(* what the ledger says of the member must carry over.                     *)
LEMMA RenewInv ==
  ASSUME Inv, at # "off", NEW m \in Members, Renew(m), ~ Dead(m),
         UNCHANGED <<stage, have, left, lost, dropped, silent, waited, faults>>,
         ~ lost,
         ~ dropped => \A k \in Members :
           IF k < m
             THEN left[k] >= Lease - Trips(m - k)
             ELSE left[k] >= Lease - MaxWait - Trips(Size - k + 1) - Longest - Trips(m - 1),
         stage = "held" /\ dropped => \E k \in Members :
           /\ left[k] = 0
           /\ IF k < m
                THEN silent <= Trips(m - k)
                ELSE silent <= Trips(Size - k + 1) + Longest + Trips(m - 1),
         stage = "ending" => waited <= Trips(m - 1)
  PROVE  Inv'
<1> USE DEF Inv
<1>0. /\ at' = "calling" /\ turn' = m /\ iv' = iv /\ timer' = iv /\ Elapsed' = 0
      /\ call' \in [state : {"none", "sent", "ok", "ErrNotOwner", "lost"}, due : 0 .. MaxTrip]
      /\ call'.state = "sent" /\ call'.due = MaxTrip
  BY CallBegins
<1>1. TypeOK'
  <2>1. stage # "acquiring" /\ iv \in 0 .. Longest
    BY DEF TypeOK, Places
  <2>2. timer' \in 0 .. IF stage' = "acquiring" THEN MaxWait ELSE Longest
    BY <1>0, <2>1
  <2> QED BY <2>2, <1>0 DEF TypeOK
<1>2. Places'
  BY <1>0 DEF Places
<1>3. Clocks'
  BY <1>0, ConstantFacts DEF Clocks, TypeOK, Answerable
<1>typed. \A k \in Members : /\ left[k] \in Nat /\ k \in Nat /\ m \in Nat
                             /\ k < m => Trips(m - k) \in Nat
                             /\ Trips(Size - k + 1) \in Nat /\ Trips(m - 1) \in Nat
  <2> TAKE k \in Members
  <2>1. k \in Nat /\ m \in Nat /\ (k < m => m - k \in Nat) /\ Size - k + 1 \in Nat /\ m - 1 \in Nat
    BY ConstantFacts DEF Members
  <2>2. left[k] \in Nat
    BY DEF TypeOK
  <2>3. (k < m => Trips(m - k) \in Nat) /\ Trips(Size - k + 1) \in Nat /\ Trips(m - 1) \in Nat
    BY <2>1, TripsFacts
  <2> QED BY <2>1, <2>2, <2>3
<1>4. LeasesLast'
  <2>1. ASSUME ~ dropped, NEW k \in Members
        PROVE  IF k < m
                 THEN left[k] >= Lease - Trips(m - k) - 0
                 ELSE left[k] >= Lease - MaxWait - Trips(Size - k + 1) - Longest - Trips(m - 1) - 0
    BY <2>1, <1>typed, ConstantFacts
  <2>2. LeftWhileCalling'
    BY <2>1, <1>0 DEF LeftWhileCalling
  <2> QED BY <2>2, <1>0 DEF LeasesLast, LeftWhileAcquiring, LeftWhileSleeping
<1>5. LossAges'
  <2> SUFFICES ASSUME stage = "held", dropped
               PROVE  \E k \in Members : LossAge(k)'
    BY <1>0 DEF LossAges
  <2>1. PICK k \in Members :
           /\ left[k] = 0
           /\ IF k < m
                THEN silent <= Trips(m - k)
                ELSE silent <= Trips(Size - k + 1) + Longest + Trips(m - 1)
    OBVIOUS
  <2>2. /\ left[k] = 0
        /\ IF k < m
             THEN silent <= Trips(m - k) + 0
             ELSE silent <= Trips(Size - k + 1) + Longest + Trips(m - 1) + 0
    BY <2>1, <1>typed, ConstantFacts DEF TypeOK
  <2>3. LossAge(k)'
    BY <2>2, <1>0 DEF LossAge
  <2> QED BY <2>3
<1>6. ReleaseAges'
  BY <1>0, <1>typed, TripsFacts, ConstantFacts DEF ReleaseAges, Dead, TypeOK
<1>7. NothingOverdue'
  BY DEF NothingOverdue, AlarmInTime, ReleaseIsPrompt
<1> QED
  BY <1>1, <1>2, <1>3, <1>4, <1>5, <1>6, <1>7

LEMMA WakeInv == Inv /\ Wake => Inv'
<1> SUFFICES ASSUME Inv, Wake PROVE Inv'
  OBVIOUS
<1> USE DEF Inv
<1>0. /\ at = "sleeping" /\ timer = 0 /\ Renew(1) /\ 1 \in Members
      /\ UNCHANGED <<stage, have, left, lost, dropped, silent, waited, faults>>
  BY ConstantFacts DEF Wake, Members
<1>1. CASE Dead(1)
  <2>1. Exit /\ stage = "ending"
    BY <1>1, <1>0 DEF Renew, Dead
  <2> QED BY <2>1, <1>0, ExitInv DEF TypeOK
<1>2. CASE ~ Dead(1)
  <2>1. Elapsed \in 0 .. Longest /\ ~ lost
    BY <1>0 DEF Elapsed, TypeOK, Places
  <2>2. Trips(1 - 1) = 0
    BY TripsFacts
  <2>3. \A k \in Members : ~ k < 1 /\ left[k] \in Nat /\ Trips(Size - k + 1) \in Nat
    <3> TAKE k \in Members
    <3>1. k \in Nat /\ ~ k < 1 /\ Size - k + 1 \in Nat
      BY ConstantFacts DEF Members
    <3>2. left[k] \in Nat
      BY DEF TypeOK
    <3> QED BY <3>1, <3>2, TripsFacts
  <2>4. ASSUME ~ dropped, NEW k \in Members
        PROVE  left[k] >= Lease - MaxWait - Trips(Size - k + 1) - Longest - Trips(1 - 1)
    <3>1. left[k] >= Lease - MaxWait - Trips(Size - k + 1) - Elapsed
      BY <2>4, <1>0 DEF LeasesLast, LeftWhileSleeping
    <3> QED BY <3>1, <2>1, <2>2, <2>3, ConstantFacts
  <2>5. ASSUME stage = "held", dropped
        PROVE  \E k \in Members :
                 left[k] = 0 /\ silent <= Trips(Size - k + 1) + Longest + Trips(1 - 1)
    <3>1. PICK k \in Members : left[k] = 0 /\ silent <= Trips(Size - k + 1) + Elapsed
      BY <2>5, <1>0 DEF LossAges, LossAge
    <3> QED BY <3>1, <2>1, <2>2, <2>3, ConstantFacts DEF TypeOK
  <2>6. stage = "ending" => waited <= Trips(1 - 1)
    BY <1>0, <2>2 DEF ReleaseAges
  <2> QED BY <1>0, <1>2, <2>1, <2>3, <2>4, <2>5, <2>6, RenewInv
<1> QED
  BY <1>1, <1>2

LEMMA RenewedInv == Inv /\ Renewed => Inv'
<1> SUFFICES ASSUME Inv, Renewed PROVE Inv'
  OBVIOUS
<1> USE DEF Inv
<1> DEFINE next == turn + 1
<1>0. /\ at = "calling" /\ call.state = "ok" /\ turn \in Members /\ ~ lost
      /\ IF turn < Size THEN Renew(turn + 1) ELSE Sleep
      /\ UNCHANGED <<stage, have, left, lost, dropped, silent, waited, faults>>
  BY DEF Renewed, Places, TypeOK
<1>elapsed. Elapsed \in 0 .. MaxTrip
  BY <1>0, ConstantFacts DEF Clocks, Answerable, TypeOK, Elapsed
<1>typed. \A k \in Members : /\ left[k] \in Nat /\ k \in Nat /\ turn \in Nat
                             /\ Trips(Size - k + 1) \in Nat
                             /\ k <= turn => /\ Trips(turn - k) \in Nat
                                             /\ Trips(next - k) = Trips(turn - k) + MaxTrip
  <2> TAKE k \in Members
  <2>1. /\ k \in Nat /\ turn \in Nat /\ Size - k + 1 \in Nat
        /\ k <= turn => turn - k \in Nat /\ next - k = (turn - k) + 1
    BY <1>0, ConstantFacts DEF Members
  <2>2. left[k] \in Nat
    BY DEF TypeOK
  <2> QED BY <2>1, <2>2, TripsFacts
<1>turns. Trips(next - 1) = Trips(turn - 1) + MaxTrip /\ Trips(turn - 1) \in Nat
  <2>1. next - 1 = turn
    BY <1>0 DEF Members
  <2> QED BY <2>1, <1>0, TripBounds
<1>1. ASSUME ~ dropped, NEW k \in Members
      PROVE  IF k < next
               THEN left[k] >= Lease - Trips(next - k)
               ELSE left[k] >= Lease - MaxWait - Trips(Size - k + 1) - Longest - Trips(next - 1)
  <2>1. IF k < turn \/ k = turn
          THEN left[k] >= Lease - Trips(turn - k) - Elapsed
          ELSE left[k] >= Lease - MaxWait - Trips(Size - k + 1) - Longest
                            - Trips(turn - 1) - Elapsed
    BY <1>1, <1>0 DEF LeasesLast, LeftWhileCalling
  <2>0. (k < next <=> k <= turn) /\ (k <= turn <=> k < turn \/ k = turn)
    BY <1>typed
  <2> HIDE DEF next
  <2>2. CASE k <= turn
    BY <2>0, <2>1, <2>2, <1>elapsed, <1>typed, ConstantFacts
  <2>3. CASE ~ k <= turn
    BY <2>0, <2>1, <2>3, <1>elapsed, <1>typed, <1>turns, ConstantFacts
  <2> QED BY <2>2, <2>3
<1>2. ASSUME stage = "held", dropped
      PROVE  \E k \in Members :
               /\ left[k] = 0
               /\ IF k < next
                    THEN silent <= Trips(next - k)
                    ELSE silent <= Trips(Size - k + 1) + Longest + Trips(next - 1)
  <2>1. PICK k \in Members :
          /\ left[k] = 0
          /\ IF k < turn \/ k = turn
               THEN silent <= Trips(turn - k) + Elapsed
               ELSE silent <= Trips(Size - k + 1) + Longest + Trips(turn - 1) + Elapsed
    BY <1>2, <1>0 DEF LossAges, LossAge
  <2>2. IF k < next
          THEN silent <= Trips(next - k)
          ELSE silent <= Trips(Size - k + 1) + Longest + Trips(next - 1)
    <3>0. /\ k < next <=> k <= turn
          /\ k <= turn <=> k < turn \/ k = turn
          /\ silent \in Nat
      BY <1>typed DEF TypeOK
    <3> HIDE DEF next
    <3>1. CASE k <= turn
      BY <2>1, <3>0, <3>1, <1>elapsed, <1>typed, ConstantFacts
    <3>2. CASE ~ k <= turn
      BY <2>1, <3>0, <3>2, <1>elapsed, <1>typed, <1>turns, ConstantFacts
    <3> QED BY <3>1, <3>2
  <2> QED BY <2>1, <2>2
<1>3. CASE turn < Size /\ ~ Dead(turn + 1)
  <2>1. next \in Members
    BY <1>3, <1>0, ConstantFacts DEF Members
  <2>2. stage = "ending" => waited <= Trips(next - 1)
    BY <1>3, <1>0, <1>elapsed, <1>turns, ConstantFacts DEF ReleaseAges, TypeOK, Members
  <2>3. Renew(next) /\ ~ Dead(next)
    BY <1>3, <1>0 DEF next
  <2> HIDE DEF next
  <2> QED BY <1>0, <1>1, <1>2, <2>1, <2>2, <2>3, RenewInv
<1>4. CASE turn < Size /\ Dead(turn + 1)
  <2>1. Exit /\ stage = "ending"
    BY <1>4, <1>0 DEF Renew, Dead
  <2> QED BY <2>1, <1>0, ExitInv DEF TypeOK
<1>5. CASE ~ turn < Size
  <2>0. Sleep /\ turn = Size /\ stage # "acquiring"
    BY <1>5, <1>0, ConstantFacts DEF Members, Places
  <2> USE SleepBegins, <2>0
  <2>1. TypeOK'
    <3>1. timer' \in 0 .. IF stage' = "acquiring" THEN MaxWait ELSE Longest
      BY <1>0, ConstantFacts
    <3>2. call' \in [state : {"none", "sent", "ok", "ErrNotOwner", "lost"}, due : 0 .. MaxTrip]
      BY ConstantFacts DEF NoCall
    <3> QED BY <3>1, <3>2, <1>0, ConstantFacts DEF TypeOK
  <2>2. Places' /\ Clocks'
    BY <1>0, ConstantFacts DEF Places, Clocks, NoCall, Answerable
  <2>3. \A k \in Members : k < next /\ next - k = Size - k + 1
    BY <1>0, ConstantFacts DEF Members
  <2>4. LeasesLast'
    <3>1. ASSUME ~ dropped, NEW k \in Members
          PROVE  left[k] >= Lease - MaxWait - Trips(Size - k + 1) - 0
      <4>1. left[k] >= Lease - Trips(Size - k + 1)
        BY <3>1, <1>1, <2>3
      <4> QED BY <4>1, <1>typed, ConstantFacts
    <3> QED BY <3>1, <1>0 DEF LeasesLast, LeftWhileAcquiring, LeftWhileSleeping, LeftWhileCalling
  <2>5. LossAges'
    <3>1. ASSUME stage = "held", dropped
          PROVE  \E k \in Members : left[k] = 0 /\ silent <= Trips(Size - k + 1) + 0
      <4>1. PICK k \in Members : left[k] = 0 /\ silent <= Trips(Size - k + 1)
        BY <3>1, <1>2, <2>3
      <4> QED BY <4>1, <1>typed DEF TypeOK
    <3> QED BY <3>1, <1>0 DEF LossAges, LossAge
  <2>6. ReleaseAges' /\ NothingOverdue'
    BY <1>0 DEF ReleaseAges, NothingOverdue, AlarmInTime, ReleaseIsPrompt
  <2> QED BY <2>1, <2>2, <2>4, <2>5, <2>6
<1> QED
  BY <1>3, <1>4, <1>5

(* The sums of the ledger are numbers, and all of them together are less   *)
(* than the lease.                                                         *)
LEMMA Sums ==
  ASSUME Inv, NEW m \in Members
  PROVE  /\ left[m] \in 0 .. Lease /\ m \in Nat
         /\ Trips(Size - m + 1) \in Nat /\ Trips(turn - 1) \in Nat
         /\ m <= turn => Trips(turn - m) \in Nat
         /\ m = turn => Trips(turn - m) = 0
         /\ at # "off" => Elapsed \in 0 .. Longest
         /\ turn <= m => Trips(Size - m + 1) + Trips(turn - 1) <= Trips(Size)
<1>1. turn \in Members /\ m \in Nat /\ left[m] \in 0 .. Lease
  BY ConstantFacts DEF Inv, TypeOK, Members
<1>2. Trips(Size - m + 1) \in Nat /\ Trips(turn - 1) \in Nat
  <2>1. Size - m + 1 \in Nat /\ turn - 1 \in Nat
    BY <1>1, ConstantFacts DEF Members
  <2> QED BY <2>1, TripsFacts
<1>3. m <= turn => Trips(turn - m) \in Nat
  <2>1. m <= turn => turn - m \in Nat
    BY <1>1 DEF Members
  <2> QED BY <2>1, TripsFacts
<1>4. m = turn => Trips(turn - m) = 0
  <2>1. m = turn => turn - m = 0
    BY <1>1 DEF Members
  <2> QED BY <2>1, TripsFacts
<1>5. at # "off" => Elapsed \in 0 .. Longest
  BY ConstantFacts DEF Inv, TypeOK, Places, Clocks, Elapsed
<1>6. turn <= m => Trips(Size - m + 1) + Trips(turn - 1) <= Trips(Size)
  <2>1. SUFFICES ASSUME turn <= m PROVE Trips(Size - m + 1) + Trips(turn - 1) <= Trips(Size)
    OBVIOUS
  <2>2. turn - 1 \in Nat /\ m - 1 \in Nat /\ turn - 1 <= m - 1
    BY <1>1, <2>1 DEF Members
  <2>3. Trips(turn - 1) <= Trips(m - 1)
    BY <2>2, TripsGrow
  <2> QED BY <2>3, <1>2, TripBounds, ConstantFacts
<1> QED
  BY <1>1, <1>2, <1>3, <1>4, <1>5, <1>6

LEMMA ServeInv == Inv /\ Serve => Inv'
<1> SUFFICES ASSUME Inv, Serve PROVE Inv'
  OBVIOUS
<1> USE DEF Inv
<1>0. /\ call.state = "sent" /\ at \in {"off", "calling"} /\ turn \in Members
      /\ UNCHANGED <<stage, have, at, turn, iv, timer, lost, dropped, silent, waited, faults>>
      /\ Elapsed' = Elapsed
  BY DEF Serve, Places, NoCall, TypeOK, Elapsed
<1>answer. ASSUME NEW x \in {"ok", "ErrNotOwner"}, call' = [call EXCEPT !.state = x]
           PROVE  /\ call' \in [state : {"none", "sent", "ok", "ErrNotOwner", "lost"}, due : 0 .. MaxTrip]
                  /\ call'.state = x /\ call'.due = call.due /\ Used' = Used
  <2>1. call \in [state : {"none", "sent", "ok", "ErrNotOwner", "lost"}, due : 0 .. MaxTrip]
    BY DEF TypeOK
  <2>2. call'.state = x /\ call'.due = call.due
    BY <2>1, <1>answer
  <2> QED BY <2>1, <2>2, <1>answer, <1>0 DEF Used
<1>1. CASE stage = "acquiring" /\ Grant(have + 1)
  <2>0. /\ left' = [left EXCEPT ![have + 1] = Lease] /\ call' = [call EXCEPT !.state = "ok"]
        /\ at = "off" /\ have \in 0 .. Size /\ have + 1 \in Members
    <3>1. at = "off" /\ have < Size /\ have \in 0 .. Size
      BY <1>1, <1>0 DEF Places, TypeOK
    <3>2. have + 1 \in Members
      BY <3>1, ConstantFacts DEF Members
    <3> QED BY <3>1, <3>2, <1>1 DEF Grant
  <2>1. /\ call' \in [state : {"none", "sent", "ok", "ErrNotOwner", "lost"}, due : 0 .. MaxTrip]
        /\ call'.state = "ok" /\ call'.due = call.due /\ Used' = Used
    BY <1>answer, <2>0
  <2>2. left' \in [Members -> 0 .. Lease] /\ left'[have + 1] = Lease
    BY <2>0, ConstantFacts DEF TypeOK
  <2>3. TypeOK'
    BY <2>1, <2>2, <1>0 DEF TypeOK
  <2>4. Places' /\ Clocks'
    <3>1. Places'
      BY <1>1, <2>0, <2>1, <1>0 DEF Places
    <3> QED BY <3>1, <2>0, <1>0 DEF Clocks
  <2>5. LeasesLast'
    <3>1. \A m \in Members : m <= have => left'[m] = left[m]
      <4>1. \A m \in Members : m <= have => m # have + 1
        BY <2>0, ConstantFacts DEF Members
      <4> QED BY <2>0, <4>1 DEF TypeOK
    <3>2. \A m \in Members : m <= have =>
            left'[m] >= Lease - (MaxWait - timer) - Trips(have - m + 1) - Used
      BY <3>1, <2>0 DEF LeasesLast, LeftWhileAcquiring
    <3>3. Lease >= Lease - Used
      BY <1>0, ConstantFacts DEF Used, TypeOK
    <3>4. LeftWhileAcquiring'
      BY <3>2, <3>3, <2>1, <2>2, <1>0 DEF LeftWhileAcquiring
    <3> QED BY <3>4, <2>0, <1>0 DEF LeasesLast, LeftWhileSleeping, LeftWhileCalling
  <2>6. LossAges' /\ ReleaseAges' /\ NothingOverdue'
    BY <1>1, <1>0 DEF LossAges, ReleaseAges, NothingOverdue, AlarmInTime, ReleaseIsPrompt
  <2> QED BY <2>3, <2>4, <2>5, <2>6
<1>2. CASE stage # "acquiring" /\ left[turn] > 0 /\ Grant(turn)
  <2>0. /\ left' = [left EXCEPT ![turn] = Lease] /\ call' = [call EXCEPT !.state = "ok"]
        /\ at = "calling" /\ Elapsed \in 0 .. Longest
    BY <1>2, <1>0, Sums DEF Grant, Places
  <2>1. /\ call' \in [state : {"none", "sent", "ok", "ErrNotOwner", "lost"}, due : 0 .. MaxTrip]
        /\ call'.state = "ok" /\ call'.due = call.due
    BY <1>answer, <2>0
  <2>2. /\ left' \in [Members -> 0 .. Lease] /\ left'[turn] = Lease
        /\ \A m \in Members : m # turn => left'[m] = left[m]
    BY <2>0, <1>0, ConstantFacts DEF TypeOK
  <2>3. TypeOK'
    BY <2>1, <2>2, <1>0 DEF TypeOK
  <2>4. Places' /\ Clocks'
    BY <2>0, <2>1, <1>0 DEF Places, Clocks, Answerable, TypeOK
  <2>5. LeasesLast'
    <3>1. ASSUME ~ dropped, NEW m \in Members
          PROVE  IF m < turn \/ m = turn
                   THEN left'[m] >= Lease - Trips(turn - m) - Elapsed
                   ELSE left'[m] >= Lease - MaxWait - Trips(Size - m + 1) - Longest
                                      - Trips(turn - 1) - Elapsed
      <4>1. CASE m = turn
        BY <4>1, <2>0, <2>2, Sums, ConstantFacts
      <4>2. CASE m # turn
        BY <4>2, <3>1, <2>0, <2>2, <1>0 DEF LeasesLast, LeftWhileCalling
      <4> QED BY <4>1, <4>2
    <3>2. LeftWhileCalling'
      BY <3>1, <2>1, <1>0 DEF LeftWhileCalling
    <3> QED BY <3>2, <2>0, <1>0 DEF LeasesLast, LeftWhileAcquiring, LeftWhileSleeping
  <2>6. LossAges'
    <3>1. ASSUME NEW m \in Members, LossAge(m)
          PROVE  LossAge(m)'
      <4>1. left[m] = 0 /\ m # turn /\ left'[m] = 0
        BY <3>1, <1>2, <2>2 DEF LossAge, TypeOK
      <4> QED BY <3>1, <4>1, <2>0, <2>1, <1>0 DEF LossAge
    <3> QED BY <3>1, <1>0 DEF LossAges
  <2>7. ReleaseAges' /\ NothingOverdue'
    BY <2>0, <1>0 DEF ReleaseAges, NothingOverdue, AlarmInTime, ReleaseIsPrompt
  <2> QED BY <2>3, <2>4, <2>5, <2>6, <2>7
<1>3. CASE /\ stage # "acquiring" /\ left[turn] = 0
           /\ call' = [call EXCEPT !.state = "ErrNotOwner"] /\ left' = left
  <2>0. at = "calling" /\ Elapsed \in 0 .. Longest
    BY <1>3, <1>0, Sums DEF Places
  <2>1. /\ call' \in [state : {"none", "sent", "ok", "ErrNotOwner", "lost"}, due : 0 .. MaxTrip]
        /\ call'.state = "ErrNotOwner" /\ call'.due = call.due
    BY <1>answer, <1>3
  <2>2. dropped
    <3> SUFFICES ASSUME ~ dropped PROVE FALSE
      OBVIOUS
    <3>1. left[turn] >= Lease - MaxWait - Trips(Size - turn + 1) - Longest
                          - Trips(turn - 1) - Elapsed
      BY <2>0, <1>0, ConstantFacts DEF LeasesLast, LeftWhileCalling, Members
    <3>2. Trips(Size - turn + 1) + Trips(turn - 1) <= Trips(Size)
      BY <1>0, Sums
    <3> QED BY <3>1, <3>2, <2>0, <1>0, <1>3, Sums, TripBounds, ConstantFacts
  <2>3. TypeOK'
    BY <2>1, <1>3, <1>0 DEF TypeOK
  <2>4. Places' /\ Clocks'
    BY <2>0, <2>1, <1>0 DEF Places, Clocks, Answerable, TypeOK
  <2>5. LeasesLast'
    BY <2>0, <2>2, <1>0 DEF LeasesLast, LeftWhileAcquiring, LeftWhileSleeping, LeftWhileCalling
  <2>6. LossAges'
    <3>1. ASSUME NEW m \in Members, LossAge(m)
          PROVE  LossAge(m)'
      BY <3>1, <2>0, <2>1, <1>0, <1>3 DEF LossAge
    <3> QED BY <3>1, <1>0 DEF LossAges
  <2>7. ReleaseAges' /\ NothingOverdue'
    BY <2>0, <1>0 DEF ReleaseAges, NothingOverdue, AlarmInTime, ReleaseIsPrompt
  <2> QED BY <2>3, <2>4, <2>5, <2>6, <2>7
<1> QED
  BY <1>1, <1>2, <1>3 DEF Serve

LEMMA LoseInv == Inv /\ Lose => Inv'
<1> SUFFICES ASSUME Inv, Lose PROVE Inv'
  OBVIOUS
<1> USE DEF Inv
<1>0. /\ at = "calling" /\ call.state \in {"sent", "ok", "ErrNotOwner"} /\ turn \in Members
      /\ UNCHANGED <<stage, have, left, at, turn, iv, timer, lost, dropped, silent, waited>>
      /\ Elapsed' = Elapsed
      /\ faults' \in 0 .. MaxFaults /\ faults' < MaxFaults
  BY ConstantFacts DEF Lose, TypeOK, Elapsed
<1>1. /\ call' \in [state : {"none", "sent", "ok", "ErrNotOwner", "lost"}, due : 0 .. MaxTrip]
      /\ call'.state = "lost"
  BY DEF Lose, TypeOK
<1>2. TypeOK'
  BY <1>0, <1>1 DEF TypeOK
<1>3. Places' /\ Clocks'
  BY <1>0, <1>1 DEF Places, Clocks, Answerable
<1>typed. \A m \in Members :
            /\ left[m] \in 0 .. Lease /\ Elapsed \in 0 .. Longest
            /\ Trips(Size - m + 1) \in Nat /\ Trips(turn - 1) \in Nat
            /\ m = turn => Trips(turn - m) = 0
  BY <1>0, Sums
<1>4. LeasesLast'
  <2>1. ASSUME ~ dropped, NEW m \in Members
        PROVE  IF m < turn
                 THEN left[m] >= Lease - Trips(turn - m) - Elapsed
                 ELSE left[m] >= Lease - MaxWait - Trips(Size - m + 1) - Longest
                                   - Trips(turn - 1) - Elapsed
    <3>1. CASE m = turn /\ call.state = "ok"
      <4>1. left[m] >= Lease - Trips(turn - m) - Elapsed /\ ~ m < turn
        BY <2>1, <3>1, <1>0, ConstantFacts DEF LeasesLast, LeftWhileCalling, Members
      <4> QED BY <4>1, <3>1, <1>typed, ConstantFacts
    <3>2. CASE ~ (m = turn /\ call.state = "ok")
      BY <2>1, <3>2, <1>0 DEF LeasesLast, LeftWhileCalling
    <3> QED BY <3>1, <3>2
  <2> QED BY <2>1, <1>0, <1>1 DEF LeasesLast, LeftWhileAcquiring, LeftWhileSleeping, LeftWhileCalling
<1>5. LossAges'
  <2>1. ASSUME NEW m \in Members, LossAge(m)
        PROVE  LossAge(m)'
    <3>1. IF m < turn
            THEN silent <= Trips(turn - m) + Elapsed
            ELSE silent <= Trips(Size - m + 1) + Longest + Trips(turn - 1) + Elapsed
      <4>1. CASE m = turn /\ call.state = "ok"
        <5>1. silent <= Trips(turn - m) + Elapsed /\ ~ m < turn
          BY <2>1, <4>1, <1>0, ConstantFacts DEF LossAge, Members
        <5> QED BY <5>1, <4>1, <1>typed, ConstantFacts DEF TypeOK
      <4>2. CASE ~ (m = turn /\ call.state = "ok")
        BY <2>1, <4>2, <1>0 DEF LossAge
      <4> QED BY <4>1, <4>2
    <3> QED BY <2>1, <3>1, <1>0, <1>1 DEF LossAge
  <2> QED BY <2>1, <1>0 DEF LossAges
<1>6. ReleaseAges' /\ NothingOverdue'
  BY <1>0 DEF ReleaseAges, NothingOverdue, AlarmInTime, ReleaseIsPrompt
<1> QED
  BY <1>2, <1>3, <1>4, <1>5, <1>6

LEMMA DropInv == Inv /\ Drop => Inv'
<1> SUFFICES ASSUME Inv, Drop PROVE Inv'
  OBVIOUS
<1> USE DEF Inv
<1>0. /\ stage = "held" /\ at # "off" /\ dropped' /\ dropped' = TRUE
      /\ UNCHANGED <<stage, have, at, turn, iv, timer, call, lost, silent, waited>>
      /\ Elapsed' = Elapsed
      /\ faults' \in 0 .. MaxFaults /\ faults' < MaxFaults
  BY ConstantFacts DEF Drop, TypeOK, Elapsed, Places
<1>1. PICK d \in Members : left' = [left EXCEPT ![d] = 0]
  BY DEF Drop
<1>2. /\ left' \in [Members -> 0 .. Lease] /\ left'[d] = 0
      /\ \A m \in Members : left[m] = 0 => left'[m] = 0
  BY <1>1, ConstantFacts DEF TypeOK
<1>3. TypeOK'
  BY <1>0, <1>2 DEF TypeOK
<1>4. Places' /\ Clocks'
  BY <1>0 DEF Places, Clocks, Answerable
<1>5. LeasesLast'
  BY <1>0 DEF LeasesLast, LeftWhileAcquiring, LeftWhileSleeping, LeftWhileCalling
<1>6. LossAges'
  <2> SUFFICES ASSUME at # "exited"
               PROVE  \E m \in Members : LossAge(m)'
    BY <1>0 DEF LossAges
  <2>1. CASE dropped
    <3>1. PICK m \in Members : LossAge(m)
      BY <2>1, <1>0 DEF LossAges
    <3>2. LossAge(m)'
      BY <3>1, <1>0, <1>2 DEF LossAge
    <3> QED BY <3>2
  <2>2. CASE ~ dropped
    <3>1. silent = 0
      BY <2>2 DEF Clocks, TypeOK
    <3>2. LossAge(d)'
      <4>1. /\ Trips(Size - d + 1) \in Nat /\ Trips(turn - 1) \in Nat /\ Elapsed \in 0 .. Longest
            /\ d <= turn => Trips(turn - d) \in Nat
            /\ d < turn => d <= turn
            /\ d = turn => d <= turn
        <5>1. d \in Nat /\ turn \in Nat
          BY ConstantFacts DEF TypeOK, Members
        <5> QED BY <1>0, <5>1, Sums
      <4>2. d <= turn => 0 <= Trips(turn - d) + Elapsed
        BY <4>1, ConstantFacts
      <4>3. /\ 0 <= Trips(Size - d + 1) + Longest + Trips(turn - 1) + Elapsed
            /\ 0 <= Trips(Size - d + 1) + Elapsed
        <5>1. \A a, b, c, e \in Nat : 0 <= a + b + c + e /\ 0 <= a + e
          OBVIOUS
        <5> QED BY <4>1, <5>1, TripBounds, ConstantFacts
      <4> QED BY <3>1, <4>1, <4>2, <4>3, <1>0, <1>2 DEF LossAge
    <3> QED BY <3>2
  <2> QED BY <2>1, <2>2
<1>7. ReleaseAges' /\ NothingOverdue'
  BY <1>0 DEF ReleaseAges, NothingOverdue, AlarmInTime, ReleaseIsPrompt
<1> QED
  BY <1>3, <1>4, <1>5, <1>6, <1>7

(* A tick takes one from every lease, and gives one to what has elapsed.   *)
LEMMA LessFacts ==
  ASSUME NEW n \in Nat
  PROVE  Less(n) \in 0 .. n /\ Less(n) >= n - 1 /\ (n > 0 => Less(n) = n - 1) /\ (n = 0 => Less(n) = 0)
BY DEF Less

LEMMA TickInv == Inv /\ Tick => Inv'
<1> SUFFICES ASSUME Inv, Tick PROVE Inv'
  OBVIOUS
<1> USE DEF Inv
<1>0. /\ at # "exited" /\ ~ (at = "sleeping" /\ stage = "ending")
      /\ Answerable => call.due > 0
      /\ at # "off" \/ call.state = "none" => timer > 0
      /\ UNCHANGED <<stage, have, at, turn, iv, lost, dropped, faults>>
      /\ turn \in Members
      /\ silent' = IF stage = "held" /\ dropped THEN silent + 1 ELSE silent
      /\ waited' = IF stage = "ending" THEN waited + 1 ELSE waited
  BY DEF Tick, TypeOK, Answerable
<1>left. /\ left' \in [Members -> 0 .. Lease]
         /\ \A m \in Members : left'[m] >= left[m] - 1 /\ (left[m] = 0 => left'[m] = 0)
  <2>1. left' = [m \in Members |-> Less(left[m])]
    BY DEF Tick
  <2>2. \A m \in Members : left[m] \in 0 .. Lease /\ left[m] \in Nat
    BY ConstantFacts DEF TypeOK
  <2>3. \A m \in Members : Less(left[m]) \in 0 .. Lease
    BY <2>2, LessFacts, ConstantFacts
  <2> QED BY <2>1, <2>2, <2>3, LessFacts
<1>call. /\ call' \in [state : {"none", "sent", "ok", "ErrNotOwner", "lost"}, due : 0 .. MaxTrip]
         /\ call'.state = call.state
         /\ call.due > 0 => call'.due = call.due - 1
         /\ call = NoCall => call' = NoCall
  <2>1. call' = [call EXCEPT !.due = Less(call.due)]
    BY DEF Tick
  <2>2. call \in [state : {"none", "sent", "ok", "ErrNotOwner", "lost"}, due : 0 .. MaxTrip]
    BY DEF TypeOK
  <2>3. Less(call.due) \in 0 .. MaxTrip /\ (call.due > 0 => Less(call.due) = call.due - 1)
    BY <2>2, LessFacts, ConstantFacts
  <2>4. call = NoCall => Less(call.due) = 0
    BY LessFacts DEF NoCall
  <2> QED BY <2>1, <2>2, <2>3, <2>4 DEF NoCall
<1>timer. /\ at # "off" => timer' = timer - 1 /\ timer' \in 0 .. Longest /\ timer \in 0 .. Longest
          /\ at = "off" => /\ timer' \in 0 .. MaxWait /\ timer \in 0 .. MaxWait
                           /\ timer' = IF call.state = "none" THEN timer - 1 ELSE timer
  BY <1>0, ConstantFacts DEF Tick, TypeOK, Places
<1>elapsed. at # "off" => Elapsed' = Elapsed + 1 /\ Elapsed' \in 1 .. Longest /\ Elapsed \in 0 .. Longest
  BY <1>0, <1>timer, ConstantFacts DEF Elapsed, TypeOK, Clocks
<1>1. TypeOK'
  <2>1. timer' \in 0 .. IF stage' = "acquiring" THEN MaxWait ELSE Longest
    BY <1>0, <1>timer DEF Places
  <2>2. silent' \in Nat /\ waited' \in Nat
    BY <1>0 DEF TypeOK
  <2> QED BY <2>1, <2>2, <1>0, <1>left, <1>call DEF TypeOK
<1>2. Places'
  BY <1>0, <1>call DEF Places
<1>3. Clocks'
  <2>1. at # "off" => timer' <= iv'
    BY <1>0, <1>timer, ConstantFacts DEF Clocks, TypeOK
  <2>2. at = "calling" /\ Answerable => timer' + MaxTrip = iv' + call'.due
    BY <1>0, <1>timer, <1>call, ConstantFacts DEF Clocks, TypeOK
  <2>3. Answerable' = Answerable
    BY <1>call DEF Answerable
  <2> QED BY <2>1, <2>2, <2>3, <1>0 DEF Clocks, TypeOK
<1>4. LeasesLast'
  <2>1. CASE at = "off"
    <3>1. /\ call.state = "none" => Used = 0 /\ Used' = 0
          /\ call.state # "none" => Used' = Used + 1 /\ Used \in 0 .. MaxTrip
      BY <2>1, <1>0, <1>call, ConstantFacts DEF Used, TypeOK, Places, Answerable
    <3>2. MaxWait - timer' + Used' = MaxWait - timer + Used + 1
      BY <2>1, <3>1, <1>timer, ConstantFacts
    <3>3. ASSUME NEW m \in Members, m <= have
          PROVE  left'[m] >= Lease - (MaxWait - timer') - Trips(have - m + 1) - Used'
      <4>1. left[m] >= Lease - (MaxWait - timer) - Trips(have - m + 1) - Used
        BY <2>1, <3>3 DEF LeasesLast, LeftWhileAcquiring
      <4>2. have - m + 1 \in Nat
        BY <3>3, ConstantFacts DEF TypeOK, Members
      <4>3. Trips(have - m + 1) \in Nat /\ left'[m] >= left[m] - 1
            /\ left[m] \in Nat /\ left'[m] \in Nat
        BY <4>2, <1>left, TripsFacts, ConstantFacts DEF TypeOK
      <4> QED BY <4>1, <4>3, <3>1, <3>2, <2>1, <1>timer, ConstantFacts
    <3>4. call.state = "ok" => left'[have + 1] >= Lease - Used'
      <4> SUFFICES ASSUME call.state = "ok" PROVE left'[have + 1] >= Lease - Used'
        OBVIOUS
      <4>1. have + 1 \in Members
        BY <2>1, ConstantFacts DEF Places, TypeOK, Members
      <4>2. left[have + 1] \in Nat /\ left'[have + 1] \in Nat /\ left'[have + 1] >= left[have + 1] - 1
        BY <4>1, <1>left, ConstantFacts DEF TypeOK
      <4>3. left[have + 1] >= Lease - Used
        BY <2>1 DEF LeasesLast, LeftWhileAcquiring
      <4> QED BY <4>2, <4>3, <3>1, ConstantFacts
    <3>5. LeftWhileAcquiring'
      BY <3>3, <3>4, <1>0, <1>call DEF LeftWhileAcquiring
    <3> QED BY <3>5, <2>1, <1>0 DEF LeasesLast, LeftWhileSleeping, LeftWhileCalling
  <2>2. CASE at = "sleeping"
    <3>1. ASSUME ~ dropped, NEW m \in Members
          PROVE  left'[m] >= Lease - MaxWait - Trips(Size - m + 1) - Elapsed'
      <4>1. left[m] >= Lease - MaxWait - Trips(Size - m + 1) - Elapsed
        BY <2>2, <3>1 DEF LeasesLast, LeftWhileSleeping
      <4> QED BY <4>1, <2>2, <1>left, <1>elapsed, Sums, ConstantFacts
    <3> QED BY <3>1, <2>2, <1>0 DEF LeasesLast, LeftWhileAcquiring, LeftWhileSleeping, LeftWhileCalling
  <2>3. CASE at = "calling"
    <3>1. ASSUME ~ dropped, NEW m \in Members
          PROVE  IF m < turn \/ (m = turn /\ call.state = "ok")
                   THEN left'[m] >= Lease - Trips(turn - m) - Elapsed'
                   ELSE left'[m] >= Lease - MaxWait - Trips(Size - m + 1) - Longest
                                      - Trips(turn - 1) - Elapsed'
      <4>1. left[m] \in Nat /\ left'[m] \in Nat /\ left'[m] >= left[m] - 1
        BY <1>left, ConstantFacts DEF TypeOK
      <4>2. CASE m < turn \/ (m = turn /\ call.state = "ok")
        <5>1. left[m] >= Lease - Trips(turn - m) - Elapsed
          BY <2>3, <3>1, <4>2 DEF LeasesLast, LeftWhileCalling
        <5>2. Trips(turn - m) \in Nat
          BY <4>2, <1>0, Sums, ConstantFacts DEF Members
        <5> QED BY <4>1, <4>2, <5>1, <5>2, <2>3, <1>elapsed, ConstantFacts
      <4>3. CASE ~ (m < turn \/ (m = turn /\ call.state = "ok"))
        <5>1. left[m] >= Lease - MaxWait - Trips(Size - m + 1) - Longest
                           - Trips(turn - 1) - Elapsed
          BY <2>3, <3>1, <4>3 DEF LeasesLast, LeftWhileCalling
        <5>2. Trips(Size - m + 1) \in Nat /\ Trips(turn - 1) \in Nat
          BY Sums
        <5> QED BY <4>1, <4>3, <5>1, <5>2, <2>3, <1>elapsed, ConstantFacts
      <4> QED BY <4>2, <4>3
    <3>2. ~ dropped => call.state # "ErrNotOwner"
      BY <2>3 DEF LeasesLast, LeftWhileCalling
    <3>3. LeftWhileCalling'
      BY <3>1, <3>2, <1>0, <1>call DEF LeftWhileCalling
    <3> QED BY <3>3, <2>3, <1>0 DEF LeasesLast, LeftWhileAcquiring, LeftWhileSleeping
  <2> QED BY <2>1, <2>2, <2>3, <1>0 DEF TypeOK
<1>5. LossAges'
  <2> SUFFICES ASSUME stage = "held", dropped
               PROVE  \E m \in Members : LossAge(m)'
    BY <1>0 DEF LossAges
  <2>1. PICK m \in Members : LossAge(m)
    BY <1>0 DEF LossAges
  <2>2. left'[m] = 0 /\ silent' = silent + 1 /\ at # "off"
    BY <2>1, <1>0, <1>left DEF LossAge, Places
  <2>3. at = "sleeping" => silent' <= Trips(Size - m + 1) + Elapsed'
    BY <2>1, <2>2, <1>elapsed, Sums, ConstantFacts DEF LossAge, TypeOK
  <2>4. CASE m < turn \/ (m = turn /\ call.state = "ok")
    <3>1. Trips(turn - m) \in Nat
      BY <2>4, <1>0, Sums, ConstantFacts DEF Members
    <3>2. at = "calling" => silent' <= Trips(turn - m) + Elapsed'
      BY <2>1, <2>2, <2>4, <3>1, <1>elapsed, ConstantFacts DEF LossAge, TypeOK
    <3> QED BY <3>2, <2>2, <2>3, <2>4, <1>0, <1>call DEF LossAge
  <2>5. CASE ~ (m < turn \/ (m = turn /\ call.state = "ok"))
    <3>1. at = "calling" => silent' <= Trips(Size - m + 1) + Longest + Trips(turn - 1) + Elapsed'
      BY <2>1, <2>2, <2>5, <1>elapsed, Sums, ConstantFacts DEF LossAge, TypeOK
    <3> QED BY <3>1, <2>2, <2>3, <2>5, <1>0, <1>call DEF LossAge
  <2> QED BY <2>4, <2>5
<1>6. ReleaseAges'
  <2> SUFFICES ASSUME stage = "ending", at = "calling"
               PROVE  IF turn = Size THEN waited' <= Elapsed'
                                     ELSE waited' <= Trips(turn - 1) + Elapsed'
    BY <1>0 DEF ReleaseAges, Places
  <2>1. waited' = waited + 1 /\ waited \in Nat /\ Trips(turn - 1) \in Nat
        /\ Elapsed' = Elapsed + 1 /\ Elapsed \in Nat
    BY <1>0, <1>elapsed, Sums, ConstantFacts DEF TypeOK
  <2> QED BY <2>1 DEF ReleaseAges
<1>7. AlarmInTime'
  <2>1. CASE stage = "held" /\ dropped
    <3>1. PICK m \in Members : LossAge(m)'
      BY <1>5, <1>0, <2>1 DEF LossAges
    <3>2. /\ at \in {"sleeping", "calling"}
          /\ Elapsed' \in 0 .. Longest /\ silent' \in Nat
          /\ m \in Nat /\ turn \in Nat /\ turn \in Members
          /\ Trips(Size) \in Nat /\ Trips(turn - 1) \in Nat
      <4>1. at \in {"sleeping", "calling"} /\ silent' \in Nat
        BY <1>0, <1>1, <2>1 DEF TypeOK, Places
      <4>2. m \in Nat /\ turn \in Nat /\ turn \in Members
        BY <1>0, ConstantFacts DEF Members
      <4>3. Trips(Size) \in Nat /\ Trips(turn - 1) \in Nat
        BY <4>2, TripBounds
      <4> QED BY <4>1, <4>2, <4>3, <1>elapsed
    <3>3. silent' <= 2 * Longest + Trips(Size)
      <4>0. Trips(Size - m + 1) \in Nat /\ Trips(Size - m + 1) <= Trips(Size)
        BY <3>2, TripBounds, ConstantFacts
      <4>1. CASE at = "sleeping"
        <5>1. silent' <= Trips(Size - m + 1) + Elapsed'
          BY <3>1, <4>1, <1>0 DEF LossAge
        <5> QED BY <5>1, <4>0, <3>2, ConstantFacts
      <4>2. CASE at = "calling" /\ m <= turn /\ silent' <= Trips(turn - m) + Elapsed'
        <5>1. turn - m \in Nat /\ turn - m <= Size /\ Size \in Nat
          BY <4>2, <3>2, ConstantFacts DEF Members
        <5>2. Trips(turn - m) \in Nat /\ Trips(turn - m) <= Trips(Size)
          BY <5>1, TripsFacts, TripsGrow
        <5> QED BY <4>2, <5>2, <3>2, ConstantFacts
      <4>3. CASE /\ at = "calling" /\ turn <= m
                 /\ silent' <= Trips(Size - m + 1) + Longest + Trips(turn - 1) + Elapsed'
        <5>1. Trips(Size - m + 1) + Trips(turn - 1) <= Trips(Size)
          BY <4>3, Sums
        <5> QED BY <4>0, <4>3, <5>1, <3>2, ConstantFacts
      <4>4. at = "calling" =>
              \/ m <= turn /\ silent' <= Trips(turn - m) + Elapsed'
              \/ turn <= m /\ silent' <= Trips(Size - m + 1) + Longest + Trips(turn - 1) + Elapsed'
        BY <3>1, <3>2, <1>0 DEF LossAge
      <4> QED BY <3>2, <4>1, <4>2, <4>3, <4>4
    <3> QED BY <3>3 DEF AlarmInTime, Trips
  <2>2. CASE ~ (stage = "held" /\ dropped)
    BY <2>2, <1>0 DEF NothingOverdue, AlarmInTime
  <2> QED BY <2>1, <2>2
<1>8. ReleaseIsPrompt'
  <2>1. CASE stage = "ending"
    <3>1. /\ at = "calling" /\ Elapsed' \in 0 .. Longest /\ waited' \in Nat
          /\ turn \in Nat \ {0} /\ turn <= Size
      BY <1>0, <1>1, <2>1, <1>elapsed, ConstantFacts DEF TypeOK, Places, Members
    <3>2. CASE turn = Size
      <4>1. waited' <= Elapsed'
        BY <1>6, <1>0, <2>1, <3>1, <3>2 DEF ReleaseAges
      <4>2. Size > 1 => (Size - 2) * MaxTrip \in Nat
        <5>1. Size > 1 => Size - 2 \in Nat
          BY ConstantFacts
        <5> QED BY <5>1, TripsFacts DEF Trips
      <4> QED BY <3>1, <4>1, <4>2, ConstantFacts DEF ReleaseIsPrompt
    <3>3. CASE turn # Size
      <4>1. waited' <= Trips(turn - 1) + Elapsed'
        BY <1>6, <1>0, <2>1, <3>1, <3>3 DEF ReleaseAges
      <4>2. /\ turn - 1 \in Nat /\ Size - 2 \in Nat /\ turn - 1 <= Size - 2 /\ Size > 1
        BY <3>1, <3>3, ConstantFacts
      <4>3. Trips(turn - 1) \in Nat /\ Trips(Size - 2) \in Nat /\ Trips(turn - 1) <= Trips(Size - 2)
        BY <4>2, TripsFacts, TripsGrow
      <4>4. waited' <= Longest + Trips(Size - 2)
        BY <4>1, <4>3, <3>1, ConstantFacts
      <4> QED BY <4>2, <4>4 DEF ReleaseIsPrompt, Trips
    <3> QED BY <3>2, <3>3
  <2>2. CASE stage # "ending"
    BY <2>2, <1>0 DEF NothingOverdue, ReleaseIsPrompt
  <2> QED BY <2>1, <2>2
<1> QED
  BY <1>1, <1>2, <1>3, <1>4, <1>5, <1>6, <1>7, <1>8 DEF NothingOverdue

LEMMA NextInv == Inv /\ [Next]_vars => Inv'
<1> SUFFICES ASSUME Inv, [Next]_vars PROVE Inv'
  OBVIOUS
<1>1. CASE UNCHANGED vars
  BY <1>1 DEF vars, Inv, TypeOK, Places, Clocks, LeasesLast, LeftWhileAcquiring, LeftWhileSleeping,
     LeftWhileCalling, LossAges, LossAge, ReleaseAges, NothingOverdue, AlarmInTime, ReleaseIsPrompt,
     Elapsed, Used, Answerable
<1>2. CASE Next
  BY <1>2, AcquireMemberInv, AcquiredInv, ReleaseInv, WakeInv, StopInv, RenewedInv, FailedInv,
     ServeInv, LoseInv, DropInv, TickInv DEF Next
<1> QED
  BY <1>1, <1>2

LEMMA Invariance == Spec => []Inv
BY InitInv, NextInv, PTL DEF Spec

-----------------------------------------------------------------------------
(* What the ledger buys.                                                   *)

(* watchdog.go: every place of the watchdog keeps the types, for a group   *)
(* of any size: a timer never exceeds the longest jittered interval.       *)
THEOREM Types == Spec => []TypeOK
BY Invariance, PTL DEF Inv

(* watchdog.go:79-80: while a group of any size counts as held, no lease   *)
(* of it has run out, whichever message is lost and however jitter falls.  *)
THEOREM NoLapse == Spec => []NoSilentLapse
<1>1. Inv => NoSilentLapse
  <2> SUFFICES ASSUME Inv, stage = "held", ~ lost, ~ dropped, NEW m \in Members
               PROVE  left[m] > 0
    BY DEF NoSilentLapse
  <2>1. /\ left[m] \in Nat /\ m \in Nat /\ turn \in Nat /\ turn \in Members
        /\ at \in {"sleeping", "calling"}
        /\ Elapsed \in 0 .. Longest
    <3>1. at \in {"off", "sleeping", "calling", "exited"} /\ turn \in Members /\ turn \in Nat
      BY ConstantFacts DEF Inv, TypeOK, Members
    <3>2. at \in {"sleeping", "calling"}
      BY <3>1 DEF Inv, Places
    <3>3. left[m] \in Nat /\ m \in Nat /\ Elapsed \in 0 .. Longest
      BY <3>2, Sums, ConstantFacts
    <3> QED BY <3>1, <3>2, <3>3
  <2>2. CASE at = "sleeping"
    <3>1. left[m] >= Lease - MaxWait - Trips(Size - m + 1) - Elapsed
      BY <2>2 DEF Inv, LeasesLast, LeftWhileSleeping
    <3> QED BY <3>1, <2>1, TripBounds, ConstantFacts
  <2>3. CASE at = "calling" /\ m <= turn /\ left[m] >= Lease - Trips(turn - m) - Elapsed
    <3>1. turn - m \in Nat /\ turn - m <= Size /\ Size \in Nat
      BY <2>1, <2>3, ConstantFacts DEF Members
    <3>2. Trips(turn - m) \in Nat /\ Trips(turn - m) <= Trips(Size) /\ Trips(Size) \in Nat
      BY <3>1, TripsFacts, TripsGrow
    <3> QED BY <2>1, <2>3, <3>2, ConstantFacts
  <2>4. CASE /\ at = "calling" /\ turn <= m
             /\ left[m] >= Lease - MaxWait - Trips(Size - m + 1) - Longest - Trips(turn - 1) - Elapsed
    <3>1. Trips(Size - m + 1) + Trips(turn - 1) <= Trips(Size)
      BY <2>4, Sums
    <3> QED BY <2>1, <2>4, <3>1, Sums, TripBounds, ConstantFacts
  <2>5. at = "calling" =>
          \/ m <= turn /\ left[m] >= Lease - Trips(turn - m) - Elapsed
          \/ /\ turn <= m
             /\ left[m] >= Lease - MaxWait - Trips(Size - m + 1) - Longest - Trips(turn - 1) - Elapsed
    BY <2>1 DEF Inv, LeasesLast, LeftWhileCalling
  <2> QED BY <2>1, <2>2, <2>3, <2>4, <2>5
<1> QED
  BY <1>1, Invariance, PTL

(* watchdog.go:72-77: the alarm for a vanished member is never later than  *)
(* two intervals and the trips of one round.                               *)
THEOREM AlarmIsInTime == Spec => []AlarmInTime
BY Invariance, PTL DEF Inv, NothingOverdue

(* hold.go:151: the wait of Release for the watchdog has a bound.          *)
THEOREM ReleaseReturns == Spec => []ReleaseIsPrompt
BY Invariance, PTL DEF Inv, NothingOverdue

(* A healthy group needs two facts more: no interval is drawn shorter than *)
(* jitter allows, and nothing but a loss marks the group lost.             *)
Healthy ==
  /\ at \in {"sleeping", "calling"} => iv >= Interval - Swing
  /\ TimeoutsOutlastTrips /\ faults = MaxFaults => ~ lost

LEMMA HealthyStep == Inv /\ Healthy /\ [Next]_vars => Healthy'
<1> SUFFICES ASSUME Inv, Healthy, [Next]_vars PROVE Healthy'
  OBVIOUS
<1> USE DEF Healthy
<1>slept. Sleep => iv' >= Interval - Swing
  <2> SUFFICES ASSUME Sleep PROVE iv' >= Interval - Swing
    OBVIOUS
  <2>1. PICK d \in Jittered : iv' = d
    BY DEF Sleep
  <2> QED BY <2>1, ConstantFacts DEF Jittered
<1>kept. ASSUME UNCHANGED lost, faults' <= faults, faults' \in 0 .. MaxFaults
         PROVE  TimeoutsOutlastTrips /\ faults' = MaxFaults => ~ lost'
  BY <1>kept, ConstantFacts DEF Inv, TypeOK
<1>range. faults \in 0 .. MaxFaults /\ faults <= faults
  BY ConstantFacts DEF Inv, TypeOK
<1>1. CASE AcquireMember
  BY <1>1, <1>kept, <1>range DEF AcquireMember
<1>2. CASE Acquired
  BY <1>2, <1>kept, <1>range, <1>slept DEF Acquired
<1>3. CASE Release
  BY <1>3, <1>kept, <1>range DEF Release
<1>4. CASE Wake
  BY <1>4, <1>kept, <1>range DEF Wake, Renew, Exit
<1>5. CASE Stop
  BY <1>5, <1>kept, <1>range DEF Stop, Exit
<1>6. CASE Renewed
  BY <1>6, <1>kept, <1>range, <1>slept DEF Renewed, Renew, Exit
<1>7. CASE Failed
  <2>1. at' = "exited" /\ faults' = faults /\ at = "calling"
        /\ (call.state = "ErrNotOwner" \/ timer = 0)
    BY <1>7 DEF Failed, Exit
  <2>2. TimeoutsOutlastTrips /\ faults = MaxFaults => FALSE
    <3> SUFFICES ASSUME TimeoutsOutlastTrips, faults = MaxFaults PROVE FALSE
      OBVIOUS
    <3>1. call.state # "lost" /\ ~ dropped
      BY ConstantFacts DEF Inv, Places
    <3>2. call.state \in {"sent", "ok"}
      BY <2>1, <3>1 DEF Inv, TypeOK, Places, LeasesLast, LeftWhileCalling
    <3>3. timer + MaxTrip = iv + call.due
      BY <2>1, <3>2 DEF Inv, Clocks, Answerable
    <3>4. timer = 0 /\ iv >= Interval - Swing /\ iv \in Nat /\ call.due \in Nat
      BY <2>1, <3>2, ConstantFacts DEF Inv, TypeOK
    <3> QED BY <3>3, <3>4, ConstantFacts DEF TimeoutsOutlastTrips
  <2> QED BY <2>1, <2>2
<1>8. CASE Serve
  BY <1>8, <1>kept, <1>range DEF Serve
<1>9. CASE Lose
  BY <1>9, <1>kept, <1>range, ConstantFacts DEF Lose
<1>10. CASE Drop
  BY <1>10, <1>kept, <1>range, ConstantFacts DEF Drop
<1>11. CASE Tick
  BY <1>11, <1>kept, <1>range DEF Tick
<1>12. CASE UNCHANGED vars
  BY <1>12, <1>kept, <1>range DEF vars
<1> QED
  BY <1>1, <1>2, <1>3, <1>4, <1>5, <1>6, <1>7, <1>8, <1>9, <1>10, <1>11, <1>12 DEF Next

(* watchdog.go:61: a group of any size that loses nothing, and is answered *)
(* within the shortest timeout, is never marked lost.                      *)
THEOREM HealthyGroups == Spec => []HealthyGroupsLast
<1>1. Init => Healthy
  BY DEF Init, Healthy
<1>2. Inv /\ Healthy => HealthyGroupsLast
  <2> SUFFICES ASSUME Inv, Healthy, TimeoutsOutlastTrips, faults = MaxFaults, stage = "held",
                      NEW m \in Members
               PROVE  /\ left[m] >= Lease - Longest - (Size + 1) * MaxTrip - MaxWait
    BY DEF HealthyGroupsLast, Healthy
  <2>0. /\ left[m] \in Nat /\ m \in Nat /\ turn \in Nat /\ turn \in Members
        /\ at \in {"sleeping", "calling"} /\ ~ dropped /\ call.state # "lost"
        /\ Elapsed \in 0 .. Longest
    <3>1. ~ lost /\ ~ dropped /\ call.state # "lost"
      BY ConstantFacts DEF Inv, Healthy, Places
    <3>2. at \in {"off", "sleeping", "calling", "exited"} /\ turn \in Members /\ turn \in Nat
      BY ConstantFacts DEF Inv, TypeOK, Members
    <3>3. at \in {"sleeping", "calling"}
      BY <3>1, <3>2 DEF Inv, Places
    <3>4. left[m] \in Nat /\ m \in Nat /\ Elapsed \in 0 .. Longest
      BY <3>3, Sums, ConstantFacts
    <3> QED BY <3>1, <3>2, <3>3, <3>4
  <2>1. Trips(Size + 1) = Trips(Size) + MaxTrip /\ Trips(Size) \in Nat
    BY TripsFacts, ConstantFacts
  <2>2. CASE at = "sleeping"
    <3>1. left[m] >= Lease - MaxWait - Trips(Size - m + 1) - Elapsed
      BY <2>0, <2>2 DEF Inv, LeasesLast, LeftWhileSleeping
    <3>2. left[m] >= Lease - Longest - Trips(Size + 1) - MaxWait
      BY <3>1, <2>0, <2>1, TripBounds, ConstantFacts
    <3> QED BY <3>2 DEF Trips
  <2>3. at = "calling" => Elapsed <= MaxTrip
    BY <2>0, ConstantFacts DEF Inv, Clocks, Answerable, Places, TypeOK, Elapsed
  <2>4. CASE at = "calling" /\ m <= turn /\ left[m] >= Lease - Trips(turn - m) - Elapsed
    <3>1. turn - m \in Nat /\ turn - m <= Size /\ Size \in Nat
      BY <2>0, <2>4, ConstantFacts DEF Members
    <3>2. Trips(turn - m) \in Nat /\ Trips(turn - m) <= Trips(Size)
      BY <3>1, TripsFacts, TripsGrow
    <3>3. left[m] >= Lease - Longest - Trips(Size + 1) - MaxWait
      BY <2>0, <2>1, <2>4, <3>2, ConstantFacts
    <3> QED BY <3>3 DEF Trips
  <2>5. CASE /\ at = "calling" /\ turn <= m
             /\ left[m] >= Lease - MaxWait - Trips(Size - m + 1) - Longest - Trips(turn - 1) - Elapsed
    <3>1. Trips(Size - m + 1) + Trips(turn - 1) <= Trips(Size)
      BY <2>5, Sums
    <3>2. Trips(Size - m + 1) \in Nat /\ Trips(turn - 1) \in Nat
      BY Sums
    <3>3. left[m] >= Lease - Longest - Trips(Size + 1) - MaxWait
      BY <2>0, <2>1, <2>3, <2>5, <3>1, <3>2, ConstantFacts
    <3> QED BY <3>3 DEF Trips
  <2>6. at = "calling" =>
          \/ m <= turn /\ left[m] >= Lease - Trips(turn - m) - Elapsed
          \/ /\ turn <= m
             /\ left[m] >= Lease - MaxWait - Trips(Size - m + 1) - Longest - Trips(turn - 1) - Elapsed
    BY <2>0 DEF Inv, LeasesLast, LeftWhileCalling
  <2> QED BY <2>0, <2>2, <2>4, <2>5, <2>6
<1> QED
  BY <1>1, <1>2, HealthyStep, Invariance, PTL DEF Spec

=============================================================================
