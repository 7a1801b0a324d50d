--------------------------- MODULE LeaseHolds_proof ---------------------------
(***************************************************************************)
(* What the operators of LeaseHolds return: a table of holds again, which  *)
(* differs from the old one only at the owner of the call, and what the    *)
(* hold there has kept.                                                    *)
(***************************************************************************)
EXTENDS LeaseHolds, TLAPS

Table == [Owners -> Hold \cup {NoHold}]

(* NoHold is not a hold: it has no mode.                                   *)
LEMMA NoHoldIsNone ==
  /\ NoHold \notin Hold
  /\ \A x \in Hold \cup {NoHold} : x = NoHold <=> x.mode = "none"
  /\ \A x \in Hold : x.mode \in Modes
BY DEF NoHold, Hold, Modes

(* Only the fence of a hold is not zero.                                   *)
LEMMA FencesOfHolds ==
  /\ NoHold.fence = 0
  /\ \A x \in Hold : x.fence \in Nat \ {0} /\ x.count \in Nat \ {0}
BY DEF NoHold, Hold

(* The ways in which an action rewrites a hold leave a hold.               *)
LEMMA ReenteredHold ==
  ASSUME NEW x \in Hold, NEW l \in Nat \ {0}
  PROVE  LET y == [x EXCEPT !.count = x.count + 1, !.left = l]
         IN  y \in Hold /\ y.fence = x.fence /\ y.mode = x.mode /\ y.count = x.count + 1
<1> DEFINE z == [x EXCEPT !.count = x.count + 1]
<1>1. z \in Hold /\ z.fence = x.fence /\ z.mode = x.mode /\ z.count = x.count + 1
  BY DEF Hold
<1> HIDE DEF z
<1>2. LET y == [z EXCEPT !.left = l]
      IN  y \in Hold /\ y.fence = x.fence /\ y.mode = x.mode /\ y.count = x.count + 1
  BY <1>1 DEF Hold
<1>3. [x EXCEPT !.count = x.count + 1, !.left = l] = [z EXCEPT !.left = l]
  BY DEF z
<1> QED
  BY <1>2, <1>3

LEMMA DowngradedHold ==
  ASSUME NEW x \in Hold
  PROVE  LET y == [x EXCEPT !.mode = "read", !.count = 1]
         IN  y \in Hold /\ y.fence = x.fence /\ y.mode = "read" /\ y.count = 1
<1> DEFINE z == [x EXCEPT !.mode = "read"]
<1>1. z \in Hold /\ z.fence = x.fence /\ z.mode = "read"
  BY DEF Hold, Modes
<1> HIDE DEF z
<1>2. LET y == [z EXCEPT !.count = 1]
      IN  y \in Hold /\ y.fence = x.fence /\ y.mode = "read" /\ y.count = 1
  BY <1>1 DEF Hold
<1>3. [x EXCEPT !.mode = "read", !.count = 1] = [z EXCEPT !.count = 1]
  BY DEF z
<1> QED
  BY <1>2, <1>3

(* A step from H to G changes the hold of o only.                          *)
OnlyOf(H, G, o) == G \in Table /\ \A p \in Owners \ {o} : G[p] = H[p]

(* TryAcquire.                                                             *)
LEMMA GrantedEffect ==
  ASSUME NEW H \in Table, NEW o \in Owners, NEW m \in Modes,
         NEW f \in Nat \ {0}, NEW l \in Nat \ {0}, NEW G, G = Granted(H, o, m, f, l)
  PROVE  /\ OnlyOf(H, G, o) /\ G[o] \in Hold
         /\ G[o].mode = m /\ G[o].fence = f /\ G[o].count = 1
<1> DEFINE x == [mode |-> m, count |-> 1, fence |-> f, left |-> l]
<1>1. x \in Hold /\ x.mode = m /\ x.fence = f /\ x.count = 1
  BY DEF Hold
<1>2. G = [H EXCEPT ![o] = x]
  BY DEF Granted
<1> HIDE DEF x
<1> QED BY <1>1, <1>2 DEF OnlyOf, Table

LEMMA ReenteredEffect ==
  ASSUME NEW H \in Table, NEW o \in Owners, H[o] # NoHold,
         NEW l \in Nat \ {0}, NEW G, G = Reentered(H, o, l)
  PROVE  /\ OnlyOf(H, G, o) /\ G[o] \in Hold
         /\ G[o].mode = H[o].mode /\ G[o].fence = H[o].fence /\ G[o].count = H[o].count + 1
<1> DEFINE x == [H[o] EXCEPT !.count = H[o].count + 1, !.left = l]
<1>1. H[o] \in Hold
  BY DEF Table
<1>2. /\ x \in Hold /\ x.mode = H[o].mode
      /\ x.fence = H[o].fence /\ x.count = H[o].count + 1
  BY <1>1, ReenteredHold
<1>3. G = [H EXCEPT ![o] = x]
  BY DEF Reentered
<1> HIDE DEF x
<1> QED BY <1>2, <1>3 DEF OnlyOf, Table

(* Refresh.                                                                *)
LEMMA ExtendedEffect ==
  ASSUME NEW H \in Table, NEW o \in Owners, H[o] # NoHold,
         NEW l \in Nat \ {0}, NEW G, G = Extended(H, o, l)
  PROVE  /\ OnlyOf(H, G, o) /\ G[o] \in Hold
         /\ G[o].mode = H[o].mode /\ G[o].fence = H[o].fence /\ G[o].count = H[o].count
<1> DEFINE x == [H[o] EXCEPT !.left = l]
<1>1. H[o] \in Hold
  BY DEF Table
<1>2. /\ x \in Hold /\ x.mode = H[o].mode
      /\ x.fence = H[o].fence /\ x.count = H[o].count
  BY <1>1 DEF Hold
<1>3. G = [H EXCEPT ![o] = x]
  BY DEF Extended
<1> HIDE DEF x
<1> QED BY <1>2, <1>3 DEF OnlyOf, Table

(* Release.                                                                *)
LEMMA ReleasedEffect ==
  ASSUME NEW H \in Table, NEW o \in Owners, H[o] # NoHold, NEW G, G = Released(H, o)
  PROVE  /\ OnlyOf(H, G, o)
         /\ G[o] # NoHold => /\ G[o] \in Hold
                             /\ G[o].mode = H[o].mode /\ G[o].fence = H[o].fence
                             /\ G[o].count = H[o].count - 1
<1>1. H[o] \in Hold
  BY DEF Table
<1>2. CASE H[o].count > 1
  <2> DEFINE x == [H[o] EXCEPT !.count = H[o].count - 1]
  <2>1. /\ x \in Hold /\ x.mode = H[o].mode
        /\ x.fence = H[o].fence /\ x.count = H[o].count - 1
    BY <1>1, <1>2 DEF Hold
  <2>2. G = [H EXCEPT ![o] = x]
    BY <1>2 DEF Released
  <2> HIDE DEF x
  <2> QED BY <2>1, <2>2 DEF OnlyOf, Table
<1>3. CASE ~ H[o].count > 1
  <2>1. G = [H EXCEPT ![o] = NoHold]
    BY <1>3 DEF Released
  <2> QED BY <2>1 DEF OnlyOf, Table
<1> QED BY <1>2, <1>3

(* Downgrade.                                                              *)
LEMMA DowngradedEffect ==
  ASSUME NEW H \in Table, NEW o \in Owners, H[o] # NoHold, NEW G, G = Downgraded(H, o)
  PROVE  /\ OnlyOf(H, G, o) /\ G[o] \in Hold
         /\ G[o].mode = "read" /\ G[o].fence = H[o].fence /\ G[o].count = 1
<1> DEFINE x == [H[o] EXCEPT !.mode = "read", !.count = 1]
<1>1. H[o] \in Hold
  BY DEF Table
<1>2. /\ x \in Hold /\ x.mode = "read"
      /\ x.fence = H[o].fence /\ x.count = 1
  BY <1>1, DowngradedHold
<1>3. G = [H EXCEPT ![o] = x]
  BY DEF Downgraded
<1> HIDE DEF x
<1> QED BY <1>2, <1>3 DEF OnlyOf, Table

(* A tick.                                                                 *)
LEMMA AgedEffect ==
  ASSUME NEW H \in Table, NEW G, G = Aged(H)
  PROVE  /\ G \in Table
         /\ \A o \in Owners : G[o] # NoHold =>
              /\ H[o] # NoHold /\ G[o].mode = H[o].mode
              /\ G[o].fence = H[o].fence /\ G[o].count = H[o].count
<1>1. \A o \in Owners :
        G[o] = IF H[o].left > 1 THEN [H[o] EXCEPT !.left = H[o].left - 1] ELSE NoHold
  BY DEF Aged
<1>2. ASSUME NEW o \in Owners, H[o].left > 1
      PROVE  LET x == [H[o] EXCEPT !.left = H[o].left - 1]
             IN  /\ H[o] # NoHold /\ x \in Hold /\ x.mode = H[o].mode
                 /\ x.fence = H[o].fence /\ x.count = H[o].count
  <2>1. NoHold.left = 0
    BY DEF NoHold
  <2>2. H[o] \in Hold
    BY <1>2, <2>1 DEF Table
  <2> QED BY <1>2, <2>1, <2>2 DEF Hold
<1>3. ASSUME NEW o \in Owners
      PROVE  /\ G[o] \in Hold \cup {NoHold}
             /\ G[o] # NoHold =>
                  /\ H[o] # NoHold /\ G[o].mode = H[o].mode
                  /\ G[o].fence = H[o].fence /\ G[o].count = H[o].count
  <2>1. CASE H[o].left > 1
    <3>1. G[o] = [H[o] EXCEPT !.left = H[o].left - 1]
      BY <1>1, <2>1
    <3> QED BY <3>1, <1>2, <2>1
  <2>2. CASE ~ H[o].left > 1
    <3>1. G[o] = NoHold
      BY <1>1, <2>2
    <3> QED BY <3>1
  <2> QED BY <2>1, <2>2
<1>4. G = [o \in Owners |-> G[o]]
  BY DEF Aged
<1> QED BY <1>3, <1>4 DEF Table

=============================================================================
