--------------------------- MODULE MultiLock_proof ---------------------------
(***************************************************************************)
(* What MultiLock guarantees for any groups, Keys, owners and leases.      *)
(* Two things carry the proofs.  The Keys of a group ascend (Ascending),   *)
(* from which there is no circular wait.  And the count of a live record   *)
(* is the number of groups that have a member on it or lost a call about   *)
(* it (Counted), from which no group takes a record away from another one, *)
(* or leaves one behind.                                                   *)
(***************************************************************************)
EXTENDS MultiLock, LeaseHolds_proof, FiniteSetTheorems, TLAPS

(* Where the application, the Refresh and the watchdog of a group can be.  *)
Control ==
  \A g \in Groups :
    /\ stage[g] \in Stages
    /\ at[g] \in 0 .. Size(g)
    /\ stage[g] \in {"idle", "failed", "released"} => at[g] = 0
    /\ stage[g] = "acquiring" => at[g] < Size(g)
    /\ stage[g] = "held" => at[g] = Size(g)
    /\ stage[g] = "releasing" => at[g] > 0
    /\ renewing[g] \in 0 .. Size(g)
    /\ watchdog[g].at \in 1 .. Size(g)

(* A Key has one live record at most, in write mode, with a fence that was *)
(* issued.                                                                 *)
Exclusive ==
  \A k \in Keys, o \in Owners : recs[k][o] # NoHold =>
    /\ recs[k][o].mode = "write"
    /\ recs[k][o].fence <= issued
    /\ \A p \in Owners \ {o} : recs[k][p] = NoHold

(* It is younger than every generation that another owner has had.         *)
Newest ==
  \A g \in Groups, o \in Owners : OwnerOf[g] # o =>
    \A n \in 1 .. Size(g) :
      recs[Key(g, n)][o] # NoHold => member[g][n].fence < recs[Key(g, n)][o].fence

(* A call that left a count behind was about a Key that its group does not *)
(* have, or not any more, and it was the last the group did before it gave *)
(* back the rest.                                                          *)
Early == {"idle", "acquiring", "held"}

Leaks ==
  \A g \in Groups, k \in Keys, f \in Nat :
    <<g, k, f>> \in leaked => stage[g] \notin Early /\ ~ Has(g, k)

(* The groups that have a member on the record of o, or have left a count  *)
(* on it.                                                                  *)
Sharing(k, o) ==
  {g \in Groups :
     /\ OwnerOf[g] = o
     /\ \/ \E n \in 1 .. at[g] : Key(g, n) = k /\ member[g][n].fence = recs[k][o].fence
        \/ <<g, k, recs[k][o].fence>> \in leaked}

(* Its count is theirs.                                                    *)
Covers(k, o) == recs[k][o] # NoHold => recs[k][o].count = Cardinality(Sharing(k, o))

Counted == \A k \in Keys, o \in Owners : Covers(k, o)

(* Where nothing but a release takes a record away, every member that has  *)
(* been acquired and not given back is backed.                             *)
Lasting == ~ Lapses /\ "drop" \notin Faults

Backed == Lasting => \A g \in Groups : \A n \in 1 .. at[g] : Mine(g, n)

Inv == TypeOK /\ Control /\ Leaks /\ Exclusive /\ Newest /\ Counted /\ Backed
-----------------------------------------------------------------------------
(* sortedUnique.                                                           *)

Numbering(P, f) == f \in [P -> Nat] /\ \A x, y \in P : f[x] = f[y] => x = y

UpTo(P, f, x) == {y \in P : f[y] <= f[x]}

(* In a finite set of things with different numbers every rank is taken.   *)
LEMMA Ranks ==
  ASSUME NEW P, NEW f, IsFiniteSet(P), Numbering(P, f)
  PROVE  /\ Cardinality(P) \in Nat
         /\ \A x \in P : Cardinality(UpTo(P, f, x)) \in 1 .. Cardinality(P)
         /\ \A x, y \in P : Cardinality(UpTo(P, f, x)) = Cardinality(UpTo(P, f, y)) => x = y
         /\ \A n \in 1 .. Cardinality(P) : \E x \in P : Cardinality(UpTo(P, f, x)) = n
<1> DEFINE rank == [x \in P |-> Cardinality(UpTo(P, f, x))]
           N == Cardinality(P)
<1>1. N \in Nat
  BY FS_CardinalityType
<1>number. f \in [P -> Nat] /\ \A x, y \in P : f[x] = f[y] => x = y
  BY DEF Numbering
<1>2. ASSUME NEW x \in P
      PROVE  /\ UpTo(P, f, x) \in SUBSET P /\ IsFiniteSet(UpTo(P, f, x)) /\ x \in UpTo(P, f, x)
             /\ Cardinality(UpTo(P, f, x)) \in 1 .. N
  <2>1. UpTo(P, f, x) \in SUBSET P /\ x \in UpTo(P, f, x)
    <3>1. f[x] \in Nat
      BY <1>number
    <3> QED BY <3>1 DEF UpTo
  <2>2. IsFiniteSet(UpTo(P, f, x)) /\ Cardinality(UpTo(P, f, x)) <= N
    BY <2>1, FS_Subset
  <2>3. Cardinality(UpTo(P, f, x)) \in Nat /\ Cardinality(UpTo(P, f, x)) # 0
    BY <2>1, <2>2, FS_CardinalityType, FS_EmptySet
  <2> QED BY <1>1, <2>1, <2>2, <2>3
<1>3. ASSUME NEW x \in P, NEW y \in P, f[x] < f[y]
      PROVE  Cardinality(UpTo(P, f, x)) # Cardinality(UpTo(P, f, y))
  <2>1. \A z \in P : f[z] \in Nat
    BY <1>number
  <2>2. \A z \in P : f[z] <= f[x] => f[z] <= f[y]
    BY <1>3, <2>1
  <2>3. UpTo(P, f, x) \in SUBSET UpTo(P, f, y)
    BY <2>2 DEF UpTo
  <2>4. y \notin UpTo(P, f, x)
    BY <1>3, <2>1 DEF UpTo
  <2>5. UpTo(P, f, x) # UpTo(P, f, y) /\ IsFiniteSet(UpTo(P, f, y))
    BY <1>2, <2>4
  <2> QED BY <2>3, <2>5, FS_Subset
<1>4. ASSUME NEW x \in P, NEW y \in P, Cardinality(UpTo(P, f, x)) = Cardinality(UpTo(P, f, y))
      PROVE  x = y
  <2>1. f[x] \in Nat /\ f[y] \in Nat
    BY <1>number
  <2>2. ~ (f[x] < f[y]) /\ ~ (f[y] < f[x])
    BY <1>3, <1>4
  <2>3. f[x] = f[y]
    BY <2>1, <2>2
  <2> QED BY <1>number, <2>3
<1>5. rank \in Injection(P, 1 .. N)
  BY <1>2, <1>4 DEF Injection, IsInjective
<1>6. IsFiniteSet(1 .. N) /\ Cardinality(1 .. N) = N
  BY <1>1, FS_Interval
<1>7. rank \in Surjection(P, 1 .. N)
  BY <1>5, <1>6, FS_Injection
<1>8. \A n \in 1 .. N : \E x \in P : rank[x] = n
  BY <1>7 DEF Surjection
<1> QED BY <1>1, <1>2, <1>4, <1>8

LEMMA Greatest ==
  ASSUME NEW S \in SUBSET Nat, IsFiniteSet(S), S # {}
  PROVE  \E x \in S : \A y \in S : y <= x
<1> DEFINE id == [x \in S |-> x]
<1>1. Cardinality(S) \in 1 .. Cardinality(S)
  BY FS_EmptySet, FS_CardinalityType
<1>2. Numbering(S, id)
  BY DEF Numbering
<1>3. \A x, y \in S : y \in UpTo(S, id, x) => y <= x
  BY DEF UpTo
<1> HIDE DEF id
<1>4. PICK x \in S : Cardinality(UpTo(S, id, x)) = Cardinality(S)
  <2>1. \A n \in 1 .. Cardinality(S) : \E x \in S : Cardinality(UpTo(S, id, x)) = n
    BY <1>2, Ranks
  <2> QED BY <1>1, <2>1
<1>5. UpTo(S, id, x) \in SUBSET S
  BY DEF UpTo
<1>6. UpTo(S, id, x) = S
  BY <1>4, <1>5, FS_Subset
<1> QED BY <1>3, <1>6

(* locker.go, sortedUnique: among the places where a Key occurs first, no  *)
(* two have the same Key, so that each has a place of its own in the       *)
(* ascending order.                                                        *)
LEMMA Ascending ==
  ASSUME NEW K \in SUBSET Nat, NEW keys \in Seq(K)
  PROVE  LET s == sortedUnique(keys) IN
         /\ s \in Seq(K)
         /\ \A i, j \in 1 .. Len(s) : i < j => s[i] < s[j]
         /\ keys # <<>> => Len(s) > 0
<1> DEFINE P == Unseen(keys)
           N == Cardinality(P)
           f == [m \in P |-> keys[m]]
           place(n) == CHOOSE m \in P : Cardinality({j \in P : keys[j] <= keys[m]}) = n
           s == sortedUnique(keys)
<1>1. P \subseteq 1 .. Len(keys) /\ IsFiniteSet(P)
  <2>1. P \in SUBSET (1 .. Len(keys))
    BY DEF Unseen
  <2>2. IsFiniteSet(1 .. Len(keys))
    BY FS_Interval
  <2> QED BY <2>1, <2>2, FS_Subset
<1>2. \A m \in P : m \in Nat /\ keys[m] \in K /\ keys[m] \in Nat
  <2> HIDE DEF P
  <2>1. \A m \in 1 .. Len(keys) : m \in Nat /\ keys[m] \in K
    OBVIOUS
  <2> QED BY <1>1, <2>1
<1>3. f \in [P -> Nat]
  BY <1>2
<1>4. ASSUME NEW x \in P, NEW y \in P, f[x] = f[y]
      PROVE  x = y
  <2>1. keys[x] = keys[y] /\ x \in Nat /\ y \in Nat /\ x >= 1 /\ y >= 1
    BY <1>1, <1>2, <1>4
  <2>2. /\ \A m \in 1 .. x - 1 : keys[m] # keys[x]
        /\ \A m \in 1 .. y - 1 : keys[m] # keys[y]
    BY DEF Unseen
  <2> HIDE DEF P
  <2>3. ~ (x < y) /\ ~ (y < x)
    BY <2>1, <2>2
  <2> QED BY <2>1, <2>3
<1>5. \A m \in P : UpTo(P, f, m) = {j \in P : keys[j] <= keys[m]}
  BY DEF UpTo
<1>6. s = [n \in 1 .. N |-> keys[place(n)]]
  BY DEF sortedUnique
<1> HIDE DEF s, P, f
<1>7. N \in Nat /\ \A n \in 1 .. N : \E m \in P : Cardinality(UpTo(P, f, m)) = n
  <2>1. Numbering(P, f)
    BY <1>3, <1>4 DEF Numbering
  <2>2. /\ Cardinality(P) \in Nat
        /\ \A n \in 1 .. Cardinality(P) : \E m \in P : Cardinality(UpTo(P, f, m)) = n
    <3>1. IsFiniteSet(P)
      BY <1>1
    <3>2. /\ Cardinality(P) \in Nat
          /\ \A n \in 1 .. Cardinality(P) : \E x \in P : Cardinality(UpTo(P, f, x)) = n
      BY <2>1, <3>1, Ranks
    <3> QED BY <3>2
  <2> QED BY <2>2
<1>8. \A n \in 1 .. N : place(n) \in P /\ Cardinality(UpTo(P, f, place(n))) = n
  <2> TAKE n \in 1 .. N
  <2>1. \E m \in P : Cardinality({j \in P : keys[j] <= keys[m]}) = n
    BY <1>5, <1>7
  <2>2. place(n) \in P /\ Cardinality({j \in P : keys[j] <= keys[place(n)]}) = n
    BY <2>1
  <2> HIDE DEF place
  <2> QED BY <1>5, <2>2
<1> HIDE DEF place
<1>9. s \in Seq(K) /\ Len(s) = N /\ \A n \in 1 .. N : s[n] = keys[place(n)]
  <2>1. \A n \in 1 .. N : keys[place(n)] \in K
    BY <1>2, <1>8
  <2> HIDE DEF N
  <2> QED BY <1>6, <1>7, <2>1
<1>10. ASSUME NEW i \in 1 .. N, NEW j \in 1 .. N, i < j
       PROVE  s[i] < s[j]
  <2> DEFINE x == place(i)
             y == place(j)
  <2>1. x \in P /\ y \in P /\ keys[x] \in Nat /\ keys[y] \in Nat
    BY <1>2, <1>8
  <2>2. ASSUME keys[y] <= keys[x]
        PROVE  FALSE
    <3>1. UpTo(P, f, y) \in SUBSET UpTo(P, f, x)
      <4>1. \A m \in P : keys[m] <= keys[y] => keys[m] <= keys[x]
        BY <1>2, <2>1, <2>2
      <4>2. \A m \in P : m \in UpTo(P, f, y) => m \in UpTo(P, f, x)
        BY <1>5, <2>1, <4>1
      <4> QED BY <4>2 DEF UpTo
    <3>2. IsFiniteSet(UpTo(P, f, x))
      <4>1. UpTo(P, f, x) \in SUBSET P
        BY DEF UpTo
      <4> QED BY <1>1, <4>1, FS_Subset
    <3>3. Cardinality(UpTo(P, f, y)) <= Cardinality(UpTo(P, f, x))
      BY <3>1, <3>2, FS_Subset
    <3>4. Cardinality(UpTo(P, f, x)) = i /\ Cardinality(UpTo(P, f, y)) = j
      BY <1>8
    <3> QED BY <1>10, <1>7, <3>3, <3>4
  <2> HIDE DEF x, y
  <2>3. keys[x] < keys[y]
    BY <2>1, <2>2
  <2> QED BY <1>9, <2>3 DEF x, y
<1>11. keys # <<>> => N > 0
  <2> SUFFICES ASSUME keys # <<>> PROVE N > 0
    OBVIOUS
  <2>1. 1 \in DOMAIN keys
    OBVIOUS
  <2>2. 1 \in P
    BY <2>1 DEF P, Unseen
  <2> QED BY <1>1, <1>7, <2>2, FS_EmptySet
<1> QED BY <1>7, <1>9, <1>10, <1>11 DEF s

(* What the specification knows of the members of a group.                 *)
LEMMA MembersFacts ==
  /\ \A g \in Groups :
       /\ OwnerOf[g] \in Owners /\ LeaseOf[g] \in Nat \ {0}
       /\ Size(g) \in Nat \ {0} /\ 1 .. Size(g) \subseteq Members /\ 0 .. Size(g) \subseteq 0 .. Largest
       /\ Size(g) <= Largest /\ Largest \in Nat \ {0}
       /\ \A n \in 1 .. Size(g) : Key(g, n) \in Keys /\ Key(g, n) \in Nat
       /\ \A n, m \in 1 .. Size(g) : /\ n < m => Key(g, n) < Key(g, m)
                                     /\ Key(g, n) = Key(g, m) => n = m
  /\ Keys \subseteq Nat /\ MaxFaults \in Nat /\ IsFiniteSet(Groups)
<1>1. ASSUME NEW g \in Groups
      PROVE  /\ Size(g) \in Nat \ {0}
             /\ \A n \in 1 .. Size(g) : Key(g, n) \in Keys /\ Key(g, n) \in Nat
             /\ \A n, m \in 1 .. Size(g) : n < m => Key(g, n) < Key(g, m)
  <2> DEFINE s == sortedUnique(KeysOf[g])
  <2>1. KeysOf[g] \in Seq(Keys) /\ KeysOf[g] # <<>> /\ Keys \in SUBSET Nat
    BY MultiLockAssumption
  <2>2. /\ s \in Seq(Keys) /\ Len(s) > 0
        /\ \A i, j \in 1 .. Len(s) : i < j => s[i] < s[j]
    BY <2>1, Ascending
  <2>4. Size(g) = Len(s) /\ \A n : Key(g, n) = s[n]
    BY DEF Size, Key, Sorted
  <2> HIDE DEF s
  <2>5. \A n \in 1 .. Len(s) : s[n] \in Keys /\ s[n] \in Nat
    <3>1. \A n \in 1 .. Len(s) : s[n] \in Keys
      BY <2>2
    <3> QED BY <2>1, <3>1
  <2> QED BY <2>2, <2>4, <2>5
<1>2. ASSUME NEW g \in Groups
      PROVE  Size(g) <= Largest /\ Largest \in Nat \ {0}
  <2> DEFINE T == {Size(p) : p \in Groups}
             f == [p \in Groups |-> Size(p)]
  <2>1. T \in SUBSET Nat /\ Size(g) \in T
    BY <1>1
  <2>2. f \in Surjection(Groups, T)
    BY DEF Surjection
  <2>3. IsFiniteSet(T)
    BY <2>2, FS_Surjection, MultiLockAssumption
  <2>4. \E n \in T : \A m \in T : m <= n
    BY <2>1, <2>3, Greatest
  <2>5. Largest = CHOOSE n \in T : \A p \in Groups : Size(p) <= n
    BY DEF Largest
  <2>6. Largest \in T /\ \A p \in Groups : Size(p) <= Largest
    <3>1. \E n \in T : \A p \in Groups : Size(p) <= n
      BY <2>4
    <3> HIDE DEF T
    <3> QED BY <2>5, <3>1
  <2> QED BY <1>1, <2>6
<1>3. ASSUME NEW g \in Groups, NEW n \in 1 .. Size(g), NEW m \in 1 .. Size(g), Key(g, n) = Key(g, m)
      PROVE  n = m
  BY <1>1, <1>3
<1>4. ASSUME NEW g \in Groups
      PROVE  1 .. Size(g) \subseteq Members /\ 0 .. Size(g) \subseteq 0 .. Largest
  BY <1>1, <1>2 DEF Members
<1> QED BY <1>1, <1>2, <1>3, <1>4, MultiLockAssumption
-----------------------------------------------------------------------------
(* Types.                                                                  *)

MemberRec(i) == [fence : 0 .. i, dead : BOOLEAN, lost : {"open", "ended", "lost"}]
MemberTable(i) == [Groups -> [Members -> MemberRec(i)]]

Store ==
  /\ recs \in [Keys -> Table]
  /\ issued \in Nat
  /\ member \in MemberTable(issued)
  /\ leaked \subseteq Groups \X Keys \X (0 .. issued)

PlaceTypes ==
  /\ stage \in [Groups -> Stages]
  /\ at \in [Groups -> 0 .. Largest]
  /\ watchdog \in [Groups -> [label : {"off", "sleeping", "calling", "exited"}, at : Members]]
  /\ renewing \in [Groups -> 0 .. Largest]
  /\ lost \in [Groups -> BOOLEAN]
  /\ faults \in 0 .. MaxFaults

Places == PlaceTypes /\ Control /\ Leaks

Deep == Exclusive /\ Newest /\ Counted /\ Backed

LEMMA InvParts ==
  /\ Inv <=> Store /\ Places /\ Deep
  /\ Inv' <=> Store' /\ Places' /\ Deep'
BY DEF Inv, TypeOK, Store, Places, PlaceTypes, Deep, MemberTable, MemberRec, Table

-----------------------------------------------------------------------------
(* Where the parties can be.                                               *)

(* One application is at s with n members, one Refresh at r, one watchdog  *)
(* at w.                                                                   *)
Moved(g, s, n, r, w) ==
  /\ stage' = [stage EXCEPT ![g] = s] /\ s \in Stages
  /\ at' = [at EXCEPT ![g] = n] /\ n \in 0 .. Size(g)
  /\ s \in {"idle", "failed", "released"} => n = 0
  /\ s = "acquiring" => n < Size(g)
  /\ s = "held" => n = Size(g)
  /\ s = "releasing" => n > 0
  /\ renewing' = [renewing EXCEPT ![g] = r] /\ r \in 0 .. Size(g)
  /\ watchdog' = [watchdog EXCEPT ![g] = w]
  /\ w \in [label : {"off", "sleeping", "calling", "exited"}, at : 1 .. Size(g)]
  /\ lost' \in [Groups -> BOOLEAN]
  /\ faults' \in 0 .. MaxFaults

(* What that may do to the counts left behind.                             *)
Leaking(g, s, n) ==
  /\ stage[g] \in Early \/ (s \notin Early /\ n <= at[g])
  /\ \A l \in leaked' :
       \/ l \in leaked
       \/ s \notin Early /\ n + 1 \in 1 .. Size(g) /\ \E f : l = <<g, Key(g, n + 1), f>>

LEMMA PlaceStep ==
  ASSUME Places, NEW g \in Groups, NEW s, NEW n, NEW r, NEW w, Moved(g, s, n, r, w),
         Leaking(g, s, n)
  PROVE  Places'
<1>1. /\ Size(g) \in Nat /\ 1 .. Size(g) \subseteq Members /\ 0 .. Size(g) \subseteq 0 .. Largest
  BY MembersFacts
<1>2. w \in [label : {"off", "sleeping", "calling", "exited"}, at : Members] /\ w.at \in 1 .. Size(g)
  BY <1>1 DEF Moved
<1>3. PlaceTypes'
  BY <1>1, <1>2 DEF Places, PlaceTypes, Moved
<1>4. Control'
  <2> SUFFICES ASSUME NEW p \in Groups
               PROVE  /\ stage'[p] \in Stages
                      /\ at'[p] \in 0 .. Size(p)
                      /\ stage'[p] \in {"idle", "failed", "released"} => at'[p] = 0
                      /\ stage'[p] = "acquiring" => at'[p] < Size(p)
                      /\ stage'[p] = "held" => at'[p] = Size(p)
                      /\ stage'[p] = "releasing" => at'[p] > 0
                      /\ renewing'[p] \in 0 .. Size(p)
                      /\ watchdog'[p].at \in 1 .. Size(p)
    BY DEF Control
  <2>1. CASE p = g
    BY <1>2, <2>1 DEF Places, PlaceTypes, Moved
  <2>2. CASE p # g
    BY <2>2 DEF Places, PlaceTypes, Control, Moved
  <2> QED BY <2>1, <2>2
<1>5. ASSUME NEW p \in Groups, NEW k \in Keys, NEW f \in Nat, <<p, k, f>> \in leaked'
      PROVE  stage'[p] \notin Early /\ ~ Has(p, k)'
  <2>1. CASE <<p, k, f>> \in leaked
    <3>1. stage[p] \notin Early /\ \A j \in 1 .. at[p] : Key(p, j) # k
      BY <2>1 DEF Places, Leaks, Has
    <3>2. CASE p = g
      <4>1. s \notin Early /\ n <= at[g] /\ stage'[g] = s /\ at'[g] = n
        BY <3>1, <3>2 DEF Leaking, Moved, Places, PlaceTypes
      <4>2. at[g] \in Nat /\ n \in Nat
        BY <1>1 DEF Places, PlaceTypes, Moved
      <4>3. \A j \in 1 .. n : j \in 1 .. at[g]
        BY <4>1, <4>2
      <4> QED BY <3>1, <3>2, <4>1, <4>3 DEF Has
    <3>3. CASE p # g
      <4>1. stage'[p] = stage[p] /\ at'[p] = at[p]
        BY <3>3 DEF Moved, Places, PlaceTypes
      <4> QED BY <3>1, <4>1 DEF Has
    <3> QED BY <3>2, <3>3
  <2>2. CASE <<p, k, f>> \notin leaked
    <3>1. s \notin Early /\ n + 1 \in 1 .. Size(g) /\ p = g /\ k = Key(g, n + 1)
      BY <1>5, <2>2 DEF Leaking
    <3>2. stage'[g] = s /\ at'[g] = n /\ n \in Nat
      BY <1>1 DEF Moved, Places, PlaceTypes
    <3>3. \A j \in 1 .. n : j \in 1 .. Size(g) /\ j # n + 1
      BY <1>1, <3>1, <3>2
    <3>4. \A j \in 1 .. n : Key(g, j) # k
      BY <3>1, <3>3, MembersFacts
    <3> QED BY <3>1, <3>2, <3>4 DEF Has
  <2> QED BY <2>1, <2>2
<1>6. Leaks'
  BY <1>5 DEF Leaks
<1> QED BY <1>3, <1>4, <1>6 DEF Places

(* A party that leaves nothing behind.                                     *)
LEMMA Careful ==
  ASSUME NEW g \in Groups, NEW s, NEW n, leaked' = leaked,
         stage[g] \in Early \/ (s \notin Early /\ n <= at[g])
  PROVE  Leaking(g, s, n)
BY DEF Leaking

(* What is not moved.                                                      *)
LEMMA Staying ==
  ASSUME Places, NEW g \in Groups
  PROVE  /\ stage = [stage EXCEPT ![g] = stage[g]]
         /\ at = [at EXCEPT ![g] = at[g]]
         /\ renewing = [renewing EXCEPT ![g] = renewing[g]]
         /\ watchdog = [watchdog EXCEPT ![g] = watchdog[g]]
         /\ stage[g] \in Stages /\ at[g] \in 0 .. Size(g) /\ renewing[g] \in 0 .. Size(g)
         /\ watchdog[g] \in [label : {"off", "sleeping", "calling", "exited"}, at : 1 .. Size(g)]
         /\ stage[g] \in {"idle", "failed", "released"} => at[g] = 0
         /\ stage[g] = "acquiring" => at[g] < Size(g)
         /\ stage[g] = "held" => at[g] = Size(g)
         /\ stage[g] = "releasing" => at[g] > 0
         /\ lost \in [Groups -> BOOLEAN] /\ faults \in 0 .. MaxFaults
         /\ Size(g) \in Nat \ {0} /\ MaxFaults \in Nat
         /\ leaked' = leaked => Leaking(g, stage[g], at[g])
<1>1. watchdog[g] \in [label : {"off", "sleeping", "calling", "exited"}, at : Members]
  BY DEF Places, PlaceTypes
<1>2. watchdog[g].at \in 1 .. Size(g)
  BY DEF Places, Control
<1>3. watchdog[g] \in [label : {"off", "sleeping", "calling", "exited"}, at : 1 .. Size(g)]
  BY <1>1, <1>2
<1>4. leaked' = leaked => Leaking(g, stage[g], at[g])
  <2>1. at[g] <= at[g]
    BY MembersFacts DEF Places, PlaceTypes
  <2> QED BY <2>1, Careful
<1> QED BY <1>3, <1>4, MembersFacts DEF Places, PlaceTypes, Control

(* The places of the watchdog.                                             *)
LEMMA Labels ==
  ASSUME NEW g \in Groups
  PROVE  LET W == [label : {"off", "sleeping", "calling", "exited"}, at : 1 .. Size(g)]
         IN  /\ Dozing \in W /\ Exited \in W
             /\ \A n \in 1 .. Size(g) : Turn(g, n) \in W
BY MembersFacts DEF Dozing, Exited, Turn

LEMMA AcquiringPlaces ==
  ASSUME Places, NEW g \in Groups,
         AcquireAll(g) \/ AcquireMember(g) \/ AcquireGiveUp(g) \/ AcquireTimeout(g)
  PROVE  Places'
<1>1. CASE AcquireAll(g)
  <2>1. Moved(g, "acquiring", at[g], renewing[g], watchdog[g])
    BY <1>1, Staying DEF AcquireAll, Stage, Stages, Moved
  <2>2. Leaking(g, "acquiring", at[g])
    BY <1>1, Careful DEF AcquireAll, Early
  <2> QED BY <2>1, <2>2, PlaceStep
<1>2. CASE AcquireMember(g)
  <2>1. /\ at[g] < Size(g) /\ at[g] \in Nat /\ Size(g) \in Nat
        /\ at' = [at EXCEPT ![g] = at[g] + 1]
        /\ renewing' = renewing /\ lost' = lost /\ faults' = faults
    BY <1>2, Staying DEF AcquireMember
  <2>leaks. Leaking(g, "acquiring", at[g] + 1) /\ Leaking(g, "held", at[g] + 1)
    BY <1>2, Careful DEF AcquireMember, Early
  <2>2. CASE at[g] + 1 < Size(g)
    <3>1. stage' = stage /\ watchdog' = watchdog /\ stage[g] = "acquiring"
      BY <1>2, <2>2 DEF AcquireMember
    <3>2. Moved(g, "acquiring", at[g] + 1, renewing[g], watchdog[g])
      BY <2>1, <2>2, <3>1, Staying DEF Stages, Moved
    <3> QED BY <2>leaks, <3>2, PlaceStep
  <2>3. CASE ~ (at[g] + 1 < Size(g))
    <3>1. /\ stage' = [stage EXCEPT ![g] = "held"]
          /\ watchdog' = [watchdog EXCEPT ![g] = Dozing] \/ watchdog' = watchdog
      BY <1>2, <2>3 DEF AcquireMember, Stage
    <3>2. at[g] + 1 = Size(g) /\ at[g] + 1 \in 0 .. Size(g)
      BY <2>1, <2>3
    <3>3. CASE watchdog' = watchdog
      <4>1. Moved(g, "held", at[g] + 1, renewing[g], watchdog[g])
        BY <2>1, <3>1, <3>2, <3>3, Staying DEF Stages, Moved
      <4> QED BY <2>leaks, <4>1, PlaceStep
    <3>4. CASE watchdog' = [watchdog EXCEPT ![g] = Dozing]
      <4>1. Moved(g, "held", at[g] + 1, renewing[g], Dozing)
        BY <2>1, <3>1, <3>2, <3>4, Staying, Labels DEF Stages, Moved
      <4> QED BY <2>leaks, <4>1, PlaceStep
    <3> QED BY <3>1, <3>3, <3>4
  <2> QED BY <2>2, <2>3
<1>3. CASE AcquireGiveUp(g)
  <2>1. Moved(g, "rollback", at[g], renewing[g], watchdog[g])
    BY <1>3, Staying DEF AcquireGiveUp, Stage, Stages, Moved
  <2>2. Leaking(g, "rollback", at[g])
    BY <1>3, Careful DEF AcquireGiveUp, Early
  <2> QED BY <2>1, <2>2, PlaceStep
<1>4. CASE AcquireTimeout(g)
  <2>1. /\ stage' = [stage EXCEPT ![g] = "rollback"] /\ at' = at /\ watchdog' = watchdog
        /\ renewing' = renewing /\ lost' = lost
        /\ faults > 0 /\ faults' = faults - 1
    BY <1>4 DEF AcquireTimeout, Stage
  <2>2. faults' \in 0 .. MaxFaults
    BY <2>1, Staying
  <2>3. Moved(g, "rollback", at[g], renewing[g], watchdog[g])
    BY <2>1, <2>2, Staying DEF Stages, Moved
  <2>4. Leaking(g, "rollback", at[g])
    <3>1. \A l \in leaked' : l \in leaked \/ \E f : l = <<g, Key(g, at[g] + 1), f>>
      BY <1>4 DEF AcquireTimeout
    <3>2. stage[g] = "acquiring" /\ at[g] + 1 \in 1 .. Size(g)
      <4>1. stage[g] = "acquiring"
        BY <1>4 DEF AcquireTimeout
      <4>2. at[g] \in 0 .. Size(g) /\ at[g] < Size(g) /\ Size(g) \in Nat
        BY <4>1, Staying
      <4> QED BY <4>1, <4>2
    <3> QED BY <3>1, <3>2 DEF Leaking, Early
  <2> QED BY <2>3, <2>4, PlaceStep
<1> QED BY <1>1, <1>2, <1>3, <1>4

LEMMA GiveBackFaults ==
  ASSUME Places, NEW g \in Groups, NEW n, GiveBack(g, n)
  PROVE  faults' \in 0 .. MaxFaults
<1>1. faults \in 0 .. MaxFaults /\ MaxFaults \in Nat
  BY Staying
<1> QED BY <1>1 DEF GiveBack

LEMMA GiveBackLeaks ==
  ASSUME Places, NEW g \in Groups, at[g] # 0, GiveBack(g, at[g]), NEW s, s \notin Early
  PROVE  Leaking(g, s, at[g] - 1)
<1>1. /\ at[g] \in 1 .. Size(g) /\ (at[g] - 1) + 1 = at[g] /\ at[g] - 1 <= at[g]
  <2>1. at[g] \in 0 .. Size(g) /\ Size(g) \in Nat
    BY Staying
  <2> QED BY <2>1
<1>2. \A l \in leaked' : l \in leaked \/ \E f : l = <<g, Key(g, at[g]), f>>
  BY DEF GiveBack
<1> QED BY <1>1, <1>2 DEF Leaking

LEMMA ReturningPlaces ==
  ASSUME Places, NEW g \in Groups, Rollback(g) \/ Release(g) \/ ReleaseMember(g)
  PROVE  Places'
<1>1. CASE Rollback(g) /\ at[g] = 0
  <2>1. /\ stage' = [stage EXCEPT ![g] = "failed"] /\ at' = at /\ watchdog' = watchdog
        /\ renewing' = renewing /\ lost' = lost /\ faults' = faults
    BY <1>1 DEF Rollback, Stage
  <2>2. Moved(g, "failed", at[g], renewing[g], watchdog[g])
    BY <1>1, <2>1, Staying DEF Stages, Moved
  <2>3. Leaking(g, "failed", at[g])
    <3>1. leaked' = leaked /\ at[g] <= at[g]
      BY <1>1 DEF Rollback
    <3> QED BY <3>1, Careful DEF Early
  <2> QED BY <2>2, <2>3, PlaceStep
<1>2. CASE Rollback(g) /\ at[g] # 0
  <2>1. /\ stage' = stage /\ stage[g] = "rollback" /\ at' = [at EXCEPT ![g] = at[g] - 1]
        /\ watchdog' = watchdog /\ renewing' = renewing /\ lost' = lost
        /\ GiveBack(g, at[g])
    BY <1>2 DEF Rollback
  <2>2. at[g] - 1 \in 0 .. Size(g)
    <3>1. at[g] \in 0 .. Size(g) /\ Size(g) \in Nat /\ at[g] # 0
      BY <1>2, Staying
    <3> QED BY <3>1
  <2>3. Moved(g, "rollback", at[g] - 1, renewing[g], watchdog[g])
    BY <2>1, <2>2, GiveBackFaults, Staying DEF Stages, Moved
  <2>4. Leaking(g, "rollback", at[g] - 1)
    BY <1>2, <2>1, GiveBackLeaks DEF Early
  <2> QED BY <2>3, <2>4, PlaceStep
<1>3. CASE Release(g)
  <2>1. /\ stage' = [stage EXCEPT ![g] = "releasing"] /\ at' = at /\ watchdog' = watchdog
        /\ renewing' = renewing /\ lost' = lost /\ faults' = faults /\ stage[g] = "held"
    BY <1>3 DEF Release, Stage
  <2>2. Moved(g, "releasing", at[g], renewing[g], watchdog[g])
    BY <2>1, Staying DEF Stages, Moved
  <2>3. Leaking(g, "releasing", at[g])
    BY <1>3, Careful DEF Release, Early
  <2> QED BY <2>2, <2>3, PlaceStep
<1>4. CASE ReleaseMember(g)
  <2>1. /\ stage[g] = "releasing" /\ at' = [at EXCEPT ![g] = at[g] - 1]
        /\ watchdog' = watchdog /\ renewing' = renewing
        /\ GiveBack(g, at[g])
        /\ \/ at[g] = 1 /\ stage' = [stage EXCEPT ![g] = "released"] /\ lost' = [lost EXCEPT ![g] = TRUE]
           \/ at[g] # 1 /\ stage' = stage /\ lost' = lost
    BY <1>4 DEF ReleaseMember, Stage
  <2>2. /\ at[g] - 1 \in 0 .. Size(g) /\ at[g] = 1 => at[g] - 1 = 0
        /\ at[g] # 1 => at[g] - 1 > 0
    BY <2>1, Staying
  <2>3. lost' \in [Groups -> BOOLEAN]
    BY <2>1, Staying
  <2>leaks. Leaking(g, "released", at[g] - 1) /\ Leaking(g, "releasing", at[g] - 1)
    <3>1. at[g] # 0
      BY <2>1, Staying
    <3> QED BY <2>1, <3>1, GiveBackLeaks DEF Early
  <2>4. CASE at[g] = 1
    <3>1. Moved(g, "released", at[g] - 1, renewing[g], watchdog[g])
      BY <2>1, <2>2, <2>3, <2>4, GiveBackFaults, Staying DEF Stages, Moved
    <3> QED BY <2>leaks, <3>1, PlaceStep
  <2>5. CASE at[g] # 1
    <3>1. Moved(g, "releasing", at[g] - 1, renewing[g], watchdog[g])
      BY <2>1, <2>2, <2>3, <2>5, GiveBackFaults, Staying DEF Stages, Moved
    <3> QED BY <2>leaks, <3>1, PlaceStep
  <2> QED BY <2>4, <2>5
<1> QED BY <1>1, <1>2, <1>3, <1>4

LEMMA RenewingPlaces ==
  ASSUME Places, NEW g \in Groups,
         Refresh(g) \/ RefreshMember(g) \/ WatchdogWake(g) \/ WatchdogAnswer(g) \/ Forward(g)
  PROVE  Places'
<1>1. CASE Refresh(g)
  <2>1. /\ stage' = stage /\ at' = at /\ watchdog' = watchdog
        /\ renewing' = [renewing EXCEPT ![g] = 1] /\ lost' = lost /\ faults' = faults
        /\ leaked' = leaked
    BY <1>1 DEF Refresh
  <2>2. 1 \in 0 .. Size(g)
    BY Staying
  <2>3. Moved(g, stage[g], at[g], 1, watchdog[g])
    BY <2>1, <2>2, Staying DEF Moved
  <2> QED BY <2>1, <2>3, Staying, PlaceStep
<1>2. CASE RefreshMember(g)
  <2>1. /\ stage' = stage /\ at' = at /\ watchdog' = watchdog /\ lost' = lost
        /\ leaked' = leaked
        /\ \/ renewing' = [renewing EXCEPT ![g] = IF renewing[g] < Size(g) THEN renewing[g] + 1 ELSE 0]
           \/ renewing' = [renewing EXCEPT ![g] = 0]
        /\ faults' = faults \/ (faults > 0 /\ faults' = faults - 1)
    BY <1>2 DEF RefreshMember
  <2>2. PICK r \in 0 .. Size(g) : renewing' = [renewing EXCEPT ![g] = r]
    <3>1. (IF renewing[g] < Size(g) THEN renewing[g] + 1 ELSE 0) \in 0 .. Size(g) /\ 0 \in 0 .. Size(g)
      BY Staying
    <3> QED BY <2>1, <3>1
  <2>3. faults' \in 0 .. MaxFaults
    BY <2>1, Staying
  <2>4. Moved(g, stage[g], at[g], r, watchdog[g])
    BY <2>1, <2>2, <2>3, Staying DEF Moved
  <2> QED BY <2>1, <2>4, Staying, PlaceStep
<1>3. CASE WatchdogWake(g)
  <2>1. /\ stage' = stage /\ at' = at /\ renewing' = renewing /\ lost' = lost /\ faults' = faults
        /\ leaked' = leaked
        /\ \/ watchdog' = [watchdog EXCEPT ![g] = Turn(g, 1)]
           \/ watchdog' = [watchdog EXCEPT ![g] = Exited]
    BY <1>3 DEF WatchdogWake
  <2>2. 1 \in 1 .. Size(g)
    BY Staying
  <2>3. Moved(g, stage[g], at[g], renewing[g], Turn(g, 1)) \/ Moved(g, stage[g], at[g], renewing[g], Exited)
    BY <2>1, <2>2, Labels, Staying DEF Moved
  <2> QED BY <2>1, <2>3, Staying, PlaceStep
<1>4. CASE WatchdogAnswer(g)
  <2> DEFINE n == watchdog[g].at
             w == IF n < Size(g) THEN Turn(g, n + 1) ELSE Dozing
  <2>1. /\ stage' = stage /\ at' = at /\ renewing' = renewing /\ lost' = lost
        /\ leaked' = leaked
        /\ \/ watchdog' = [watchdog EXCEPT ![g] = w]
           \/ watchdog' = [watchdog EXCEPT ![g] = Exited]
        /\ faults' = faults \/ (faults > 0 /\ faults' = faults - 1)
    BY <1>4 DEF WatchdogAnswer
  <2>2. w \in [label : {"off", "sleeping", "calling", "exited"}, at : 1 .. Size(g)]
    <3>1. n \in 1 .. Size(g) /\ Size(g) \in Nat
      BY Staying
    <3>2. CASE n < Size(g)
      <4>1. n + 1 \in 1 .. Size(g)
        BY <3>1, <3>2
      <4> QED BY <3>2, <4>1, Labels
    <3> QED BY <3>2, Labels
  <2>3. faults' \in 0 .. MaxFaults
    BY <2>1, Staying
  <2> HIDE DEF w
  <2>4. Moved(g, stage[g], at[g], renewing[g], w) \/ Moved(g, stage[g], at[g], renewing[g], Exited)
    BY <2>1, <2>2, <2>3, Labels, Staying DEF Moved
  <2> QED BY <2>1, <2>4, Staying, PlaceStep
<1>5. CASE Forward(g)
  <2>1. /\ stage' = stage /\ at' = at /\ watchdog' = watchdog /\ renewing' = renewing
        /\ lost' = [lost EXCEPT ![g] = TRUE] /\ faults' = faults
        /\ leaked' = leaked
    BY <1>5 DEF Forward
  <2>2. lost' \in [Groups -> BOOLEAN]
    BY <2>1, Staying
  <2>3. Moved(g, stage[g], at[g], renewing[g], watchdog[g])
    BY <2>1, <2>2, Staying DEF Moved
  <2> QED BY <2>1, <2>3, Staying, PlaceStep
<1> QED BY <1>1, <1>2, <1>3, <1>4, <1>5

(* What the backend does moves nobody.                                     *)
LEMMA BackendPlaces ==
  ASSUME Places, UNCHANGED <<stage, at, watchdog, renewing, lost, leaked>>,
         faults' = faults \/ (faults > 0 /\ faults' = faults - 1)
  PROVE  Places'
<1>1. faults \in 0 .. MaxFaults /\ MaxFaults \in Nat
  BY MembersFacts DEF Places, PlaceTypes
<1>2. faults' \in 0 .. MaxFaults
  BY <1>1
<1> QED BY <1>2 DEF Places, PlaceTypes, Control, Leaks, Has
-----------------------------------------------------------------------------
(* The fields of the members.                                              *)

(* B is A with the same fences.                                            *)
Quiet(A, B) ==
  /\ B \in MemberTable(issued)
  /\ \A g \in Groups, n \in Members : B[g][n].fence = A[g][n].fence

LEMMA ClosedRec ==
  ASSUME NEW i, NEW m \in MemberRec(i), NEW why \in {"ended", "lost"}
  PROVE  Closed(m, why) \in MemberRec(i) /\ Closed(m, why).fence = m.fence
BY DEF MemberRec, Closed

LEMMA QuietPut ==
  ASSUME NEW A \in MemberTable(issued), NEW g \in Groups, NEW n \in Members,
         NEW x \in MemberRec(issued), x.fence = A[g][n].fence
  PROVE  Quiet(A, [A EXCEPT ![g][n] = x])
BY DEF Quiet, MemberTable

LEMMA QuietDead ==
  ASSUME NEW A \in MemberTable(issued), NEW g \in Groups, NEW n \in Members
  PROVE  Quiet(A, [A EXCEPT ![g][n].dead = TRUE])
<1> DEFINE x == [A[g][n] EXCEPT !.dead = TRUE]
<1>1. A[g][n] \in MemberRec(issued)
  BY DEF MemberTable
<1>2. x \in MemberRec(issued) /\ x.fence = A[g][n].fence
  BY <1>1 DEF MemberRec
<1>3. [A EXCEPT ![g][n].dead = TRUE] = [A EXCEPT ![g][n] = x]
  OBVIOUS
<1> HIDE DEF x
<1> QED BY <1>2, <1>3, QuietPut

LEMMA QuietTwice ==
  ASSUME NEW A, NEW B, NEW C, Quiet(A, B), Quiet(B, C)
  PROVE  Quiet(A, C)
BY DEF Quiet

LEMMA QuietSame ==
  ASSUME NEW A \in MemberTable(issued)
  PROVE  Quiet(A, A)
BY DEF Quiet

LEMMA MarkAllQuiet ==
  ASSUME Store, NEW g \in Groups, MarkAll(g)
  PROVE  Quiet(member, member')
<1> DEFINE F == [n \in Members |-> IF n <= Size(g) THEN Closed(member[g][n], "lost") ELSE member[g][n]]
<1>1. member \in MemberTable(issued) /\ member' = [member EXCEPT ![g] = F]
  BY DEF Store, MarkAll
<1>2. ASSUME NEW n \in Members
      PROVE  F[n] \in MemberRec(issued) /\ F[n].fence = member[g][n].fence
  <2>1. member[g][n] \in MemberRec(issued)
    BY <1>1 DEF MemberTable
  <2> QED BY <2>1, ClosedRec
<1>3. F \in [Members -> MemberRec(issued)]
  BY <1>2
<1> HIDE DEF F
<1> QED BY <1>1, <1>2, <1>3 DEF Quiet, MemberTable

-----------------------------------------------------------------------------
(* The records.                                                            *)

(* Record x stands for the same acquisitions as record y.                  *)
SameHold(x, y) == x.mode = y.mode /\ x.fence = y.fence /\ x.count = y.count

LEMMA SameHolds ==
  ASSUME NEW x \in Hold \cup {NoHold}, NEW y \in Hold \cup {NoHold}, SameHold(x, y)
  PROVE  x = NoHold <=> y = NoHold
BY NoHoldIsNone DEF SameHold

LEMMA RecTypes ==
  ASSUME Store, NEW k \in Keys
  PROVE  /\ recs[k] \in Table
         /\ \A o \in Owners : recs[k][o] \in Hold \cup {NoHold}
BY DEF Store, Table

(* The record of Key k changes, for o alone.                               *)
RecChange(k, o) ==
  /\ recs' \in [Keys -> Table]
  /\ \A j \in Keys, p \in Owners : <<j, p>> # <<k, o>> => recs'[j][p] = recs[j][p]

LEMMA RecPut ==
  ASSUME Store, NEW k \in Keys, NEW o \in Owners, NEW H, recs' = [recs EXCEPT ![k] = H],
         OnlyOf(recs[k], H, o)
  PROVE  RecChange(k, o) /\ recs'[k] = H
BY DEF Store, OnlyOf, RecChange

LEMMA MineFacts ==
  ASSUME Store, NEW g \in Groups, NEW n \in 1 .. Size(g)
  PROVE  /\ Key(g, n) \in Keys /\ OwnerOf[g] \in Owners /\ n \in Members
         /\ member[g][n] \in MemberRec(issued) /\ member[g][n].fence \in 0 .. issued
         /\ Mine(g, n) <=> LET r == recs[Key(g, n)][OwnerOf[g]]
                           IN  r # NoHold /\ r.mode = "write" /\ r.fence = member[g][n].fence
<1>1. Key(g, n) \in Keys /\ OwnerOf[g] \in Owners /\ n \in Members
  BY MembersFacts
<1>2. member[g][n] \in MemberRec(issued)
  BY <1>1 DEF Store, MemberTable
<1> QED BY <1>1, <1>2 DEF Mine, Owns, MemberRec

LEMMA RenewedEffect ==
  ASSUME Store, NEW g \in Groups, NEW n \in 1 .. Size(g), Mine(g, n), Renewed(g, n)
  PROVE  /\ recs' \in [Keys -> Table]
         /\ \A k \in Keys, o \in Owners : SameHold(recs'[k][o], recs[k][o])
<1> DEFINE k == Key(g, n)
           o == OwnerOf[g]
           H == Extended(recs[k], o, LeaseOf[g])
<1>1. k \in Keys /\ o \in Owners /\ recs[k] \in Table /\ recs[k][o] # NoHold /\ LeaseOf[g] \in Nat \ {0}
  BY MineFacts, RecTypes, MembersFacts
<1>2. recs' = [recs EXCEPT ![k] = H]
  BY DEF Renewed
<1> HIDE DEF k, o
<1>3. OnlyOf(recs[k], H, o) /\ SameHold(H[o], recs[k][o])
  BY <1>1, ExtendedEffect DEF SameHold
<1> HIDE DEF H
<1>4. RecChange(k, o) /\ recs'[k] = H
  BY <1>1, <1>2, <1>3, RecPut
<1> QED BY <1>3, <1>4 DEF RecChange, SameHold

(* The record that TryAcquire leaves for group g on its Key n.             *)
LEMMA GrantEffect ==
  ASSUME Store, NEW g \in Groups, NEW n \in 1 .. Size(g),
         recs' = [recs EXCEPT ![Key(g, n)] = Granted(@, OwnerOf[g], "write", issued + 1, LeaseOf[g])]
  PROVE  LET k == Key(g, n)  o == OwnerOf[g] IN
         /\ RecChange(k, o)
         /\ recs'[k][o] # NoHold /\ recs'[k][o].mode = "write"
         /\ recs'[k][o].fence = issued + 1 /\ recs'[k][o].count = 1
<1> DEFINE k == Key(g, n)
           o == OwnerOf[g]
           H == Granted(recs[k], o, "write", issued + 1, LeaseOf[g])
<1>1. /\ k \in Keys /\ o \in Owners /\ recs[k] \in Table /\ LeaseOf[g] \in Nat \ {0}
      /\ issued + 1 \in Nat \ {0} /\ "write" \in Modes
  BY MineFacts, RecTypes, MembersFacts DEF Store, Modes
<1>2. recs' = [recs EXCEPT ![k] = H]
  OBVIOUS
<1> HIDE DEF k, o
<1>3. /\ OnlyOf(recs[k], H, o) /\ H[o] \in Hold
      /\ H[o].mode = "write" /\ H[o].fence = issued + 1 /\ H[o].count = 1
  BY <1>1, GrantedEffect
<1> HIDE DEF H
<1>4. RecChange(k, o) /\ recs'[k] = H
  BY <1>1, <1>2, <1>3, RecPut
<1> QED BY <1>3, <1>4, NoHoldIsNone DEF k, o

LEMMA ReenterEffect ==
  ASSUME Store, NEW g \in Groups, NEW n \in 1 .. Size(g),
         recs[Key(g, n)][OwnerOf[g]] # NoHold,
         recs' = [recs EXCEPT ![Key(g, n)] = Reentered(@, OwnerOf[g], LeaseOf[g])]
  PROVE  LET k == Key(g, n)  o == OwnerOf[g] IN
         /\ RecChange(k, o)
         /\ recs'[k][o] # NoHold /\ recs'[k][o].mode = recs[k][o].mode
         /\ recs'[k][o].fence = recs[k][o].fence /\ recs'[k][o].count = recs[k][o].count + 1
<1> DEFINE k == Key(g, n)
           o == OwnerOf[g]
           H == Reentered(recs[k], o, LeaseOf[g])
<1>1. k \in Keys /\ o \in Owners /\ recs[k] \in Table /\ LeaseOf[g] \in Nat \ {0} /\ recs[k][o] # NoHold
  BY MineFacts, RecTypes, MembersFacts
<1>2. recs' = [recs EXCEPT ![k] = H]
  OBVIOUS
<1> HIDE DEF k, o
<1>3. /\ OnlyOf(recs[k], H, o) /\ H[o] \in Hold
      /\ H[o].mode = recs[k][o].mode /\ H[o].fence = recs[k][o].fence
      /\ H[o].count = recs[k][o].count + 1
  BY <1>1, ReenteredEffect
<1> HIDE DEF H
<1>4. RecChange(k, o) /\ recs'[k] = H
  BY <1>1, <1>2, <1>3, RecPut
<1> QED BY <1>3, <1>4, NoHoldIsNone DEF k, o

LEMMA ReleaseEffect ==
  ASSUME Store, NEW g \in Groups, NEW n \in 1 .. Size(g), Mine(g, n),
         recs' = [recs EXCEPT ![Key(g, n)] = Released(@, OwnerOf[g])]
  PROVE  LET k == Key(g, n)  o == OwnerOf[g] IN
         /\ RecChange(k, o)
         /\ recs'[k][o] # NoHold =>
              /\ recs'[k][o].mode = recs[k][o].mode
              /\ recs'[k][o].fence = recs[k][o].fence
              /\ recs'[k][o].count = recs[k][o].count - 1
         /\ recs[k][o].count > 1 => recs'[k][o] # NoHold
<1> DEFINE k == Key(g, n)
           o == OwnerOf[g]
           H == Released(recs[k], o)
<1>1. k \in Keys /\ o \in Owners /\ recs[k] \in Table /\ recs[k][o] # NoHold
  BY MineFacts, RecTypes
<1>2. recs' = [recs EXCEPT ![k] = H]
  OBVIOUS
<1> HIDE DEF k, o
<1>3. /\ OnlyOf(recs[k], H, o)
      /\ H[o] # NoHold => /\ H[o].mode = recs[k][o].mode /\ H[o].fence = recs[k][o].fence
                          /\ H[o].count = recs[k][o].count - 1
  BY <1>1, ReleasedEffect
<1>4. recs[k][o].count > 1 => H[o] # NoHold
  <2> SUFFICES ASSUME recs[k][o].count > 1 PROVE H[o] # NoHold
    OBVIOUS
  <2>1. H[o] = [recs[k][o] EXCEPT !.count = recs[k][o].count - 1]
    BY <1>1 DEF Released, Table
  <2>2. recs[k][o] \in Hold
    BY <1>1 DEF Table
  <2>3. H[o].mode = recs[k][o].mode
    BY <2>1, <2>2 DEF Hold
  <2> QED BY <2>2, <2>3, NoHoldIsNone DEF Modes, NoHold
<1> HIDE DEF H
<1>5. RecChange(k, o) /\ recs'[k] = H
  BY <1>1, <1>2, <1>3, RecPut
<1> QED BY <1>3, <1>4, <1>5 DEF k, o
-----------------------------------------------------------------------------
(* Steps that leave the acquisitions alone, apart from records that lapse  *)
(* or are dropped.                                                         *)

Untouched ==
  /\ recs' \in [Keys -> Table]
  /\ \A k \in Keys, o \in Owners :
       SameHold(recs'[k][o], recs[k][o]) \/ (recs'[k][o] = NoHold /\ ~ Lasting)
  /\ Quiet(member, member')
  /\ UNCHANGED <<issued, at, leaked>>

LEMMA Sharers ==
  ASSUME NEW S \in SUBSET Groups
  PROVE  IsFiniteSet(S) /\ Cardinality(S) \in Nat
<1>1. IsFiniteSet(S)
  BY MembersFacts, FS_Subset
<1> QED BY <1>1, FS_CardinalityType

LEMMA UntouchedStep ==
  ASSUME Inv, Places', Untouched
  PROVE  Inv'
<1>1. Store /\ Places /\ Deep
  BY InvParts
<1>2. Store'
  BY <1>1 DEF Untouched, Quiet, Store
<1>3. ASSUME NEW k \in Keys, NEW o \in Owners, recs'[k][o] # NoHold
      PROVE  /\ SameHold(recs'[k][o], recs[k][o]) /\ recs[k][o] # NoHold
  <2>1. recs'[k][o] \in Hold \cup {NoHold} /\ recs[k][o] \in Hold \cup {NoHold}
    BY <1>1, <1>2 DEF Store, Table
  <2>2. SameHold(recs'[k][o], recs[k][o])
    BY <1>3 DEF Untouched
  <2> QED BY <1>3, <2>1, <2>2, SameHolds
<1>4. \A g \in Groups : \A n \in 1 .. Size(g) :
        /\ n \in Members /\ Key(g, n) \in Keys /\ OwnerOf[g] \in Owners
        /\ member'[g][n].fence = member[g][n].fence
  BY MembersFacts DEF Untouched, Quiet
<1>5. \A g \in Groups : at'[g] = at[g] /\ 1 .. at[g] \subseteq 1 .. Size(g)
  <2>1. at' = at
    BY DEF Untouched
  <2> QED BY <1>1, <2>1, MembersFacts DEF Places, Control
<1>6. Exclusive'
  <2> SUFFICES ASSUME NEW k \in Keys, NEW o \in Owners, recs'[k][o] # NoHold
               PROVE  /\ recs'[k][o].mode = "write"
                      /\ recs'[k][o].fence <= issued'
                      /\ \A p \in Owners \ {o} : recs'[k][p] = NoHold
    BY DEF Exclusive
  <2>1. /\ recs[k][o].mode = "write" /\ recs[k][o].fence <= issued
        /\ \A p \in Owners \ {o} : recs[k][p] = NoHold
    BY <1>1, <1>3 DEF Deep, Exclusive
  <2>2. \A p \in Owners \ {o} : recs'[k][p] = NoHold
    BY <1>3, <2>1
  <2> QED BY <1>3, <2>1, <2>2 DEF SameHold, Untouched
<1>7. Newest'
  <2> SUFFICES ASSUME NEW g \in Groups, NEW o \in Owners, OwnerOf[g] # o,
                      NEW n \in 1 .. Size(g), recs'[Key(g, n)][o] # NoHold
               PROVE  member'[g][n].fence < recs'[Key(g, n)][o].fence
    BY DEF Newest
  <2>1. member[g][n].fence < recs[Key(g, n)][o].fence
    BY <1>1, <1>3, <1>4 DEF Deep, Newest
  <2> QED BY <1>3, <1>4, <2>1 DEF SameHold
<1>8. Counted'
  <2> SUFFICES ASSUME NEW k \in Keys, NEW o \in Owners, recs'[k][o] # NoHold
               PROVE  recs'[k][o].count = Cardinality(Sharing(k, o)')
    BY DEF Counted, Covers
  <2>1. \A g \in Groups :
          (\E n \in 1 .. at'[g] : Key(g, n) = k /\ member'[g][n].fence = recs'[k][o].fence)
          <=> (\E n \in 1 .. at[g] : Key(g, n) = k /\ member[g][n].fence = recs[k][o].fence)
    BY <1>3, <1>4, <1>5 DEF SameHold
  <2>2. leaked' = leaked /\ recs'[k][o].fence = recs[k][o].fence
    BY <1>3 DEF Untouched, SameHold
  <2>3. Sharing(k, o)' = Sharing(k, o)
    BY <2>1, <2>2 DEF Sharing
  <2>4. recs[k][o].count = Cardinality(Sharing(k, o))
    BY <1>1, <1>3 DEF Deep, Counted, Covers
  <2> QED BY <1>3, <2>3, <2>4 DEF SameHold
<1>9. Backed'
  <2> SUFFICES ASSUME Lasting, NEW g \in Groups, NEW n \in 1 .. at[g]
               PROVE  Mine(g, n)'
    BY <1>5 DEF Backed, Lasting
  <2> DEFINE k == Key(g, n)
             o == OwnerOf[g]
  <2>1. n \in 1 .. Size(g) /\ k \in Keys /\ o \in Owners
    BY <1>4, <1>5
  <2>2. Mine(g, n)
    BY <1>1 DEF Deep, Backed
  <2>3. recs[k][o] # NoHold /\ recs[k][o].mode = "write" /\ recs[k][o].fence = member[g][n].fence
    BY <1>1, <2>1, <2>2, MineFacts
  <2>4. SameHold(recs'[k][o], recs[k][o])
    BY <2>1 DEF Untouched
  <2>5. recs'[k][o] # NoHold
    BY <2>3, <2>4 DEF NoHold, SameHold
  <2>6. recs'[k][o].mode = "write" /\ recs'[k][o].fence = member'[g][n].fence
    BY <1>4, <2>1, <2>3, <2>4 DEF SameHold
  <2> QED BY <2>5, <2>6 DEF Mine, Owns
<1>10. Deep'
  BY <1>6, <1>7, <1>8, <1>9 DEF Deep
<1> QED BY <1>2, <1>10, InvParts

-----------------------------------------------------------------------------
(* Steps that acquire member n of group g, or give it back.                *)

Touch(g, n) ==
  /\ RecChange(Key(g, n), OwnerOf[g])
  /\ issued' \in Nat /\ issued <= issued'
  /\ member' \in MemberTable(issued')
  /\ \A p \in Groups, j \in Members :
       <<p, j>> # <<g, n>> => member'[p][j].fence = member[p][j].fence
  /\ \A p \in Groups \ {g} : at'[p] = at[p]
  /\ at[g] \in {n - 1, n} /\ at'[g] \in {n - 1, n}
  /\ leaked' = leaked \/ \E f \in 0 .. issued' : leaked' = leaked \cup {<<g, Key(g, n), f>>}

(* Where Inv and Touch hold, all the other records are as before.          *)
LEMMA Elsewhere ==
  ASSUME Inv, NEW g \in Groups, NEW n \in 1 .. Size(g), Touch(g, n)
  PROVE  /\ Store'
         /\ \A p \in Groups : 1 .. at[p] \subseteq 1 .. Size(p) /\ at[p] \in Nat
         /\ \A p \in Groups : 1 .. at'[p] \subseteq 1 .. Size(p) /\ at'[p] \in Nat
         /\ \A k \in Keys, o \in Owners : <<k, o>> # <<Key(g, n), OwnerOf[g]>> =>
              recs'[k][o] = recs[k][o] /\ Sharing(k, o)' = Sharing(k, o)
<1>1. Store /\ Places /\ Deep
  BY InvParts
<1>2. Store'
  <2>1. leaked' \subseteq Groups \X Keys \X (0 .. issued')
    <3>1. issued \in Nat /\ issued' \in Nat /\ issued <= issued'
      BY <1>1 DEF Touch, Store
    <3>2. \A f : f \in 0 .. issued => f \in 0 .. issued'
      BY <3>1
    <3>3. leaked \subseteq Groups \X Keys \X (0 .. issued')
      BY <1>1, <3>2 DEF Store
    <3>4. \A f \in 0 .. issued' : <<g, Key(g, n), f>> \in Groups \X Keys \X (0 .. issued')
      BY MembersFacts
    <3> QED BY <3>3, <3>4 DEF Touch
  <2> QED BY <2>1 DEF Touch, RecChange, Store
<1>3. \A p \in Groups : 1 .. at[p] \subseteq 1 .. Size(p) /\ at[p] \in Nat
  BY <1>1, MembersFacts DEF Places, Control
<1>4. ASSUME NEW p \in Groups
      PROVE  1 .. at'[p] \subseteq 1 .. Size(p) /\ at'[p] \in Nat
  <2>1. Size(g) \in Nat
    BY MembersFacts
  <2> QED BY <1>3, <2>1 DEF Touch
<1>5. ASSUME NEW k \in Keys, NEW o \in Owners, <<k, o>> # <<Key(g, n), OwnerOf[g]>>
      PROVE  recs'[k][o] = recs[k][o] /\ Sharing(k, o)' = Sharing(k, o)
  <2>1. recs'[k][o] = recs[k][o]
    BY <1>5 DEF Touch, RecChange
  <2>2. ASSUME NEW p \in Groups, OwnerOf[p] = o
        PROVE  (\E j \in 1 .. at'[p] : Key(p, j) = k /\ member'[p][j].fence = recs'[k][o].fence)
               <=> (\E j \in 1 .. at[p] : Key(p, j) = k /\ member[p][j].fence = recs[k][o].fence)
    <3>1. \A j \in 1 .. Size(p) : j \in Members
      BY MembersFacts
    <3>2. CASE p = g
      <4>1. k # Key(g, n)
        BY <1>5, <2>2, <3>2
      <4>2. \A j \in 1 .. Size(p) : j # n => member'[p][j].fence = member[p][j].fence
        BY <3>1 DEF Touch
      <4>3. at[g] \in {n - 1, n} /\ at'[g] \in {n - 1, n} /\ n \in Nat
        BY MembersFacts DEF Touch
      <4>4. \A j \in 1 .. Size(p) : j # n => (j \in 1 .. at'[p] <=> j \in 1 .. at[p])
        BY <3>2, <4>3
      <4> QED BY <1>3, <1>4, <2>1, <3>2, <4>1, <4>2, <4>4
    <3>3. CASE p # g
      <4>1. at'[p] = at[p] /\ \A j \in 1 .. Size(p) : member'[p][j].fence = member[p][j].fence
        BY <3>1, <3>3 DEF Touch
      <4> QED BY <1>3, <2>1, <4>1
    <3> QED BY <3>2, <3>3
  <2>3. ASSUME NEW p \in Groups, OwnerOf[p] = o
        PROVE  <<p, k, recs'[k][o].fence>> \in leaked' <=> <<p, k, recs[k][o].fence>> \in leaked
    <3>1. ~ (p = g /\ k = Key(g, n))
      BY <1>5, <2>3
    <3> QED BY <2>1, <3>1 DEF Touch
  <2>4. \A p \in Groups : p \in Sharing(k, o)' <=> p \in Sharing(k, o)
    BY <2>2, <2>3 DEF Sharing
  <2>5. Sharing(k, o)' = Sharing(k, o)
    BY <2>4 DEF Sharing
  <2> QED BY <2>1, <2>5
<1> QED BY <1>2, <1>3, <1>4, <1>5

(* On the record itself the other groups share as before.                  *)
LEMMA Here ==
  ASSUME Inv, NEW g \in Groups, NEW n \in 1 .. Size(g), Touch(g, n),
         NEW k, NEW o, k = Key(g, n), o = OwnerOf[g]
  PROVE  /\ \A p \in Groups \ {g} : recs'[k][o].fence = recs[k][o].fence =>
              (p \in Sharing(k, o)' <=> p \in Sharing(k, o))
         /\ \A p \in Sharing(k, o)' \ {g} : \/ \E j \in Members : member[p][j].fence = recs'[k][o].fence
                                            \/ <<p, k, recs'[k][o].fence>> \in leaked
         /\ g \in Sharing(k, o) <=> \/ at[g] = n /\ member[g][n].fence = recs[k][o].fence
                                    \/ <<g, k, recs[k][o].fence>> \in leaked
         /\ g \in Sharing(k, o)' <=> \/ at'[g] = n /\ member'[g][n].fence = recs'[k][o].fence
                                     \/ <<g, k, recs'[k][o].fence>> \in leaked'
<1>1. \A p \in Groups \ {g} : \A j \in 1 .. Size(p) :
        j \in Members /\ member'[p][j].fence = member[p][j].fence
  BY MembersFacts DEF Touch
<1>2. \A p \in Groups \ {g} : at'[p] = at[p] /\ 1 .. at[p] \subseteq 1 .. Size(p)
  BY Elsewhere DEF Touch
<1>3. \A j \in 1 .. Size(g) : Key(g, j) = k => j = n
  BY MembersFacts
<1>4. /\ at[g] \in {n - 1, n} /\ at'[g] \in {n - 1, n} /\ n \in Nat /\ at[g] \in Nat /\ at'[g] \in Nat
      /\ 1 .. at[g] \subseteq 1 .. Size(g) /\ 1 .. at'[g] \subseteq 1 .. Size(g) /\ n >= 1
  BY Elsewhere, MembersFacts DEF Touch
<1>5. /\ n \in 1 .. at[g] <=> at[g] = n
      /\ n \in 1 .. at'[g] <=> at'[g] = n
  BY <1>4
<1>6. g \in Sharing(k, o) <=> \/ at[g] = n /\ member[g][n].fence = recs[k][o].fence
                              \/ <<g, k, recs[k][o].fence>> \in leaked
  BY <1>3, <1>4, <1>5 DEF Sharing
<1>7. g \in Sharing(k, o)' <=> \/ at'[g] = n /\ member'[g][n].fence = recs'[k][o].fence
                               \/ <<g, k, recs'[k][o].fence>> \in leaked'
  BY <1>3, <1>4, <1>5 DEF Sharing
<1>8. \A p \in Groups \ {g} : \A f : <<p, k, f>> \in leaked' <=> <<p, k, f>> \in leaked
  BY DEF Touch
<1>9. \A p \in Groups \ {g} : recs'[k][o].fence = recs[k][o].fence =>
        (p \in Sharing(k, o)' <=> p \in Sharing(k, o))
  <2> SUFFICES ASSUME NEW p \in Groups \ {g}, recs'[k][o].fence = recs[k][o].fence
               PROVE  p \in Sharing(k, o)' <=> p \in Sharing(k, o)
    OBVIOUS
  <2>1. <<p, k, recs'[k][o].fence>> \in leaked' <=> <<p, k, recs[k][o].fence>> \in leaked
    BY <1>8
  <2>2. (\E j \in 1 .. at'[p] : Key(p, j) = k /\ member'[p][j].fence = recs'[k][o].fence)
        <=> (\E j \in 1 .. at[p] : Key(p, j) = k /\ member[p][j].fence = recs[k][o].fence)
    BY <1>1, <1>2
  <2> QED BY <2>1, <2>2 DEF Sharing
<1>10. \A p \in Sharing(k, o)' \ {g} : \/ \E j \in Members : member[p][j].fence = recs'[k][o].fence
                                       \/ <<p, k, recs'[k][o].fence>> \in leaked
  <2> TAKE p \in Sharing(k, o)' \ {g}
  <2>1. p \in Groups \ {g}
    BY DEF Sharing
  <2>2. \/ \E j \in 1 .. at'[p] : member'[p][j].fence = recs'[k][o].fence
        \/ <<p, k, recs'[k][o].fence>> \in leaked'
    BY DEF Sharing
  <2>3. (\E j \in 1 .. at'[p] : member'[p][j].fence = recs'[k][o].fence)
        => \E j \in Members : member[p][j].fence = recs'[k][o].fence
    BY <1>1, <1>2, <2>1
  <2>4. <<p, k, recs'[k][o].fence>> \in leaked' => <<p, k, recs'[k][o].fence>> \in leaked
    BY <1>8, <2>1
  <2> QED BY <2>2, <2>3, <2>4
<1> QED BY <1>6, <1>7, <1>9, <1>10

(* How the groups that share the record differ from those before the step. *)
LEMMA SharersBefore ==
  ASSUME Inv, NEW g \in Groups, NEW n \in 1 .. Size(g), Touch(g, n)
  PROVE  LET k == Key(g, n)
             o == OwnerOf[g]
         IN  /\ recs'[k][o].fence = recs[k][o].fence =>
                  \A p \in Groups \ {g} : p \in Sharing(k, o)' <=> p \in Sharing(k, o)
             /\ g \in Sharing(k, o) <=> \/ at[g] = n /\ member[g][n].fence = recs[k][o].fence
                                        \/ <<g, k, recs[k][o].fence>> \in leaked
BY Here

(* The groups that share the record after the step.                        *)
LEMMA SharersAfter ==
  ASSUME Inv, NEW g \in Groups, NEW n \in 1 .. Size(g), Touch(g, n)
  PROVE  LET k == Key(g, n)  o == OwnerOf[g] IN
         /\ \A p \in Sharing(k, o)' \ {g} : \/ \E j \in Members : member[p][j].fence = recs'[k][o].fence
                                            \/ <<p, k, recs'[k][o].fence>> \in leaked
         /\ g \in Sharing(k, o)' <=> \/ at'[g] = n /\ member'[g][n].fence = recs'[k][o].fence
                                     \/ <<g, k, recs'[k][o].fence>> \in leaked'
BY Here

(* The conditions on one record, when the others are as they were.         *)
LEMMA OneRecord ==
  ASSUME Inv, Places', NEW g \in Groups, NEW n \in 1 .. Size(g), Touch(g, n),
         NEW k, NEW o, k = Key(g, n), o = OwnerOf[g],
         \A p \in Owners \ {o} : recs[k][p] = NoHold,
         recs'[k][o] # NoHold =>
           /\ recs'[k][o].mode = "write" /\ recs'[k][o].fence <= issued'
           /\ \/ recs'[k][o].fence = issued + 1
              \/ recs[k][o] # NoHold /\ recs'[k][o].fence = recs[k][o].fence
           /\ recs'[k][o].count = Cardinality(Sharing(k, o)'),
         Lasting => \A p \in Groups : \A j \in 1 .. at'[p] :
                      Key(p, j) = k /\ OwnerOf[p] = o => Mine(p, j)'
  PROVE  Inv'
<1>1. Store /\ Places /\ Deep /\ Store' /\ k \in Keys /\ o \in Owners /\ n \in Members
  BY InvParts, Elsewhere, MembersFacts
<1>2. \A j \in Keys, p \in Owners : <<j, p>> # <<k, o>> =>
        recs'[j][p] = recs[j][p] /\ Sharing(j, p)' = Sharing(j, p)
  BY Elsewhere
<1>3. \A p \in Groups : \A j \in 1 .. Size(p) :
        /\ j \in Members /\ Key(p, j) \in Keys /\ OwnerOf[p] \in Owners
        /\ <<p, j>> # <<g, n>> => member'[p][j].fence = member[p][j].fence
        /\ member[p][j].fence \in 0 .. issued
  BY <1>1, MineFacts, MembersFacts DEF Touch
<1>4. Exclusive'
  <2> SUFFICES ASSUME NEW j \in Keys, NEW p \in Owners, recs'[j][p] # NoHold
               PROVE  /\ recs'[j][p].mode = "write"
                      /\ recs'[j][p].fence <= issued'
                      /\ \A q \in Owners \ {p} : recs'[j][q] = NoHold
    BY DEF Exclusive
  <2>1. CASE j = k /\ p = o
    <3>1. \A q \in Owners \ {o} : recs'[k][q] = NoHold
      BY <1>1, <1>2
    <3> QED BY <2>1, <3>1
  <2>2. CASE ~ (j = k /\ p = o)
    <3>1. recs'[j][p] = recs[j][p]
      BY <1>2, <2>2
    <3>2. j # k
      BY <1>1, <2>2, <3>1
    <3>3. \A q \in Owners : recs'[j][q] = recs[j][q]
      BY <1>2, <3>2
    <3>4. /\ recs[j][p].mode = "write" /\ recs[j][p].fence <= issued
          /\ \A q \in Owners \ {p} : recs[j][q] = NoHold
      BY <1>1, <3>1 DEF Deep, Exclusive
    <3>5. recs[j][p].fence \in Nat /\ issued \in Nat /\ issued' \in Nat /\ issued <= issued'
      BY <1>1, RecTypes, FencesOfHolds DEF Touch, Store
    <3> QED BY <3>1, <3>3, <3>4, <3>5
  <2> QED BY <2>1, <2>2
<1>5. Newest'
  <2> SUFFICES ASSUME NEW p \in Groups, NEW q \in Owners, OwnerOf[p] # q,
                      NEW j \in 1 .. Size(p), recs'[Key(p, j)][q] # NoHold
               PROVE  member'[p][j].fence < recs'[Key(p, j)][q].fence
    BY DEF Newest
  <2>1. CASE Key(p, j) = k /\ q = o
    <3>1. p # g
      BY <2>1
    <3>2. member'[p][j].fence = member[p][j].fence /\ member[p][j].fence \in 0 .. issued
      BY <1>3, <3>1
    <3>3. recs[k][o] # NoHold => member[p][j].fence < recs[k][o].fence
      BY <1>1, <2>1 DEF Deep, Newest
    <3>4. issued \in Nat
      BY <1>1 DEF Store
    <3> QED BY <2>1, <3>2, <3>3, <3>4
  <2>2. CASE ~ (Key(p, j) = k /\ q = o)
    <3>1. Key(p, j) \in Keys /\ recs'[Key(p, j)][q] = recs[Key(p, j)][q]
      BY <1>2, <1>3, <2>2
    <3>2. Key(p, j) # k
      BY <1>1, <2>2, <3>1
    <3>3. member'[p][j].fence = member[p][j].fence
      BY <1>3, <3>2
    <3> QED BY <1>1, <3>1, <3>3 DEF Deep, Newest
  <2> QED BY <2>1, <2>2
<1>6. Counted'
  <2> SUFFICES ASSUME NEW j \in Keys, NEW p \in Owners, recs'[j][p] # NoHold
               PROVE  recs'[j][p].count = Cardinality(Sharing(j, p)')
    BY DEF Counted, Covers
  <2>1. CASE j = k /\ p = o
    BY <2>1
  <2>2. CASE ~ (j = k /\ p = o)
    <3>1. recs'[j][p] = recs[j][p] /\ Sharing(j, p)' = Sharing(j, p)
      BY <1>2, <2>2
    <3> QED BY <1>1, <3>1 DEF Deep, Counted, Covers
  <2> QED BY <2>1, <2>2
<1>7. Backed'
  <2> SUFFICES ASSUME Lasting, NEW p \in Groups, NEW j \in 1 .. at'[p]
               PROVE  Mine(p, j)'
    BY DEF Backed, Lasting
  <2>1. CASE Key(p, j) = k /\ OwnerOf[p] = o
    BY <2>1
  <2>2. CASE ~ (Key(p, j) = k /\ OwnerOf[p] = o)
    <3>1. j \in 1 .. Size(p)
      BY Elsewhere
    <3>2. Key(p, j) \in Keys /\ OwnerOf[p] \in Owners
      BY <1>3, <3>1
    <3>3. recs'[Key(p, j)][OwnerOf[p]] = recs[Key(p, j)][OwnerOf[p]]
      BY <1>2, <2>2, <3>2
    <3>4. <<p, j>> # <<g, n>>
      BY <2>2
    <3>5. member'[p][j].fence = member[p][j].fence
      BY <1>3, <3>1, <3>4
    <3>6. j \in 1 .. at[p]
      <4>1. CASE p # g
        BY <4>1 DEF Touch
      <4>2. CASE p = g
        <5>1. j # n /\ n \in Nat /\ at[g] \in {n - 1, n} /\ at'[g] \in {n - 1, n}
          BY <3>4, <4>2, MembersFacts DEF Touch
        <5> QED BY <4>2, <5>1
      <4> QED BY <4>1, <4>2
    <3>7. Mine(p, j)
      BY <1>1, <3>6 DEF Deep, Backed
    <3> QED BY <3>3, <3>5, <3>7 DEF Mine, Owns
  <2> QED BY <2>1, <2>2
<1> QED BY <1>1, <1>4, <1>5, <1>6, <1>7, InvParts DEF Deep

(* A fresh record.  If the answer is lost, g has left its count behind.    *)
LEMMA GrantStep ==
  ASSUME Inv, Places', NEW g \in Groups, NEW n \in 1 .. Size(g), Touch(g, n),
         Verdict(recs[Key(g, n)], OwnerOf[g], "write") = "grant",
         issued' = issued + 1,
         recs' = [recs EXCEPT ![Key(g, n)] = Granted(@, OwnerOf[g], "write", issued + 1, LeaseOf[g])],
         \/ at'[g] = n /\ member'[g][n].fence = issued + 1 /\ leaked' = leaked
         \/ at'[g] = n - 1 /\ leaked' = leaked \cup {<<g, Key(g, n), issued + 1>>}
  PROVE  Inv'
<1> DEFINE k == Key(g, n)
           o == OwnerOf[g]
<1>1. Store /\ Places /\ Deep /\ Store' /\ k \in Keys /\ o \in Owners /\ n \in Members /\ n \in Nat
  BY InvParts, Elsewhere, MembersFacts
<1>2. recs[k][o] = NoHold /\ \A p \in Owners \ {o} : recs[k][p] = NoHold
  BY DEF Verdict, Rivals
<1>3. /\ recs'[k][o] # NoHold /\ recs'[k][o].mode = "write"
      /\ recs'[k][o].fence = issued + 1 /\ recs'[k][o].count = 1
  BY <1>1, GrantEffect
<1>after. /\ \A p \in Sharing(k, o)' \ {g} : \/ \E j \in Members : member[p][j].fence = recs'[k][o].fence
                                             \/ <<p, k, recs'[k][o].fence>> \in leaked
          /\ g \in Sharing(k, o)' <=> \/ at'[g] = n /\ member'[g][n].fence = recs'[k][o].fence
                                      \/ <<g, k, recs'[k][o].fence>> \in leaked'
  BY SharersAfter
<1>4. Sharing(k, o)' \subseteq {g}
  <2>1. \A p \in Sharing(k, o)' \ {g} : \/ \E j \in Members : member[p][j].fence = issued + 1
                                        \/ <<p, k, issued + 1>> \in leaked
    <3> HIDE DEF k, o
    <3> QED BY <1>3, <1>after
  <2>2. \A p \in Groups, j \in Members : member[p][j].fence \in 0 .. issued /\ issued \in Nat
    BY <1>1 DEF Store, MemberTable, MemberRec
  <2>3. \A p : <<p, k, issued + 1>> \notin leaked
    <3>1. issued \in Nat /\ issued + 1 \notin 0 .. issued
      BY <1>1 DEF Store
    <3> QED BY <1>1, <3>1 DEF Store
  <2>4. \A p \in Groups, j \in Members : member[p][j].fence # issued + 1
    BY <2>2
  <2>5. Sharing(k, o)' \subseteq Groups
    BY DEF Sharing
  <2> HIDE DEF k, o
  <2> QED BY <2>1, <2>3, <2>4, <2>5
<1>5. g \in Sharing(k, o)'
  <2>1. \/ at'[g] = n /\ member'[g][n].fence = issued + 1
        \/ <<g, k, issued + 1>> \in leaked'
    BY <1>1
  <2> HIDE DEF k, o
  <2> QED BY <1>3, <1>after, <2>1
<1>6. recs'[k][o].count = Cardinality(Sharing(k, o)')
  <2>1. Sharing(k, o)' = {g}
    BY <1>4, <1>5
  <2> QED BY <1>3, <2>1, FS_Singleton
<1>7. ASSUME Lasting, NEW p \in Groups, NEW j \in 1 .. at'[p], Key(p, j) = k, OwnerOf[p] = o
      PROVE  Mine(p, j)'
  <2>1. j \in 1 .. Size(p)
    BY Elsewhere
  <2>2. CASE p = g
    <3>1. j = n
      BY <1>7, <2>1, <2>2, MembersFacts
    <3>2. at'[g] = n
      BY <1>1, <1>7, <2>2, <3>1 DEF Touch
    <3> QED BY <1>1, <1>3, <2>2, <3>1, <3>2 DEF Mine, Owns
  <2>3. CASE p # g
    <3>1. j \in 1 .. at[p]
      BY <2>3 DEF Touch
    <3>2. Mine(p, j)
      BY <1>1, <1>7, <3>1 DEF Deep, Backed
    <3> QED BY <1>2, <1>7, <3>2 DEF Mine, Owns
  <2> QED BY <2>2, <2>3
<1>8. recs'[k][o].fence <= issued'
  BY <1>1, <1>3 DEF Store
<1> HIDE DEF k, o
<1> QED BY <1>2, <1>3, <1>6, <1>7, <1>8, OneRecord, SMTT(20) DEF k, o
(* One more count.                                                         *)
LEMMA ReenterStep ==
  ASSUME Inv, Places', NEW g \in Groups, NEW n \in 1 .. Size(g), Touch(g, n),
         recs[Key(g, n)][OwnerOf[g]] # NoHold,
         issued' = issued, at[g] = n - 1, stage[g] \in Early,
         recs' = [recs EXCEPT ![Key(g, n)] = Reentered(@, OwnerOf[g], LeaseOf[g])],
         \/ /\ at'[g] = n /\ member'[g][n].fence = recs[Key(g, n)][OwnerOf[g]].fence
            /\ leaked' = leaked
         \/ /\ at'[g] = n - 1
            /\ leaked' = leaked \cup {<<g, Key(g, n), recs[Key(g, n)][OwnerOf[g]].fence>>}
  PROVE  Inv'
<1> DEFINE k == Key(g, n)
           o == OwnerOf[g]
           S == Sharing(k, o)
<1>1. Store /\ Places /\ Deep /\ Store' /\ k \in Keys /\ o \in Owners /\ n \in Members /\ n \in Nat
  BY InvParts, Elsewhere, MembersFacts
<1>2. /\ recs[k][o] # NoHold /\ recs[k][o].mode = "write" /\ recs[k][o].fence <= issued
      /\ \A p \in Owners \ {o} : recs[k][p] = NoHold
  BY <1>1 DEF Deep, Exclusive
<1>3. /\ recs'[k][o] # NoHold /\ recs'[k][o].mode = "write"
      /\ recs'[k][o].fence = recs[k][o].fence /\ recs'[k][o].count = recs[k][o].count + 1
  BY <1>1, <1>2, ReenterEffect
<1>4. recs[k][o].count = Cardinality(S)
  BY <1>1, <1>2 DEF Deep, Counted, Covers
<1>5. /\ S \in SUBSET Groups /\ g \notin S /\ S' \subseteq Groups /\ g \in S'
      /\ \A p \in Groups \ {g} : p \in S' <=> p \in S
  <2>1. S \in SUBSET Groups /\ S' \subseteq Groups
    BY DEF Sharing
  <2>2. at[g] # n
    BY <1>1
  <2>3. recs[k][o].fence \in Nat
    BY <1>1, <1>2, RecTypes, FencesOfHolds
  <2>4. <<g, k, recs[k][o].fence>> \notin leaked
    BY <1>1, <2>3 DEF Places, Leaks
  <2>5. \/ at'[g] = n /\ member'[g][n].fence = recs'[k][o].fence
        \/ <<g, k, recs'[k][o].fence>> \in leaked'
    BY <1>3
  <2>6. /\ recs'[k][o].fence = recs[k][o].fence =>
             \A p \in Groups \ {g} : p \in S' <=> p \in S
        /\ g \in S <=> \/ at[g] = n /\ member[g][n].fence = recs[k][o].fence
                       \/ <<g, k, recs[k][o].fence>> \in leaked
    BY SharersBefore
  <2>7. g \in S' <=> \/ at'[g] = n /\ member'[g][n].fence = recs'[k][o].fence
                     \/ <<g, k, recs'[k][o].fence>> \in leaked'
    BY SharersAfter
  <2> HIDE DEF k, o, S
  <2> QED BY <1>3, <2>1, <2>2, <2>4, <2>5, <2>6, <2>7
<1>6. IsFiniteSet(S) /\ Cardinality(S) \in Nat /\ recs[k][o].count \in Nat
  BY <1>1, <1>2, <1>5, Sharers, RecTypes, FencesOfHolds
<1>7. recs'[k][o].count = Cardinality(S')
  <2>1. S' = S \cup {g}
    <3>1. \A p : p \in S' <=> p \in S \cup {g}
      BY <1>5
    <3> QED BY <3>1
  <2>2. Cardinality(S \cup {g}) = Cardinality(S) + 1
    <3> HIDE DEF S
    <3> QED BY <1>5, <1>6, FS_AddElement
  <2> HIDE DEF S
  <2> QED BY <1>3, <1>4, <2>1, <2>2
<1>8. ASSUME Lasting, NEW p \in Groups, NEW j \in 1 .. at'[p], Key(p, j) = k, OwnerOf[p] = o
      PROVE  Mine(p, j)'
  <2>1. j \in 1 .. Size(p) /\ j \in Members
    BY Elsewhere, MembersFacts
  <2>2. CASE p = g
    <3>1. j = n
      BY <1>8, <2>1, <2>2, MembersFacts
    <3>2. at'[g] = n
      BY <1>1, <1>8, <2>2, <3>1 DEF Touch
    <3> QED BY <1>1, <1>3, <2>2, <3>1, <3>2 DEF Mine, Owns
  <2>3. CASE p # g
    <3>1. j \in 1 .. at[p] /\ member'[p][j].fence = member[p][j].fence
      BY <2>1, <2>3 DEF Touch
    <3>2. Mine(p, j)
      BY <1>1, <1>8, <3>1 DEF Deep, Backed
    <3> QED BY <1>3, <1>8, <3>1, <3>2 DEF Mine, Owns
  <2> QED BY <2>2, <2>3
<1>9. recs'[k][o].fence <= issued'
  BY <1>2, <1>3
<1>10. recs'[k][o] # NoHold =>
         /\ recs'[k][o].mode = "write" /\ recs'[k][o].fence <= issued'
         /\ \/ recs'[k][o].fence = issued + 1
            \/ recs[k][o] # NoHold /\ recs'[k][o].fence = recs[k][o].fence
         /\ recs'[k][o].count = Cardinality(Sharing(k, o)')
  <2> HIDE DEF k, o
  <2> QED BY <1>2, <1>3, <1>7, <1>9 DEF S
<1>11. Lasting => \A p \in Groups : \A j \in 1 .. at'[p] :
                    Key(p, j) = k /\ OwnerOf[p] = o => Mine(p, j)'
  BY <1>8
<1>12. k = Key(g, n) /\ o = OwnerOf[g]
  OBVIOUS
<1> HIDE DEF k, o, S
<1> QED BY <1>2, <1>10, <1>11, <1>12, OneRecord

(* One count less, if the record is still that of the member and the call  *)
(* is not lost.                                                            *)
LEMMA GiveBackStep ==
  ASSUME Inv, Places', NEW g \in Groups, NEW n \in 1 .. Size(g),
         GiveBack(g, n), Quiet(member, member'), issued' = issued,
         at[g] = n, at' = [at EXCEPT ![g] = n - 1]
  PROVE  Inv' 
<1> DEFINE k == Key(g, n)
           o == OwnerOf[g]
           S == Sharing(k, o)
           gone == Mine(g, n) /\ recs' = [recs EXCEPT ![k] = Released(@, o)]
<1>1. Store /\ Places /\ Deep /\ k \in Keys /\ o \in Owners /\ n \in Members /\ n \in Nat
  BY InvParts, MembersFacts
<1>clean. <<g, k, recs[k][o].fence>> \notin leaked \/ recs[k][o] = NoHold
  <2>1. Has(g, k)
    <3>1. n \in 1 .. at[g]
      BY <1>1
    <3> QED BY <3>1 DEF Has
  <2>2. recs[k][o] # NoHold => recs[k][o].fence \in Nat
    BY <1>1, RecTypes, FencesOfHolds
  <2> QED BY <1>1, <2>1, <2>2 DEF Places, Leaks
<1>2. CASE gone /\ leaked' = leaked
  <2>1. /\ RecChange(k, o)
        /\ recs'[k][o] # NoHold =>
              /\ recs'[k][o].mode = recs[k][o].mode
              /\ recs'[k][o].fence = recs[k][o].fence
              /\ recs'[k][o].count = recs[k][o].count - 1
        /\ recs[k][o].count > 1 => recs'[k][o] # NoHold
    BY <1>1, <1>2, ReleaseEffect
  <2>2. Touch(g, n)
    BY <1>1, <1>2, <2>1 DEF Touch, Quiet, Store, Places, PlaceTypes
  <2>3. /\ recs[k][o] # NoHold /\ recs[k][o].mode = "write" /\ recs[k][o].fence <= issued
        /\ \A p \in Owners \ {o} : recs[k][p] = NoHold
        /\ recs[k][o].fence = member[g][n].fence
    BY <1>1, <1>2, MineFacts DEF Deep, Exclusive
  <2>4. recs[k][o].count = Cardinality(S)
    BY <1>1, <2>3 DEF Deep, Counted, Covers
  <2>5. S \in SUBSET Groups /\ g \in S /\ S' \subseteq Groups
    <3>1. g \in S
      BY <2>2, <2>3, Here
    <3> QED BY <3>1 DEF Sharing
  <2>6. IsFiniteSet(S) /\ Cardinality(S) \in Nat /\ recs[k][o].count \in Nat
    BY <1>1, <2>3, <2>5, Sharers, RecTypes, FencesOfHolds
  <2>7. at'[g] # n
    BY <1>1 DEF Places, PlaceTypes
  <2>8. recs'[k][o] # NoHold => S' = S \ {g}
    <3> SUFFICES ASSUME recs'[k][o] # NoHold PROVE S' = S \ {g}
      OBVIOUS
    <3>1. recs'[k][o].fence = recs[k][o].fence /\ <<g, k, recs[k][o].fence>> \notin leaked'
      BY <1>2, <1>clean, <2>1, <2>3
    <3>2. g \notin S'
      BY <2>2, <2>7, <3>1, Here
    <3>3. \A p \in Groups \ {g} : p \in S' <=> p \in S
      BY <2>2, <3>1, Here
    <3>4. \A p : p \in S' <=> p \in S \ {g}
      BY <2>5, <3>2, <3>3
    <3> QED BY <3>4
  <2>9. recs'[k][o] # NoHold => recs'[k][o].count = Cardinality(S')
    <3>1. recs'[k][o] # NoHold => Cardinality(S') = Cardinality(S) - 1
      BY <2>5, <2>6, <2>8, FS_RemoveElement
    <3> HIDE DEF S
    <3> QED BY <1>2, <2>1, <2>4, <2>6, <3>1
  <2>10. ASSUME Lasting, NEW p \in Groups, NEW j \in 1 .. at'[p], Key(p, j) = k, OwnerOf[p] = o
         PROVE  Mine(p, j)'
    <3>1. j \in 1 .. Size(p) /\ j \in Members
      BY <2>2, Elsewhere, MembersFacts
    <3>2. p # g
      <4>1. p = g => j = n
        BY <2>10, <3>1, MembersFacts
      <4>2. p = g => at'[p] = n - 1
        BY <1>1 DEF Places, PlaceTypes
      <4> QED BY <1>1, <4>1, <4>2
    <3>3. j \in 1 .. at[p] /\ member'[p][j].fence = member[p][j].fence
      BY <3>1, <3>2, <2>2 DEF Touch
    <3>4. Mine(p, j)
      BY <1>1, <2>10, <3>3 DEF Deep, Backed
    <3>5. p \in S
      <4>1. member[p][j].fence = recs[k][o].fence
        BY <2>10, <3>4 DEF Mine, Owns
      <4> QED BY <2>10, <3>3, <4>1 DEF Sharing
    <3>6. recs[k][o].count > 1
      <4>1. p \in S \ {g} /\ IsFiniteSet(S \ {g}) /\ Cardinality(S \ {g}) = Cardinality(S) - 1
        BY <2>5, <2>6, <3>2, <3>5, FS_RemoveElement
      <4>2. Cardinality(S \ {g}) # 0 /\ Cardinality(S \ {g}) \in Nat
        BY <4>1, FS_EmptySet, FS_CardinalityType
      <4> HIDE DEF S
      <4> QED BY <2>4, <2>6, <4>1, <4>2
    <3> QED BY <2>1, <2>10, <3>3, <3>4, <3>6 DEF Mine, Owns
  <2>11. recs'[k][o] # NoHold => recs'[k][o].mode = "write" /\ recs'[k][o].fence <= issued'
    BY <2>1, <2>3
  <2> HIDE DEF k, o
  <2> QED BY <2>1, <2>2, <2>3, <2>9, <2>10, <2>11, OneRecord DEF k, o, S
<1>3. CASE /\ recs' = recs
           /\ \/ ~ Mine(g, n) /\ leaked' = leaked
              \/ leaked' = leaked \cup {<<g, k, member[g][n].fence>>}
  <2>1. Touch(g, n)
    <3>1. member[g][n].fence \in 0 .. issued'
      BY <1>1, MineFacts
    <3>2. leaked' = leaked \/ \E f \in 0 .. issued' : leaked' = leaked \cup {<<g, Key(g, n), f>>}
      BY <1>3, <3>1
    <3> QED BY <1>1, <1>3, <3>2, SMTT(20) DEF Touch, Quiet, Store, Places, PlaceTypes, RecChange
  <2>2. at'[g] # n
    BY <1>1 DEF Places, PlaceTypes
  <2>3. Exclusive'
    BY <1>1, <1>3 DEF Deep, Exclusive
  <2>4. Newest'
    BY <1>1, <1>3, MembersFacts DEF Deep, Newest, Quiet
  <2>5. Counted'
    <3> SUFFICES ASSUME NEW j \in Keys, NEW p \in Owners, recs'[j][p] # NoHold
                 PROVE  recs'[j][p].count = Cardinality(Sharing(j, p)')
      BY DEF Counted, Covers
    <3>1. recs[j][p].count = Cardinality(Sharing(j, p)) /\ recs[j][p] # NoHold
      BY <1>1, <1>3 DEF Deep, Counted, Covers
    <3>2. CASE ~ (j = k /\ p = o)
      <4>1. Sharing(j, p)' = Sharing(j, p)
        BY <2>1, <3>2, Elsewhere
      <4> QED BY <1>3, <3>1, <4>1
    <3>3. CASE j = k /\ p = o
      <4>1. S \subseteq Groups /\ S' \subseteq Groups
        BY DEF Sharing
      <4>2. \A q \in Groups \ {g} : q \in S' <=> q \in S
        <5>1. recs'[k][o].fence = recs[k][o].fence =>
                \A q \in Groups \ {g} : q \in S' <=> q \in S
          BY <2>1, SharersBefore
        <5> HIDE DEF k, o, S
        <5> QED BY <1>3, <5>1
      <4>3. Mine(g, n) <=> member[g][n].fence = recs[k][o].fence
        BY <1>1, <3>1, <3>3, MineFacts DEF Deep, Exclusive
      <4>4. /\ g \in S <=> Mine(g, n)
            /\ g \in S' <=> <<g, k, recs[k][o].fence>> \in leaked'
        <5>1. /\ g \in S <=> \/ at[g] = n /\ member[g][n].fence = recs[k][o].fence
                             \/ <<g, k, recs[k][o].fence>> \in leaked
              /\ g \in S' <=> \/ at'[g] = n /\ member'[g][n].fence = recs'[k][o].fence
                              \/ <<g, k, recs'[k][o].fence>> \in leaked'
          BY <2>1, SharersBefore, SharersAfter
        <5> QED BY <1>3, <1>clean, <2>2, <3>1, <3>3, <4>3, <5>1
      <4>5. g \in S' <=> Mine(g, n)
        BY <1>3, <1>clean, <3>1, <3>3, <4>3, <4>4
      <4>6. S' = S
        <5>1. \A q : q \in S' <=> q \in S
          BY <4>1, <4>2, <4>4, <4>5
        <5> QED BY <5>1
      <4> QED BY <1>3, <3>1, <3>3, <4>6
    <3> QED BY <3>2, <3>3
  <2>6. Backed'
    <3> SUFFICES ASSUME Lasting, NEW p \in Groups, NEW j \in 1 .. at'[p]
                 PROVE  Mine(p, j)'
      BY DEF Backed, Lasting
    <3>1. j \in 1 .. Size(p) /\ j \in Members
      BY <2>1, Elsewhere, MembersFacts
    <3>2. j \in 1 .. at[p]
      BY <1>1 DEF Places, PlaceTypes
    <3>3. Mine(p, j)
      BY <1>1, <3>2 DEF Deep, Backed
    <3> QED BY <1>3, <3>1, <3>3 DEF Mine, Owns, Quiet
  <2> QED BY <1>1, <2>1, <2>3, <2>4, <2>5, <2>6, Elsewhere, InvParts DEF Deep
<1>4. \/ gone /\ leaked' = leaked
      \/ /\ recs' = recs
         /\ \/ ~ Mine(g, n) /\ leaked' = leaked
            \/ leaked' = leaked \cup {<<g, k, member[g][n].fence>>}
  <2>1. CASE Mine(g, n)
    BY <2>1 DEF GiveBack
  <2>2. CASE ~ Mine(g, n)
    BY <2>2 DEF GiveBack
  <2> QED BY <2>1, <2>2
<1> QED BY <1>2, <1>3, <1>4
-----------------------------------------------------------------------------
(* The actions.                                                            *)

LEMMA RecsStay ==
  ASSUME Store, recs' = recs
  PROVE  /\ recs' \in [Keys -> Table]
         /\ \A k \in Keys, o \in Owners : SameHold(recs'[k][o], recs[k][o])
BY DEF Store, SameHold

LEMMA MembersStay ==
  ASSUME Store, member' = member
  PROVE  Quiet(member, member')
BY QuietSame DEF Store

(* An action that moves its party and nothing else.                        *)
LEMMA IdleStep ==
  ASSUME Inv, Places', UNCHANGED <<recs, issued, at, leaked>>, Quiet(member, member')
  PROVE  Inv'
BY InvParts, RecsStay, UntouchedStep DEF Untouched

LEMMA AcquireAllInv == ASSUME Inv, NEW g \in Groups, AcquireAll(g) PROVE Inv'
<1>1. Places'
  BY AcquiringPlaces, InvParts
<1> QED BY <1>1, IdleStep, MembersStay, InvParts DEF AcquireAll

LEMMA AcquireGiveUpInv == ASSUME Inv, NEW g \in Groups, AcquireGiveUp(g) PROVE Inv'
<1>1. Places'
  BY AcquiringPlaces, InvParts
<1> QED BY <1>1, IdleStep, MembersStay, InvParts DEF AcquireGiveUp

(* The fence that a member gets.                                           *)
Got(g, n, f) == member' = [member EXCEPT ![g][n].fence = f]

LEMMA GotFence ==
  ASSUME Store, NEW g \in Groups, NEW n \in Members, NEW i \in Nat, issued <= i, NEW f \in 0 .. i,
         Got(g, n, f)
  PROVE  /\ member' \in MemberTable(i) /\ member'[g][n].fence = f
         /\ \A p \in Groups, j \in Members :
              <<p, j>> # <<g, n>> => member'[p][j].fence = member[p][j].fence
<1> DEFINE x == [member[g][n] EXCEPT !.fence = f]
<1>1. issued \in Nat /\ \A y : y \in MemberRec(issued) => y \in MemberRec(i)
  BY DEF Store, MemberRec
<1>2. member \in [Groups -> [Members -> MemberRec(i)]]
  <2>1. \A p \in Groups, j \in Members : member[p][j] \in MemberRec(i)
    BY <1>1 DEF Store, MemberTable
  <2> QED BY <2>1 DEF Store, MemberTable
<1>3. x \in MemberRec(i) /\ x.fence = f
  <2>1. member[g][n] \in MemberRec(i)
    BY <1>2
  <2> QED BY <2>1 DEF MemberRec
<1>4. member' = [member EXCEPT ![g][n] = x]
  BY DEF Got
<1> HIDE DEF x
<1>5. member' \in [Groups -> [Members -> MemberRec(i)]] /\ member'[g][n] = x
  BY <1>2, <1>3, <1>4
<1>6. ASSUME NEW p \in Groups, NEW j \in Members, <<p, j>> # <<g, n>>
      PROVE  member'[p][j] = member[p][j]
  BY <1>2, <1>4, <1>6
<1> QED BY <1>3, <1>5, <1>6 DEF MemberTable

LEMMA AcquireMemberInv == ASSUME Inv, NEW g \in Groups, AcquireMember(g) PROVE Inv'
<1> DEFINE n == at[g] + 1
           k == Key(g, n)
           o == OwnerOf[g]
<1>1. Places' /\ Store /\ Places
  BY AcquiringPlaces, InvParts
<1>2. /\ n \in 1 .. Size(g) /\ n \in Members /\ at[g] = n - 1 /\ at[g] \in Nat
      /\ at' = [at EXCEPT ![g] = n] /\ leaked' = leaked /\ stage[g] \in Early
  <2>1. stage[g] = "acquiring" /\ at' = [at EXCEPT ![g] = n] /\ leaked' = leaked
    BY DEF AcquireMember
  <2>2. at[g] \in 0 .. Size(g) /\ at[g] < Size(g) /\ Size(g) \in Nat
    BY <1>1, <2>1, Staying
  <2>3. n \in 1 .. Size(g)
    BY <2>2
  <2> QED BY <2>1, <2>2, <2>3, MembersFacts DEF Early
<1>3. at' \in [Groups -> Nat] /\ at'[g] = n /\ \A p \in Groups \ {g} : at'[p] = at[p]
  BY <1>1, <1>2 DEF Places, PlaceTypes
<1>4. issued \in Nat /\ k \in Keys /\ o \in Owners
  BY <1>1, <1>2, MembersFacts DEF Store
<1>5. CASE /\ Verdict(recs[k], o, "write") = "grant"
           /\ issued' = issued + 1
           /\ recs' = [recs EXCEPT ![k] = Granted(@, o, "write", issued + 1, LeaseOf[g])]
           /\ member' = [member EXCEPT ![g][n].fence = issued + 1]
  <2>1. /\ member' \in MemberTable(issued') /\ member'[g][n].fence = issued + 1
        /\ \A p \in Groups, j \in Members :
              <<p, j>> # <<g, n>> => member'[p][j].fence = member[p][j].fence
    <3>1. issued + 1 \in Nat /\ issued <= issued + 1 /\ issued + 1 \in 0 .. issued + 1
      BY <1>4
    <3>2. Got(g, n, issued + 1) /\ issued' = issued + 1
      BY <1>5 DEF Got
    <3> HIDE DEF n
    <3> QED BY <1>1, <1>2, <3>1, <3>2, GotFence
  <2>2. RecChange(k, o)
    BY <1>1, <1>2, <1>5, GrantEffect
  <2> HIDE DEF n
  <2>3. Touch(g, n)
    BY <1>2, <1>3, <1>4, <1>5, <2>1, <2>2 DEF Touch
  <2> QED BY <1>1, <1>2, <1>3, <1>5, <2>1, <2>3, GrantStep
<1>6. CASE /\ Verdict(recs[k], o, "write") = "reenter"
           /\ recs' = [recs EXCEPT ![k] = Reentered(@, o, LeaseOf[g])]
           /\ member' = [member EXCEPT ![g][n].fence = recs[k][o].fence]
           /\ issued' = issued
  <2>1. recs[k][o] # NoHold
    BY <1>6 DEF Verdict
  <2>2. recs[k][o].fence \in 0 .. issued
    BY <1>1, <1>4, <2>1, RecTypes, FencesOfHolds, InvParts DEF Deep, Exclusive
  <2>3. /\ member' \in MemberTable(issued') /\ member'[g][n].fence = recs[k][o].fence
        /\ \A p \in Groups, j \in Members :
              <<p, j>> # <<g, n>> => member'[p][j].fence = member[p][j].fence
    <3>1. issued <= issued
      BY <1>4
    <3>2. Got(g, n, recs[k][o].fence) /\ issued' = issued
      BY <1>6 DEF Got
    <3> HIDE DEF n, k, o
    <3> QED BY <1>1, <1>2, <1>4, <2>2, <3>1, <3>2, GotFence
  <2>4. RecChange(k, o)
    BY <1>1, <1>2, <1>6, <2>1, ReenterEffect
  <2> HIDE DEF n
  <2>5. Touch(g, n)
    BY <1>2, <1>3, <1>4, <1>6, <2>3, <2>4 DEF Touch
  <2> QED BY <1>1, <1>2, <1>3, <1>6, <2>1, <2>3, <2>5, ReenterStep
<1> QED BY <1>5, <1>6 DEF AcquireMember

LEMMA AcquireTimeoutInv == ASSUME Inv, NEW g \in Groups, AcquireTimeout(g) PROVE Inv'
<1> DEFINE n == at[g] + 1
           k == Key(g, n)
           o == OwnerOf[g]
<1>1. Places' /\ Store /\ Places
  BY AcquiringPlaces, InvParts
<1>2. /\ n \in 1 .. Size(g) /\ n \in Members /\ at[g] = n - 1 /\ at[g] \in Nat
      /\ at' = at /\ member' = member /\ stage[g] \in Early
  <2>1. stage[g] = "acquiring" /\ at' = at /\ member' = member
    BY DEF AcquireTimeout
  <2>2. at[g] \in 0 .. Size(g) /\ at[g] < Size(g) /\ Size(g) \in Nat
    BY <1>1, <2>1, Staying
  <2>3. n \in 1 .. Size(g)
    BY <2>2
  <2> QED BY <2>1, <2>2, <2>3, MembersFacts DEF Early
<1>3. issued \in Nat /\ issued + 1 \in Nat
  BY <1>1 DEF Store
<1>4. ASSUME NEW i \in Nat, issued <= i PROVE member \in MemberTable(i)
  <2>1. \A y : y \in MemberRec(issued) => y \in MemberRec(i)
    BY <1>3, <1>4 DEF MemberRec
  <2>2. \A p \in Groups, j \in Members : member[p][j] \in MemberRec(i)
    BY <1>1, <2>1 DEF Store, MemberTable
  <2> QED BY <1>1, <2>2 DEF Store, MemberTable
<1>5. CASE UNCHANGED <<recs, issued, leaked>>
  BY <1>1, <1>2, <1>5, RecsStay, MembersStay, UntouchedStep DEF Untouched
<1>6. CASE /\ Verdict(recs[k], o, "write") = "grant"
           /\ issued' = issued + 1
           /\ recs' = [recs EXCEPT ![k] = Granted(@, o, "write", issued + 1, LeaseOf[g])]
           /\ leaked' = leaked \cup {<<g, k, issued + 1>>}
  <2>1. RecChange(k, o)
    BY <1>1, <1>2, <1>6, GrantEffect
  <2>2. member' \in MemberTable(issued')
    BY <1>2, <1>3, <1>4, <1>6
  <2>3. \E f \in 0 .. issued' : leaked' = leaked \cup {<<g, k, f>>}
    BY <1>3, <1>6
  <2> HIDE DEF n
  <2>4. Touch(g, n)
    BY <1>2, <1>3, <1>6, <2>1, <2>2, <2>3 DEF Touch
  <2> QED BY <1>1, <1>2, <1>6, <2>4, GrantStep
<1>7. CASE /\ Verdict(recs[k], o, "write") = "reenter"
           /\ recs' = [recs EXCEPT ![k] = Reentered(@, o, LeaseOf[g])]
           /\ leaked' = leaked \cup {<<g, k, recs[k][o].fence>>}
           /\ issued' = issued
  <2>1. recs[k][o] # NoHold
    BY <1>7 DEF Verdict
  <2>2. RecChange(k, o)
    BY <1>1, <1>2, <1>7, <2>1, ReenterEffect
  <2>3. member' \in MemberTable(issued')
    BY <1>1, <1>2, <1>7 DEF Store
  <2>4. \E f \in 0 .. issued' : leaked' = leaked \cup {<<g, k, f>>}
    <3>1. recs[k][o].fence \in 0 .. issued
      <4>1. k \in Keys /\ o \in Owners
        BY <1>2, MembersFacts
      <4> QED BY <1>1, <1>3, <2>1, <4>1, RecTypes, FencesOfHolds, InvParts DEF Deep, Exclusive
    <3> QED BY <1>7, <3>1
  <2> HIDE DEF n
  <2>5. Touch(g, n)
    BY <1>2, <1>3, <1>7, <2>2, <2>3, <2>4 DEF Touch
  <2> QED BY <1>1, <1>2, <1>7, <2>1, <2>5, ReenterStep
<1> QED BY <1>5, <1>6, <1>7 DEF AcquireTimeout

LEMMA RollbackInv == ASSUME Inv, NEW g \in Groups, Rollback(g) PROVE Inv'
<1>1. Places' /\ Store /\ Places
  BY ReturningPlaces, InvParts
<1>2. CASE at[g] = 0
  BY <1>1, <1>2, IdleStep, MembersStay DEF Rollback
<1>3. CASE at[g] # 0
  <2> DEFINE n == at[g]
             x == [Closed(member[g][n], "ended") EXCEPT !.dead = TRUE]
  <2>1. /\ member' = [member EXCEPT ![g][n] = x]
        /\ GiveBack(g, n) /\ at' = [at EXCEPT ![g] = n - 1] /\ issued' = issued
    BY <1>3 DEF Rollback
  <2>2. n \in 1 .. Size(g) /\ n \in Members
    <3>1. n \in 0 .. Size(g) /\ n # 0
      BY <1>1, <1>3, Staying
    <3> QED BY <3>1, MembersFacts
  <2>3. x \in MemberRec(issued) /\ x.fence = member[g][n].fence
    <3>1. member[g][n] \in MemberRec(issued)
      BY <1>1, <2>2, MineFacts
    <3>2. /\ Closed(member[g][n], "ended") \in MemberRec(issued)
          /\ Closed(member[g][n], "ended").fence = member[g][n].fence
      BY <3>1, ClosedRec
    <3> QED BY <3>2 DEF MemberRec
  <2> HIDE DEF x
  <2>4. Quiet(member, member')
    BY <1>1, <2>1, <2>2, <2>3, QuietPut DEF Store
  <2> HIDE DEF n
  <2> QED BY <1>1, <2>1, <2>2, <2>4, GiveBackStep DEF n
<1> QED BY <1>2, <1>3

LEMMA ReleaseInv == ASSUME Inv, NEW g \in Groups, Release(g) PROVE Inv'
<1>1. Places' /\ Store /\ Places
  BY ReturningPlaces, InvParts
<1>2. at[g] \in Members
  BY <1>1, Staying, MembersFacts DEF Release
<1>3. Quiet(member, member')
  BY <1>1, <1>2, QuietDead DEF Release, Store
<1> QED BY <1>1, <1>3, IdleStep DEF Release

LEMMA ReleaseMemberInv == ASSUME Inv, NEW g \in Groups, ReleaseMember(g) PROVE Inv'
<1> DEFINE n == at[g]
           closed == Closed(member[g][n], "ended")
           A == [member EXCEPT ![g][n] = closed]
<1>1. Places' /\ Store /\ Places
  BY ReturningPlaces, InvParts
<1>2. /\ stage[g] = "releasing" /\ GiveBack(g, n) /\ at' = [at EXCEPT ![g] = n - 1] /\ issued' = issued
      /\ \/ n = 1 /\ member' = A
         \/ n # 1 /\ member' = [member EXCEPT ![g][n] = closed, ![g][n - 1].dead = TRUE]
  BY DEF ReleaseMember
<1>3. n \in 1 .. Size(g) /\ n \in Members /\ (n # 1 => n - 1 \in Members)
  <2>1. n \in 0 .. Size(g) /\ n > 0 /\ Size(g) \in Nat
    BY <1>1, <1>2, Staying
  <2>2. n \in 1 .. Size(g) /\ (n # 1 => n - 1 \in 1 .. Size(g))
    BY <2>1
  <2> QED BY <2>2, MembersFacts
<1>4. closed \in MemberRec(issued) /\ closed.fence = member[g][n].fence
  BY <1>1, <1>3, MineFacts, ClosedRec
<1>5. member \in MemberTable(issued)
  BY <1>1 DEF Store
<1> HIDE DEF closed
<1>6. Quiet(member, A)
  BY <1>3, <1>4, <1>5, QuietPut
<1>7. A \in MemberTable(issued)
  BY <1>6 DEF Quiet
<1>8. n # 1 => member' = [A EXCEPT ![g][n - 1].dead = TRUE]
  BY <1>2
<1> HIDE DEF A
<1>9. Quiet(member, member')
  <2>1. CASE n = 1
    BY <1>2, <1>6, <2>1
  <2>2. CASE n # 1
    <3>1. Quiet(A, member')
      BY <1>3, <1>7, <1>8, <2>2, QuietDead
    <3> QED BY <1>6, <3>1, QuietTwice
  <2> QED BY <2>1, <2>2
<1> HIDE DEF n
<1> QED BY <1>1, <1>2, <1>3, <1>9, GiveBackStep DEF n

LEMMA RefreshInv == ASSUME Inv, NEW g \in Groups, Refresh(g) PROVE Inv'
<1>1. Places'
  BY RenewingPlaces, InvParts
<1> QED BY <1>1, IdleStep, MembersStay, InvParts DEF Refresh

(* What a renewal, by Refresh or by the watchdog, may do to the store.     *)
LEMMA RenewalStep ==
  ASSUME Inv, Places', NEW g \in Groups, NEW n \in 1 .. Size(g),
         UNCHANGED <<issued, at, leaked>>,
         recs' = recs \/ (Mine(g, n) /\ Renewed(g, n)),
         member' = member \/ MarkAll(g)
  PROVE  Inv'
<1>1. Store
  BY InvParts
<1>2. Quiet(member, member')
  BY <1>1, MembersStay, MarkAllQuiet
<1>3. /\ recs' \in [Keys -> Table]
      /\ \A k \in Keys, o \in Owners : SameHold(recs'[k][o], recs[k][o])
  BY <1>1, RecsStay, RenewedEffect
<1> QED BY <1>2, <1>3, UntouchedStep DEF Untouched

LEMMA RefreshMemberInv == ASSUME Inv, NEW g \in Groups, RefreshMember(g) PROVE Inv'
<1> DEFINE n == renewing[g]
<1>1. Places' /\ Places
  BY RenewingPlaces, InvParts
<1>2. n \in 1 .. Size(g)
  <2>1. n \in 0 .. Size(g) /\ n > 0
    BY <1>1, Staying DEF RefreshMember
  <2> QED BY <2>1
<1>3. /\ UNCHANGED <<issued, at, leaked>>
      /\ recs' = recs \/ (Mine(g, n) /\ Renewed(g, n))
      /\ member' = member \/ MarkAll(g)
  BY DEF RefreshMember
<1> HIDE DEF n
<1> QED BY <1>1, <1>2, <1>3, RenewalStep

LEMMA WatchdogWakeInv == ASSUME Inv, NEW g \in Groups, WatchdogWake(g) PROVE Inv'
<1>1. Places'
  BY RenewingPlaces, InvParts
<1> QED BY <1>1, IdleStep, MembersStay, InvParts DEF WatchdogWake

LEMMA WatchdogAnswerInv == ASSUME Inv, NEW g \in Groups, WatchdogAnswer(g) PROVE Inv'
<1> DEFINE n == watchdog[g].at
<1>1. Places' /\ Places
  BY RenewingPlaces, InvParts
<1>2. n \in 1 .. Size(g)
  BY <1>1, Staying
<1>3. /\ UNCHANGED <<issued, at, leaked>>
      /\ recs' = recs \/ (Mine(g, n) /\ Renewed(g, n))
      /\ member' = member \/ MarkAll(g)
  BY DEF WatchdogAnswer
<1> HIDE DEF n
<1> QED BY <1>1, <1>2, <1>3, RenewalStep

LEMMA ForwardInv == ASSUME Inv, NEW g \in Groups, Forward(g) PROVE Inv'
<1>1. Places'
  BY RenewingPlaces, InvParts
<1> QED BY <1>1, IdleStep, MembersStay, InvParts DEF Forward

LEMMA TickInv == ASSUME Inv, Tick PROVE Inv'
<1>1. /\ recs' = [k \in Keys |-> Aged(recs[k])] /\ ~ Lasting /\ faults' = faults
      /\ UNCHANGED <<issued, stage, at, member, watchdog, renewing, lost, leaked>>
  BY DEF Tick, Lasting
<1>2. Places' /\ Store
  BY <1>1, BackendPlaces, InvParts
<1>3. ASSUME NEW k \in Keys
      PROVE  /\ recs'[k] \in Table
             /\ \A o \in Owners : recs'[k][o] # NoHold => SameHold(recs'[k][o], recs[k][o])
  <2>1. recs'[k] = Aged(recs[k]) /\ recs[k] \in Table
    BY <1>1, <1>2, RecTypes
  <2> QED BY <2>1, AgedEffect DEF SameHold
<1>4. recs' \in [Keys -> Table]
  <2>1. recs' = [k \in Keys |-> recs'[k]]
    BY <1>1
  <2> QED BY <1>3, <2>1
<1> QED BY <1>1, <1>2, <1>3, <1>4, MembersStay, UntouchedStep DEF Untouched

LEMMA DropInv == ASSUME Inv, NEW k \in Keys, Drop(k) PROVE Inv'
<1>1. /\ recs' = [recs EXCEPT ![k] = Vacant] /\ ~ Lasting /\ faults > 0 /\ faults' = faults - 1
      /\ UNCHANGED <<issued, stage, at, member, watchdog, renewing, lost, leaked>>
  BY DEF Drop, Lasting
<1>2. Places' /\ Store
  BY <1>1, BackendPlaces, InvParts
<1>3. Vacant \in Table /\ \A o \in Owners : Vacant[o] = NoHold
  BY DEF Vacant, Table
<1>4. /\ recs' \in [Keys -> Table]
      /\ \A j \in Keys, o \in Owners : recs'[j][o] = NoHold \/ recs'[j][o] = recs[j][o]
  BY <1>1, <1>2, <1>3 DEF Store
<1>5. \A j \in Keys, o \in Owners : SameHold(recs'[j][o], recs[j][o]) \/ recs'[j][o] = NoHold
  BY <1>4 DEF SameHold
<1> QED BY <1>1, <1>2, <1>4, <1>5, MembersStay, UntouchedStep DEF Untouched

LEMMA InitInv == ASSUME Init PROVE Inv
<1>1. Store /\ \A k \in Keys, o \in Owners : recs[k][o] = NoHold
  <2>1. Vacant \in Table /\ \A o \in Owners : Vacant[o] = NoHold
    BY DEF Vacant, Table
  <2> QED BY <2>1 DEF Init, Store, MemberTable, MemberRec
<1>2. \A g \in Groups : at[g] = 0 /\ stage[g] = "idle" /\ renewing[g] = 0 /\ watchdog[g].at = 1
  BY DEF Init
<1>3. PlaceTypes
  <2>1. \A g \in Groups : 1 \in Members /\ 0 \in 0 .. Largest
    BY MembersFacts DEF Members
  <2> QED BY <2>1, MembersFacts DEF Init, PlaceTypes, Stages
<1>4. Control
  BY <1>2, MembersFacts DEF Control, Stages
<1>5. Backed
  BY <1>2 DEF Backed
<1>6. Exclusive /\ Counted
  BY <1>1 DEF Exclusive, Counted, Covers
<1>7. Newest
  BY <1>1, MembersFacts DEF Newest
<1>8. Leaks
  BY DEF Init, Leaks
<1> QED BY <1>1, <1>3, <1>4, <1>5, <1>6, <1>7, <1>8, InvParts DEF Places, Deep

LEMMA NextInv == ASSUME Inv, [Next]_vars PROVE Inv'
<1>1. CASE UNCHANGED vars
  <2>1. Places' /\ Store
    BY <1>1, BackendPlaces, InvParts DEF vars
  <2> QED BY <1>1, <2>1, MembersStay, IdleStep DEF vars
<1>2. ASSUME NEW g \in Groups,
             \/ AcquireAll(g) \/ AcquireMember(g) \/ AcquireGiveUp(g) \/ AcquireTimeout(g)
             \/ Rollback(g) \/ Release(g) \/ ReleaseMember(g)
             \/ Refresh(g) \/ RefreshMember(g)
             \/ WatchdogWake(g) \/ WatchdogAnswer(g) \/ Forward(g)
      PROVE  Inv'
  BY <1>2, AcquireAllInv, AcquireMemberInv, AcquireGiveUpInv, AcquireTimeoutInv, RollbackInv,
     ReleaseInv, ReleaseMemberInv, RefreshInv, RefreshMemberInv, WatchdogWakeInv,
     WatchdogAnswerInv, ForwardInv
<1>3. CASE Tick
  BY <1>3, TickInv
<1>4. ASSUME NEW k \in Keys, Drop(k) PROVE Inv'
  BY <1>4, DropInv
<1> QED BY <1>1, <1>2, <1>3, <1>4 DEF Next

LEMMA Invariance == Spec => []Inv
<1>1. Init => Inv
  BY InitInv
<1>2. Inv /\ [Next]_vars => Inv'
  BY NextInv
<1> QED BY <1>1, <1>2, PTL DEF Spec

-----------------------------------------------------------------------------
(* The theorems.                                                           *)

(* The backend, the groups and their watchdogs keep their types, for any   *)
(* groups, Keys, owners and leases.                                        *)
THEOREM TypeCorrect == Spec => []TypeOK
<1>1. Inv => TypeOK
  BY DEF Inv
<1> QED BY <1>1, Invariance, PTL

(* locker.go, MultiLocker: however the groups are given their Keys, they   *)
(* never wait for each other in a circle: among groups that wait, the one  *)
(* that waits for the greatest Key waits for none of the others.           *)
THEOREM NoDeadlock == Spec => []NoCircularWait
<1>1. ASSUME Inv, NEW W \in (SUBSET Groups) \ {{}}
      PROVE  \E g \in W : WaitsFor(g) \cap W = {}
  <2> DEFINE A == {g \in W : stage[g] = "acquiring"}
             wanted(g) == Key(g, at[g] + 1)
             T == {wanted(g) : g \in A}
  <2>1. CASE A = {}
    <3>1. PICK g \in W : stage[g] # "acquiring"
      BY <2>1
    <3>2. WaitsFor(g) = {}
      BY <3>1 DEF WaitsFor
    <3> QED BY <3>1, <3>2
  <2>2. CASE A # {}
    <3>1. ASSUME NEW g \in A
          PROVE  /\ g \in Groups /\ at[g] \in 0 .. Size(g) /\ at[g] + 1 \in 1 .. Size(g)
                 /\ wanted(g) \in Nat
      <4>1. /\ at[g] \in 0 .. Size(g) /\ at[g] < Size(g) /\ Size(g) \in Nat
            /\ g \in Groups
        BY <1>1, <3>1, InvParts, Staying
      <4>2. at[g] + 1 \in 1 .. Size(g)
        BY <4>1
      <4> QED BY <4>1, <4>2, MembersFacts
    <3>2. T \in SUBSET Nat /\ T # {}
      BY <2>2, <3>1
    <3>3. IsFiniteSet(T)
      <4> DEFINE f == [g \in A |-> wanted(g)]
      <4>1. IsFiniteSet(A)
        <5>1. A \in SUBSET Groups
          OBVIOUS
        <5> QED BY <5>1, MembersFacts, FS_Subset
      <4>2. f \in Surjection(A, T)
        BY DEF Surjection
      <4> QED BY <4>1, <4>2, FS_Surjection
    <3>4. PICK x \in T : \A y \in T : y <= x
      <4> HIDE DEF T
      <4> QED BY <3>2, <3>3, Greatest
    <3>5. PICK g \in A : x = wanted(g)
      BY <3>4
    <3>6. ASSUME NEW p \in WaitsFor(g) \cap W
          PROVE  FALSE
      <4>1. p \in A /\ p \in Groups /\ Has(p, wanted(g))
        BY <3>6 DEF WaitsFor
      <4>2. PICK n \in 1 .. at[p] : Key(p, n) = wanted(g)
        BY <4>1 DEF Has
      <4>3. n \in 1 .. Size(p) /\ at[p] + 1 \in 1 .. Size(p) /\ n < at[p] + 1
        <5>1. /\ at[p] \in 0 .. Size(p) /\ at[p] + 1 \in 1 .. Size(p)
              /\ Size(p) \in Nat
          BY <3>1, <4>1, MembersFacts
        <5> HIDE DEF A, wanted, T
        <5> QED BY <4>2, <5>1
      <4>4. Key(p, n) < wanted(p)
        BY <4>1, <4>3, MembersFacts
      <4>5. wanted(p) \in T
        BY <4>1
      <4>6. wanted(p) <= wanted(g)
        BY <3>4, <3>5, <4>5
      <4>7. wanted(p) \in Nat /\ wanted(g) \in Nat
        BY <3>1, <4>1
      <4> HIDE DEF wanted
      <4> QED BY <4>2, <4>4, <4>6, <4>7
    <3> QED BY <3>5, <3>6
  <2> QED BY <2>1, <2>2
<1>2. Inv => NoCircularWait
  BY <1>1 DEF NoCircularWait
<1> QED BY <1>2, Invariance, PTL

(* CONTEXT.md, "Reentrancy" and "MultiLock": a group that is held is       *)
(* backed on every Key, also if other groups of the same owner are         *)
(* acquired, rolled back and released, and calls are lost.                 *)
THEOREM HeldIsBacked == Spec => []HeldGroupsAreBacked
<1>1. Inv => HeldGroupsAreBacked
  <2> SUFFICES ASSUME Inv, ~ Lapses, "drop" \notin Faults,
                      NEW g \in Groups, stage[g] = "held", NEW n \in 1 .. Size(g)
               PROVE  Mine(g, n)
    BY DEF HeldGroupsAreBacked
  <2>1. at[g] = Size(g)
    BY DEF Inv, Control
  <2> QED BY <2>1 DEF Inv, Backed, Lasting
<1> QED BY <1>1, Invariance, PTL

(* CONTEXT.md, "MultiLock": all or nothing, whatever lapses, is dropped or *)
(* is lost.  The counts of a live record are exactly those of the groups   *)
(* of its owner that have the Key and have not failed or been released     *)
(* yet, and those that a lost call has left behind.                        *)
THEOREM AllOrNothing == Spec => []NothingLeftBehind
<1>1. Inv => NothingLeftBehind
  <2> SUFFICES ASSUME Inv, NEW k \in Keys, NEW o \in Owners, recs[k][o] # NoHold
               PROVE  recs[k][o].count = Cardinality(Accountable(k, o))
    BY DEF NothingLeftBehind
  <2>1. Store /\ Places /\ Deep
    BY InvParts
  <2>2. recs[k][o].count = Cardinality(Sharing(k, o))
    BY <2>1 DEF Deep, Counted, Covers
  <2>3. ASSUME NEW g \in Groups, OwnerOf[g] = o, NEW n \in 1 .. at[g], Key(g, n) = k
        PROVE  /\ stage[g] \notin {"failed", "released"}
               /\ Mine(g, n) <=> member[g][n].fence = recs[k][o].fence
    <3>1. at[g] \in 0 .. Size(g) /\ Size(g) \in Nat /\ at[g] # 0
      BY <2>1, <2>3, Staying
    <3>2. n \in 1 .. Size(g)
      BY <3>1
    <3> QED BY <2>1, <2>3, <3>1, <3>2, MineFacts, Staying DEF Deep, Exclusive
  <2>4. \A g \in Groups : g \in Sharing(k, o) <=> g \in Accountable(k, o)
    BY <2>3 DEF Sharing, Accountable
  <2>5. Sharing(k, o) = Accountable(k, o)
    BY <2>4 DEF Sharing, Accountable
  <2> QED BY <2>2, <2>5
<1> QED BY <1>1, Invariance, PTL

(* doc.go: of two groups of different owners that think they hold the same *)
(* Key the backend backs at most one, and the other one has the smaller    *)
(* fence, whatever lapsed, was dropped, or was lost.                       *)
THEOREM Fenced == Spec => []GroupsAreFenced
<1>1. Inv => GroupsAreFenced
  <2> SUFFICES ASSUME Inv, NEW g \in Groups, NEW p \in Groups, OwnerOf[g] # OwnerOf[p],
                      NEW n \in 1 .. Size(g), NEW m \in 1 .. Size(p),
                      Key(g, n) = Key(p, m), Mine(p, m)
               PROVE  ~ Mine(g, n) /\ member[g][n].fence < member[p][m].fence
    BY DEF GroupsAreFenced
  <2> DEFINE k == Key(g, n)
  <2>1. Store /\ Deep /\ k \in Keys /\ OwnerOf[g] \in Owners /\ OwnerOf[p] \in Owners
    BY InvParts, MembersFacts
  <2>2. recs[k][OwnerOf[p]] # NoHold /\ recs[k][OwnerOf[p]].fence = member[p][m].fence
    BY DEF Mine, Owns
  <2>3. recs[k][OwnerOf[g]] = NoHold
    BY <2>1, <2>2 DEF Deep, Exclusive
  <2>4. ~ Mine(g, n)
    BY <2>3 DEF Mine, Owns
  <2>5. member[g][n].fence < recs[k][OwnerOf[p]].fence
    BY <2>1, <2>2 DEF Deep, Newest
  <2> QED BY <2>2, <2>4, <2>5
<1> QED BY <1>1, Invariance, PTL

=============================================================================
