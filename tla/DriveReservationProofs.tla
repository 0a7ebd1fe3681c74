------------------------ MODULE DriveReservationProofs ------------------------
(***************************************************************************)
(* Proofs about the deferred drive reservations.  The augmenting search of *)
(* DriveMatching ends with a matching no other exceeds: the drives it has  *)
(* seen in vain and the slots that hold them account for every slot left   *)
(* empty (the argument of Hall and Koenig).  In DriveReservation, whoever  *)
(* uses what others have reserved, each deferred slot keeps a drive of its *)
(* own, so that the allocation ends and no drive is in two plans.          *)
(***************************************************************************)
EXTENDS DriveReservation, DriveMatching, FiniteSetTheorems, TLAPS

-----------------------------------------------------------------------------
(* Matchings *)

LEMMA MinOf ==
  ASSUME NEW S \in SUBSET Nat, S # {}
  PROVE  Min(S) \in S /\ \A y \in S : Min(S) <= y
<1>1. PICK x \in S : \A y \in S : ~ (<<y, x>> \in OpToRel(<, Nat))
  BY WFMin, NatLessThanWellFounded
<1>2. \A y \in S : x <= y
  <2> TAKE y \in S
  <2>1. ~(y < x) /\ x \in Nat /\ y \in Nat
    BY <1>1 DEF OpToRel
  <2> QED
    BY <2>1
<1>3. \E z \in S : \A y \in S : z <= y
  BY <1>2
<1> QED
  BY <1>3, Zenon DEF Min

LEMMA MaxOf ==
  ASSUME NEW S \in SUBSET Nat, S # {}, NEW b \in Nat, \A y \in S : y <= b
  PROVE  Max(S) \in S /\ \A y \in S : y <= Max(S)
<1> DEFINE T == {b - y : y \in S}
<1>1. T \in SUBSET Nat /\ T # {}
  <2>1. \A y \in S : b - y \in Nat
    OBVIOUS
  <2> QED
    BY <2>1
<1>2. Min(T) \in T /\ \A z \in T : Min(T) <= z
  BY <1>1, MinOf
<1>3. PICK x \in S : Min(T) = b - x
  BY <1>2
<1>4. \A y \in S : y <= x
  <2> TAKE y \in S
  <2>1. b - y \in T /\ b - x <= b - y /\ x \in Nat /\ y \in Nat
    BY <1>2, <1>3
  <2> QED
    BY <2>1
<1>5. \A y \in S : y <= x /\ x >= y
  BY <1>4
<1> HIDE DEF T
<1>6. Max(S) \in S /\ \A y \in S : Max(S) >= y
  BY <1>5 DEF Max
<1> QED
  BY <1>6

\* The slots that can be served together: the empty set is one, and there is a largest.
LEMMA LargestExists ==
  ASSUME NEW wanted, IsFiniteSet(DOMAIN wanted)
  PROVE  /\ \A slots \in Servable(wanted) :
              /\ slots \subseteq DOMAIN wanted /\ IsFiniteSet(slots) /\ Cardinality(slots) \in Nat
              /\ Cardinality(slots) <= LargestSize(wanted)
         /\ \E slots \in Servable(wanted) : Cardinality(slots) = LargestSize(wanted)
<1> DEFINE Sizes == {Cardinality(slots) : slots \in Servable(wanted)}
<1>1. ASSUME NEW slots \in Servable(wanted)
      PROVE  /\ slots \subseteq DOMAIN wanted /\ IsFiniteSet(slots) /\ Cardinality(slots) \in Nat
             /\ Cardinality(slots) <= Cardinality(DOMAIN wanted)
  <2>1. slots \in SUBSET DOMAIN wanted
    BY DEF Servable
  <2> QED
    BY <2>1, FS_Subset, FS_CardinalityType
<1>2. {} \in Servable(wanted)
  <2> DEFINE none == [s \in {} |-> s]
  <2>1. none \in MatchingsOf({}, wanted)
    <3>1. none \in [{} -> UNION Range(wanted)]
      OBVIOUS
    <3> HIDE DEF none
    <3> QED
      BY <3>1 DEF MatchingsOf, Injection, IsInjective
  <2>2. {} \in SUBSET DOMAIN wanted
    OBVIOUS
  <2> QED
    BY <2>1, <2>2, Zenon DEF Servable
<1>3. Cardinality(DOMAIN wanted) \in Nat
  BY FS_CardinalityType
<1>4. Sizes \in SUBSET Nat /\ Sizes # {} /\ \A n \in Sizes : n <= Cardinality(DOMAIN wanted)
  BY <1>1, <1>2
<1>5. Max(Sizes) \in Sizes /\ \A n \in Sizes : n <= Max(Sizes)
  BY <1>3, <1>4, MaxOf
<1>6. LargestSize(wanted) = Max(Sizes)
  BY DEF LargestSize
<1> QED
  BY <1>1, <1>5, <1>6

\* A matching that serves as many slots as any other is a largest one.
LEMMA NoneIsLarger ==
  ASSUME NEW wanted, IsFiniteSet(DOMAIN wanted), NEW m, DOMAIN m \in SUBSET DOMAIN wanted,
         m \in MatchingsOf(DOMAIN m, wanted),
         \A slots \in Servable(wanted) : Cardinality(slots) <= Cardinality(DOMAIN m)
  PROVE  m \in LargestMatchings(wanted)
<1>1. DOMAIN m \in Servable(wanted)
  BY DEF Servable
<1>2. PICK slots \in Servable(wanted) : Cardinality(slots) = LargestSize(wanted)
  BY LargestExists
<1>3. /\ Cardinality(DOMAIN m) <= LargestSize(wanted) /\ LargestSize(wanted) \in Nat
      /\ LargestSize(wanted) <= Cardinality(DOMAIN m) /\ Cardinality(DOMAIN m) \in Nat
  BY <1>1, <1>2, LargestExists
<1>4. Cardinality(DOMAIN m) = LargestSize(wanted)
  BY <1>3
<1> QED
  BY <1>1, <1>4 DEF LargestMatchings

\* All slots are served if and only if a largest matching has the size of all of them.
LEMMA AllServed ==
  ASSUME NEW wanted, IsFiniteSet(DOMAIN wanted)
  PROVE  /\ DOMAIN wanted \in Servable(wanted)
              <=> LargestSize(wanted) = Cardinality(DOMAIN wanted)
         /\ DOMAIN wanted \in Servable(wanted) =>
              LargestMatchings(wanted) = MatchingsOf(DOMAIN wanted, wanted)
<1>1. Cardinality(DOMAIN wanted) \in Nat
  BY FS_CardinalityType
<1>2. \A slots \in Servable(wanted) :
        /\ slots \in SUBSET DOMAIN wanted /\ Cardinality(slots) \in Nat
        /\ Cardinality(slots) <= Cardinality(DOMAIN wanted)
        /\ Cardinality(slots) = Cardinality(DOMAIN wanted) => slots = DOMAIN wanted
        /\ Cardinality(slots) <= LargestSize(wanted)
  BY LargestExists, FS_Subset
<1>3. PICK most \in Servable(wanted) : Cardinality(most) = LargestSize(wanted)
  BY LargestExists
<1>4. LargestSize(wanted) \in Nat /\ LargestSize(wanted) <= Cardinality(DOMAIN wanted)
  BY <1>2, <1>3
<1>5. DOMAIN wanted \in Servable(wanted) => LargestSize(wanted) = Cardinality(DOMAIN wanted)
  <2> HAVE DOMAIN wanted \in Servable(wanted)
  <2>1. Cardinality(DOMAIN wanted) <= LargestSize(wanted)
    BY <1>2
  <2> QED
    BY <1>1, <1>4, <2>1
<1>6. LargestSize(wanted) = Cardinality(DOMAIN wanted) => DOMAIN wanted \in Servable(wanted)
  BY <1>2, <1>3
<1>7. ASSUME DOMAIN wanted \in Servable(wanted)
      PROVE  LargestMatchings(wanted) = MatchingsOf(DOMAIN wanted, wanted)
  <2>1. {some \in Servable(wanted) : Cardinality(some) = LargestSize(wanted)} = {DOMAIN wanted}
    BY <1>2, <1>5, <1>7
  <2> QED
    BY <2>1 DEF LargestMatchings
<1> QED
  BY <1>5, <1>6, <1>7

LEMMA MatchingIs ==
  ASSUME NEW wanted, NEW slots \in SUBSET DOMAIN wanted, NEW m
  PROVE  m \in MatchingsOf(slots, wanted) <=>
           /\ m = [s \in slots |-> m[s]] /\ \A s \in slots : m[s] \in wanted[s]
           /\ \A s, t \in slots : m[s] = m[t] => s = t
<1>1. ASSUME m = [s \in slots |-> m[s]], \A s \in slots : m[s] \in wanted[s]
      PROVE  m \in [slots -> UNION Range(wanted)]
  <2>1. \A s \in slots : m[s] \in UNION Range(wanted)
    BY <1>1 DEF Range
  <2> QED
    BY <1>1, <2>1
<1>2. m \in [slots -> UNION Range(wanted)] => m = [s \in slots |-> m[s]] /\ DOMAIN m = slots
  OBVIOUS
<1> QED
  BY <1>1, <1>2 DEF MatchingsOf, Injection, IsInjective

-----------------------------------------------------------------------------
(* The search *)

\* What a slot has is a drive that it may get, and no slot has two.
OwnersFit ==
  /\ DOMAIN dmOf \subseteq 1..NUids
  /\ \A d \in DOMAIN dmOf : dmOf[d] \in 1..(dmSlot - 1) /\ d \in dmWanted[dmOf[d]]
  /\ \A d, e \in DOMAIN dmOf : dmOf[d] = dmOf[e] => d = e

\* Each drive on the way is one that its caller may get, and somebody has it.
PathFits ==
  /\ dmPath \in Seq(1..NUids)
  /\ \A i \in 1..Len(dmPath) :
       dmPath[i] \in dmSeen /\ dmPath[i] \in dmWanted[Caller(dmPath, i)]
  /\ \A i, j \in 1..Len(dmPath) : dmPath[i] = dmPath[j] => i = j

\* A visited drive that is not on the way any more has an owner who finds no other one.
SeenFit ==
  /\ dmSeen \subseteq DOMAIN dmOf
  /\ \A d \in dmSeen : (\E i \in 1..Len(dmPath) : dmPath[i] = d) \/ dmWanted[dmOf[d]] \subseteq dmSeen

\* A set of drives that are all taken: whoever has one of them wants no other drives, nor
\* do the slots that stay empty.
Barren(drives) ==
  /\ drives \subseteq DOMAIN dmOf
  /\ \A d \in drives : dmWanted[dmOf[d]] \subseteq drives
  /\ \A s \in 1..(dmSlot - 1) : (\A d \in DOMAIN dmOf : dmOf[d] # s) => dmWanted[s] \subseteq drives

SearchInv ==
  /\ dmWanted \in [1..NSlots -> SUBSET (1..NUids)] /\ dmSlot \in 1..(NSlots + 1)
  /\ OwnersFit /\ PathFits /\ SeenFit
  /\ \E drives \in SUBSET (1..NUids) : Barren(drives)

LEMMA SearchInitially == MatchingInit => SearchInv
<1> SUFFICES ASSUME MatchingInit PROVE SearchInv
  OBVIOUS
<1>1. /\ dmWanted \in [1..NSlots -> SUBSET (1..NUids)] /\ dmSlot = 1 /\ dmSeen = {}
      /\ dmOf = <<>> /\ dmPath = <<>> /\ DOMAIN dmOf = {} /\ Len(dmPath) = 0
  BY DEF MatchingInit
<1>2. 1..(dmSlot - 1) = {} /\ dmSlot \in 1..(NSlots + 1) /\ 1..Len(dmPath) = {}
  BY <1>1, MatchingAssumption
<1>3. OwnersFit /\ SeenFit
  BY <1>1 DEF OwnersFit, SeenFit
<1>4. PathFits
  BY <1>1, <1>2 DEF PathFits
<1>5. Barren({})
  BY <1>1, <1>2 DEF Barren
<1> QED
  BY <1>1, <1>2, <1>3, <1>4, <1>5 DEF SearchInv

\* The call that asks, and the drives it may still get.
LEMMA AskingFits ==
  ASSUME SearchInv, dmSlot <= NSlots
  PROVE  /\ dmSlot \in 1..NSlots /\ Asking \in 1..dmSlot /\ dmWanted[Asking] \subseteq 1..NUids
         /\ Untried \subseteq dmWanted[Asking] /\ Len(dmPath) \in Nat
         /\ dmPath = <<>> <=> Len(dmPath) = 0
         /\ dmPath = <<>> => Asking = dmSlot
         /\ dmPath # <<>> => /\ Len(dmPath) \in 1..Len(dmPath)
                             /\ Asking = dmOf[dmPath[Len(dmPath)]]
         /\ Untried # {} => Min(Untried) \in Untried
<1>1. dmSlot \in 1..NSlots /\ dmWanted \in [1..NSlots -> SUBSET (1..NUids)]
  BY MatchingAssumption DEF SearchInv
<1>2. Len(dmPath) \in Nat /\ (dmPath = <<>> <=> Len(dmPath) = 0)
  BY DEF SearchInv, PathFits
<1>3. dmPath = <<>> => Asking = dmSlot
  BY <1>2 DEF Asking, Caller
<1>4. dmPath # <<>> => Len(dmPath) \in 1..Len(dmPath) /\ Asking = dmOf[dmPath[Len(dmPath)]]
  <2> HAVE dmPath # <<>>
  <2>1. Len(dmPath) \in 1..Len(dmPath) /\ Len(dmPath) + 1 # 1 /\ Len(dmPath) + 1 - 1 = Len(dmPath)
    BY <1>2
  <2> QED
    BY <2>1 DEF Asking, Caller
<1>5. Asking \in 1..dmSlot
  <2>1. CASE dmPath = <<>>
    BY <1>1, <1>3, <2>1, MatchingAssumption
  <2>2. CASE dmPath # <<>>
    <3>1. dmPath[Len(dmPath)] \in DOMAIN dmOf
      BY <1>4, <2>2 DEF SearchInv, PathFits, SeenFit
    <3>2. Asking \in 1..(dmSlot - 1)
      BY <1>4, <2>2, <3>1 DEF SearchInv, OwnersFit
    <3> QED
      BY <1>1, <3>2, MatchingAssumption
  <2> QED
    BY <2>1, <2>2
<1>6. Asking \in 1..NSlots
  BY <1>1, <1>5, MatchingAssumption
<1>7. dmWanted[Asking] \subseteq 1..NUids /\ Untried \subseteq dmWanted[Asking]
  BY <1>1, <1>6 DEF Untried
<1>8. Untried # {} => Min(Untried) \in Untried
  <2>1. Untried \in SUBSET Nat
    BY <1>7, MatchingAssumption
  <2> QED
    BY <2>1, MinOf
<1> QED
  BY <1>1, <1>2, <1>3, <1>4, <1>5, <1>7, <1>8

\* A way from the slot to a free drive: it does not touch the drives out of which no
\* exchange leads.
LEMMA PathToFree ==
  ASSUME SearchInv, NEW drives \in SUBSET (1..NUids), Barren(drives), NEW path,
         NEW n \in Nat, n >= 1, DOMAIN path = 1..n, path[n] \notin DOMAIN dmOf,
         \A i \in 1..n : i < n => path[i] \in DOMAIN dmOf,
         \A i \in 1..n : i # 1 => path[i] \in dmWanted[dmOf[path[i - 1]]]
  PROVE  \A i \in 1..n : path[i] \notin drives
<1> DEFINE Bad == {i \in 1..n : path[i] \in drives}
<1> SUFFICES ASSUME Bad # {} PROVE FALSE
  OBVIOUS
<1>1. Bad \in SUBSET Nat /\ \A i \in Bad : i <= n
  OBVIOUS
<1>2. Max(Bad) \in Bad /\ \A i \in Bad : i <= Max(Bad)
  BY <1>1, MaxOf
<1>3. PICK m \in 1..n : m = Max(Bad) /\ path[m] \in drives
  BY <1>2
<1>4. m # n
  BY <1>3 DEF Barren
<1>5. m + 1 \in 1..n /\ m + 1 # 1 /\ m + 1 - 1 = m /\ ~(m + 1 <= m)
  BY <1>3, <1>4
<1>6. path[m + 1] \in dmWanted[dmOf[path[m]]]
  BY <1>5
<1>7. path[m + 1] \in drives
  BY <1>3, <1>6 DEF Barren
<1> QED
  BY <1>2, <1>3, <1>5, <1>7

LEMMA TakeFreeKeeps == SearchInv /\ TakeFree => SearchInv'
<1> SUFFICES ASSUME SearchInv, TakeFree PROVE SearchInv'
  OBVIOUS
<1> DEFINE free == Min(Untried)
           n == Len(dmPath) + 1
           path == Append(dmPath, free)
<1>1. /\ Untried # {} /\ free \notin DOMAIN dmOf /\ dmOf' = HandedOver(path) /\ dmSlot <= NSlots
      /\ dmSlot' = dmSlot + 1 /\ dmSeen' = {} /\ dmPath' = <<>> /\ dmWanted' = dmWanted
  BY DEF TakeFree, NextSlot
<1>2. /\ dmSlot \in 1..NSlots /\ free \in dmWanted[Asking] /\ free \in 1..NUids /\ n \in Nat /\ n >= 1
      /\ Asking = Caller(dmPath, n) /\ dmPath \in Seq(1..NUids) /\ Len(dmPath) \in Nat
  BY <1>1, AskingFits DEF SearchInv, PathFits, Asking
<1> HIDE DEF free
<1>3. /\ DOMAIN path = 1..n /\ path[n] = free
      /\ \A i \in 1..n : i < n => i \in 1..Len(dmPath) /\ path[i] = dmPath[i]
  BY <1>2
<1> HIDE DEF path, n
<1>4. \A i \in 1..n : i < n => path[i] \in DOMAIN dmOf
  BY <1>3 DEF SearchInv, PathFits, SeenFit
<1>5. \A i \in 1..n : /\ Caller(path, i) = IF i = 1 THEN dmSlot ELSE dmOf[path[i - 1]]
                      /\ path[i] \in dmWanted[Caller(path, i)]
                      /\ i # 1 => i - 1 \in 1..n /\ i - 1 < n
  <2> TAKE i \in 1..n
  <2>1. i # 1 => i - 1 \in 1..n /\ i - 1 < n
    BY <1>2
  <2>2. Caller(path, i) = Caller(dmPath, i)
    BY <1>3, <2>1 DEF Caller
  <2>3. CASE i = n
    BY <1>2, <1>3, <2>1, <2>2, <2>3 DEF Caller
  <2>4. CASE i # n
    <3>1. i < n
      BY <1>2, <2>4
    <3> QED
      BY <1>3, <2>1, <2>2, <3>1 DEF Caller, SearchInv, PathFits
  <2> QED
    BY <2>3, <2>4
<1>6. \A i, j \in 1..n : path[i] = path[j] => i = j
  <2> SUFFICES ASSUME NEW i \in 1..n, NEW j \in 1..n, path[i] = path[j] PROVE i = j
    OBVIOUS
  <2>1. CASE i < n /\ j < n
    BY <1>3, <2>1 DEF SearchInv, PathFits
  <2>2. CASE i = n \/ j = n
    <3>1. ~(i < n /\ j = n) /\ ~(j < n /\ i = n)
      BY <1>1, <1>3, <1>4
    <3> QED
      BY <1>2, <2>2, <3>1
  <2> QED
    BY <1>2, <2>1, <2>2
<1>7. Range(path) = {path[i] : i \in 1..n}
  BY <1>3 DEF Range
<1>8. \A i \in 1..n : (CHOOSE j \in DOMAIN path : path[j] = path[i]) = i
  BY <1>3, <1>6
<1>9. /\ DOMAIN dmOf' = DOMAIN dmOf \cup {free}
      /\ \A i \in 1..n : dmOf'[path[i]] = Caller(path, i)
      /\ \A d \in DOMAIN dmOf : (\A i \in 1..n : d # path[i]) => dmOf'[d] = dmOf[d]
  <2>1. DOMAIN dmOf \cup Range(path) = DOMAIN dmOf \cup {free}
    <3>1. \A i \in 1..n : i < n \/ i = n
      BY <1>2
    <3>2. n \in 1..n
      BY <1>2
    <3> QED
      BY <1>3, <1>4, <1>7, <3>1, <3>2
  <2>2. \A i \in 1..n : path[i] \in Range(path)
    BY <1>7
  <2> QED
    BY <1>1, <1>7, <1>8, <2>1, <2>2 DEF HandedOver
<1>10. \A d \in DOMAIN dmOf : dmOf[d] \in 1..(dmSlot - 1) /\ d \in dmWanted[dmOf[d]]
  BY DEF SearchInv, OwnersFit
<1>11. \A i \in 1..n : Caller(path, i) \in 1..dmSlot /\ (i # 1 => Caller(path, i) # dmSlot)
  <2> TAKE i \in 1..n
  <2>1. CASE i = 1
    BY <1>2, <1>5, <2>1, MatchingAssumption
  <2>2. CASE i # 1
    <3>1. path[i - 1] \in DOMAIN dmOf /\ Caller(path, i) = dmOf[path[i - 1]]
      BY <1>4, <1>5, <2>2
    <3>2. Caller(path, i) \in 1..(dmSlot - 1)
      BY <1>10, <3>1
    <3> QED
      BY <1>2, <3>2, MatchingAssumption
  <2> QED
    BY <2>1, <2>2
<1>12. 1..(dmSlot' - 1) = 1..dmSlot /\ 1..(dmSlot - 1) \subseteq 1..dmSlot
  BY <1>1, <1>2, MatchingAssumption
<1>13. OwnersFit'
  <2>1. DOMAIN dmOf' \subseteq 1..NUids
    BY <1>2, <1>9 DEF SearchInv, OwnersFit
  <2>2. ASSUME NEW d \in DOMAIN dmOf'
        PROVE  dmOf'[d] \in 1..dmSlot /\ d \in dmWanted[dmOf'[d]]
    <3>1. CASE \E i \in 1..n : d = path[i]
      BY <1>5, <1>9, <1>11, <3>1
    <3>2. CASE \A i \in 1..n : d # path[i]
      <4>1. d # free /\ d \in DOMAIN dmOf
        BY <1>2, <1>3, <1>9, <3>2
      <4> QED
        BY <1>9, <1>10, <1>12, <3>2, <4>1
    <3> QED
      BY <3>1, <3>2
  <2>3. ASSUME NEW d \in DOMAIN dmOf', NEW e \in DOMAIN dmOf', dmOf'[d] = dmOf'[e]
        PROVE  d = e
    <3>1. \A c \in DOMAIN dmOf' : (\A i \in 1..n : c # path[i]) => c \in DOMAIN dmOf /\ dmOf'[c] = dmOf[c]
      BY <1>2, <1>3, <1>9
    <3>2. \A a, b \in DOMAIN dmOf : dmOf[a] = dmOf[b] => a = b
      BY DEF SearchInv, OwnersFit
    <3>3. ASSUME NEW i \in 1..n, NEW c \in DOMAIN dmOf', \A j \in 1..n : c # path[j],
                 dmOf'[path[i]] = dmOf'[c]
          PROVE  FALSE
      <4>1. c \in DOMAIN dmOf /\ Caller(path, i) = dmOf[c]
        BY <1>9, <3>1, <3>3
      <4>2. dmOf[c] \in 1..(dmSlot - 1)
        BY <1>10, <4>1
      <4>3. i # 1
        BY <1>2, <1>5, <4>1, <4>2, MatchingAssumption
      <4>4. i - 1 \in 1..n /\ path[i - 1] \in DOMAIN dmOf /\ dmOf[path[i - 1]] = dmOf[c]
        BY <1>4, <1>5, <4>1, <4>3
      <4> QED
        BY <3>2, <3>3, <4>1, <4>4
    <3>4. ASSUME NEW i \in 1..n, NEW j \in 1..n, dmOf'[path[i]] = dmOf'[path[j]]
          PROVE  i = j
      <4>1. Caller(path, i) = Caller(path, j)
        BY <1>9, <3>4
      <4>2. CASE i = 1 \/ j = 1
        BY <1>5, <1>11, <4>1, <4>2
      <4>3. CASE i # 1 /\ j # 1
        <5>1. /\ i - 1 \in 1..n /\ j - 1 \in 1..n /\ i - 1 < n /\ j - 1 < n
              /\ dmOf[path[i - 1]] = dmOf[path[j - 1]]
          BY <1>5, <4>1, <4>3
        <5>2. i - 1 = j - 1
          BY <1>4, <1>6, <3>2, <5>1
        <5> QED
          BY <1>2, <5>2
      <4> QED
        BY <4>2, <4>3
    <3> QED
      BY <2>3, <3>1, <3>2, <3>3, <3>4
  <2> QED
    BY <1>1, <1>12, <2>1, <2>2, <2>3 DEF OwnersFit
<1>14. PathFits' /\ SeenFit'
  BY <1>1 DEF PathFits, SeenFit
<1>15. PICK drives \in SUBSET (1..NUids) : Barren(drives)
  BY DEF SearchInv
<1>16. \A i \in 1..n : path[i] \notin drives
  BY <1>1, <1>2, <1>3, <1>4, <1>5, <1>15, PathToFree
<1>17. Barren(drives)'
  <2>1. drives \subseteq DOMAIN dmOf' /\ \A d \in drives : dmOf'[d] = dmOf[d]
    BY <1>9, <1>15, <1>16 DEF Barren
  <2>2. ASSUME NEW s \in 1..dmSlot, \A d \in DOMAIN dmOf' : dmOf'[d] # s
        PROVE  dmWanted[s] \subseteq drives
    <3>1. s # dmSlot
      <4>1. 1 \in 1..n /\ path[1] \in DOMAIN dmOf'
        BY <1>2, <1>3, <1>4, <1>9
      <4> QED
        BY <1>5, <1>9, <2>2, <4>1
    <3>2. s \in 1..(dmSlot - 1)
      BY <1>2, <3>1, MatchingAssumption
    <3>3. ASSUME NEW e \in DOMAIN dmOf, dmOf[e] = s PROVE FALSE
      <4>1. CASE \A i \in 1..n : e # path[i]
        BY <1>9, <2>2, <3>3, <4>1
      <4>2. CASE \E i \in 1..n : e = path[i]
        <5>1. PICK i \in 1..n : e = path[i]
          BY <4>2
        <5>2. i # n
          BY <1>1, <1>3, <5>1
        <5>3. i + 1 \in 1..n /\ i + 1 # 1 /\ i + 1 - 1 = i
          BY <1>2, <5>2
        <5>4. dmOf'[path[i + 1]] = s
          BY <1>5, <1>9, <3>3, <5>1, <5>3
        <5>5. path[i + 1] \in DOMAIN dmOf'
          BY <1>2, <1>3, <1>4, <1>9, <5>3
        <5> QED
          BY <2>2, <5>4, <5>5
      <4> QED
        BY <4>1, <4>2
    <3> QED
      BY <1>15, <3>2, <3>3 DEF Barren
  <2> QED
    BY <1>1, <1>12, <1>15, <2>1, <2>2 DEF Barren
<1>18. dmSlot' \in 1..(NSlots + 1)
  BY <1>1, <1>2, MatchingAssumption
<1> QED
  BY <1>1, <1>13, <1>14, <1>17, <1>18 DEF SearchInv

LEMMA AskOwnerKeeps == SearchInv /\ AskOwner => SearchInv'
<1> SUFFICES ASSUME SearchInv, AskOwner PROVE SearchInv'
  OBVIOUS
<1> DEFINE d == Min(Untried)
           n == Len(dmPath) + 1
<1>1. /\ Untried # {} /\ d \in DOMAIN dmOf /\ dmSlot <= NSlots
      /\ dmSeen' = dmSeen \cup {d} /\ dmPath' = Append(dmPath, d)
      /\ UNCHANGED <<dmWanted, dmOf, dmSlot>>
  BY DEF AskOwner
<1>2. /\ d \in dmWanted[Asking] /\ d \in 1..NUids /\ d \notin dmSeen /\ n \in Nat /\ n >= 1
      /\ Asking = Caller(dmPath, n) /\ dmPath \in Seq(1..NUids) /\ Len(dmPath) \in Nat
  BY <1>1, AskingFits DEF SearchInv, PathFits, Asking, Untried
<1> HIDE DEF d
<1>3. /\ dmPath' \in Seq(1..NUids) /\ Len(dmPath') = n /\ dmPath'[n] = d
      /\ \A i \in 1..n : i # n => i \in 1..Len(dmPath) /\ dmPath'[i] = dmPath[i]
  BY <1>1, <1>2
<1> HIDE DEF n
<1>4. PathFits'
  <2>1. \A i \in 1..n : Caller(dmPath, i)' = Caller(dmPath, i)
    <3> TAKE i \in 1..n
    <3>1. i # 1 => i - 1 \in 1..n /\ i - 1 # n
      BY <1>2
    <3> QED
      BY <1>1, <1>3, <3>1 DEF Caller
  <2>2. ASSUME NEW i \in 1..n
        PROVE  dmPath'[i] \in dmSeen' /\ dmPath'[i] \in dmWanted[Caller(dmPath, i)]
    BY <1>1, <1>2, <1>3 DEF SearchInv, PathFits
  <2>3. ASSUME NEW i \in 1..n, NEW j \in 1..n, dmPath'[i] = dmPath'[j]
        PROVE  i = j
    <3>1. \A k \in 1..n : k # n => dmPath'[k] \in dmSeen
      BY <1>3 DEF SearchInv, PathFits
    <3>2. i = n <=> j = n
      BY <1>2, <1>3, <2>3, <3>1
    <3> QED
      BY <1>3, <2>3, <3>2 DEF SearchInv, PathFits
  <2> QED
    BY <1>1, <1>3, <2>1, <2>2, <2>3 DEF PathFits
<1>5. SeenFit'
  <2>1. \A e \in dmSeen : (\E i \in 1..Len(dmPath) : dmPath[i] = e) => \E i \in 1..n : dmPath'[i] = e
    <3>1. \A i \in 1..Len(dmPath) : i \in 1..n /\ i # n
      BY <1>2 DEF n
    <3> QED
      BY <1>3, <3>1
  <2>2. \E i \in 1..n : dmPath'[i] = d
    BY <1>2, <1>3
  <2> QED
    BY <1>1, <1>3, <2>1, <2>2 DEF SearchInv, SeenFit
<1>6. OwnersFit' /\ \E drives \in SUBSET (1..NUids) : Barren(drives)'
  BY <1>1 DEF SearchInv, OwnersFit, Barren
<1> QED
  BY <1>1, <1>4, <1>5, <1>6 DEF SearchInv

LEMMA OneShorter ==
  ASSUME NEW S, NEW s \in Seq(S), Len(s) >= 1
  PROVE  /\ SubSeq(s, 1, Len(s) - 1) \in Seq(S) /\ Len(SubSeq(s, 1, Len(s) - 1)) = Len(s) - 1
         /\ \A i \in 1..(Len(s) - 1) : i \in 1..Len(s) /\ SubSeq(s, 1, Len(s) - 1)[i] = s[i]
<1>1. PICK n \in Nat : n = Len(s) - 1
  OBVIOUS
<1>2. PICK r : r = SubSeq(s, 1, n)
  OBVIOUS
<1>3. Len(r) = n /\ \A i \in 1..n : i \in 1..Len(s) /\ r[i] = s[i]
  BY <1>1, <1>2
<1>4. r = [i \in 1..n |-> s[i]]
  BY <1>1, <1>2
<1>5. \A i \in 1..n : s[i] \in S
  BY <1>3
<1>6. r \in Seq(S)
  BY <1>4, <1>5
<1> QED
  BY <1>1, <1>2, <1>3, <1>6

LEMMA FindsNoneKeeps == SearchInv /\ FindsNone => SearchInv'
<1> SUFFICES ASSUME SearchInv, FindsNone PROVE SearchInv'
  OBVIOUS
<1> DEFINE n == Len(dmPath)
<1>1. /\ Untried = {} /\ dmPath # <<>> /\ dmSlot <= NSlots /\ dmPath' = SubSeq(dmPath, 1, n - 1)
      /\ UNCHANGED <<dmWanted, dmOf, dmSlot, dmSeen>> /\ n = Len(dmPath)
  BY DEF FindsNone
<1>2. /\ n \in Nat /\ n >= 1 /\ Asking = dmOf[dmPath[n]] /\ dmPath \in Seq(1..NUids)
      /\ dmWanted[Asking] \subseteq dmSeen
  BY <1>1, AskingFits DEF Untried, SearchInv, PathFits
<1> HIDE DEF n
<1>3. /\ dmPath' \in Seq(1..NUids) /\ Len(dmPath') = n - 1
      /\ \A i \in 1..(n - 1) : i \in 1..n /\ dmPath'[i] = dmPath[i]
  <2>1. /\ n \in Nat /\ n = Len(dmPath) /\ n >= 1 /\ dmPath' = SubSeq(dmPath, 1, n - 1)
        /\ dmPath \in Seq(1..NUids)
    BY <1>1, <1>2
  <2> QED
    BY <2>1, OneShorter
<1>4. PathFits'
  <2>1. \A i \in 1..(n - 1) : Caller(dmPath, i)' = Caller(dmPath, i)
    <3> TAKE i \in 1..(n - 1)
    <3>1. i # 1 => i - 1 \in 1..(n - 1)
      BY <1>2
    <3> QED
      BY <1>1, <1>3, <3>1 DEF Caller
  <2> QED
    BY <1>1, <1>3, <2>1 DEF SearchInv, PathFits, n
<1>5. SeenFit'
  <2>1. ASSUME NEW e \in dmSeen
        PROVE  (\E i \in 1..(n - 1) : dmPath'[i] = e) \/ dmWanted[dmOf[e]] \subseteq dmSeen
    <3>1. CASE e = dmPath[n]
      BY <1>2, <3>1
    <3>2. CASE e # dmPath[n]
      <4>1. \A i \in 1..n : i = n \/ i \in 1..(n - 1)
        BY <1>2
      <4> QED
        BY <1>3, <3>2, <4>1 DEF SearchInv, SeenFit, n
    <3> QED
      BY <3>1, <3>2
  <2> QED
    BY <1>1, <1>3, <2>1 DEF SearchInv, SeenFit
<1>6. OwnersFit' /\ \E drives \in SUBSET (1..NUids) : Barren(drives)'
  BY <1>1 DEF SearchInv, OwnersFit, Barren
<1> QED
  BY <1>1, <1>4, <1>5, <1>6 DEF SearchInv

LEMMA LeaveEmptyKeeps == SearchInv /\ LeaveEmpty => SearchInv'
<1> SUFFICES ASSUME SearchInv, LeaveEmpty PROVE SearchInv'
  OBVIOUS
<1>1. /\ Untried = {} /\ dmPath = <<>> /\ dmSlot <= NSlots /\ UNCHANGED <<dmWanted, dmOf>>
      /\ dmSlot' = dmSlot + 1 /\ dmSeen' = {} /\ dmPath' = <<>>
  BY DEF LeaveEmpty, NextSlot
<1>2. dmSlot \in 1..NSlots /\ dmWanted[dmSlot] \subseteq dmSeen /\ Len(dmPath) = 0
  BY <1>1, AskingFits DEF Untried
<1>3. /\ dmSlot' \in 1..(NSlots + 1) /\ 1..(dmSlot' - 1) = 1..(dmSlot - 1) \cup {dmSlot}
  BY <1>1, <1>2, MatchingAssumption
<1>4. OwnersFit' /\ PathFits' /\ SeenFit'
  BY <1>1, <1>3 DEF SearchInv, OwnersFit, PathFits, SeenFit
<1>5. PICK drives \in SUBSET (1..NUids) : Barren(drives)
  BY DEF SearchInv
<1>6. dmSeen \subseteq DOMAIN dmOf /\ \A d \in dmSeen : dmWanted[dmOf[d]] \subseteq dmSeen
  BY <1>2 DEF SearchInv, SeenFit
<1>7. PICK all \in SUBSET (1..NUids) : all = drives \cup dmSeen
  <2>1. drives \cup dmSeen \in SUBSET (1..NUids)
    BY <1>6 DEF SearchInv, OwnersFit
  <2> QED
    BY <2>1
<1>8. Barren(all)'
  <2>1. all \subseteq DOMAIN dmOf
    BY <1>5, <1>6, <1>7 DEF Barren
  <2>2. \A d \in all : dmWanted[dmOf[d]] \subseteq all
    BY <1>5, <1>6, <1>7 DEF Barren
  <2>3. \A s \in 1..(dmSlot' - 1) : (\A d \in DOMAIN dmOf : dmOf[d] # s) => dmWanted[s] \subseteq all
    BY <1>2, <1>3, <1>5, <1>7 DEF Barren
  <2> QED
    BY <1>1, <2>1, <2>2, <2>3 DEF Barren
<1> QED
  BY <1>1, <1>3, <1>4, <1>8 DEF SearchInv

LEMMA SearchInductive == SearchInv /\ [MatchingNext]_searchVars => SearchInv'
<1> SUFFICES ASSUME SearchInv, [MatchingNext]_searchVars PROVE SearchInv'
  OBVIOUS
<1>1. CASE MatchingNext
  BY <1>1, TakeFreeKeeps, AskOwnerKeeps, FindsNoneKeeps, LeaveEmptyKeeps DEF MatchingNext
<1>2. CASE UNCHANGED searchVars
  BY <1>2 DEF searchVars, SearchInv, OwnersFit, PathFits, SeenFit, Barren, Caller
<1> QED
  BY <1>1, <1>2

\* A slot is either shut out by the barren drives or has another drive: this gives, for the
\* slots of any matching, as many drives that the search has distributed.
LEMMA EndsLargest == SearchInv => MatchingIsMaximum
<1> SUFFICES ASSUME SearchInv, dmSlot > NSlots PROVE Matched \in LargestMatchings(dmWanted)
  BY DEF MatchingIsMaximum
<1> DEFINE m == Matched
<1>1. /\ dmSlot = NSlots + 1 /\ 1..(dmSlot - 1) = 1..NSlots
      /\ DOMAIN dmWanted = 1..NSlots /\ IsFiniteSet(DOMAIN dmWanted)
  BY MatchingAssumption, FS_Interval DEF SearchInv
<1>2. /\ DOMAIN dmOf \subseteq 1..NUids
      /\ \A d \in DOMAIN dmOf : dmOf[d] \in DOMAIN dmWanted /\ d \in dmWanted[dmOf[d]]
      /\ \A d, e \in DOMAIN dmOf : dmOf[d] = dmOf[e] => d = e
  BY <1>1 DEF SearchInv, OwnersFit
<1>3. /\ DOMAIN m = Range(dmOf) /\ DOMAIN m \in SUBSET DOMAIN dmWanted
      /\ \A s \in DOMAIN m : m[s] \in DOMAIN dmOf /\ dmOf[m[s]] = s
      /\ m = [s \in DOMAIN m |-> m[s]]
  BY <1>2 DEF Matched, Range
<1> HIDE DEF m
<1>4. m \in MatchingsOf(DOMAIN m, dmWanted)
  BY <1>2, <1>3, MatchingIs
<1>5. /\ IsFiniteSet(DOMAIN dmOf) /\ IsFiniteSet(DOMAIN m)
      /\ Cardinality(DOMAIN dmOf) \in Nat /\ Cardinality(DOMAIN m) \in Nat
  <2>1. IsFiniteSet(DOMAIN dmOf)
    <3>1. IsFiniteSet(1..NUids) /\ DOMAIN dmOf \in SUBSET (1..NUids)
      BY <1>2, MatchingAssumption, FS_Interval
    <3> QED
      BY <3>1, FS_Subset
  <2>2. IsFiniteSet(DOMAIN m)
    BY <1>1, <1>3, FS_Subset
  <2> QED
    BY <2>1, <2>2, FS_CardinalityType
<1>6. Cardinality(DOMAIN dmOf) <= Cardinality(DOMAIN m)
  <2> DEFINE f == [d \in DOMAIN dmOf |-> dmOf[d]]
  <2>1. f \in Injection(DOMAIN dmOf, DOMAIN m)
    BY <1>2, <1>3 DEF Injection, IsInjective, Range
  <2> HIDE DEF f
  <2> QED
    BY <1>5, <2>1, FS_Injection
<1>7. PICK drives \in SUBSET (1..NUids) : Barren(drives)
  BY DEF SearchInv
<1>8. ASSUME NEW slots \in Servable(dmWanted)
      PROVE  Cardinality(slots) <= Cardinality(DOMAIN m)
  <2>1. slots \in SUBSET DOMAIN dmWanted
    BY DEF Servable
  <2>2. PICK other : other \in MatchingsOf(slots, dmWanted)
    BY DEF Servable
  <2>3. /\ \A s \in slots : other[s] \in dmWanted[s]
        /\ \A s, t \in slots : other[s] = other[t] => s = t
    BY <2>1, <2>2, MatchingIs
  <2> DEFINE Shut(s) == dmWanted[s] \subseteq drives
             give == [s \in slots |-> IF Shut(s) THEN other[s] ELSE m[s]]
  <2>4. \A s \in slots : ~Shut(s) => s \in DOMAIN m /\ m[s] \notin drives
    <3> SUFFICES ASSUME NEW s \in slots, ~Shut(s) PROVE s \in DOMAIN m /\ m[s] \notin drives
      OBVIOUS
    <3>1. \E d \in DOMAIN dmOf : dmOf[d] = s
      BY <1>1, <1>7, <2>1 DEF Barren
    <3>2. s \in DOMAIN m
      BY <1>3, <3>1 DEF Range
    <3>3. m[s] \in drives => FALSE
      BY <1>3, <1>7, <3>2 DEF Barren
    <3> QED
      BY <3>2, <3>3
  <2>5. \A s \in slots : Shut(s) => other[s] \in drives
    BY <2>3
  <2>6. drives \subseteq DOMAIN dmOf
    BY <1>7 DEF Barren
  <2> HIDE DEF Shut
  <2>7. give \in Injection(slots, DOMAIN dmOf)
    <3>1. \A s \in slots : give[s] \in DOMAIN dmOf
      BY <1>3, <2>4, <2>5, <2>6
    <3>2. ASSUME NEW s \in slots, NEW t \in slots, give[s] = give[t] PROVE s = t
      <4>1. CASE Shut(s) /\ Shut(t)
        BY <2>3, <3>2, <4>1
      <4>2. CASE (Shut(s) /\ ~Shut(t)) \/ (Shut(t) /\ ~Shut(s))
        BY <2>4, <2>5, <3>2, <4>2
      <4>3. CASE ~Shut(s) /\ ~Shut(t)
        BY <1>3, <2>4, <3>2, <4>3
      <4> QED
        BY <4>1, <4>2, <4>3
    <3> QED
      BY <3>1, <3>2 DEF Injection, IsInjective
  <2> HIDE DEF give
  <2>8. Cardinality(slots) <= Cardinality(DOMAIN dmOf) /\ IsFiniteSet(slots)
    BY <1>5, <2>7, FS_Injection
  <2>9. Cardinality(slots) \in Nat
    BY <2>8, FS_CardinalityType
  <2> QED
    BY <1>5, <1>6, <2>8, <2>9
<1>9. m \in LargestMatchings(dmWanted)
  BY <1>1, <1>3, <1>4, <1>8, NoneIsLarger
<1> QED
  BY <1>9 DEF m

\* The search finds a largest matching (_maximum_matching: "return the largest attainable
\* matching"), whatever the candidates are.
THEOREM SearchIsMaximum == MatchingSpec => []MatchingIsMaximum
  BY SearchInitially, SearchInductive, EndsLargest, PTL DEF MatchingSpec

-----------------------------------------------------------------------------
(* The reservations *)

\* Plans of the group that is served.
Fits(f) ==
  /\ f \in [DOMAIN f -> AllDrives]
  /\ \A s \in DOMAIN f : s[1] = drGroup /\ f[s] \notin drOccupied
  /\ \A s, t \in DOMAIN f : f[s] = f[t] => s = t

\* Every deferred slot can get a drive of its own, although some are used.
CanServe(used) ==
  \E m \in [DOMAIN drReserved -> AllDrives] :
    /\ \A s \in DOMAIN drReserved : m[s] \in drReserved[s] \ (drConsumed \cup used)
    /\ \A s, t \in DOMAIN drReserved : m[s] = m[t] => s = t

\* A drive that is fixed and reserved as well counts as consumed.
FixedApart ==
  /\ drPool \cap drOccupied = {}
  /\ \A s \in DOMAIN drReserved : drReserved[s] \cap drOccupied \subseteq drConsumed

Underway == drAt \notin {"end", "raised"}
Settled == DOMAIN drPlans \ DOMAIN drReserved

\* The plans that are not deferred have drives of their own.
SettledApart ==
  Underway => /\ \A s \in Settled : drPlans[s] \in drOccupied
              /\ \A s, t \in Settled : drPlans[s] = drPlans[t] => s = t

OfEarlierGroups ==
  Underway /\ drAt # "finish" =>
    \A s \in DOMAIN drPlans \cup DOMAIN drReserved : s[1] \in Nat /\ s[1] < drGroup

ReservationInv ==
  /\ ReservationTypeOK /\ Fits(drTry) /\ FixedApart /\ SettledApart /\ OfEarlierGroups
  /\ IsFiniteSet(DOMAIN drReserved) /\ CanServe({}) /\ PlansDisjoint

LEMMA ReservationInitially == ReservationInit => ReservationInv
<1> SUFFICES ASSUME ReservationInit PROVE ReservationInv
  OBVIOUS
<1>1. /\ drAt = "plan" /\ drGroup = 1 /\ drPool = 1..NScreened /\ drRefused = FALSE
      /\ drOccupied = {} /\ drConsumed = {} /\ drProtected = {}
  BY DEF ReservationInit
<1>2. /\ drReserved = <<>> /\ drTry = <<>> /\ drPlans = <<>>
      /\ DOMAIN drReserved = {} /\ DOMAIN drTry = {} /\ DOMAIN drPlans = {}
  BY DEF ReservationInit, Empty
<1>3. drPool \subseteq AllDrives
  BY <1>1, DemandsAssumption DEF AllDrives
<1>4. ReservationTypeOK
  <2>1. \A T : <<>> \in [{} -> T]
    OBVIOUS
  <2>2. {drPool, drOccupied, drConsumed, drProtected} \subseteq SUBSET AllDrives
    BY <1>1, <1>3
  <2>3. /\ drReserved \in [DOMAIN drReserved -> SUBSET AllDrives]
        /\ drTry \in [DOMAIN drTry -> AllDrives] /\ drPlans \in [DOMAIN drPlans -> AllDrives]
    BY <1>2, <2>1
  <2>4. /\ drAt \in {"plan", "check", "protect", "again", "rescue", "settle", "finish", "end",
                    "raised"}
    BY <1>1
  <2>5. drGroup \in Nat \ {0}
    BY <1>1
  <2>6. drRefused \in BOOLEAN
    BY <1>1
  <2> QED
    BY <2>2, <2>3, <2>4, <2>5, <2>6 DEF ReservationTypeOK
<1>5. Fits(drTry) /\ FixedApart /\ SettledApart /\ OfEarlierGroups /\ PlansDisjoint
  BY <1>1, <1>2 DEF Fits, FixedApart, SettledApart, OfEarlierGroups, PlansDisjoint, Settled
<1>6. CanServe({})
  <2>1. drPlans \in [DOMAIN drReserved -> AllDrives]
    BY <1>2, <1>4 DEF ReservationTypeOK
  <2>2. \A s \in DOMAIN drReserved : FALSE
    BY <1>2
  <2> QED
    BY <2>1, <2>2 DEF CanServe
<1> QED
  BY <1>2, <1>4, <1>5, <1>6, FS_EmptySet DEF ReservationInv

\* What the search is asked, and what can_consume says.
LEMMA OfferedIs ==
  ASSUME NEW used
  PROVE  /\ DOMAIN Offered(Left(used)) = DOMAIN drReserved
         /\ \A s \in DOMAIN drReserved :
              Offered(Left(used))[s] = drReserved[s] \ (drConsumed \cup used)
<1>1. \A s \in DOMAIN drReserved : drReserved[s] \subseteq ReservationUids
  BY DEF ReservationUids, Range
<1> QED
  BY <1>1 DEF Offered, Left

LEMMA ServableIs ==
  ASSUME ReservationTypeOK, NEW used
  PROVE  DOMAIN drReserved \in Servable(Offered(Left(used))) <=> CanServe(used)
<1> DEFINE wanted == Offered(Left(used))
<1>1. /\ DOMAIN wanted = DOMAIN drReserved
      /\ \A s \in DOMAIN drReserved : wanted[s] = drReserved[s] \ (drConsumed \cup used)
  BY OfferedIs
<1>2. \A s \in DOMAIN drReserved : drReserved[s] \subseteq AllDrives
  BY DEF ReservationTypeOK
<1> HIDE DEF wanted
<1>3. ASSUME NEW m \in MatchingsOf(DOMAIN drReserved, wanted) PROVE CanServe(used)
  <2>1. /\ m = [s \in DOMAIN drReserved |-> m[s]]
        /\ \A s \in DOMAIN drReserved : m[s] \in wanted[s]
        /\ \A s, t \in DOMAIN drReserved : m[s] = m[t] => s = t
    BY <1>1, <1>3, MatchingIs
  <2>2. m \in [DOMAIN drReserved -> AllDrives]
    BY <1>1, <1>2, <2>1
  <2> QED
    BY <1>1, <2>1, <2>2 DEF CanServe
<1>4. ASSUME CanServe(used) PROVE MatchingsOf(DOMAIN drReserved, wanted) # {}
  <2>1. PICK m \in [DOMAIN drReserved -> AllDrives] :
          /\ \A s \in DOMAIN drReserved : m[s] \in drReserved[s] \ (drConsumed \cup used)
          /\ \A s, t \in DOMAIN drReserved : m[s] = m[t] => s = t
    BY <1>4 DEF CanServe
  <2>2. m \in MatchingsOf(DOMAIN drReserved, wanted)
    BY <1>1, <2>1, MatchingIs
  <2> QED
    BY <2>2
<1>5. DOMAIN drReserved \in Servable(wanted) <=> MatchingsOf(DOMAIN drReserved, wanted) # {}
  BY <1>1 DEF Servable
<1> QED
  BY <1>3, <1>4, <1>5 DEF wanted

LEMMA ConsumeIs ==
  ASSUME ReservationTypeOK, IsFiniteSet(DOMAIN drReserved), NEW used
  PROVE  CanConsume(used) <=> used \cap drConsumed = {} /\ CanServe(used)
  BY OfferedIs, ServableIs, AllServed DEF CanConsume, MatchingSize

LEMMA PlansFit ==
  ASSUME NEW roles, NEW drives \in SUBSET AllDrives, drives \cap drOccupied = {},
         NEW f \in PlansFrom(roles, drives)
  PROVE  Fits(f)
<1>1. f \in [SlotsOf(roles) -> drives] /\ DOMAIN f = SlotsOf(roles)
  BY DEF PlansFrom
<1>2. \A s \in SlotsOf(roles) : s[1] = drGroup
  BY DEF SlotsOf
<1>3. \A s, t \in DOMAIN f : f[s] = f[t] => s = t
  BY <1>1 DEF PlansFrom
<1>4. f \in [DOMAIN f -> AllDrives] /\ \A s \in DOMAIN f : f[s] \notin drOccupied
  BY <1>1
<1> QED
  BY <1>1, <1>2, <1>3, <1>4 DEF Fits

LEMMA EmptyFits == Fits(Empty) /\ DOMAIN Empty = {} /\ Range(Empty) = {}
<1>1. Empty \in [DOMAIN Empty -> AllDrives] /\ DOMAIN Empty = {}
  BY DEF Empty
<1> QED
  BY <1>1 DEF Fits, Range

LEMMA NormalPlansFit ==
  ASSUME NEW pool \in SUBSET AllDrives, pool \cap drOccupied = {}, NEW f \in NormalPlans(pool)
  PROVE  Fits(f)
<1>1. \/ f \in PlansFrom(GroupRoles, pool) \/ f = Empty
      \/ \E roles \in SUBSET GroupRoles : f \in PlansFrom(roles, AllDrives \ drOccupied)
  BY DEF NormalPlans
<1>2. ASSUME NEW roles, f \in PlansFrom(roles, AllDrives \ drOccupied)
      PROVE  Fits(f)
  <2>1. AllDrives \ drOccupied \in SUBSET AllDrives /\ (AllDrives \ drOccupied) \cap drOccupied = {}
    OBVIOUS
  <2> QED
    BY <1>2, <2>1, PlansFit
<1> QED
  BY <1>1, <1>2, PlansFit, EmptyFits

\* The steps that only look for plans.
LEMMA PlanningKeeps ==
  ASSUME ReservationInv, UNCHANGED keptVars, Fits(drTry'), drProtected' \subseteq AllDrives,
         drRefused' \in BOOLEAN, Underway, drAt # "finish",
         drAt' \in {"check", "protect", "again", "rescue", "settle"}
  PROVE  ReservationInv'
<1>1. UNCHANGED <<drDemand, drGroup, drPool, drOccupied, drReserved, drConsumed, drPlans>>
  BY DEF keptVars
<1>2. /\ ReservationTypeOK /\ FixedApart /\ SettledApart /\ OfEarlierGroups /\ CanServe({})
      /\ IsFiniteSet(DOMAIN drReserved)
  BY DEF ReservationInv
<1>3. Fits(drTry)'
  BY <1>1 DEF Fits
<1>4. ReservationTypeOK'
  BY <1>1, <1>2, <1>3 DEF ReservationTypeOK, Fits
<1>5. FixedApart' /\ CanServe({})' /\ IsFiniteSet(DOMAIN drReserved)'
  BY <1>1, <1>2 DEF FixedApart, CanServe
<1>6. SettledApart' /\ OfEarlierGroups'
  BY <1>1, <1>2 DEF SettledApart, OfEarlierGroups, Underway, Settled
<1>7. PlansDisjoint'
  BY DEF PlansDisjoint
<1> QED
  BY <1>3, <1>4, <1>5, <1>6, <1>7 DEF ReservationInv

LEMMA LooksKeep ==
  ReservationInv /\ (PlanGroup \/ TakePlan \/ KeepFailure \/ Protect \/ PlanAgain
                       \/ GiveUpProtecting \/ Rescue) => ReservationInv'
<1> SUFFICES ASSUME ReservationInv,
                    PlanGroup \/ TakePlan \/ KeepFailure \/ Protect \/ PlanAgain
                      \/ GiveUpProtecting \/ Rescue
             PROVE  ReservationInv'
  OBVIOUS
<1>1. /\ ReservationTypeOK /\ Fits(drTry) /\ FixedApart
      /\ drProtected \subseteq AllDrives /\ drRefused \in BOOLEAN
  BY DEF ReservationInv, ReservationTypeOK
<1>2. CASE TakePlan \/ KeepFailure \/ GiveUpProtecting
  <2>1. /\ UNCHANGED keptVars /\ UNCHANGED <<drTry, drProtected, drRefused>> /\ drAt' \in {"settle", "rescue"}
        /\ Underway /\ drAt # "finish"
    BY <1>2 DEF TakePlan, KeepFailure, GiveUpProtecting, Underway
  <2> QED
    BY <1>1, <2>1, PlanningKeeps
<1>3. CASE PlanGroup
  <2>1. /\ UNCHANGED keptVars /\ drAt' = "check" /\ Underway /\ drAt # "finish"
        /\ drProtected' = {} /\ drRefused' = FALSE /\ drTry' \in NormalPlans(drPool)
    BY <1>3 DEF PlanGroup, Underway
  <2>2. Fits(drTry')
    BY <1>1, <2>1, NormalPlansFit DEF ReservationTypeOK, FixedApart
  <2> QED
    BY <2>1, <2>2, PlanningKeeps
<1>4. CASE Protect
  <2>1. /\ UNCHANGED keptVars /\ UNCHANGED <<drTry, drRefused>>
        /\ drAt' = "protect" /\ Underway /\ drAt # "finish"
        /\ \E d \in Blockers(Used) : drProtected' = drProtected \cup {d}
    BY <1>4 DEF Protect, Underway
  <2>2. Blockers(Used) \subseteq AllDrives
    BY <1>1 DEF Blockers, Used, Range, Fits
  <2> QED
    BY <1>1, <2>1, <2>2, PlanningKeeps
<1>5. CASE PlanAgain
  <2> DEFINE pool == AllDrives \ (drOccupied \cup drConsumed \cup drProtected)
  <2>1. /\ UNCHANGED keptVars /\ UNCHANGED <<drProtected, drRefused>>
        /\ drAt' = "again" /\ Underway /\ drAt # "finish"
        /\ drTry' \in NormalPlans(pool)
    BY <1>5 DEF PlanAgain, Underway
  <2>2. pool \in SUBSET AllDrives /\ pool \cap drOccupied = {}
    OBVIOUS
  <2> HIDE DEF pool
  <2>3. Fits(drTry')
    BY <2>1, <2>2, NormalPlansFit
  <2> QED
    BY <1>1, <2>1, <2>3, PlanningKeeps
<1>6. CASE Rescue
  <2> DEFINE pool == AllDrives \ (drOccupied \cup drConsumed)
  <2>1. /\ UNCHANGED keptVars /\ UNCHANGED <<drProtected, drRefused>>
        /\ drAt' = "settle" /\ Underway /\ drAt # "finish"
        /\ drTry' \in PlansFrom(GroupRoles, pool) \/ drTry' = Empty
    BY <1>6 DEF Rescue, Underway
  <2>2. pool \in SUBSET AllDrives /\ pool \cap drOccupied = {}
    OBVIOUS
  <2> HIDE DEF pool
  <2>3. Fits(drTry')
    BY <2>1, <2>2, PlansFit, EmptyFits
  <2> QED
    BY <1>1, <2>1, <2>3, PlanningKeeps
<1> QED
  BY <1>2, <1>3, <1>4, <1>5, <1>6

LEMMA UpdatedIs ==
  ASSUME NEW old, NEW new
  PROVE  /\ DOMAIN Updated(old, new) = DOMAIN old \cup DOMAIN new
         /\ \A x \in DOMAIN new : Updated(old, new)[x] = new[x]
         /\ \A x \in DOMAIN old \ DOMAIN new : Updated(old, new)[x] = old[x]
         /\ Updated(old, new) = [x \in DOMAIN Updated(old, new) |-> Updated(old, new)[x]]
  BY DEF Updated

LEMMA PlansUpdated ==
  ASSUME NEW tried, drPlans' = Updated(drPlans, tried)
  PROVE  /\ DOMAIN drPlans' = DOMAIN drPlans \cup DOMAIN tried
         /\ \A s \in DOMAIN tried : drPlans'[s] = tried[s]
         /\ \A s \in DOMAIN drPlans \ DOMAIN tried : drPlans'[s] = drPlans[s]
         /\ drPlans' = [s \in DOMAIN drPlans' |-> drPlans'[s]]
<1>1. /\ DOMAIN Updated(drPlans, tried) = DOMAIN drPlans \cup DOMAIN tried
      /\ \A s \in DOMAIN tried : Updated(drPlans, tried)[s] = tried[s]
      /\ \A s \in DOMAIN drPlans \ DOMAIN tried : Updated(drPlans, tried)[s] = drPlans[s]
      /\ Updated(drPlans, tried) = [s \in DOMAIN Updated(drPlans, tried) |-> Updated(drPlans, tried)[s]]
  BY UpdatedIs
<1> QED
  BY <1>1

LEMMA SlotsUpdated ==
  ASSUME NEW rest, drReserved' = Updated(drReserved, rest)
  PROVE  /\ DOMAIN drReserved' = DOMAIN drReserved \cup DOMAIN rest
         /\ \A s \in DOMAIN rest : drReserved'[s] = rest[s]
         /\ \A s \in DOMAIN drReserved \ DOMAIN rest : drReserved'[s] = drReserved[s]
         /\ drReserved' = [s \in DOMAIN drReserved' |-> drReserved'[s]]
<1>1. /\ DOMAIN Updated(drReserved, rest) = DOMAIN drReserved \cup DOMAIN rest
      /\ \A s \in DOMAIN rest : Updated(drReserved, rest)[s] = rest[s]
      /\ \A s \in DOMAIN drReserved \ DOMAIN rest : Updated(drReserved, rest)[s] = drReserved[s]
      /\ Updated(drReserved, rest) = [s \in DOMAIN Updated(drReserved, rest) |-> Updated(drReserved, rest)[s]]
  BY UpdatedIs
<1> QED
  BY <1>1

\* What register does: a drive that is consumed is fixed, and nothing but the plans is.
LEMMA FixedFit ==
  ASSUME NEW tried, NEW candidates, NEW consumed
  PROVE  /\ Fixed(tried, candidates, consumed) \subseteq Range(tried)
         /\ \A s \in DOMAIN tried :
              tried[s] \in consumed => tried[s] \in Fixed(tried, candidates, consumed)
  BY DEF Fixed, Settles, Range

\* Some plans that the earlier slots can do without become the plans of the group.
LEMMA RegisterKeeps ==
  ASSUME ReservationInv, NEW tried, Fits(tried), CanServe(Range(tried)),
         Range(tried) \cap drConsumed = {}, Underway, drAt # "finish",
         NEW candidates, DOMAIN candidates = DOMAIN tried,
         \A s \in DOMAIN tried : /\ candidates[s] \subseteq AllDrives \ drOccupied
                                 /\ tried[s] \in candidates[s],
         Register(tried, candidates), drPlans' = Updated(drPlans, tried)
  PROVE  /\ {drPool, drOccupied, drConsumed}' \subseteq SUBSET AllDrives
         /\ drReserved' \in [DOMAIN drReserved' -> SUBSET AllDrives]
         /\ drPlans' \in [DOMAIN drPlans' -> AllDrives]
         /\ IsFiniteSet(DOMAIN drReserved') /\ FixedApart' /\ CanServe({})'
         /\ \A s \in Settled' : drPlans'[s] \in drOccupied'
         /\ \A s, t \in Settled' : drPlans'[s] = drPlans'[t] => s = t
         /\ \A s \in DOMAIN drPlans' \cup DOMAIN drReserved' : s[1] \in Nat /\ s[1] <= drGroup
<1> DEFINE used     == Range(tried)
           consumed == drConsumed \cup (used \cap ReservationUids)
           fixed    == Fixed(tried, candidates, consumed)
           pending  == {s \in DOMAIN tried : tried[s] \notin fixed}
           rest     == [s \in pending |-> candidates[s] \ (fixed \cup consumed)]
<1>1. /\ drConsumed' = consumed /\ drReserved' = Updated(drReserved, rest)
      /\ drOccupied' = drOccupied \cup fixed
      /\ drPool' = (drPool \cup UNION Range(rest)) \ (fixed \cup consumed)
  BY DEF Register
<1>2. /\ ReservationTypeOK /\ FixedApart /\ SettledApart /\ OfEarlierGroups
      /\ IsFiniteSet(DOMAIN drReserved)
  BY DEF ReservationInv
<1>3. /\ tried \in [DOMAIN tried -> AllDrives]
      /\ \A s \in DOMAIN tried : s[1] = drGroup /\ tried[s] \notin drOccupied
      /\ \A s, t \in DOMAIN tried : tried[s] = tried[t] => s = t
  BY DEF Fits
<1>4. /\ fixed \subseteq used /\ used \subseteq AllDrives
      /\ \A s \in DOMAIN tried : tried[s] \in used /\ (tried[s] \in consumed => tried[s] \in fixed)
  BY <1>3, FixedFit DEF Range
<1>5. /\ drPool \subseteq AllDrives /\ drOccupied \subseteq AllDrives /\ drConsumed \subseteq AllDrives
      /\ \A s \in DOMAIN drReserved : drReserved[s] \subseteq AllDrives
      /\ \A s \in DOMAIN drPlans : drPlans[s] \in AllDrives
      /\ drGroup \in Nat
  BY <1>2 DEF ReservationTypeOK
<1>6. /\ drConsumed \subseteq consumed /\ consumed \subseteq drConsumed \cup used
      /\ \A s \in DOMAIN drReserved : used \cap drReserved[s] \subseteq consumed
      /\ \A s \in DOMAIN drReserved : drReserved[s] \subseteq ReservationUids
  BY DEF ReservationUids, Range
<1>7. /\ pending \subseteq DOMAIN tried /\ DOMAIN rest = pending
      /\ \A s \in pending : /\ tried[s] \notin fixed /\ tried[s] \notin consumed
                            /\ rest[s] = candidates[s] \ (fixed \cup consumed)
                            /\ rest[s] \subseteq AllDrives \ drOccupied
                            /\ tried[s] \in rest[s]
      /\ \A s \in DOMAIN tried \ pending : tried[s] \in fixed
  BY <1>4
<1> HIDE DEF used, consumed, fixed, pending, rest
<1>8. \A s \in DOMAIN drPlans \cup DOMAIN drReserved : s[1] \in Nat /\ s[1] < drGroup
  BY <1>2 DEF OfEarlierGroups
<1>9. \A s \in DOMAIN tried : s \notin DOMAIN drPlans \cup DOMAIN drReserved
  BY <1>3, <1>5, <1>8
<1>10. /\ DOMAIN drReserved' = pending \cup DOMAIN drReserved
       /\ \A s \in pending : drReserved'[s] = rest[s]
       /\ \A s \in DOMAIN drReserved : s \notin pending /\ drReserved'[s] = drReserved[s]
       /\ drReserved' = [s \in DOMAIN drReserved' |-> drReserved'[s]]
  <2>1. \A s \in DOMAIN drReserved : s \notin pending
    BY <1>7, <1>9
  <2>2. drReserved' = Updated(drReserved, rest)
    BY <1>1
  <2>3. /\ DOMAIN drReserved' = DOMAIN drReserved \cup DOMAIN rest
        /\ \A s \in DOMAIN rest : drReserved'[s] = rest[s]
        /\ \A s \in DOMAIN drReserved \ DOMAIN rest : drReserved'[s] = drReserved[s]
        /\ drReserved' = [s \in DOMAIN drReserved' |-> drReserved'[s]]
    BY <2>2, SlotsUpdated, Zenon
  <2> QED
    BY <1>7, <2>1, <2>2, <2>3
<1>11. /\ DOMAIN drPlans' = DOMAIN tried \cup DOMAIN drPlans
       /\ \A s \in DOMAIN tried : drPlans'[s] = tried[s]
       /\ \A s \in DOMAIN drPlans : drPlans'[s] = drPlans[s]
       /\ drPlans' = [s \in DOMAIN drPlans' |-> drPlans'[s]]
  <2>1. \A s \in DOMAIN drPlans : s \notin DOMAIN tried
    BY <1>9
  <2>2. drPlans' = Updated(drPlans, tried)
    OBVIOUS
  <2>3. /\ DOMAIN drPlans' = DOMAIN drPlans \cup DOMAIN tried
        /\ \A s \in DOMAIN tried : drPlans'[s] = tried[s]
        /\ \A s \in DOMAIN drPlans \ DOMAIN tried : drPlans'[s] = drPlans[s]
        /\ drPlans' = [s \in DOMAIN drPlans' |-> drPlans'[s]]
    BY <2>2, PlansUpdated, Zenon
  <2> QED
    BY <2>1, <2>2, <2>3
<1>12. {drPool, drOccupied, drConsumed}' \subseteq SUBSET AllDrives
  <2>1. UNION Range(rest) \subseteq AllDrives
    BY <1>7 DEF Range
  <2> QED
    BY <1>1, <1>4, <1>5, <1>6, <2>1
<1>13. drReserved' \in [DOMAIN drReserved' -> SUBSET AllDrives]
  BY <1>5, <1>7, <1>10
<1>14. drPlans' \in [DOMAIN drPlans' -> AllDrives]
  BY <1>3, <1>5, <1>11
<1>15. IsFiniteSet(DOMAIN drReserved')
  <2>1. IsFiniteSet(AllDrives)
    <3>1. NDrives \in Int /\ 1 \in Int
      BY DemandsAssumption
    <3> QED
      BY <3>1, FS_Interval DEF AllDrives
  <2>2. tried \in Injection(DOMAIN tried, AllDrives)
    BY <1>3 DEF Injection, IsInjective
  <2>3. IsFiniteSet(DOMAIN tried)
    BY <2>1, <2>2, FS_Injection
  <2>4. IsFiniteSet(pending)
    BY <1>7, <2>3, FS_Subset
  <2>5. IsFiniteSet(pending \cup DOMAIN drReserved)
    BY <1>2, <2>4, FS_Union
  <2> QED
    BY <1>10, <2>5
<1>16. FixedApart'
  <2>1. drPool' \cap drOccupied' = {}
    <3>1. \A d \in UNION Range(rest) : d \notin drOccupied /\ d \notin fixed
      BY <1>7 DEF Range
    <3>2. drPool \cap drOccupied = {}
      BY <1>2 DEF FixedApart
    <3> QED
      BY <1>1, <3>1, <3>2
  <2>2. ASSUME NEW s \in DOMAIN drReserved' PROVE drReserved'[s] \cap drOccupied' \subseteq drConsumed'
    <3>1. CASE s \in pending
      BY <1>1, <1>7, <1>10, <3>1
    <3>2. CASE s \in DOMAIN drReserved
      <4>1. drReserved[s] \cap drOccupied \subseteq drConsumed
        BY <1>2, <3>2 DEF FixedApart
      <4> QED
        BY <1>1, <1>4, <1>6, <1>10, <3>2, <4>1
    <3> QED
      BY <1>10, <2>2, <3>1, <3>2
  <2> QED
    BY <2>1, <2>2 DEF FixedApart
<1>17. CanServe({})'
  <2>1. PICK m \in [DOMAIN drReserved -> AllDrives] :
          /\ \A s \in DOMAIN drReserved : m[s] \in drReserved[s] \ (drConsumed \cup used)
          /\ \A s, t \in DOMAIN drReserved : m[s] = m[t] => s = t
    BY DEF CanServe, used
  <2> DEFINE all == [s \in DOMAIN drReserved' |-> IF s \in pending THEN tried[s] ELSE m[s]]
  <2>2. /\ \A s \in pending : all[s] = tried[s]
        /\ \A s \in DOMAIN drReserved : all[s] = m[s]
    BY <1>10
  <2>3. all \in [DOMAIN drReserved' -> AllDrives]
    BY <1>3, <1>7, <1>10, <2>1
  <2> HIDE DEF all
  <2>4. \A s \in DOMAIN drReserved' : all[s] \in drReserved'[s] \ (drConsumed' \cup {})
    <3> TAKE s \in DOMAIN drReserved'
    <3>1. CASE s \in pending
      BY <1>1, <1>7, <1>10, <2>2, <3>1
    <3>2. CASE s \in DOMAIN drReserved
      BY <1>1, <1>6, <1>10, <2>1, <2>2, <3>2
    <3> QED
      BY <1>10, <3>1, <3>2
  <2>5. ASSUME NEW s \in DOMAIN drReserved', NEW t \in DOMAIN drReserved', all[s] = all[t]
        PROVE  s = t
    <3>1. \A p \in pending : \A r \in DOMAIN drReserved : all[p] # all[r]
      BY <1>4, <1>7, <2>1, <2>2
    <3>2. CASE s \in pending /\ t \in pending
      BY <1>3, <1>7, <2>2, <2>5, <3>2
    <3>3. CASE s \in DOMAIN drReserved /\ t \in DOMAIN drReserved
      BY <2>1, <2>2, <2>5, <3>3
    <3> QED
      BY <1>10, <2>5, <3>1, <3>2, <3>3
  <2> QED
    BY <2>3, <2>4, <2>5 DEF CanServe
<1>18. \A s \in Settled' : /\ s \in DOMAIN tried => s \notin pending /\ tried[s] \in fixed
                           /\ s \notin DOMAIN tried => s \in Settled
                           /\ s \in DOMAIN tried \/ s \in DOMAIN drPlans
  BY <1>7, <1>10, <1>11 DEF Settled
<1>19. /\ \A s \in Settled : drPlans[s] \in drOccupied /\ s \in DOMAIN drPlans
       /\ \A s, t \in Settled : drPlans[s] = drPlans[t] => s = t
  BY <1>2 DEF SettledApart, Settled
<1>20. \A s \in Settled' : drPlans'[s] \in drOccupied'
  BY <1>1, <1>11, <1>18, <1>19
<1>21. ASSUME NEW s \in Settled', NEW t \in Settled', drPlans'[s] = drPlans'[t]
       PROVE  s = t
  <2>1. CASE s \in DOMAIN tried /\ t \in DOMAIN tried
    BY <1>3, <1>11, <1>21, <2>1
  <2>2. CASE s \notin DOMAIN tried /\ t \notin DOMAIN tried
    BY <1>11, <1>18, <1>19, <1>21, <2>2
  <2>3. CASE s \in DOMAIN tried /\ t \notin DOMAIN tried
    BY <1>3, <1>11, <1>18, <1>19, <1>21, <2>3
  <2>4. CASE t \in DOMAIN tried /\ s \notin DOMAIN tried
    BY <1>3, <1>11, <1>18, <1>19, <1>21, <2>4
  <2> QED
    BY <2>1, <2>2, <2>3, <2>4
<1>22. ASSUME NEW s \in DOMAIN drPlans' \cup DOMAIN drReserved'
       PROVE  s[1] \in Nat /\ s[1] <= drGroup
  <2>1. s \in DOMAIN tried \/ s \in DOMAIN drPlans \cup DOMAIN drReserved
    BY <1>7, <1>10, <1>11, <1>22
  <2> QED
    BY <1>3, <1>5, <1>8, <2>1
<1> QED
  BY <1>12, <1>13, <1>14, <1>15, <1>16, <1>17, <1>20, <1>21, <1>22

LEMMA SettleKeeps == ReservationInv /\ SettleGroup => ReservationInv'
<1> SUFFICES ASSUME ReservationInv, SettleGroup PROVE ReservationInv'
  OBVIOUS
<1> DEFINE tried == IF CanConsume(Used) THEN drTry ELSE Empty
<1>1. /\ drAt = "settle" /\ drRefused' = ~CanConsume(Used) /\ drPlans' = Updated(drPlans, tried)
      /\ drAt' = (IF ~CanConsume(Range(tried) \cap ReservationUids) THEN "raised"
                  ELSE IF drGroup = Len(drDemand) THEN "finish" ELSE "plan")
      /\ drGroup' = (IF drGroup = Len(drDemand) THEN drGroup ELSE drGroup + 1)
      /\ drTry' = Empty /\ drProtected' = {} /\ UNCHANGED drDemand
  BY DEF SettleGroup
<1>2. PICK equivalent \in SUBSET Replacements(tried) :
        Register(tried, [s \in DOMAIN tried |->
                           {tried[s]} \cup {d \in AllDrives : <<s, d>> \in equivalent}])
  BY DEF SettleGroup
<1>3. /\ ReservationTypeOK /\ Fits(drTry) /\ CanServe({}) /\ IsFiniteSet(DOMAIN drReserved)
  BY DEF ReservationInv
<1>4. Fits(tried) /\ CanServe(Range(tried)) /\ Range(tried) \cap drConsumed = {}
  <2>1. CASE CanConsume(Used)
    BY <1>3, <2>1, ConsumeIs DEF Used
  <2>2. CASE ~CanConsume(Used)
    <3>1. tried = Empty
      BY <2>2
    <3> HIDE DEF tried
    <3> QED
      BY <1>3, <3>1, EmptyFits
  <2> QED
    BY <2>1, <2>2
<1> HIDE DEF tried
<1>5. CanConsume(Range(tried) \cap ReservationUids)
  <2>1. CanServe(Range(tried) \cap ReservationUids)
    BY <1>4 DEF CanServe
  <2>2. (Range(tried) \cap ReservationUids) \cap drConsumed = {}
    BY <1>4
  <2> QED
    BY <1>3, <2>1, <2>2, ConsumeIs
<1> DEFINE candidates == [s \in DOMAIN tried |->
                            {tried[s]} \cup {d \in AllDrives : <<s, d>> \in equivalent}]
<1>6. \A s \in DOMAIN tried : /\ candidates[s] \subseteq AllDrives \ drOccupied
                              /\ tried[s] \in candidates[s]
  <2> TAKE s \in DOMAIN tried
  <2>1. \A d \in AllDrives : <<s, d>> \in equivalent => d \notin drOccupied
    BY DEF Replacements
  <2>2. tried[s] \in AllDrives \ drOccupied
    BY <1>4 DEF Fits
  <2> QED
    BY <2>1, <2>2
<1>7. DOMAIN candidates = DOMAIN tried /\ Register(tried, candidates)
  BY <1>2
<1> HIDE DEF candidates
<1>8. Underway /\ drAt # "finish"
  BY <1>1 DEF Underway
<1>9. /\ {drPool, drOccupied, drConsumed}' \subseteq SUBSET AllDrives
      /\ drReserved' \in [DOMAIN drReserved' -> SUBSET AllDrives]
      /\ drPlans' \in [DOMAIN drPlans' -> AllDrives]
      /\ IsFiniteSet(DOMAIN drReserved') /\ FixedApart' /\ CanServe({})'
      /\ \A s \in Settled' : drPlans'[s] \in drOccupied'
      /\ \A s, t \in Settled' : drPlans'[s] = drPlans'[t] => s = t
      /\ \A s \in DOMAIN drPlans' \cup DOMAIN drReserved' : s[1] \in Nat /\ s[1] <= drGroup
  BY <1>1, <1>4, <1>6, <1>7, <1>8, RegisterKeeps
<1>10. drAt' \in {"finish", "plan"} /\ drGroup \in Nat \ {0} /\ drGroup' \in Nat \ {0}
  BY <1>1, <1>3, <1>5 DEF ReservationTypeOK
<1>11. Fits(drTry)'
  <2>1. drTry' \in [DOMAIN drTry' -> AllDrives] /\ DOMAIN drTry' = {}
    BY <1>1, EmptyFits DEF Fits
  <2> QED
    BY <2>1 DEF Fits
<1>12. ReservationTypeOK'
  <2>1. drRefused' \in BOOLEAN /\ drProtected' \subseteq AllDrives
    BY <1>1
  <2>2. drTry' \in [DOMAIN drTry' -> AllDrives]
    BY <1>11 DEF Fits
  <2> QED
    BY <1>9, <1>10, <2>1, <2>2 DEF ReservationTypeOK
<1>13. OfEarlierGroups'
  <2>1. drAt' # "finish" => drGroup' = drGroup + 1
    BY <1>1, <1>5
  <2> QED
    BY <1>9, <1>10, <2>1 DEF OfEarlierGroups
<1>14. SettledApart' /\ PlansDisjoint'
  BY <1>9, <1>10 DEF SettledApart, PlansDisjoint
<1> QED
  BY <1>9, <1>11, <1>12, <1>13, <1>14 DEF ReservationInv

LEMMA FinishKeeps == ReservationInv /\ Finish => ReservationInv'
<1> SUFFICES ASSUME ReservationInv, Finish PROVE ReservationInv'
  OBVIOUS
<1>1. /\ drAt = "finish"
      /\ UNCHANGED <<drDemand, drGroup, drPool, drOccupied, drReserved, drConsumed, drProtected,
                     drTry, drRefused>>
  BY DEF Finish
<1>2. PICK drive \in LargestMatchings(Offered(Left({}))) :
        /\ drAt' = (IF DOMAIN drive = DOMAIN drReserved THEN "end" ELSE "raised")
        /\ drPlans' = Updated(drPlans, drive)
  BY DEF Finish
<1>3. /\ ReservationTypeOK /\ FixedApart /\ SettledApart /\ Fits(drTry) /\ CanServe({})
      /\ IsFiniteSet(DOMAIN drReserved)
  BY DEF ReservationInv
<1>4. drive \in MatchingsOf(DOMAIN drReserved, Offered(Left({})))
  BY <1>3, OfferedIs, ServableIs, AllServed
<1>5. /\ drive = [s \in DOMAIN drReserved |-> drive[s]] /\ DOMAIN drive = DOMAIN drReserved
      /\ \A s \in DOMAIN drReserved : drive[s] \in drReserved[s] \ drConsumed
      /\ \A s, t \in DOMAIN drReserved : drive[s] = drive[t] => s = t
  BY <1>4, OfferedIs, MatchingIs
<1>6. /\ DOMAIN drPlans' = DOMAIN drReserved \cup DOMAIN drPlans
      /\ \A s \in DOMAIN drReserved : drPlans'[s] = drive[s]
      /\ \A s \in DOMAIN drPlans \ DOMAIN drReserved : drPlans'[s] = drPlans[s]
      /\ drPlans' = [s \in DOMAIN drPlans' |-> drPlans'[s]]
  <2>1. drPlans' = Updated(drPlans, drive)
    BY <1>2
  <2>2. /\ DOMAIN drPlans' = DOMAIN drPlans \cup DOMAIN drive
        /\ \A s \in DOMAIN drive : drPlans'[s] = drive[s]
        /\ \A s \in DOMAIN drPlans \ DOMAIN drive : drPlans'[s] = drPlans[s]
        /\ drPlans' = [s \in DOMAIN drPlans' |-> drPlans'[s]]
    BY <2>1, PlansUpdated, Zenon
  <2> QED
    BY <1>5, <2>1, <2>2
<1>7. drAt' = "end"
  BY <1>2, <1>5
<1>8. /\ \A s \in DOMAIN drReserved : drive[s] \in AllDrives /\ drive[s] \notin drOccupied
  BY <1>3, <1>5 DEF FixedApart, ReservationTypeOK
<1>9. /\ \A s \in Settled : drPlans[s] \in drOccupied
      /\ \A s, t \in Settled : drPlans[s] = drPlans[t] => s = t
  BY <1>1, <1>3 DEF SettledApart, Underway
<1>10. PlansDisjoint'
  <2> SUFFICES ASSUME NEW s \in DOMAIN drPlans', NEW t \in DOMAIN drPlans', drPlans'[s] = drPlans'[t]
               PROVE  s = t
    BY <1>7 DEF PlansDisjoint
  <2>1. CASE s \in DOMAIN drReserved /\ t \in DOMAIN drReserved
    BY <1>5, <1>6, <2>1
  <2>2. CASE s \in Settled /\ t \in Settled
    BY <1>6, <1>9, <2>2 DEF Settled
  <2>3. CASE s \in DOMAIN drReserved /\ t \in Settled
    BY <1>6, <1>8, <1>9, <2>3 DEF Settled
  <2>4. CASE t \in DOMAIN drReserved /\ s \in Settled
    BY <1>6, <1>8, <1>9, <2>4 DEF Settled
  <2> QED
    BY <1>6, <2>1, <2>2, <2>3, <2>4 DEF Settled
<1>11. ReservationTypeOK'
  <2>1. drPlans' \in [DOMAIN drPlans' -> AllDrives]
    BY <1>3, <1>6, <1>8 DEF ReservationTypeOK
  <2> QED
    BY <1>1, <1>3, <1>7, <2>1 DEF ReservationTypeOK
<1>12. Fits(drTry)' /\ FixedApart' /\ CanServe({})' /\ IsFiniteSet(DOMAIN drReserved)'
  BY <1>1, <1>3 DEF Fits, FixedApart, CanServe
<1>13. SettledApart' /\ OfEarlierGroups'
  BY <1>7 DEF SettledApart, OfEarlierGroups, Underway
<1> QED
  BY <1>10, <1>11, <1>12, <1>13 DEF ReservationInv

LEMMA ReservationInductive == ReservationInv /\ [ReservationNext]_drVars => ReservationInv'
<1> SUFFICES ASSUME ReservationInv, [ReservationNext]_drVars PROVE ReservationInv'
  OBVIOUS
<1>1. CASE ReservationNext
  BY <1>1, LooksKeep, SettleKeeps, FinishKeeps DEF ReservationNext
<1>2. CASE UNCHANGED drVars
  BY <1>2 DEF drVars, ReservationInv, ReservationTypeOK, Fits, FixedApart, SettledApart,
              OfEarlierGroups, Underway, Settled, CanServe, PlansDisjoint
<1> QED
  BY <1>1, <1>2

\* Types of the state of an allocation.
THEOREM ReservationTyped == ReservationSpec => []ReservationTypeOK
<1>1. ReservationInv => ReservationTypeOK
  BY DEF ReservationInv
<1> QED
  BY <1>1, ReservationInitially, ReservationInductive, PTL DEF ReservationSpec

\* No drive is in two plans at the end, and the reservations can be filled: neither commit
\* nor finalize raises (execute_role_priority).
THEOREM PlansStayDisjoint == ReservationSpec => []PlansDisjoint
<1>1. ReservationInv => PlansDisjoint
  BY DEF ReservationInv
<1> QED
  BY <1>1, ReservationInitially, ReservationInductive, PTL DEF ReservationSpec

\* Whatever a group has used, each slot that was deferred can still get a drive of its own
\* (register and can_consume: "every earlier reservation still has a one-to-one completion").
THEOREM ReservationsCanBeFilled == ReservationSpec => []CanServe({})
<1>1. ReservationInv => CanServe({})
  BY DEF ReservationInv
<1> QED
  BY <1>1, ReservationInitially, ReservationInductive, PTL DEF ReservationSpec
===============================================================================
