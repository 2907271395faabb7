---------------------------- MODULE FloorPlanProofs ----------------------------
(***************************************************************************)
(* Theorems about FloorPlan, for any numbers of printers, floors, places   *)
(* and requests, and whatever clients ask for.                             *)
(***************************************************************************)
EXTENDS FloorPlan, SequenceTheorems, FiniteSetTheorems, WellFoundedInduction, TLAPS

-----------------------------------------------------------------------------
(* Sequences.                                                              *)

\* Every non-empty set of natural numbers has a least element.
LEMMA LeastElement ==
    ASSUME NEW T \in SUBSET Nat, T # {} PROVE \E x \in T : \A y \in T : x <= y
<1> DEFINE R == OpToRel(<, Nat)
<1>1. IsWellFoundedOn(R, Nat)
  BY NatLessThanWellFounded
<1>2. \A x, y \in Nat : x < y => <<x, y>> \in R
  BY DEF OpToRel
<1> HIDE DEF R
<1>3. PICK x \in T : \A y \in T : ~ (<<y, x>> \in R)
  BY <1>1, WFMin
<1>4. \A y \in T : ~ (y < x)
  BY <1>2, <1>3
<1>5. QED
  BY <1>3, <1>4

\* The index FirstOf looks for exists.
LEMMA FirstOfExists ==
    ASSUME NEW s \in Seq(Position), NEW p, On(s, p)
    PROVE  LET i == FirstOf(s, p) IN
           i \in 1..Len(s) /\ s[i].printer = p /\ \A j \in 1..(i - 1) : s[j].printer # p
<1> DEFINE T == {i \in 1..Len(s) : s[i].printer = p}
<1>1. Len(s) \in Nat /\ DOMAIN s = 1..Len(s)
  BY LenProperties
<1>2. T \in SUBSET Nat /\ T # {}
  BY <1>1 DEF On
<1>3. PICK i \in T : \A j \in T : i <= j
  BY <1>2, LeastElement
<1>4. \A j \in 1..(i - 1) : s[j].printer # p
  BY <1>1, <1>3
<1>5. i \in DOMAIN s /\ s[i].printer = p /\ \A j \in 1..(i - 1) : s[j].printer # p
  BY <1>1, <1>3, <1>4
<1>6. QED
  BY <1>1, <1>5 DEF FirstOf

\* The indices of a sequence that stay have ranks, one each.
LEMMA Ranked ==
    ASSUME NEW n \in Nat, NEW ks \in SUBSET (1..n)
    PROVE  /\ Cardinality(ks) \in Nat /\ Cardinality(ks) <= n
           /\ \A m \in 1..Cardinality(ks) :
                 Nth(ks, m) \in ks /\ Cardinality({j \in ks : j <= Nth(ks, m)}) = m
<1> DEFINE card == Cardinality(ks)
           upto(i) == {j \in ks : j <= i}
           rank == [i \in ks |-> Cardinality(upto(i))]
<1>1. IsFiniteSet(1..n) /\ Cardinality(1..n) = n
  BY FS_Interval
<1>2. IsFiniteSet(ks) /\ card <= n /\ card \in Nat
  BY <1>1, FS_Subset, FS_CardinalityType
<1>3. ASSUME NEW i \in ks
      PROVE  /\ IsFiniteSet(upto(i)) /\ Cardinality(upto(i)) \in 1..card
  <2>1. upto(i) \in SUBSET ks /\ i \in upto(i)
    OBVIOUS
  <2>2. IsFiniteSet(upto(i)) /\ Cardinality(upto(i)) <= card /\ Cardinality(upto(i)) \in Nat
    BY <1>2, <2>1, FS_Subset, FS_CardinalityType
  <2>3. Cardinality(upto(i)) # 0
    BY <2>1, <2>2, FS_EmptySet
  <2>4. QED
    BY <1>2, <2>2, <2>3
<1>4. ASSUME NEW i \in ks, NEW k \in ks, i < k PROVE rank[i] # rank[k]
  <2>1. upto(i) \in SUBSET upto(k) /\ k \in upto(k) /\ k \notin upto(i)
    <3>1. \A j \in ks : j \in Int
      OBVIOUS
    <3>2. \A j, l : j \in upto(l) <=> j \in ks /\ j <= l
      OBVIOUS
    <3> HIDE DEF upto
    <3>3. ASSUME NEW j \in upto(i) PROVE j \in upto(k)
      <4>1. j \in Int /\ i \in Int /\ k \in Int /\ j <= i /\ i < k /\ j \in ks
        BY <1>4, <3>1, <3>2
      <4>2. QED
        BY <3>2, <4>1
    <3>4. k \in upto(k)
      BY <3>1, <3>2
    <3>5. k \notin upto(i)
      BY <1>4, <3>1, <3>2
    <3>6. QED
      BY <3>3, <3>4, <3>5
  <2>2. Cardinality(upto(i)) # Cardinality(upto(k))
    BY <1>3, <2>1, FS_Subset
  <2>3. QED
    BY <2>2
<1>5. rank \in Injection(ks, 1..card)
  <2>1. rank \in [ks -> 1..card]
    BY <1>3
  <2>2. \A i, k \in ks : rank[i] = rank[k] => i = k
    BY <1>4
  <2> HIDE DEF rank
  <2>3. QED
    BY <2>1, <2>2 DEF Injection, IsInjective
<1>6. IsFiniteSet(1..card) /\ Cardinality(1..card) = card
  BY <1>2, FS_Interval
<1>7. rank \in Surjection(ks, 1..card)
  BY <1>5, <1>6, FS_Injection
<1>8. ASSUME NEW m \in 1..card PROVE Nth(ks, m) \in ks /\ Cardinality(upto(Nth(ks, m))) = m
  <2>1. \E i \in ks : Cardinality(upto(i)) = m
    BY <1>7 DEF Surjection
  <2>2. QED
    BY <2>1 DEF Nth
<1>9. QED
  BY <1>2, <1>8

\* What Filtered gives: elements of s at different indices, all of s if all indices stay.
LEMMA FilteredProperties ==
    ASSUME NEW S, NEW s \in Seq(S), NEW ks \in SUBSET DOMAIN s
    PROVE  LET t == Filtered(s, ks) IN
           /\ t \in Seq(S) /\ Len(t) = Cardinality(ks) /\ Len(t) <= Len(s)
           /\ \A m \in 1..Len(t) : Nth(ks, m) \in ks /\ t[m] = s[Nth(ks, m)]
           /\ \A m, k \in 1..Len(t) : m # k => Nth(ks, m) # Nth(ks, k)
           /\ Len(t) = Len(s) => t = s
<1> DEFINE t == Filtered(s, ks)
           card == Cardinality(ks)
<1>1. Len(s) \in Nat /\ DOMAIN s = 1..Len(s) /\ \A i \in 1..Len(s) : s[i] \in S
  BY LenProperties, ElementOfSeq
<1>2. /\ card \in Nat /\ card <= Len(s)
      /\ \A m \in 1..card : Nth(ks, m) \in ks /\ Cardinality({j \in ks : j <= Nth(ks, m)}) = m
  BY <1>1, Ranked
<1>3. t \in Seq(S) /\ Len(t) = card /\ \A m \in 1..card : t[m] = s[Nth(ks, m)]
  <2>1. t \in [1..card -> S]
    BY <1>1, <1>2 DEF Filtered
  <2>2. QED
    BY <1>2, <2>1 DEF Filtered
<1>4. \A m, k \in 1..card : m # k => Nth(ks, m) # Nth(ks, k)
  BY <1>2
<1>5. ASSUME card = Len(s) PROVE t = s
  <2>1. ks = 1..Len(s)
    <3>1. IsFiniteSet(1..Len(s)) /\ Cardinality(1..Len(s)) = Len(s)
      BY <1>1, FS_Interval
    <3>2. ks \in SUBSET (1..Len(s)) /\ Cardinality(ks) = Len(s)
      BY <1>1, <1>5
    <3>3. QED
      BY <3>1, <3>2, FS_Subset
  <2>2. ASSUME NEW m \in 1..Len(s) PROVE Nth(ks, m) = m
    <3>1. Nth(ks, m) \in 1..Len(s) /\ {j \in ks : j <= Nth(ks, m)} = 1..Nth(ks, m)
      <4>1. Nth(ks, m) \in ks
        BY <1>2, <1>5
      <4>2. ASSUME NEW k \in 1..Len(s) PROVE {j \in 1..Len(s) : j <= k} = 1..k
        BY <1>1
      <4>3. QED
        BY <2>1, <4>1, <4>2
    <3>2. Cardinality(1..Nth(ks, m)) = Nth(ks, m)
      BY <3>1, FS_Interval
    <3>3. QED
      BY <1>2, <1>5, <3>1, <3>2
  <2>3. QED
    BY <1>3, <1>5, <2>2, SeqEqual
<1>6. QED
  BY <1>2, <1>3, <1>4, <1>5
-----------------------------------------------------------------------------
(* Positions.                                                              *)

\* Every element of t is one of s.
Within(t, s) == \A m \in 1..Len(t) : \E i \in 1..Len(s) : t[m] = s[i]

LEMMA SeqOfPositions ==
    ASSUME NEW s \in Seq(Position)
    PROVE  /\ Len(s) \in Nat /\ DOMAIN s = 1..Len(s) /\ s # None
           /\ \A i \in 1..Len(s) : s[i] \in Position
BY LenProperties, ElementOfSeq, NoneAssumption DEF Position

LEMMA FilteredPositions ==
    ASSUME NEW s \in Seq(Position), NEW ks \in SUBSET DOMAIN s
    PROVE  LET t == Filtered(s, ks) IN
           /\ t \in Seq(Position) /\ Within(t, s)
           /\ OnePerPlace(s) => OnePerPlace(t)
<1> DEFINE t == Filtered(s, ks)
           nth(m) == Nth(ks, m)
<1>1. /\ t \in Seq(Position)
      /\ \A m \in 1..Len(t) : nth(m) \in ks /\ t[m] = s[nth(m)]
      /\ \A m, k \in 1..Len(t) : m # k => nth(m) # nth(k)
  BY FilteredProperties
<1> HIDE DEF t, nth
<1>2. DOMAIN t = 1..Len(t) /\ DOMAIN s = 1..Len(s)
  BY <1>1, SeqOfPositions
<1>3. Within(t, s)
  BY <1>1, <1>2 DEF Within
<1>4. OnePerPlace(s) => OnePerPlace(t)
  BY <1>1, <1>2 DEF OnePerPlace
<1>5. QED
  BY <1>1, <1>3, <1>4 DEF t

\* What the filter of addOrUpdatePrinter leaves
LEMMA VacatedProperties ==
    ASSUME NEW s \in Seq(Position), NEW place
    PROVE  LET t == Vacated(s, place) IN
           /\ t \in Seq(Position) /\ Within(t, s) /\ Len(t) <= Len(s)
           /\ OnePerPlace(s) => OnePerPlace(t)
           /\ \A m \in 1..Len(t) : t[m].place # place
           /\ Len(t) = Len(s) => t = s
<1> DEFINE ks == {i \in DOMAIN s : s[i].place # place}
           t == Filtered(s, ks)
<1>1. ks \in SUBSET DOMAIN s /\ \A i \in ks : s[i].place # place
  OBVIOUS
<1> HIDE DEF ks
<1>2. /\ t \in Seq(Position) /\ Len(t) <= Len(s)
      /\ \A m \in 1..Len(t) : Nth(ks, m) \in ks /\ t[m] = s[Nth(ks, m)]
      /\ Len(t) = Len(s) => t = s
  BY <1>1, FilteredProperties
<1>3. Within(t, s) /\ (OnePerPlace(s) => OnePerPlace(t))
  BY <1>1, FilteredPositions
<1>4. Vacated(s, place) = t
  BY DEF Vacated, ks
<1> HIDE DEF t
<1>5. QED
  BY <1>1, <1>2, <1>3, <1>4

\* ... and what $pull does
LEMMA PulledProperties ==
    ASSUME NEW s \in Seq(Position), NEW p
    PROVE  LET t == Pulled(s, p) IN
           /\ t \in Seq(Position) /\ Within(t, s)
           /\ OnePerPlace(s) => OnePerPlace(t)
           /\ \A m \in 1..Len(t) : t[m].printer # p
<1> DEFINE ks == {i \in DOMAIN s : s[i].printer # p}
           t == Filtered(s, ks)
<1>1. ks \in SUBSET DOMAIN s /\ \A i \in ks : s[i].printer # p
  OBVIOUS
<1> HIDE DEF ks
<1>2. \A m \in 1..Len(t) : Nth(ks, m) \in ks /\ t[m] = s[Nth(ks, m)]
  BY <1>1, FilteredProperties
<1>3. t \in Seq(Position) /\ Within(t, s) /\ (OnePerPlace(s) => OnePerPlace(t))
  BY <1>1, FilteredPositions
<1>4. Pulled(s, p) = t
  BY DEF Pulled, ks
<1> HIDE DEF t
<1>5. QED
  BY <1>1, <1>2, <1>3, <1>4

LEMMA PulledUntouched ==
    ASSUME NEW s \in Seq(Position), NEW p, ~On(s, p)
    PROVE  Pulled(s, p) = s
<1>1. Len(s) \in Nat /\ DOMAIN s = 1..Len(s)
  BY SeqOfPositions
<1>2. {i \in DOMAIN s : s[i].printer # p} = DOMAIN s
  BY DEF On
<1>3. Cardinality(DOMAIN s) = Len(s)
  BY <1>1, FS_Interval
<1>4. Filtered(s, DOMAIN s) = s
  BY <1>3, FilteredProperties
<1>5. QED
  BY <1>2, <1>4 DEF Pulled

\* The splice of removePrinter
LEMMA RemoveAtProperties ==
    ASSUME NEW s \in Seq(Position), NEW n \in 1..Len(s)
    PROVE  LET t == RemoveAt(s, n) IN
           /\ t \in Seq(Position) /\ Within(t, s)
           /\ OnePerPlace(s) => OnePerPlace(t)
<1> DEFINE a == SubSeq(s, 1, n - 1)
           b == SubSeq(s, n + 1, Len(s))
           t == a \o b
<1>1. Len(s) \in Nat /\ DOMAIN s = 1..Len(s) /\ \A i \in 1..Len(s) : s[i] \in Position
  BY SeqOfPositions
<1>2. a \in Seq(Position) /\ Len(a) = n - 1 /\ \A i \in 1..(n - 1) : a[i] = s[i]
  <2>1. /\ n - 1 \in Int /\ \A i \in 1..(n - 1) : s[i] \in Position
    BY <1>1
  <2>2. QED
    BY <1>1, <2>1, SubSeqProperties
<1>3. b \in Seq(Position) /\ Len(b) = Len(s) - n /\ \A i \in 1..(Len(s) - n) : b[i] = s[n + i]
  <2>1. /\ n + 1 \in Int /\ \A i \in (n + 1)..Len(s) : s[i] \in Position
    BY <1>1
  <2>2. /\ b \in Seq(Position)
        /\ Len(b) = IF n + 1 <= Len(s) THEN Len(s) - (n + 1) + 1 ELSE 0
        /\ \A i \in 1..(Len(s) - (n + 1) + 1) : b[i] = s[(n + 1) + i - 1]
    BY <1>1, <2>1, SubSeqProperties
  <2> HIDE DEF b
  <2>3. \A i \in 1..(Len(s) - n) : (n + 1) + i - 1 = n + i /\ Len(s) - (n + 1) + 1 = Len(s) - n
    BY <1>1
  <2>4. Len(b) = Len(s) - n
    <3>1. n \in Int /\ Len(s) \in Int /\ n <= Len(s)
      BY <1>1
    <3>2. CASE n + 1 <= Len(s)
      BY <2>2, <3>1, <3>2
    <3>3. CASE n = Len(s)
      BY <2>2, <3>1, <3>3
    <3>4. QED
      BY <3>1, <3>2, <3>3
  <2>5. QED
    BY <2>2, <2>3, <2>4
<1> HIDE DEF a, b
<1>4. t \in Seq(Position) /\ Len(t) = Len(s) - 1
  <2>1. t \in Seq(Position) /\ Len(t) = Len(a) + Len(b)
    BY <1>2, <1>3, ConcatProperties
  <2> HIDE DEF t
  <2>2. QED
    BY <1>1, <1>2, <1>3, <2>1
<1>5. \A i \in 1..(Len(s) - 1) : t[i] = s[IF i < n THEN i ELSE i + 1]
  <2> SUFFICES ASSUME NEW i \in 1..(Len(s) - 1)
               PROVE  t[i] = s[IF i < n THEN i ELSE i + 1]
    OBVIOUS
  <2>1. \A j \in 1..(Len(a) + Len(b)) : t[j] = IF j <= Len(a) THEN a[j] ELSE b[j - Len(a)]
    BY <1>2, <1>3, ConcatProperties
  <2> HIDE DEF t
  <2>2. i \in 1..(Len(a) + Len(b)) /\ i \in Int
    BY <1>1, <1>2, <1>3
  <2>3. t[i] = IF i <= n - 1 THEN a[i] ELSE b[i - (n - 1)]
    BY <1>2, <2>1, <2>2
  <2>4. CASE i < n
    <3>1. i <= n - 1 /\ i \in 1..(n - 1)
      BY <1>1, <2>4
    <3>2. QED
      BY <1>2, <2>3, <2>4, <3>1
  <2>5. CASE ~(i < n)
    <3>1. ~(i <= n - 1) /\ i - (n - 1) \in 1..(Len(s) - n) /\ n + (i - (n - 1)) = i + 1
      BY <1>1, <2>5
    <3>2. QED
      BY <1>3, <2>3, <2>5, <3>1
  <2>6. QED
    BY <2>4, <2>5
<1> HIDE DEF t
<1>6. Within(t, s)
  BY <1>1, <1>4, <1>5 DEF Within
<1>7. OnePerPlace(s) => OnePerPlace(t)
  <2>1. DOMAIN t = 1..(Len(s) - 1)
    BY <1>4, SeqOfPositions
  <2> DEFINE from(i) == IF i < n THEN i ELSE i + 1
  <2>2. \A i \in 1..(Len(s) - 1) : from(i) \in 1..Len(s)
    BY <1>1
  <2>3. \A i, j \in 1..(Len(s) - 1) : i # j => from(i) # from(j)
    BY <1>1
  <2>4. \A i \in 1..(Len(s) - 1) : t[i] = s[from(i)]
    BY <1>5
  <2> HIDE DEF from
  <2>5. QED
    BY <1>1, <2>1, <2>2, <2>3, <2>4 DEF OnePerPlace
<1>8. RemoveAt(s, n) = t
  BY DEF RemoveAt, t, a, b
<1>9. QED
  BY <1>4, <1>6, <1>7, <1>8

\* A position assigned to the index of the printer it is about, or pushed
LEMMA AssignedProperties ==
    ASSUME NEW s \in Seq(Position), NEW pos \in Position, NEW k \in 1..Len(s)
    PROVE  LET t == [s EXCEPT ![k] = pos] IN
           /\ t \in Seq(Position) /\ Len(t) = Len(s) /\ t[k] = pos
           /\ \A i \in 1..Len(s) : i # k => t[i] = s[i]
           /\ /\ OnePerPlace(s)
              /\ \A i \in 1..Len(s) : s[i].place = pos.place => s[i].printer = pos.printer
              /\ s[k].printer = pos.printer
              => OnePerPlace(t)
<1> DEFINE t == [s EXCEPT ![k] = pos]
<1>1. DOMAIN s = 1..Len(s)
  BY SeqOfPositions
<1>2. /\ t \in Seq(Position) /\ Len(t) = Len(s)
      /\ \A i \in 1..Len(s) : t[i] = IF i = k THEN pos ELSE s[i]
  BY ExceptSeq
<1> HIDE DEF t
<1>3. DOMAIN t = 1..Len(s)
  BY <1>2, SeqOfPositions
<1>4. /\ OnePerPlace(s)
      /\ \A i \in 1..Len(s) : s[i].place = pos.place => s[i].printer = pos.printer
      /\ s[k].printer = pos.printer
      => OnePerPlace(t)
  BY <1>1, <1>2, <1>3 DEF OnePerPlace
<1>5. QED
  BY <1>2, <1>4 DEF t

LEMMA PushedProperties ==
    ASSUME NEW s \in Seq(Position), NEW pos \in Position
    PROVE  LET t == Append(s, pos) IN
           /\ t \in Seq(Position) /\ Len(t) = Len(s) + 1 /\ t[Len(s) + 1] = pos
           /\ \A i \in 1..Len(s) : t[i] = s[i]
           /\ /\ OnePerPlace(s)
              /\ \A i \in 1..Len(s) : s[i].place = pos.place => s[i].printer = pos.printer
              /\ ~On(s, pos.printer)
              => OnePerPlace(t)
<1> DEFINE t == Append(s, pos)
<1>1. Len(s) \in Nat /\ DOMAIN s = 1..Len(s)
  BY SeqOfPositions
<1>2. /\ t \in Seq(Position) /\ Len(t) = Len(s) + 1 /\ t[Len(s) + 1] = pos
      /\ \A i \in 1..Len(s) : t[i] = s[i]
  BY AppendProperties
<1> HIDE DEF t
<1>3. DOMAIN t = 1..(Len(s) + 1)
  BY <1>2, SeqOfPositions
<1>4. /\ OnePerPlace(s)
      /\ \A i \in 1..Len(s) : s[i].place = pos.place => s[i].printer = pos.printer
      /\ ~On(s, pos.printer)
      => OnePerPlace(t)
  <2>1. \A i \in 1..(Len(s) + 1) : i \in 1..Len(s) \/ i = Len(s) + 1
    BY <1>1
  <2>2. QED
    BY <1>1, <1>2, <1>3, <2>1 DEF OnePerPlace, On
<1>5. QED
  BY <1>2, <1>4 DEF t

\* ... if it clears the place, which is free then but for the printer itself, and so it
\* is if nothing needs to be cleared
LEMMA KeptProperties ==
    ASSUME NEW s \in Seq(Position), NEW pos \in Position, NEW text \in BOOLEAN
    PROVE  LET t == Kept(s, pos.place, text) IN
           /\ t \in Seq(Position) /\ Within(t, s) /\ Len(t) <= Len(s)
           /\ Len(t) = Len(s) => t = s
           /\ OnePerPlace(s) /\ ~(text /\ Taken(s, pos)) =>
                 /\ OnePerPlace(t)
                 /\ \A m \in 1..Len(t) : t[m].place = pos.place => t[m].printer = pos.printer
<1>1. CASE text
  <2>1. Kept(s, pos.place, text) = s
    BY <1>1 DEF Kept
  <2>2. DOMAIN s = 1..Len(s) /\ Len(s) \in Nat
    BY SeqOfPositions
  <2> DEFINE t == Kept(s, pos.place, text)
  <2> HIDE DEF t
  <2>3. t = s
    BY <2>1 DEF t
  <2>4. Within(s, s)
    BY DEF Within
  <2>5. ~(text /\ Taken(s, pos)) =>
           \A m \in 1..Len(s) : s[m].place = pos.place => s[m].printer = pos.printer
    BY <1>1, <2>2 DEF Taken
  <2>6. QED
    BY <2>2, <2>3, <2>4, <2>5 DEF t
<1>2. CASE ~text
  <2>1. Kept(s, pos.place, text) = Vacated(s, pos.place)
    BY <1>2 DEF Kept
  <2>2. QED
    BY <2>1, VacatedProperties
<1>3. QED
  BY <1>1, <1>2

\* What addOrUpdatePrinter makes of a floor's positions
LEMMA PlacedProperties ==
    ASSUME NEW s \in Seq(Position), NEW pos \in Position, NEW text \in BOOLEAN
    PROVE  LET t == Placed(s, pos, text) IN
           /\ t \in Seq(Position) /\ t # <<>> /\ On(t, pos.printer)
           /\ \A m \in 1..Len(t) : t[m] = pos \/ \E i \in 1..Len(s) : t[m] = s[i]
           /\ OnePerPlace(s) /\ ~(text /\ Taken(s, pos)) => OnePerPlace(t)
<1> DEFINE kept == Kept(s, pos.place, text)
           k == FirstOf(kept, pos.printer)
           t == Placed(s, pos, text)
           free == OnePerPlace(s) /\ ~(text /\ Taken(s, pos))
<1>1. /\ kept \in Seq(Position) /\ Within(kept, s)
      /\ free => /\ OnePerPlace(kept)
                 /\ \A m \in 1..Len(kept) :
                       kept[m].place = pos.place => kept[m].printer = pos.printer
  BY KeptProperties
<1>2. CASE On(kept, pos.printer)
  <2>1. t = [kept EXCEPT ![k] = pos]
    BY <1>2 DEF Placed
  <2>2. k \in 1..Len(kept) /\ kept[k].printer = pos.printer
    BY <1>1, <1>2, FirstOfExists
  <2> HIDE DEF kept, k, t, free
  <2>3. /\ t \in Seq(Position) /\ Len(t) = Len(kept) /\ t[k] = pos
        /\ \A i \in 1..Len(kept) : i # k => t[i] = kept[i]
    BY <1>1, <2>1, <2>2, AssignedProperties
  <2>4. free => OnePerPlace([kept EXCEPT ![k] = pos])
    BY <1>1, <2>2, AssignedProperties, Zenon
  <2>5. free => OnePerPlace(t)
    BY <2>1, <2>4, Zenon
  <2>6. DOMAIN t = 1..Len(kept) /\ t # <<>>
    BY <2>2, <2>3, SeqOfPositions, EmptySeq
  <2>7. QED
    BY <1>1, <2>2, <2>3, <2>5, <2>6 DEF On, Within, t, free
<1>3. CASE ~On(kept, pos.printer)
  <2>1. t = Append(kept, pos)
    BY <1>3 DEF Placed
  <2>2. Len(kept) \in Nat
    BY <1>1, SeqOfPositions
  <2> HIDE DEF kept, k, t, free
  <2>3. /\ t \in Seq(Position) /\ Len(t) = Len(kept) + 1 /\ t[Len(kept) + 1] = pos
        /\ \A i \in 1..Len(kept) : t[i] = kept[i]
        /\ free => OnePerPlace(t)
    BY <1>1, <1>3, <2>1, PushedProperties
  <2>4. DOMAIN t = 1..(Len(kept) + 1) /\ t # <<>> /\ Len(kept) + 1 \in 1..(Len(kept) + 1)
    BY <2>2, <2>3, SeqOfPositions, EmptySeq
  <2>5. \A i \in 1..(Len(kept) + 1) : i \in 1..Len(kept) \/ i = Len(kept) + 1
    BY <2>2
  <2>6. QED
    BY <1>1, <2>3, <2>4, <2>5 DEF On, Within, t, free
<1>4. QED
  BY <1>2, <1>3

\* ... and what is saved of it: all of it, one index, which is the printer's before and
\* after, or what was pushed.  Saved over what was read, it is what the request holds.
LEMMA PlacedHowProperties ==
    ASSUME NEW s \in Seq(Position), NEW pos \in Position, NEW text \in BOOLEAN
    PROVE  LET t == Placed(s, pos, text)
               change == PlacedHow(s, pos, text)
               i == FirstOf(t, pos.printer)
           IN  /\ change \in {"whole", "element", "push"}
               /\ change = "element" => i \in 1..Len(s) /\ s[i].printer = pos.printer
               /\ change = "push" => Last(t).printer = pos.printer
               /\ Written(s, t, change, pos.printer) = t
<1> DEFINE kept == Kept(s, pos.place, text)
           t == Placed(s, pos, text)
           change == PlacedHow(s, pos, text)
           i == FirstOf(t, pos.printer)
<1>1. kept \in Seq(Position) /\ Len(kept) <= Len(s) /\ (Len(kept) = Len(s) => kept = s)
  BY KeptProperties
<1>2. Len(s) \in Nat /\ Len(kept) \in Nat
  BY <1>1, SeqOfPositions
<1>3. CASE Len(kept) < Len(s)
  <2>1. change = "whole"
    BY <1>3 DEF PlacedHow
  <2>2. QED
    BY <2>1 DEF Written
<1>4. CASE Len(kept) = Len(s) /\ On(s, pos.printer)
  <2>1. change = "element"
    BY <1>2, <1>4 DEF PlacedHow
  <2> DEFINE k == FirstOf(s, pos.printer)
  <2>2. t = [s EXCEPT ![k] = pos]
    BY <1>1, <1>4 DEF Placed
  <2>3. k \in 1..Len(s) /\ s[k].printer = pos.printer /\ \A j \in 1..(k - 1) : s[j].printer # pos.printer
    BY <1>4, FirstOfExists
  <2> HIDE DEF k
  <2>4. /\ t \in Seq(Position) /\ Len(t) = Len(s) /\ t[k] = pos
        /\ \A j \in 1..Len(s) : j # k => t[j] = s[j]
    BY <2>2, <2>3, AssignedProperties
  <2>5. On(t, pos.printer)
    BY PlacedProperties
  <2> HIDE DEF t
  <2>6. i \in 1..Len(t) /\ t[i].printer = pos.printer /\ \A j \in 1..(i - 1) : t[j].printer # pos.printer
    BY <2>4, <2>5, FirstOfExists
  <2> HIDE DEF i
  <2>7. i = k
    <3>1. ~(i < k)
      BY <1>2, <2>3, <2>4, <2>6
    <3>2. ~(k < i)
      BY <1>2, <2>3, <2>4, <2>6
    <3>3. QED
      BY <1>2, <2>3, <2>4, <2>6, <3>1, <3>2
  <2>8. Written(s, t, change, pos.printer) = [s EXCEPT ![i] = t[i]]
    BY <1>2, <2>1, <2>4, <2>6 DEF Written, i
  <2>9. QED
    BY <2>1, <2>2, <2>3, <2>4, <2>7, <2>8 DEF i, t
<1>5. CASE Len(kept) = Len(s) /\ ~On(s, pos.printer)
  <2>1. change = "push"
    BY <1>2, <1>5 DEF PlacedHow
  <2>2. t = Append(s, pos)
    BY <1>1, <1>5 DEF Placed
  <2> HIDE DEF t
  <2>3. Last(t) = pos
    BY <2>2, PushedProperties DEF Last
  <2>4. QED
    BY <2>1, <2>2, <2>3 DEF Written, t
<1>6. QED
  BY <1>1, <1>2, <1>3, <1>4, <1>5

\* What a save writes is a list of positions.
LEMMA WrittenType ==
    ASSUME NEW stored \in Seq(Position), NEW doc \in Seq(Position), NEW change \in Change, NEW p,
           change = "push" => doc # <<>>, change = "element" => On(doc, p)
    PROVE  Written(stored, doc, change, p) \in Seq(Position)
<1>1. CASE change \in {"none", "whole"}
  BY <1>1 DEF Written
<1>2. CASE change = "push"
  <2>1. Len(doc) \in 1..Len(doc)
    BY <1>2, EmptySeq
  <2>2. Last(doc) \in Position
    BY <2>1, SeqOfPositions DEF Last
  <2>3. QED
    BY <1>2, <2>2, PushedProperties DEF Written
<1>3. CASE change = "element"
  <2> DEFINE i == FirstOf(doc, p)
  <2>1. i \in 1..Len(doc) /\ doc[i] \in Position /\ Len(doc) \in Nat
    BY <1>3, FirstOfExists, SeqOfPositions
  <2> HIDE DEF i
  <2>2. CASE i <= Len(stored)
    <3>1. i \in 1..Len(stored)
      BY <2>1, <2>2, SeqOfPositions
    <3>2. Written(stored, doc, change, p) = [stored EXCEPT ![i] = doc[i]]
      BY <1>3, <2>2 DEF Written, i
    <3>3. QED
      BY <2>1, <3>1, <3>2, AssignedProperties
  <2>3. CASE ~(i <= Len(stored))
    <3>1. Written(stored, doc, change, p) = Append(stored, doc[i])
      BY <1>3, <2>3 DEF Written, i
    <3>2. QED
      BY <2>1, <3>1, PushedProperties
  <2>4. QED
    BY <2>2, <2>3
<1>4. QED
  BY <1>1, <1>2, <1>3 DEF Change
-----------------------------------------------------------------------------
(* The invariant.                                                          *)

Waiting == [stage : Stage, fs : SUBSET Floor, docs : [Floor -> MaybeFloor],
            change : Change, printer : Printer \cup {None}, same : BOOLEAN]

\* The type invariant, but for the histories of clashing, orphaned and shifted floors
CoreOK ==
    /\ db \in [Floor -> MaybeFloor]
    /\ unused \in SUBSET Floor
    /\ cache \in [Floor -> MaybeFloor]
    /\ known \in SUBSET Printer
    /\ req \in [Request -> Waiting]
    /\ suspect \in SUBSET Floor

\* What a request has at each stage: what it is about, and documents to save or to
\* keep in the store.
Fits(r) ==
    LET q == req[r] IN
    /\ q.stage = "idle" => q.fs = {}
    /\ q.stage \in {"pull", "list", "load", "default"} => q.fs = Floor
    /\ q.stage \in {"save", "reply", "delete", "deleted"} => \E f \in Floor : q.fs = {f}
    /\ q.stage \in {"save", "reply"} => \A f \in q.fs : q.docs[f] # None
    /\ q.stage = "save" /\ q.change = "push" =>
          \A f \in q.fs : q.docs[f] # <<>> /\ Last(q.docs[f]).printer = q.printer
    /\ q.stage = "save" /\ q.change = "element" => \A f \in q.fs : On(q.docs[f], q.printer)

\* What a request alone with floor f finds in the store and the database, at each stage
Holds(r, f) ==
    LET q == req[r] IN
    /\ q.stage = "save" =>
          /\ cache[f] = db[f] /\ db[f] # None
          /\ Written(db[f], q.docs[f], q.change, q.printer) = q.docs[f]
    /\ q.stage \in {"reply", "load"} => q.docs[f] = db[f]
    /\ q.stage \in {"delete", "pull"} => cache[f] = db[f]
    /\ q.stage \in {"deleted", "default"} => db[f] = None
    /\ q.stage \in {"list", "load", "default"} => (db[f] = None => cache[f] = None)

Clear(f) ==
    /\ \A r, s \in Request : f \in req[r].fs /\ f \in req[s].fs => r = s
    /\ ~About(f) => cache[f] = db[f]
    /\ \A r \in Request : f \in req[r].fs => Holds(r, f)

AllFit == \A r \in Request : Fits(r)
AllClear == \A f \in Floor : f \in suspect \/ Clear(f)
FloorInv == CoreOK /\ AllFit /\ AllClear

-----------------------------------------------------------------------------
(* What the pieces of the actions do to requests.                          *)

LEMMA ReqType == CoreOK => req \in [Request -> Waiting]
BY DEF CoreOK

LEMMA NoDocsType == NoDocs \in [Floor -> MaybeFloor] /\ \A f \in Floor : NoDocs[f] = None
BY DEF NoDocs, MaybeFloor

LEMMA AwaitFacts ==
    ASSUME CoreOK, NEW r \in Request, NEW stage \in Stage, NEW f \in Floor, NEW s \in MaybeFloor,
           NEW change \in Change, NEW p \in Printer \cup {None}, Await(r, stage, f, s, change, p)
    PROVE  /\ req' \in [Request -> Waiting]
           /\ req'[r].stage = stage /\ req'[r].fs = {f} /\ req'[r].docs[f] = s
           /\ req'[r].change = change /\ req'[r].printer = p
           /\ \A x \in Request \ {r} : req'[x] = req[x]
<1> DEFINE docs == [NoDocs EXCEPT ![f] = s]
           q == [stage |-> stage, fs |-> {f}, docs |-> docs,
                 change |-> change, printer |-> p, same |-> TRUE]
<1>1. docs \in [Floor -> MaybeFloor] /\ docs[f] = s
  BY NoDocsType
<1> HIDE DEF docs
<1>2. q \in Waiting
  BY <1>1 DEF Waiting
<1>3. q.stage = stage /\ q.fs = {f} /\ q.docs = docs /\ q.change = change /\ q.printer = p
  OBVIOUS
<1>4. req' = [req EXCEPT ![r] = q]
  BY DEF Await, docs
<1> HIDE DEF q
<1>5. req' \in [Request -> Waiting] /\ req'[r] = q /\ \A x \in Request \ {r} : req'[x] = req[x]
  BY <1>2, <1>4, ReqType
<1>6. QED
  BY <1>1, <1>3, <1>5

LEMMA AwaitAllFacts ==
    ASSUME CoreOK, NEW r \in Request, NEW stage \in Stage, NEW docs \in [Floor -> MaybeFloor],
           NEW p \in Printer \cup {None}, AwaitAll(r, stage, docs, p)
    PROVE  /\ req' \in [Request -> Waiting]
           /\ req'[r].stage = stage /\ req'[r].fs = Floor /\ req'[r].docs = docs
           /\ req'[r].change = "none" /\ req'[r].printer = p
           /\ \A x \in Request \ {r} : req'[x] = req[x]
<1> DEFINE q == [stage |-> stage, fs |-> Floor, docs |-> docs,
                 change |-> "none", printer |-> p, same |-> TRUE]
<1>1. q \in Waiting
  BY DEF Waiting, Change
<1>2. q.stage = stage /\ q.fs = Floor /\ q.docs = docs /\ q.change = "none" /\ q.printer = p
  OBVIOUS
<1>3. req' = [req EXCEPT ![r] = q]
  BY DEF AwaitAll
<1> HIDE DEF q
<1>4. req' \in [Request -> Waiting] /\ req'[r] = q /\ \A x \in Request \ {r} : req'[x] = req[x]
  BY <1>1, <1>3, ReqType
<1>5. QED
  BY <1>2, <1>4

LEMMA IdleType == Idle \in Waiting /\ Idle.stage = "idle" /\ Idle.fs = {}
BY NoDocsType DEF Idle, Waiting, Stage, Change

LEMMA FinishFacts ==
    ASSUME CoreOK, NEW r \in Request, Finish(r)
    PROVE  /\ req' \in [Request -> Waiting]
           /\ req'[r].stage = "idle" /\ req'[r].fs = {}
           /\ \A x \in Request \ {r} : req'[x] = req[x]
<1>1. req' \in [Request -> Waiting] /\ req'[r] = Idle /\ \A x \in Request \ {r} : req'[x] = req[x]
  BY IdleType, ReqType DEF Finish
<1>2. QED
  BY <1>1, IdleType

LEMMA JoinFacts ==
    ASSUME CoreOK, NEW r \in Request, NEW fs \in SUBSET Floor, Join(r, fs)
    PROVE  /\ suspect' \in SUBSET Floor /\ suspect \in SUBSET suspect'
           /\ \A f \in fs : f \in suspect' \/ \A x \in Request \ {r} : f \notin req[x].fs
BY DEF Join, CoreOK

-----------------------------------------------------------------------------
(* What keeps a floor clear.                                               *)

\* A step that has nothing to do with the floor
LEMMA Untouched ==
    ASSUME NEW f \in Floor, Clear(f), db'[f] = db[f], cache'[f] = cache[f],
           \A x \in Request : f \in req[x].fs \/ f \in req'[x].fs => req'[x] = req[x]
    PROVE  Clear(f)'
<1>1. \A x \in Request : f \in req'[x].fs <=> f \in req[x].fs
  OBVIOUS
<1>2. \A x \in Request : f \in req[x].fs => req'[x] = req[x]
  OBVIOUS
<1>3. \A x \in Request : f \in req'[x].fs => Holds(x, f)'
  BY <1>1, <1>2 DEF Clear, Holds
<1>4. About(f)' <=> About(f)
  BY <1>1 DEF About
<1>5. QED
  BY <1>1, <1>3, <1>4 DEF Clear

\* A step of the one request about the floor
LEMMA OneAbout ==
    ASSUME NEW f \in Floor, NEW r \in Request,
           \A x \in Request \ {r} : f \notin req'[x].fs,
           f \in req'[r].fs => Holds(r, f)',
           f \notin req'[r].fs => cache'[f] = db'[f]
    PROVE  Clear(f)'
BY DEF Clear, About

\* Nobody was about a floor that a request joined and that is not suspect then.
LEMMA JoinedAlone ==
    ASSUME FloorInv, NEW r \in Request, req[r].stage = "idle", NEW fs \in SUBSET Floor, Join(r, fs),
           NEW f \in fs, f \notin suspect'
    PROVE  (\A x \in Request : f \notin req[x].fs) /\ cache[f] = db[f]
<1>1. \A x \in Request : f \notin req[x].fs
  BY JoinFacts DEF FloorInv, AllFit, Fits
<1>2. Clear(f)
  BY JoinFacts DEF FloorInv, AllClear
<1>3. QED
  BY <1>1, <1>2 DEF Clear, About

-----------------------------------------------------------------------------
(* The steps.                                                              *)

\* A request starts about one floor, or about all of them.
LEMMA JoinedOne ==
    ASSUME FloorInv, NEW r \in Request, req[r].stage = "idle", NEW f \in Floor, Join(r, {f}),
           NEW stage \in {"save", "reply", "delete"}, NEW s \in MaybeFloor,
           NEW change \in Change, NEW p \in Printer \cup {None}, Await(r, stage, f, s, change, p),
           stage # "delete" => s # None,
           stage = "save" /\ change = "push" => s # <<>> /\ Last(s).printer = p,
           stage = "save" /\ change = "element" => On(s, p),
           db' \in [Floor -> MaybeFloor], \A g \in Floor \ {f} : db'[g] = db[g],
           unused' \in SUBSET Floor, cache' = cache, known' = known,
           f \notin suspect' => Holds(r, f)'
    PROVE  FloorInv'
<1>1. CoreOK /\ AllFit /\ AllClear
  BY DEF FloorInv
<1>2. stage \in Stage
  BY DEF Stage
<1>3. /\ req' \in [Request -> Waiting]
      /\ req'[r].stage = stage /\ req'[r].fs = {f} /\ req'[r].docs[f] = s
      /\ req'[r].change = change /\ req'[r].printer = p
      /\ \A x \in Request \ {r} : req'[x] = req[x]
  BY <1>1, <1>2, AwaitFacts
<1>4. suspect' \in SUBSET Floor /\ suspect \in SUBSET suspect'
  BY <1>1, JoinFacts
<1>5. CoreOK'
  BY <1>1, <1>3, <1>4 DEF CoreOK
<1>6. AllFit'
  <2>1. Fits(r)'
    BY <1>3 DEF Fits
  <2>2. \A x \in Request \ {r} : Fits(x)'
    BY <1>1, <1>3 DEF AllFit, Fits
  <2>3. QED
    BY <2>1, <2>2 DEF AllFit
<1>7. AllClear'
  <2>1. ASSUME f \notin suspect' PROVE Clear(f)'
    <3>1. \A x \in Request \ {r} : f \notin req'[x].fs
      BY <1>3, <2>1, JoinedAlone
    <3>2. QED
      BY <1>3, <2>1, <3>1, OneAbout
  <2>2. ASSUME NEW g \in Floor \ {f}, g \notin suspect' PROVE Clear(g)'
    <3>1. \A x \in Request : g \in req[x].fs \/ g \in req'[x].fs => req'[x] = req[x]
      BY <1>1, <1>3 DEF AllFit, Fits
    <3>2. Clear(g) /\ cache'[g] = cache[g]
      BY <1>1, <1>4, <2>2 DEF AllClear
    <3>3. QED
      BY <3>1, <3>2, Untouched
  <2>3. QED
    BY <2>1, <2>2 DEF AllClear
<1>8. QED
  BY <1>5, <1>6, <1>7 DEF FloorInv

LEMMA JoinedAll ==
    ASSUME FloorInv, NEW r \in Request, req[r].stage = "idle", Join(r, Floor),
           NEW stage \in {"pull", "list"}, NEW p \in Printer \cup {None}, AwaitAll(r, stage, NoDocs, p),
           db' = db, unused' = unused, cache' = cache, known' \in SUBSET Printer,
           \A f \in Floor \ suspect' : Holds(r, f)'
    PROVE  FloorInv'
<1>1. CoreOK /\ AllFit /\ AllClear
  BY DEF FloorInv
<1>2. stage \in Stage
  BY DEF Stage
<1>3. /\ req' \in [Request -> Waiting] /\ req'[r].stage = stage /\ req'[r].fs = Floor
      /\ \A x \in Request \ {r} : req'[x] = req[x]
  BY <1>1, <1>2, AwaitAllFacts, NoDocsType
<1>4. suspect' \in SUBSET Floor
  BY <1>1, JoinFacts
<1>5. CoreOK'
  BY <1>1, <1>3, <1>4 DEF CoreOK
<1>6. AllFit'
  <2>1. Fits(r)'
    BY <1>3 DEF Fits
  <2>2. \A x \in Request \ {r} : Fits(x)'
    BY <1>1, <1>3 DEF AllFit, Fits
  <2>3. QED
    BY <2>1, <2>2 DEF AllFit
<1>7. AllClear'
  <2>1. ASSUME NEW f \in Floor, f \notin suspect' PROVE Clear(f)'
    <3>1. \A x \in Request \ {r} : f \notin req'[x].fs
      BY <1>3, <2>1, JoinedAlone
    <3>2. QED
      BY <1>3, <2>1, <3>1, OneAbout
  <2>2. QED
    BY <2>1 DEF AllClear
<1>8. QED
  BY <1>5, <1>6, <1>7 DEF FloorInv

\* Other requests wait on, or lose the version they have read.
WaitsOn(x, f) ==
    \/ req'[x] = req[x]
    \/ /\ f \in req[x].fs /\ f \in req'[x].fs /\ Fits(x)'
       /\ req'[x].fs = req[x].fs /\ req'[x].stage = "save"

\* What a step of r has to see to
LeavesClear(r, f) ==
    /\ f \in req'[r].fs => Holds(r, f)'
    /\ f \notin req'[r].fs => cache'[f] = db'[f]

\* A request about one floor takes a step or ends.
LEMMA OneStep ==
    ASSUME FloorInv, NEW r \in Request, NEW f \in Floor, req[r].fs = {f},
           req' \in [Request -> Waiting], req'[r].fs = {f} \/ req'[r].fs = {}, Fits(r)',
           \A x \in Request \ {r} : WaitsOn(x, f),
           db' \in [Floor -> MaybeFloor], \A g \in Floor \ {f} : db'[g] = db[g],
           cache' \in [Floor -> MaybeFloor], \A g \in Floor \ {f} : cache'[g] = cache[g],
           unused' = unused, known' = known, suspect' = suspect,
           Clear(f) => LeavesClear(r, f)
    PROVE  FloorInv'
<1>1. CoreOK /\ AllFit /\ AllClear
  BY DEF FloorInv
<1>2. CoreOK'
  BY <1>1 DEF CoreOK
<1>3. AllFit'
  <2>1. \A x \in Request \ {r} : Fits(x)'
    BY <1>1 DEF AllFit, Fits, WaitsOn
  <2>2. QED
    BY <2>1 DEF AllFit
<1>4. AllClear'
  <2>1. ASSUME f \notin suspect' PROVE Clear(f)'
    <3>1. Clear(f)
      BY <1>1, <2>1 DEF AllClear
    <3>2. \A x \in Request \ {r} : f \notin req'[x].fs
      BY <3>1 DEF Clear, WaitsOn
    <3>3. QED
      BY <2>1, <3>1, <3>2, OneAbout DEF LeavesClear
  <2>2. ASSUME NEW g \in Floor \ {f}, g \notin suspect' PROVE Clear(g)'
    <3>1. Clear(g)
      BY <1>1, <2>2 DEF AllClear
    <3>2. ASSUME NEW x \in Request, g \in req[x].fs \/ g \in req'[x].fs PROVE req'[x] = req[x]
      <4>1. x # r
        BY <2>2, <3>2
      <4>2. ASSUME f \in req[x].fs, req'[x].fs = req[x].fs, req'[x].stage = "save", Fits(x)' PROVE FALSE
        <5>1. \E h \in Floor : req'[x].fs = {h}
          BY <4>2 DEF Fits
        <5>2. QED
          BY <2>2, <3>2, <4>2, <5>1
      <4>3. QED
        BY <4>1, <4>2 DEF WaitsOn
    <3>3. QED
      BY <3>1, <3>2, Untouched
  <2>3. QED
    BY <2>1, <2>2 DEF AllClear
<1>5. QED
  BY <1>2, <1>3, <1>4 DEF FloorInv

\* A request about all floors takes a step or ends.
LEMMA AllStep ==
    ASSUME FloorInv, NEW r \in Request, req[r].fs = Floor,
           req' \in [Request -> Waiting], Fits(r)', \A x \in Request \ {r} : req'[x] = req[x],
           db' \in [Floor -> MaybeFloor], cache' \in [Floor -> MaybeFloor],
           unused' \in SUBSET Floor, known' = known, suspect' = suspect,
           \A f \in Floor : Clear(f) => LeavesClear(r, f)
    PROVE  FloorInv'
<1>1. CoreOK /\ AllFit /\ AllClear
  BY DEF FloorInv
<1>2. CoreOK'
  BY <1>1 DEF CoreOK
<1>3. AllFit'
  <2>1. \A x \in Request \ {r} : Fits(x)'
    BY <1>1 DEF AllFit, Fits
  <2>2. QED
    BY <2>1 DEF AllFit
<1>4. AllClear'
  <2>1. ASSUME NEW f \in Floor, f \notin suspect' PROVE Clear(f)'
    <3>1. Clear(f)
      BY <1>1, <2>1 DEF AllClear
    <3>2. \A x \in Request \ {r} : f \notin req'[x].fs
      BY <3>1 DEF Clear
    <3>3. QED
      BY <2>1, <3>1, <3>2, OneAbout DEF LeavesClear
  <2>2. QED
    BY <2>1 DEF AllClear
<1>5. QED
  BY <1>2, <1>3, <1>4 DEF FloorInv

LEMMA DocumentType ==
    /\ \A s \in MaybeFloor : s # None => s \in Seq(Position)
    /\ None \in MaybeFloor /\ \A s \in Seq(Position) : s \in MaybeFloor /\ s # None
    /\ \A pos \in Position : pos.printer \in Printer
    /\ None \notin Printer
BY SeqOfPositions, NoneAssumption DEF MaybeFloor, Position

\* What a floor is created with is a list of positions.
LEMMA GivenType == \A given \in Given : given \in Seq(Position)
BY DEF Given

LEMMA AddPrinterStep ==
    ASSUME FloorInv, NEW r \in Request, NEW f \in Floor, NEW pos \in Position, NEW text \in BOOLEAN,
           AddPrinter(r, f, pos, text)
    PROVE  FloorInv'
<1> DEFINE t == Placed(db[f], pos, text)
           change == PlacedHow(db[f], pos, text)
           p == pos.printer
<1>1. CoreOK /\ req[r].stage = "idle"
  BY DEF FloorInv, AddPrinter, Asked
<1>2. /\ db[f] # None /\ p \in known /\ Join(r, {f})
      /\ Await(r, "save", f, t, change, p)
      /\ db' = db /\ unused' = unused /\ cache' = cache /\ known' = known
  BY DEF AddPrinter, Exists
<1>3. db[f] \in Seq(Position) /\ db \in [Floor -> MaybeFloor] /\ unused \in SUBSET Floor /\ p \in Printer
  BY <1>1, <1>2, DocumentType DEF CoreOK
<1>4. t \in Seq(Position) /\ t # <<>> /\ On(t, p)
  BY <1>3, PlacedProperties
<1>5. /\ change \in Change /\ Written(db[f], t, change, p) = t
      /\ change = "push" => Last(t).printer = p
  BY <1>3, PlacedHowProperties DEF Change
<1> HIDE DEF t, change, p
<1>6. ASSUME f \notin suspect' PROVE Holds(r, f)'
  <2>1. cache[f] = db[f]
    BY <1>1, <1>2, <1>6, JoinedAlone
  <2>2. /\ req'[r].stage = "save" /\ req'[r].docs[f] = t
        /\ req'[r].change = change /\ req'[r].printer = p
    BY <1>1, <1>2, <1>3, <1>4, <1>5, DocumentType, AwaitFacts DEF Stage
  <2>3. QED
    BY <1>2, <1>5, <2>1, <2>2 DEF Holds
<1>7. t \in MaybeFloor /\ p \in Printer \cup {None} /\ t # None
  BY <1>3, <1>4, DocumentType
<1>8. QED
  BY <1>1, <1>2, <1>3, <1>4, <1>5, <1>6, <1>7, JoinedOne

LEMMA RemovePrinterStep ==
    ASSUME FloorInv, NEW r \in Request, NEW f \in Floor, NEW p \in Printer, RemovePrinter(r, f, p)
    PROVE  FloorInv'
<1> DEFINE n == FirstOf(db[f], p)
           t == RemoveAt(db[f], n)
<1>1. CoreOK /\ req[r].stage = "idle"
  BY DEF FloorInv, RemovePrinter, Asked
<1>2. /\ db[f] # None /\ Join(r, {f})
      /\ db' = db /\ unused' = unused /\ cache' = cache /\ known' = known
  BY DEF RemovePrinter
<1>3. db[f] \in Seq(Position) /\ db[f] \in MaybeFloor
      /\ db \in [Floor -> MaybeFloor] /\ unused \in SUBSET Floor
  BY <1>1, <1>2, DocumentType DEF CoreOK
<1>4. f \notin suspect' => cache[f] = db[f]
  BY <1>1, <1>2, JoinedAlone
<1>5. CASE On(db[f], p)
  <2>1. Await(r, "save", f, t, "whole", p)
    BY <1>5 DEF RemovePrinter
  <2>2. n \in 1..Len(db[f])
    BY <1>3, <1>5, FirstOfExists
  <2>3. t \in Seq(Position)
    BY <1>3, <2>2, RemoveAtProperties
  <2> HIDE DEF t
  <2>4. t \in MaybeFloor /\ t # None /\ Written(db[f], t, "whole", p) = t
    BY <2>3, DocumentType DEF Written
  <2>5. ASSUME f \notin suspect' PROVE Holds(r, f)'
    <3>1. /\ req'[r].stage = "save" /\ req'[r].docs[f] = t
          /\ req'[r].change = "whole" /\ req'[r].printer = p
      BY <1>1, <2>1, <2>4, AwaitFacts DEF Stage, Change
    <3>2. QED
      BY <1>2, <1>4, <2>4, <2>5, <3>1 DEF Holds
  <2>6. QED
    BY <1>1, <1>2, <1>3, <2>1, <2>4, <2>5, JoinedOne DEF Change
<1>6. CASE ~On(db[f], p)
  <2>1. Await(r, "reply", f, db[f], "none", p)
    BY <1>6 DEF RemovePrinter
  <2>2. ASSUME f \notin suspect' PROVE Holds(r, f)'
    <3>1. req'[r].stage = "reply" /\ req'[r].docs[f] = db[f]
      BY <1>1, <1>3, <2>1, AwaitFacts DEF Stage, Change
    <3>2. QED
      BY <1>2, <1>4, <2>2, <3>1 DEF Holds
  <2>3. QED
    BY <1>1, <1>2, <1>3, <2>1, <2>2, JoinedOne DEF Change
<1>7. QED
  BY <1>5, <1>6

\* The requests that hold the document as it is stored
LEMMA AsStored ==
    ASSUME FloorInv, NEW r \in Request, req[r].stage = "idle", NEW f \in Floor, Join(r, {f}),
           db[f] # None, NEW stage \in {"save", "reply"}, Await(r, stage, f, db[f], "none", None),
           db' = db, unused' = unused, cache' = cache, known' = known
    PROVE  FloorInv'
<1>1. CoreOK /\ stage \in Stage
  BY DEF FloorInv, Stage
<1>2. db[f] \in MaybeFloor /\ db \in [Floor -> MaybeFloor] /\ unused \in SUBSET Floor
  BY <1>1 DEF CoreOK
<1>3. Written(db[f], db[f], "none", None) = db[f]
  BY DEF Written
<1>4. ASSUME f \notin suspect' PROVE Holds(r, f)'
  <2>1. cache[f] = db[f]
    BY <1>1, <1>4, JoinedAlone
  <2>2. /\ req'[r].stage = stage /\ req'[r].docs[f] = db[f]
        /\ req'[r].change = "none" /\ req'[r].printer = None
    BY <1>1, <1>2, AwaitFacts DEF Change
  <2>3. QED
    BY <1>3, <2>1, <2>2 DEF Holds
<1>5. QED
  BY <1>1, <1>2, <1>4, JoinedOne DEF Change

LEMMA CreateStep ==
    ASSUME FloorInv, NEW r \in Request, NEW f \in Floor, NEW given \in Given, Create(r, f, given)
    PROVE  FloorInv'
<1>1. CoreOK /\ req[r].stage = "idle"
  BY DEF FloorInv, Create, Asked
<1>2. /\ unused' = unused \ {f} /\ db' = [db EXCEPT ![f] = given] /\ Join(r, {f})
      /\ Await(r, "reply", f, given, "none", None) /\ cache' = cache /\ known' = known
  BY DEF Create
<1>3. given \in Seq(Position) /\ given \in MaybeFloor /\ given # None
  BY GivenType, DocumentType
<1>4. /\ db' \in [Floor -> MaybeFloor] /\ unused' \in SUBSET Floor
      /\ db'[f] = given /\ \A g \in Floor \ {f} : db'[g] = db[g]
  BY <1>1, <1>2, <1>3 DEF CoreOK
<1>5. req'[r].stage = "reply" /\ req'[r].docs[f] = given
  BY <1>1, <1>2, <1>3, AwaitFacts DEF Stage, Change
<1>6. Holds(r, f)'
  BY <1>2, <1>4, <1>5 DEF Holds
<1>7. QED
  BY <1>1, <1>2, <1>3, <1>4, <1>6, JoinedOne DEF Change

LEMMA DeleteStep ==
    ASSUME FloorInv, NEW r \in Request, NEW f \in Floor, Delete(r, f)
    PROVE  FloorInv'
<1>1. CoreOK /\ req[r].stage = "idle"
  BY DEF FloorInv, Delete, Asked
<1>2. /\ Join(r, {f}) /\ Await(r, "delete", f, None, "none", None)
      /\ db' = db /\ unused' = unused /\ cache' = cache /\ known' = known
  BY DEF Delete
<1>3. db \in [Floor -> MaybeFloor] /\ unused \in SUBSET Floor /\ None \in MaybeFloor
  BY <1>1, DocumentType DEF CoreOK
<1>4. ASSUME f \notin suspect' PROVE Holds(r, f)'
  <2>1. cache[f] = db[f]
    BY <1>1, <1>2, <1>4, JoinedAlone
  <2>2. req'[r].stage = "delete"
    BY <1>1, <1>2, <1>3, AwaitFacts DEF Stage, Change
  <2>3. QED
    BY <1>2, <2>1, <2>2 DEF Holds
<1>5. QED
  BY <1>1, <1>2, <1>3, <1>4, JoinedOne DEF Change

LEMMA SaveStep ==
    ASSUME FloorInv, NEW r \in Request, NEW f \in Floor, Save(r, f)
    PROVE  FloorInv'
<1> DEFINE q == req[r]
           w == Written(db[f], q.docs[f], q.change, q.printer)
<1>1. CoreOK /\ AllFit /\ req \in [Request -> Waiting]
  BY ReqType DEF FloorInv
<1>2. /\ q.stage = "save" /\ q.fs = {f} /\ q.docs[f] # None
      /\ q.change = "push" => q.docs[f] # <<>>
      /\ q.change = "element" => On(q.docs[f], q.printer)
  BY <1>1 DEF Save, AllFit, Fits
<1>3. /\ unused' = unused /\ cache' = cache /\ known' = known /\ suspect' = suspect
      /\ cache \in [Floor -> MaybeFloor] /\ db \in [Floor -> MaybeFloor]
  BY <1>1 DEF Save, CoreOK
<1>4. CASE db[f] = None \/ (Checked(q.change) /\ ~q.same)
  <2>1. Finish(r) /\ db' = db
    BY <1>4 DEF Save
  <2>2. /\ req' \in [Request -> Waiting] /\ req'[r].stage = "idle" /\ req'[r].fs = {}
        /\ \A x \in Request \ {r} : req'[x] = req[x]
    BY <1>1, <2>1, FinishFacts
  <2>3. Fits(r)'
    BY <2>2 DEF Fits
  <2>4. Clear(f) => LeavesClear(r, f)
    BY <1>2, <1>3, <2>1, <2>2 DEF Clear, Holds, LeavesClear
  <2>5. \A x \in Request \ {r} : WaitsOn(x, f)
    BY <2>2 DEF WaitsOn
  <2>6. QED
    BY <1>2, <1>3, <2>1, <2>2, <2>3, <2>4, <2>5, OneStep
<1>5. CASE ~(db[f] = None \/ (Checked(q.change) /\ ~q.same))
  <2> DEFINE saved == [q EXCEPT !.stage = "reply"]
             other(x) == IF req[x].stage = "save" /\ f \in req[x].fs /\ Bumped(q.change)
                         THEN [req[x] EXCEPT !.same = FALSE]
                         ELSE req[x]
  <2>1. db' = [db EXCEPT ![f] = w] /\ req' = [x \in Request |-> IF x = r THEN saved ELSE other(x)]
    BY <1>5 DEF Save
  <2>2. saved \in Waiting /\ saved.stage = "reply" /\ saved.fs = {f} /\ saved.docs = q.docs
    BY <1>1, <1>2 DEF Waiting, Stage
  <2>3. ASSUME NEW x \in Request \ {r}
        PROVE  /\ other(x) \in Waiting
               /\ \/ other(x) = req[x]
                  \/ /\ f \in req[x].fs /\ req[x].stage = "save"
                     /\ other(x).stage = req[x].stage /\ other(x).fs = req[x].fs
                     /\ other(x).docs = req[x].docs /\ other(x).change = req[x].change
                     /\ other(x).printer = req[x].printer
    BY <1>1 DEF Waiting
  <2> HIDE DEF saved, other
  <2>4. req'[r] = saved /\ \A x \in Request \ {r} : req'[x] = other(x)
    BY <2>1
  <2>5. req' \in [Request -> Waiting]
    BY <2>1, <2>2, <2>3
  <2>6. Fits(r)'
    BY <1>2, <2>2, <2>4 DEF Fits
  <2>7. ASSUME NEW x \in Request \ {r}
        PROVE  WaitsOn(x, f)
    <3>1. Fits(x)
      BY <1>1 DEF AllFit
    <3>2. QED
      BY <2>3, <2>4, <2>7, <3>1 DEF Fits, WaitsOn
  <2>8. w \in Seq(Position)
    <3>1. db[f] \in Seq(Position) /\ q.docs[f] \in Seq(Position) /\ q.change \in Change
      BY <1>1, <1>2, <1>3, <1>5, DocumentType DEF Waiting
    <3>2. QED
      BY <1>2, <3>1, WrittenType
  <2> HIDE DEF w
  <2>9. db' \in [Floor -> MaybeFloor] /\ db'[f] = w /\ \A g \in Floor \ {f} : db'[g] = db[g]
    BY <1>3, <2>1, <2>8, DocumentType
  <2>10. ASSUME Clear(f)
         PROVE  LeavesClear(r, f)
    <3>1. w = q.docs[f]
      BY <1>2, <2>10 DEF Clear, Holds, w
    <3>2. QED
      BY <1>3, <2>2, <2>4, <2>9, <3>1 DEF Holds, LeavesClear
  <2>11. req'[r].fs = {f}
    BY <2>2, <2>4
  <2>12. QED
    BY <1>2, <1>3, <2>5, <2>6, <2>7, <2>9, <2>10, <2>11, OneStep
<1>6. QED
  BY <1>4, <1>5

\* A request about one floor ends.
LEMMA Ending ==
    ASSUME FloorInv, NEW r \in Request, NEW f \in Floor, req[r].fs = {f}, Finish(r),
           db' = db, unused' = unused, known' = known, suspect' = suspect,
           cache' \in [Floor -> MaybeFloor], \A g \in Floor \ {f} : cache'[g] = cache[g],
           Clear(f) => cache'[f] = db[f]
    PROVE  FloorInv'
<1>1. CoreOK /\ db \in [Floor -> MaybeFloor]
  BY DEF FloorInv, CoreOK
<1>2. /\ req' \in [Request -> Waiting] /\ req'[r].stage = "idle" /\ req'[r].fs = {}
      /\ \A x \in Request \ {r} : req'[x] = req[x]
  BY <1>1, FinishFacts
<1>3. Fits(r)'
  BY <1>2 DEF Fits
<1>4. Clear(f) => LeavesClear(r, f)
  BY <1>2 DEF Clear, LeavesClear
<1>5. \A x \in Request \ {r} : WaitsOn(x, f)
  BY <1>2 DEF WaitsOn
<1>6. QED
  BY <1>1, <1>2, <1>3, <1>4, <1>5, OneStep

LEMMA RefusedStep ==
    ASSUME FloorInv, NEW r \in Request, Refused(r)
    PROVE  FloorInv'
<1>1. Finish(r) /\ req[r].stage = "save" /\ UNCHANGED <<db, unused, cache, known, suspect>>
  BY DEF Refused, history
<1>2. PICK f \in Floor : req[r].fs = {f}
  BY <1>1 DEF FloorInv, AllFit, Fits
<1>3. Clear(f) => cache[f] = db[f]
  BY <1>1, <1>2 DEF Clear, Holds
<1>4. cache \in [Floor -> MaybeFloor]
  BY DEF FloorInv, CoreOK
<1>5. QED
  BY <1>1, <1>2, <1>3, <1>4, Ending

LEMMA ReplyStep ==
    ASSUME FloorInv, NEW r \in Request, NEW f \in Floor, Reply(r, f)
    PROVE  FloorInv'
<1>1. /\ req[r].stage = "reply" /\ f \in req[r].fs /\ Finish(r)
      /\ cache' = [cache EXCEPT ![f] = req[r].docs[f]]
      /\ db' = db /\ unused' = unused /\ known' = known /\ suspect' = suspect
  BY DEF Reply, history
<1>2. req[r].fs = {f}
  BY <1>1 DEF FloorInv, AllFit, Fits
<1>3. cache \in [Floor -> MaybeFloor] /\ req[r].docs[f] \in MaybeFloor
  BY ReqType DEF FloorInv, CoreOK, Waiting
<1>4. /\ cache' \in [Floor -> MaybeFloor] /\ cache'[f] = req[r].docs[f]
      /\ \A g \in Floor \ {f} : cache'[g] = cache[g]
  BY <1>1, <1>3
<1>5. Clear(f) => cache'[f] = db[f]
  BY <1>1, <1>2, <1>4 DEF Clear, Holds
<1>6. QED
  BY <1>1, <1>2, <1>4, <1>5, Ending

LEMMA ForgetStep ==
    ASSUME FloorInv, NEW r \in Request, NEW f \in Floor, Forget(r, f)
    PROVE  FloorInv'
<1>1. /\ req[r].stage = "deleted" /\ f \in req[r].fs /\ Finish(r)
      /\ cache' = [cache EXCEPT ![f] = None]
      /\ db' = db /\ unused' = unused /\ known' = known /\ suspect' = suspect
  BY DEF Forget, history
<1>2. req[r].fs = {f}
  BY <1>1 DEF FloorInv, AllFit, Fits
<1>3. cache \in [Floor -> MaybeFloor]
  BY DEF FloorInv, CoreOK
<1>4. /\ cache' \in [Floor -> MaybeFloor] /\ cache'[f] = None
      /\ \A g \in Floor \ {f} : cache'[g] = cache[g]
  BY <1>1, <1>3, DocumentType
<1>5. Clear(f) => cache'[f] = db[f]
  BY <1>1, <1>2, <1>4 DEF Clear, Holds
<1>6. QED
  BY <1>1, <1>2, <1>4, <1>5, Ending

LEMMA DeleteOneStep ==
    ASSUME FloorInv, NEW r \in Request, NEW f \in Floor, DeleteOne(r, f)
    PROVE  FloorInv'
<1>1. /\ req[r].stage = "delete" /\ f \in req[r].fs
      /\ db' = [db EXCEPT ![f] = None] /\ req' = [req EXCEPT ![r].stage = "deleted"]
      /\ unused' = unused /\ cache' = cache /\ known' = known /\ suspect' = suspect
  BY DEF DeleteOne, history
<1>2. req[r].fs = {f}
  BY <1>1 DEF FloorInv, AllFit, Fits
<1>3. /\ cache \in [Floor -> MaybeFloor] /\ db \in [Floor -> MaybeFloor]
      /\ req \in [Request -> Waiting]
  BY ReqType DEF FloorInv, CoreOK
<1>4. /\ db' \in [Floor -> MaybeFloor] /\ db'[f] = None /\ \A g \in Floor \ {f} : db'[g] = db[g]
  BY <1>1, <1>3, DocumentType
<1> DEFINE q == [req[r] EXCEPT !.stage = "deleted"]
<1>5. q \in Waiting /\ q.stage = "deleted" /\ q.fs = {f}
  BY <1>2, <1>3 DEF Waiting, Stage
<1>6. req' = [req EXCEPT ![r] = q]
  BY <1>1
<1> HIDE DEF q
<1>7. req' \in [Request -> Waiting] /\ req'[r] = q /\ \A x \in Request \ {r} : req'[x] = req[x]
  BY <1>3, <1>5, <1>6
<1>8. Fits(r)'
  BY <1>5, <1>7 DEF Fits
<1>9. LeavesClear(r, f)
  BY <1>4, <1>5, <1>7 DEF Holds, LeavesClear
<1>10. req'[r].fs = {f} /\ \A x \in Request \ {r} : WaitsOn(x, f)
  BY <1>5, <1>7 DEF WaitsOn
<1>11. QED
  BY <1>1, <1>2, <1>3, <1>4, <1>7, <1>8, <1>9, <1>10, OneStep

LEMMA ListCacheStep ==
    ASSUME FloorInv, NEW r \in Request, ListCache(r)
    PROVE  FloorInv'
<1>1. CoreOK /\ req[r].stage = "idle"
  BY DEF FloorInv, ListCache, Asked
<1>2. /\ cache = NoDocs /\ Join(r, Floor) /\ AwaitAll(r, "list", NoDocs, None)
      /\ db' = db /\ unused' = unused /\ cache' = cache /\ known' = known
  BY DEF ListCache
<1>3. req'[r].stage = "list" /\ known' \in SUBSET Printer
  BY <1>1, <1>2, AwaitAllFacts, NoDocsType DEF Stage, CoreOK
<1>4. ASSUME NEW f \in Floor \ suspect' PROVE Holds(r, f)'
  <2>1. cache[f] = db[f]
    BY <1>1, <1>2, <1>4, JoinedAlone
  <2>2. QED
    BY <1>2, <1>3, <2>1 DEF Holds
<1>5. QED
  BY <1>1, <1>2, <1>3, <1>4, JoinedAll

LEMMA DeletePrinterStep ==
    ASSUME FloorInv, NEW r \in Request, NEW p \in Printer, DeletePrinter(r, p)
    PROVE  FloorInv'
<1>1. CoreOK /\ req[r].stage = "idle"
  BY DEF FloorInv, DeletePrinter, Asked
<1>2. /\ known' = known \ {p} /\ Join(r, Floor) /\ AwaitAll(r, "pull", NoDocs, p)
      /\ db' = db /\ unused' = unused /\ cache' = cache
  BY DEF DeletePrinter
<1>3. req'[r].stage = "pull" /\ req'[r].printer = p /\ known' \in SUBSET Printer
  BY <1>1, <1>2, AwaitAllFacts, NoDocsType DEF Stage, CoreOK
<1>4. ASSUME NEW f \in Floor \ suspect' PROVE Holds(r, f)'
  <2>1. cache[f] = db[f]
    BY <1>1, <1>2, <1>4, JoinedAlone
  <2>2. QED
    BY <1>2, <1>3, <2>1 DEF Holds
<1>5. QED
  BY <1>1, <1>2, <1>3, <1>4, JoinedAll

\* What $pull leaves on every floor
LEMMA PulledFloors ==
    ASSUME CoreOK, NEW r \in Request, Pull(r)
    PROVE  /\ db' \in [Floor -> MaybeFloor]
           /\ \A f \in Floor : db[f] = None => db'[f] = None
           /\ \A f \in Floor : db[f] # None =>
                 /\ db[f] \in Seq(Position) /\ db'[f] \in Seq(Position) /\ db'[f] # None
                 /\ Within(db'[f], db[f]) /\ (OnePerPlace(db[f]) => OnePerPlace(db'[f]))
                 /\ \A m \in 1..Len(db'[f]) : db'[f][m].printer # req[r].printer
<1> DEFINE p == req[r].printer
<1>1. db' = [f \in Floor |-> IF db[f] = None THEN None ELSE Pulled(db[f], p)]
  BY DEF Pull
<1>2. db \in [Floor -> MaybeFloor]
  BY DEF CoreOK
<1> HIDE DEF p
<1>3. ASSUME NEW f \in Floor, db[f] # None
      PROVE  /\ db[f] \in Seq(Position) /\ db'[f] \in Seq(Position)
             /\ db'[f] \in MaybeFloor /\ db'[f] # None /\ Within(db'[f], db[f])
             /\ OnePerPlace(db[f]) => OnePerPlace(db'[f])
             /\ \A m \in 1..Len(db'[f]) : db'[f][m].printer # p
  <2>1. db'[f] = Pulled(db[f], p) /\ db[f] \in Seq(Position)
    BY <1>1, <1>2, <1>3, DocumentType
  <2>2. LET t == Pulled(db[f], p) IN
        /\ t \in Seq(Position) /\ Within(t, db[f]) /\ (OnePerPlace(db[f]) => OnePerPlace(t))
        /\ \A m \in 1..Len(t) : t[m].printer # p
    BY <2>1, PulledProperties
  <2> DEFINE t == Pulled(db[f], p)
  <2> HIDE DEF t
  <2>3. db'[f] = t /\ t \in Seq(Position) /\ Within(t, db[f]) /\ (OnePerPlace(db[f]) => OnePerPlace(t))
        /\ \A m \in 1..Len(t) : t[m].printer # p
    BY <2>1, <2>2 DEF t
  <2>4. t \in MaybeFloor /\ t # None
    BY <2>3, DocumentType
  <2>5. QED
    BY <2>1, <2>3, <2>4
<1>4. ASSUME NEW f \in Floor, db[f] = None PROVE db'[f] = None /\ db'[f] \in MaybeFloor
  BY <1>1, <1>4, DocumentType
<1>5. db' \in [Floor -> MaybeFloor]
  <2>1. \A f \in Floor : db'[f] \in MaybeFloor
    BY <1>3, <1>4
  <2>2. db' = [f \in Floor |-> db'[f]]
    BY <1>1
  <2>3. QED
    BY <2>1, <2>2
<1>6. QED
  BY <1>3, <1>4, <1>5 DEF p

LEMMA PullStep ==
    ASSUME FloorInv, NEW r \in Request, Pull(r)
    PROVE  FloorInv'
<1>1. CoreOK /\ req[r].fs = Floor
  BY DEF FloorInv, AllFit, Fits, Pull
<1>2. /\ req[r].stage = "pull" /\ AwaitAll(r, "list", NoDocs, None)
      /\ unused' = unused /\ cache' = cache /\ known' = known /\ suspect' = suspect
  BY DEF Pull
<1>3. /\ req' \in [Request -> Waiting] /\ req'[r].stage = "list" /\ req'[r].fs = Floor
      /\ \A x \in Request \ {r} : req'[x] = req[x]
  BY <1>1, <1>2, AwaitAllFacts, NoDocsType DEF Stage
<1>4. Fits(r)'
  BY <1>3 DEF Fits
<1>5. /\ unused' \in SUBSET Floor /\ cache' \in [Floor -> MaybeFloor]
      /\ db' \in [Floor -> MaybeFloor]
  BY <1>1, <1>2, PulledFloors DEF CoreOK
<1>6. ASSUME NEW f \in Floor, Clear(f)
      PROVE  LeavesClear(r, f)
  <2>1. cache[f] = db[f]
    BY <1>1, <1>2, <1>6 DEF Clear, Holds
  <2>2. db'[f] = None => db[f] = None
    BY <1>1, PulledFloors
  <2>3. QED
    BY <1>2, <1>3, <2>1, <2>2 DEF Holds, LeavesClear
<1>7. QED
  BY <1>1, <1>2, <1>3, <1>4, <1>5, <1>6, AllStep

LEMMA ListStep ==
    ASSUME FloorInv, NEW r \in Request, List(r)
    PROVE  FloorInv'
<1> DEFINE stage == IF db = NoDocs THEN "default" ELSE "load"
<1>1. CoreOK /\ req[r].fs = Floor
  BY DEF FloorInv, AllFit, Fits, List
<1>2. /\ req[r].stage = "list" /\ AwaitAll(r, stage, db, None)
      /\ db' = db /\ unused' = unused /\ cache' = cache /\ known' = known /\ suspect' = suspect
  BY DEF List, history
<1>3. /\ unused' \in SUBSET Floor /\ cache' \in [Floor -> MaybeFloor]
      /\ db \in [Floor -> MaybeFloor] /\ db' \in [Floor -> MaybeFloor]
  BY <1>1, <1>2 DEF CoreOK
<1>4. stage \in Stage /\ stage \in {"default", "load"} /\ (stage = "default" => db = NoDocs)
  BY DEF Stage
<1> HIDE DEF stage
<1>5. /\ req' \in [Request -> Waiting] /\ req'[r].stage = stage /\ req'[r].fs = Floor
      /\ req'[r].docs = db /\ \A x \in Request \ {r} : req'[x] = req[x]
  BY <1>1, <1>2, <1>3, <1>4, AwaitAllFacts
<1>6. Fits(r)'
  BY <1>4, <1>5 DEF Fits
<1>7. ASSUME NEW f \in Floor, Clear(f)
      PROVE  LeavesClear(r, f)
  <2>1. Holds(r, f)
    BY <1>1, <1>7 DEF Clear
  <2>2. (db[f] = None => cache[f] = None)
    BY <1>2, <2>1 DEF Holds
  <2>3. stage = "default" => db[f] = None
    BY <1>4, NoDocsType
  <2>4. QED
    BY <1>2, <1>4, <1>5, <2>1, <2>2, <2>3 DEF Holds, LeavesClear
<1>8. QED
  BY <1>1, <1>2, <1>3, <1>5, <1>6, <1>7, AllStep

LEMMA CreateDefaultStep ==
    ASSUME FloorInv, NEW r \in Request, CreateDefault(r)
    PROVE  FloorInv'
<1>1. CoreOK /\ req[r].fs = Floor /\ req[r].stage = "default"
  BY DEF FloorInv, AllFit, Fits, CreateDefault
<1>2. cache' = cache /\ known' = known /\ suspect' = suspect
  BY DEF CreateDefault, history
<1>3. /\ db \in [Floor -> MaybeFloor] /\ cache \in [Floor -> MaybeFloor]
      /\ unused \in SUBSET Floor
  BY <1>1 DEF CoreOK
<1>4. ASSUME NEW f \in Floor, Clear(f) PROVE db[f] = None /\ cache[f] = None
  <2>1. Holds(r, f)
    BY <1>1, <1>4 DEF Clear
  <2>2. QED
    BY <1>1, <2>1 DEF Holds
<1>5. ASSUME NEW g \in unused, unused' = unused \ {g}, db' = [db EXCEPT ![g] = <<>>],
             Await(r, "reply", g, <<>>, "none", None)
      PROVE  FloorInv'
  <2>1. <<>> \in Seq(Position) /\ <<>> \in MaybeFloor /\ <<>> # None /\ None \in MaybeFloor
    BY EmptySeq, DocumentType
  <2>2. g \in Floor
    BY <1>3
  <2>3. /\ req' \in [Request -> Waiting] /\ req'[r].stage = "reply" /\ req'[r].fs = {g}
        /\ req'[r].docs[g] = <<>> /\ \A x \in Request \ {r} : req'[x] = req[x]
    BY <1>1, <1>5, <2>1, <2>2, AwaitFacts DEF Stage, Change
  <2>4. Fits(r)'
    BY <2>1, <2>2, <2>3 DEF Fits
  <2>5. /\ db' \in [Floor -> MaybeFloor] /\ unused' \in SUBSET Floor /\ db'[g] = <<>>
        /\ \A f \in Floor \ {g} : db'[f] = db[f]
    BY <1>3, <1>5, <2>1, <2>2
  <2>6. Holds(r, g)'
    BY <1>2, <2>3, <2>5 DEF Holds
  <2>7. ASSUME NEW f \in Floor, Clear(f)
        PROVE  LeavesClear(r, f)
    <3>1. CASE f = g
      BY <2>3, <2>5, <2>6, <3>1 DEF LeavesClear
    <3>2. CASE f # g
      BY <1>2, <1>4, <2>3, <2>5, <2>7, <3>2 DEF LeavesClear
    <3>3. QED
      BY <3>1, <3>2
  <2>8. cache' \in [Floor -> MaybeFloor]
    BY <1>2, <1>3
  <2>9. QED
    BY <1>1, <1>2, <2>3, <2>4, <2>5, <2>7, <2>8, AllStep
<1>6. ASSUME Finish(r), db' = db, unused' = unused
      PROVE  FloorInv'
  <2>1. /\ req' \in [Request -> Waiting] /\ req'[r].stage = "idle" /\ req'[r].fs = {}
        /\ \A x \in Request \ {r} : req'[x] = req[x]
    BY <1>1, <1>6, FinishFacts
  <2>2. Fits(r)'
    BY <2>1 DEF Fits
  <2>3. ASSUME NEW f \in Floor, Clear(f)
        PROVE  LeavesClear(r, f)
    BY <1>2, <1>4, <1>6, <2>1, <2>3 DEF LeavesClear
  <2>4. db' \in [Floor -> MaybeFloor] /\ cache' \in [Floor -> MaybeFloor] /\ unused' \in SUBSET Floor
    BY <1>2, <1>3, <1>6
  <2>5. QED
    BY <1>1, <1>2, <2>1, <2>2, <2>3, <2>4, AllStep
<1>7. QED
  BY <1>5, <1>6 DEF CreateDefault

LEMMA LoadStep ==
    ASSUME FloorInv, NEW r \in Request, Load(r)
    PROVE  FloorInv'
<1>1. CoreOK /\ req[r].fs = Floor /\ req[r].stage = "load"
  BY DEF FloorInv, AllFit, Fits, Load
<1>2. /\ cache' = Overlaid(cache, req[r].docs) /\ Finish(r)
      /\ db' = db /\ unused' = unused /\ known' = known /\ suspect' = suspect
  BY DEF Load, history
<1>3. /\ req' \in [Request -> Waiting] /\ req'[r].stage = "idle" /\ req'[r].fs = {}
      /\ \A x \in Request \ {r} : req'[x] = req[x]
  BY <1>1, <1>2, FinishFacts
<1>4. Fits(r)'
  BY <1>3 DEF Fits
<1>5. /\ db \in [Floor -> MaybeFloor] /\ cache \in [Floor -> MaybeFloor] /\ unused \in SUBSET Floor
      /\ req[r].docs \in [Floor -> MaybeFloor]
  BY <1>1, ReqType DEF CoreOK, Waiting
<1>6. /\ cache' \in [Floor -> MaybeFloor]
      /\ \A f \in Floor : cache'[f] = IF req[r].docs[f] = None THEN cache[f] ELSE req[r].docs[f]
  BY <1>2, <1>5 DEF Overlaid
<1>7. ASSUME NEW f \in Floor, Clear(f)
      PROVE  LeavesClear(r, f)
  <2>1. Holds(r, f)
    BY <1>1, <1>7 DEF Clear
  <2>2. req[r].docs[f] = db[f] /\ (db[f] = None => cache[f] = None)
    BY <1>1, <2>1 DEF Holds
  <2>3. QED
    BY <1>2, <1>3, <1>6, <2>1, <2>2 DEF LeavesClear
<1>8. db' \in [Floor -> MaybeFloor] /\ unused' \in SUBSET Floor
  BY <1>2, <1>5
<1>9. QED
  BY <1>1, <1>2, <1>3, <1>4, <1>6, <1>7, <1>8, AllStep

LEMMA DeleteAllPrintersStep ==
    ASSUME FloorInv, DeleteAllPrinters
    PROVE  FloorInv'
<1>1. /\ known' = {} /\ db' = db /\ unused' = unused /\ cache' = cache /\ req' = req
      /\ suspect' = suspect
  BY DEF DeleteAllPrinters
<1>2. QED
  BY <1>1 DEF FloorInv, CoreOK, AllFit, AllClear, Fits, Clear, Holds, About

LEMMA RestartStep ==
    ASSUME FloorInv, Restart
    PROVE  FloorInv'
<1>1. CoreOK
  BY DEF FloorInv
<1>2. /\ cache' = db /\ db' = db /\ unused' = unused /\ known' = known
      /\ req' = [r \in Request |-> Idle] /\ suspect' = suspect
  BY DEF Restart
<1>3. req' \in [Request -> Waiting] /\ \A r \in Request : req'[r].stage = "idle" /\ req'[r].fs = {}
  BY <1>2, IdleType
<1>4. CoreOK'
  BY <1>1, <1>2, <1>3 DEF CoreOK
<1>5. AllFit'
  BY <1>3 DEF AllFit, Fits
<1>6. \A f \in Floor : Clear(f)'
  BY <1>2, <1>3 DEF Clear, About
<1>7. QED
  BY <1>4, <1>5, <1>6 DEF FloorInv, AllClear

-----------------------------------------------------------------------------
(* The theorems.                                                           *)

LEMMA FloorInvInit == Init => FloorInv
<1> SUFFICES ASSUME Init PROVE FloorInv
  OBVIOUS
<1>1. PICK fs \in SUBSET Floor : /\ db = [f \in Floor |-> IF f \in fs THEN <<>> ELSE None]
                                 /\ unused = Floor \ fs
  BY DEF Init
<1>2. cache = db /\ known = Printer /\ req = [r \in Request |-> Idle] /\ suspect = {}
  BY DEF Init
<1>3. <<>> \in Seq(Position) /\ <<>> \in MaybeFloor /\ <<>> # None /\ None \in MaybeFloor
  BY EmptySeq, DocumentType
<1>4. req \in [Request -> Waiting] /\ \A r \in Request : req[r].stage = "idle" /\ req[r].fs = {}
  BY <1>2, IdleType
<1>5. CoreOK
  BY <1>1, <1>2, <1>3, <1>4 DEF CoreOK
<1>6. AllFit
  BY <1>4 DEF AllFit, Fits
<1>7. \A f \in Floor : Clear(f)
  BY <1>2, <1>4 DEF Clear
<1>8. QED
  BY <1>5, <1>6, <1>7 DEF FloorInv, AllClear

LEMMA FloorInvStep == FloorInv /\ [Next]_vars => FloorInv'
<1> SUFFICES ASSUME FloorInv, [Next]_vars PROVE FloorInv'
  OBVIOUS
<1>1. ASSUME NEW r \in Request, RequestNext(r) PROVE FloorInv'
  <2>1. ASSUME NEW f \in Floor, NEW pos \in Position, NEW text \in BOOLEAN, AddPrinter(r, f, pos, text)
        PROVE  FloorInv'
    BY <2>1, AddPrinterStep
  <2>2. ASSUME NEW f \in Floor, NEW p \in Printer, RemovePrinter(r, f, p) PROVE FloorInv'
    BY <2>2, RemovePrinterStep
  <2>3. ASSUME NEW f \in Floor, Rename(r, f) PROVE FloorInv'
    BY <2>3, AsStored DEF Rename, Asked
  <2>4. ASSUME NEW f \in Floor, Save(r, f) PROVE FloorInv'
    BY <2>4, SaveStep
  <2>5. ASSUME NEW f \in Floor, Reply(r, f) PROVE FloorInv'
    BY <2>5, ReplyStep
  <2>6. ASSUME NEW f \in Floor, NEW given \in Given, Create(r, f, given) PROVE FloorInv'
    BY <2>6, CreateStep
  <2>7. ASSUME NEW f \in Floor, Delete(r, f) PROVE FloorInv'
    BY <2>7, DeleteStep
  <2>8. ASSUME NEW f \in Floor, DeleteOne(r, f) PROVE FloorInv'
    BY <2>8, DeleteOneStep
  <2>9. ASSUME NEW f \in Floor, Forget(r, f) PROVE FloorInv'
    BY <2>9, ForgetStep
  <2>10. ASSUME NEW f \in Floor, GetFloor(r, f) PROVE FloorInv'
    BY <2>10, AsStored DEF GetFloor, Asked
  <2>11. ASSUME NEW p \in Printer, DeletePrinter(r, p) PROVE FloorInv'
    BY <2>11, DeletePrinterStep
  <2>12. CASE Refused(r)
    BY <2>12, RefusedStep
  <2>13. CASE ListCache(r)
    BY <2>13, ListCacheStep
  <2>14. CASE Pull(r)
    BY <2>14, PullStep
  <2>15. CASE List(r)
    BY <2>15, ListStep
  <2>16. CASE CreateDefault(r)
    BY <2>16, CreateDefaultStep
  <2>17. CASE Load(r)
    BY <2>17, LoadStep
  <2>18. QED
    BY <1>1, <2>1, <2>2, <2>3, <2>4, <2>5, <2>6, <2>7, <2>8, <2>9, <2>10, <2>11, <2>12,
       <2>13, <2>14, <2>15, <2>16, <2>17 DEF RequestNext
<1>2. CASE DeleteAllPrinters
  BY <1>2, DeleteAllPrintersStep
<1>3. CASE Restart
  BY <1>3, RestartStep
<1>4. CASE UNCHANGED vars
  BY <1>4 DEF vars, FloorInv, CoreOK, AllFit, AllClear, Fits, Clear, Holds, About
<1>5. QED
  BY <1>1, <1>2, <1>3, <1>4 DEF Next

LEMMA FloorInvariance == Spec => []FloorInv
BY FloorInvInit, FloorInvStep, PTL DEF Spec

HistoryOK == clashing \in SUBSET Floor /\ orphaned \in SUBSET Floor /\ shifted \in SUBSET Floor

LEMMA HistoryStep ==
    ASSUME FloorInv, HistoryOK, [Next]_vars
    PROVE  HistoryOK'
<1>1. \A r \in Request : req[r].fs \in SUBSET Floor
  BY ReqType DEF FloorInv, Waiting
<1>2. ASSUME NEW r \in Request, RequestNext(r)
      PROVE  HistoryOK'
  <2>1. ASSUME NEW f \in Floor, NEW pos \in Position, NEW text \in BOOLEAN, AddPrinter(r, f, pos, text)
        PROVE  HistoryOK'
    BY <2>1 DEF AddPrinter, HistoryOK
  <2>2. ASSUME NEW f \in Floor, Save(r, f)
        PROVE  HistoryOK'
    BY <2>2 DEF Save, HistoryOK
  <2>3. ASSUME NEW f \in Floor, NEW given \in Given, Create(r, f, given)
        PROVE  HistoryOK'
    BY <2>3 DEF Create, HistoryOK
  <2>4. CASE Pull(r)
    BY <2>4 DEF Pull, HistoryOK
  <2>5. QED
    BY <1>2, <2>1, <2>2, <2>3, <2>4
       DEF RequestNext, RemovePrinter, Rename, Reply, Delete, DeleteOne, Forget, GetFloor,
           DeletePrinter, Refused, ListCache, List, CreateDefault, Load, history, HistoryOK
<1>3. CASE DeleteAllPrinters
  BY <1>1, <1>3 DEF DeleteAllPrinters, HistoryOK
<1>4. CASE Restart
  BY <1>4 DEF Restart, HistoryOK
<1>5. CASE UNCHANGED vars
  BY <1>5 DEF vars, HistoryOK
<1>6. QED
  BY <1>2, <1>3, <1>4, <1>5 DEF Next

\* Floors, the store's entries and the documents requests hold are lists of positions
\* or nothing.
THEOREM TypeCorrect == Spec => []TypeOK
<1>1. Init => HistoryOK
  BY DEF Init, HistoryOK
<1>2. FloorInv /\ HistoryOK /\ [Next]_vars => HistoryOK'
  BY HistoryStep
<1>3. FloorInv /\ HistoryOK => TypeOK
  BY DEF FloorInv, CoreOK, TypeOK, Waiting, HistoryOK
<1>4. QED
  BY <1>1, <1>2, <1>3, FloorInvariance, PTL DEF Spec

\* FloorStore has what the database has of a floor that no request is about, unless two
\* requests about it have overlapped.
THEOREM StoreFollowsDb == Spec => []StoreIsDb
<1>1. FloorInv => StoreIsDb
  BY DEF FloorInv, AllClear, Clear, StoreIsDb
<1>2. QED
  BY <1>1, FloorInvariance, PTL

-----------------------------------------------------------------------------
(* One printer a place, one place a printer.                               *)

\* So it is in the documents that wait to be saved, too.
Placing(r, f) == LET q == req[r] IN q.stage = "save" /\ q.change # "none" /\ f \in q.fs

PlacesInv ==
    \A f \in Floor \ clashing :
        /\ db[f] = None \/ OnePerPlace(db[f])
        /\ \A r \in Request : Placing(r, f) => OnePerPlace(req[r].docs[f])

\* The other requests wait on; only the version they have read may be lost.
Alike(x) ==
    /\ req'[x].stage = req[x].stage /\ req'[x].fs = req[x].fs /\ req'[x].docs = req[x].docs
    /\ req'[x].change = req[x].change /\ req'[x].printer = req[x].printer

LEMMA AwaitAlike ==
    ASSUME FloorInv, NEW r \in Request, NEW stage \in Stage, NEW f \in Floor, NEW s \in MaybeFloor,
           NEW change \in Change, NEW p \in Printer \cup {None}, Await(r, stage, f, s, change, p)
    PROVE  /\ \A x \in Request \ {r} : Alike(x)
           /\ req'[r].stage = stage /\ req'[r].fs = {f} /\ req'[r].docs[f] = s
           /\ req'[r].change = change /\ req'[r].printer = p
BY AwaitFacts DEF FloorInv, Alike

LEMMA AwaitAllAlike ==
    ASSUME FloorInv, NEW r \in Request, NEW stage \in Stage, NEW docs \in [Floor -> MaybeFloor],
           NEW p \in Printer \cup {None}, AwaitAll(r, stage, docs, p)
    PROVE  /\ \A x \in Request \ {r} : Alike(x)
           /\ req'[r].stage = stage /\ req'[r].change = "none" /\ req'[r].printer = p
BY AwaitAllFacts DEF FloorInv, Alike

LEMMA FinishAlike ==
    ASSUME FloorInv, NEW r \in Request, Finish(r)
    PROVE  req'[r].stage = "idle" /\ \A x \in Request \ {r} : Alike(x)
BY FinishFacts DEF FloorInv, Alike

LEMMA PlacesKept ==
    ASSUME PlacesInv, NEW r \in Request, clashing \in SUBSET clashing',
           \A x \in Request \ {r} : Alike(x),
           \A f \in Floor \ clashing' : db'[f] = db[f] \/ db'[f] = None \/ OnePerPlace(db'[f]),
           \A f \in Floor \ clashing' : Placing(r, f)' => OnePerPlace(req'[r].docs[f])
    PROVE  PlacesInv'
<1> SUFFICES ASSUME NEW f \in Floor \ clashing'
             PROVE  /\ db'[f] = None \/ OnePerPlace(db'[f])
                    /\ \A x \in Request : Placing(x, f)' => OnePerPlace(req'[x].docs[f])
  BY DEF PlacesInv
<1>1. f \in Floor \ clashing
  OBVIOUS
<1>2. db'[f] = None \/ OnePerPlace(db'[f])
  BY <1>1 DEF PlacesInv
<1>3. ASSUME NEW x \in Request \ {r}, Placing(x, f)' PROVE OnePerPlace(req'[x].docs[f])
  <2>1. Placing(x, f) /\ req'[x].docs = req[x].docs
    BY <1>3 DEF Placing, Alike
  <2>2. QED
    BY <1>1, <2>1 DEF PlacesInv
<1>4. QED
  BY <1>2, <1>3

\* Steps that write no positions
LEMMA PlacesUntouched ==
    ASSUME PlacesInv, NEW r \in Request, clashing' = clashing,
           \A x \in Request \ {r} : Alike(x),
           req'[r].stage # "save" \/ req'[r].change = "none",
           \A f \in Floor : db'[f] = db[f] \/ db'[f] = None
    PROVE  PlacesInv'
BY PlacesKept DEF Placing

LEMMA EmptyFloor == <<>> \in Seq(Position) /\ <<>> \in MaybeFloor /\ OnePerPlace(<<>>)
                    /\ DOMAIN <<>> = {}
<1>1. <<>> \in Seq(Position) /\ Len(<<>>) = 0
  BY EmptySeq
<1>2. DOMAIN <<>> = {}
  BY <1>1, SeqOfPositions
<1>3. QED
  BY <1>1, <1>2, DocumentType DEF OnePerPlace

LEMMA AddPlaces ==
    ASSUME FloorInv, PlacesInv, NEW r \in Request, NEW f \in Floor, NEW pos \in Position,
           NEW text \in BOOLEAN, AddPrinter(r, f, pos, text)
    PROVE  PlacesInv'
<1> DEFINE t == Placed(db[f], pos, text)
           change == PlacedHow(db[f], pos, text)
           p == pos.printer
<1>1. /\ db[f] # None /\ Await(r, "save", f, t, change, p) /\ db' = db
      /\ clashing' = IF text /\ Taken(db[f], pos) THEN clashing \cup {f} ELSE clashing
  BY DEF AddPrinter
<1>2. db[f] \in Seq(Position) /\ p \in Printer \cup {None}
  BY <1>1, DocumentType DEF FloorInv, CoreOK
<1>3. t \in Seq(Position) /\ (OnePerPlace(db[f]) /\ ~(text /\ Taken(db[f], pos)) => OnePerPlace(t))
  BY <1>2, PlacedProperties
<1>4. change \in Change /\ t \in MaybeFloor /\ "save" \in Stage
  BY <1>2, <1>3, PlacedHowProperties, DocumentType DEF Change, Stage
<1> HIDE DEF t, change, p
<1>5. (\A x \in Request \ {r} : Alike(x)) /\ req'[r].fs = {f} /\ req'[r].docs[f] = t
  BY <1>1, <1>2, <1>4, AwaitAlike
<1>6. ASSUME NEW g \in Floor \ clashing', Placing(r, g)' PROVE OnePerPlace(req'[r].docs[g])
  <2>1. g = f /\ ~(text /\ Taken(db[f], pos)) /\ f \notin clashing
    BY <1>1, <1>5, <1>6 DEF Placing
  <2>2. OnePerPlace(db[f])
    BY <1>1, <2>1 DEF PlacesInv
  <2>3. QED
    BY <1>3, <1>5, <2>1, <2>2
<1>7. clashing \in SUBSET clashing' /\ \A g \in Floor : db'[g] = db[g]
  BY <1>1
<1>8. QED
  BY <1>5, <1>6, <1>7, PlacesKept

LEMMA RemovePlaces ==
    ASSUME FloorInv, PlacesInv, NEW r \in Request, NEW f \in Floor, NEW p \in Printer,
           RemovePrinter(r, f, p)
    PROVE  PlacesInv'
<1> DEFINE n == FirstOf(db[f], p)
           t == RemoveAt(db[f], n)
<1>1. db[f] # None /\ db' = db /\ clashing' = clashing
  BY DEF RemovePrinter
<1>2. db[f] \in Seq(Position) /\ db[f] \in MaybeFloor
  BY <1>1, DocumentType DEF FloorInv, CoreOK
<1>3. CASE On(db[f], p)
  <2>1. Await(r, "save", f, t, "whole", p)
    BY <1>3 DEF RemovePrinter
  <2>2. n \in 1..Len(db[f])
    BY <1>2, <1>3, FirstOfExists
  <2>3. t \in Seq(Position) /\ (OnePerPlace(db[f]) => OnePerPlace(t))
    BY <1>2, <2>2, RemoveAtProperties
  <2> HIDE DEF t
  <2>4. t \in MaybeFloor /\ "save" \in Stage /\ "whole" \in Change
    BY <2>3, DocumentType DEF Stage, Change
  <2>5. (\A x \in Request \ {r} : Alike(x)) /\ req'[r].fs = {f} /\ req'[r].docs[f] = t
    BY <2>1, <2>4, AwaitAlike
  <2>6. ASSUME NEW g \in Floor \ clashing', Placing(r, g)' PROVE OnePerPlace(req'[r].docs[g])
    <3>1. g = f /\ f \notin clashing
      BY <1>1, <2>5, <2>6 DEF Placing
    <3>2. OnePerPlace(db[f])
      BY <1>1, <3>1 DEF PlacesInv
    <3>3. QED
      BY <2>3, <2>5, <3>1, <3>2
  <2>7. QED
    BY <1>1, <2>5, <2>6, PlacesKept
<1>4. CASE ~On(db[f], p)
  <2>1. Await(r, "reply", f, db[f], "none", p) /\ "reply" \in Stage /\ "none" \in Change
    BY <1>4 DEF RemovePrinter, Stage, Change
  <2>2. (\A x \in Request \ {r} : Alike(x)) /\ req'[r].change = "none"
    BY <1>2, <2>1, AwaitAlike
  <2>3. QED
    BY <1>1, <2>2, PlacesUntouched
<1>5. QED
  BY <1>3, <1>4

\* The merged documents of overlapping saves are those of clashing floors.
LEMMA SavePlaces ==
    ASSUME FloorInv, PlacesInv, NEW r \in Request, NEW f \in Floor, Save(r, f)
    PROVE  PlacesInv'
<1> DEFINE q == req[r]
           w == Written(db[f], q.docs[f], q.change, q.printer)
<1>1. /\ q.stage = "save" /\ f \in q.fs /\ q.change \in Change
      /\ req \in [Request -> Waiting] /\ db \in [Floor -> MaybeFloor]
  BY ReqType DEF Save, FloorInv, CoreOK, Waiting
<1>2. CASE db[f] = None \/ (Checked(q.change) /\ ~q.same)
  <2>1. Finish(r) /\ db' = db /\ clashing' = clashing
    BY <1>2 DEF Save
  <2>2. req'[r].stage = "idle" /\ \A x \in Request \ {r} : Alike(x)
    BY <2>1, FinishAlike
  <2>3. QED
    BY <2>1, <2>2, PlacesUntouched
<1>3. CASE ~(db[f] = None \/ (Checked(q.change) /\ ~q.same))
  <2>1. /\ db' = [db EXCEPT ![f] = w]
        /\ clashing' = IF Merged(q, f) THEN clashing \cup {f} ELSE clashing
        /\ req' = [s \in Request |->
                  IF s = r THEN [q EXCEPT !.stage = "reply"]
                  ELSE IF req[s].stage = "save" /\ f \in req[s].fs /\ Bumped(q.change)
                       THEN [req[s] EXCEPT !.same = FALSE]
                       ELSE req[s]]
    BY <1>3 DEF Save
  <2>2. req'[r].stage = "reply" /\ \A x \in Request \ {r} : Alike(x)
    BY <1>1, <2>1 DEF Waiting, Alike
  <2> HIDE DEF w
  <2>3. ASSUME NEW g \in Floor \ clashing'
        PROVE  db'[g] = db[g] \/ db'[g] = None \/ OnePerPlace(db'[g])
    <3>1. CASE g # f
      BY <1>1, <2>1, <3>1
    <3>2. CASE g = f
      <4>1. db'[f] = w /\ ~Merged(q, f) /\ f \notin clashing
        BY <1>1, <2>1, <2>3, <3>2
      <4>2. CASE q.change = "none"
        BY <3>2, <4>1, <4>2 DEF Written, w
      <4>3. CASE q.change # "none"
        <5>1. w = q.docs[f]
          <6>1. CASE q.change \in {"push", "element"}
            BY <4>1, <6>1 DEF Merged, w
          <6>2. CASE q.change = "whole"
            BY <6>2 DEF Written, w
          <6>3. QED
            BY <1>1, <4>3, <6>1, <6>2 DEF Change
        <5>2. OnePerPlace(q.docs[f])
          BY <1>1, <4>1, <4>3 DEF PlacesInv, Placing
        <5>3. QED
          BY <3>2, <4>1, <5>1, <5>2
      <4>4. QED
        BY <4>2, <4>3
    <3>3. QED
      BY <3>1, <3>2
  <2>4. clashing \in SUBSET clashing'
    BY <2>1
  <2>5. QED
    BY <2>2, <2>3, <2>4, PlacesKept DEF Placing
<1>4. QED
  BY <1>2, <1>3

LEMMA PlacesStep ==
    ASSUME FloorInv, PlacesInv, [Next]_vars
    PROVE  PlacesInv'
<1>1. db \in [Floor -> MaybeFloor] /\ unused \in SUBSET Floor
  BY DEF FloorInv, CoreOK
\* A request starts to wait for a call that writes no positions, or ends.
<1>2. ASSUME NEW r \in Request, NEW f \in Floor, NEW stage \in Stage, NEW s \in MaybeFloor,
             NEW p \in Printer \cup {None}, Await(r, stage, f, s, "none", p),
             db' = db, clashing' = clashing
      PROVE  PlacesInv'
  <2>1. (\A x \in Request \ {r} : Alike(x)) /\ req'[r].change = "none"
    BY <1>2, AwaitAlike DEF Change
  <2>2. QED
    BY <1>2, <2>1, PlacesUntouched
<1>3. ASSUME NEW r \in Request, NEW stage \in Stage, NEW docs \in [Floor -> MaybeFloor],
             NEW p \in Printer \cup {None}, AwaitAll(r, stage, docs, p),
             db' = db, clashing' = clashing
      PROVE  PlacesInv'
  <2>1. (\A x \in Request \ {r} : Alike(x)) /\ req'[r].change = "none"
    BY <1>3, AwaitAllAlike
  <2>2. QED
    BY <1>3, <2>1, PlacesUntouched
<1>4. ASSUME NEW r \in Request, Finish(r), db' = db, clashing' = clashing
      PROVE  PlacesInv'
  <2>1. (\A x \in Request \ {r} : Alike(x)) /\ req'[r].stage = "idle"
    BY <1>4, FinishAlike
  <2>2. QED
    BY <1>4, <2>1, PlacesUntouched
\* A floor is created.
<1>5. ASSUME NEW r \in Request, NEW f \in Floor, NEW s \in Seq(Position), OnePerPlace(s) \/ f \in clashing',
             Await(r, "reply", f, s, "none", None), db' = [db EXCEPT ![f] = s],
             clashing \in SUBSET clashing'
      PROVE  PlacesInv'
  <2>1. s \in MaybeFloor /\ "reply" \in Stage /\ "none" \in Change
    BY DocumentType DEF Stage, Change
  <2>2. (\A x \in Request \ {r} : Alike(x)) /\ req'[r].stage = "reply"
    BY <1>5, <2>1, AwaitAlike
  <2>3. \A g \in Floor \ clashing' : db'[g] = db[g] \/ OnePerPlace(db'[g])
    BY <1>1, <1>5
  <2>4. QED
    BY <1>5, <2>2, <2>3, PlacesKept DEF Placing
<1>6. ASSUME NEW r \in Request, RequestNext(r) PROVE PlacesInv'
  <2>1. ASSUME NEW f \in Floor, NEW pos \in Position, NEW text \in BOOLEAN, AddPrinter(r, f, pos, text)
        PROVE  PlacesInv'
    BY <2>1, AddPlaces
  <2>2. ASSUME NEW f \in Floor, NEW p \in Printer, RemovePrinter(r, f, p) PROVE PlacesInv'
    BY <2>2, RemovePlaces
  <2>3. ASSUME NEW f \in Floor, Rename(r, f) PROVE PlacesInv'
    BY <1>1, <1>2, <2>3 DEF Rename, Stage
  <2>4. ASSUME NEW f \in Floor, Save(r, f) PROVE PlacesInv'
    BY <2>4, SavePlaces
  <2>5. ASSUME NEW f \in Floor, Reply(r, f) PROVE PlacesInv'
    BY <1>4, <2>5 DEF Reply, history
  <2>6. ASSUME NEW f \in Floor, NEW given \in Given, Create(r, f, given) PROVE PlacesInv'
    <3>1. /\ Await(r, "reply", f, given, "none", None) /\ db' = [db EXCEPT ![f] = given]
          /\ clashing' = IF OnePerPlace(given) THEN clashing ELSE clashing \cup {f}
      BY <2>6 DEF Create
    <3>2. given \in Seq(Position) /\ clashing \in SUBSET clashing' /\ (OnePerPlace(given) \/ f \in clashing')
      BY <3>1, GivenType
    <3>3. QED
      BY <1>5, <3>1, <3>2
  <2>7. ASSUME NEW f \in Floor, Delete(r, f) PROVE PlacesInv'
    BY <1>2, <2>7, DocumentType DEF Delete, Stage
  <2>8. ASSUME NEW f \in Floor, DeleteOne(r, f) PROVE PlacesInv'
    <3>1. /\ db' = [db EXCEPT ![f] = None] /\ req' = [req EXCEPT ![r].stage = "deleted"]
          /\ clashing' = clashing /\ req \in [Request -> Waiting]
      BY <2>8, ReqType DEF DeleteOne, history, FloorInv
    <3>2. req'[r].stage = "deleted" /\ \A x \in Request \ {r} : Alike(x)
      BY <3>1 DEF Waiting, Alike
    <3>3. \A g \in Floor : db'[g] = db[g] \/ db'[g] = None
      BY <1>1, <3>1
    <3>4. QED
      BY <3>1, <3>2, <3>3, PlacesUntouched
  <2>9. ASSUME NEW f \in Floor, Forget(r, f) PROVE PlacesInv'
    BY <1>4, <2>9 DEF Forget, history
  <2>10. ASSUME NEW f \in Floor, GetFloor(r, f) PROVE PlacesInv'
    BY <1>1, <1>2, <2>10 DEF GetFloor, Stage
  <2>11. ASSUME NEW p \in Printer, DeletePrinter(r, p) PROVE PlacesInv'
    BY <1>3, <2>11, NoDocsType DEF DeletePrinter, Stage
  <2>12. CASE Refused(r)
    BY <1>4, <2>12 DEF Refused, history
  <2>13. CASE ListCache(r)
    BY <1>3, <2>13, NoDocsType DEF ListCache, Stage
  <2>14. CASE Pull(r)
    <3>1. AwaitAll(r, "list", NoDocs, None) /\ clashing' = clashing /\ "list" \in Stage
      BY <2>14 DEF Pull, Stage
    <3>2. (\A x \in Request \ {r} : Alike(x)) /\ req'[r].stage = "list"
      BY <3>1, AwaitAllAlike, NoDocsType
    <3>3. ASSUME NEW f \in Floor \ clashing' PROVE db'[f] = None \/ OnePerPlace(db'[f])
      BY <2>14, <3>1, PulledFloors DEF FloorInv, PlacesInv
    <3>4. QED
      BY <3>1, <3>2, <3>3, PlacesKept DEF Placing
  <2>15. CASE List(r)
    <3> DEFINE stage == IF db = NoDocs THEN "default" ELSE "load"
    <3>1. AwaitAll(r, stage, db, None) /\ db' = db /\ clashing' = clashing
      BY <2>15 DEF List, history
    <3>2. stage \in Stage
      BY DEF Stage
    <3> HIDE DEF stage
    <3>3. QED
      BY <1>1, <1>3, <3>1, <3>2
  <2>16. CASE CreateDefault(r)
    <3>1. clashing' = clashing
      BY <2>16 DEF CreateDefault, history
    <3>2. ASSUME NEW f \in unused, db' = [db EXCEPT ![f] = <<>>], Await(r, "reply", f, <<>>, "none", None)
          PROVE  PlacesInv'
      BY <1>1, <1>5, <3>1, <3>2, EmptyFloor
    <3>3. QED
      BY <1>4, <2>16, <3>1, <3>2 DEF CreateDefault
  <2>17. CASE Load(r)
    BY <1>4, <2>17 DEF Load, history
  <2>18. QED
    BY <1>6, <2>1, <2>2, <2>3, <2>4, <2>5, <2>6, <2>7, <2>8, <2>9, <2>10, <2>11, <2>12,
       <2>13, <2>14, <2>15, <2>16, <2>17 DEF RequestNext
<1>7. CASE DeleteAllPrinters
  BY <1>7 DEF DeleteAllPrinters, PlacesInv, Placing
<1>8. CASE Restart
  <2>1. db' = db /\ clashing' = clashing /\ \A r \in Request : req'[r].stage = "idle"
    BY <1>8, IdleType DEF Restart
  <2>2. QED
    BY <2>1 DEF PlacesInv, Placing
<1>9. CASE UNCHANGED vars
  BY <1>9 DEF vars, PlacesInv, Placing
<1>10. QED
  BY <1>6, <1>7, <1>8, <1>9 DEF Next

\* Each place keeps to one printer and each printer to one place of a floor, however
\* requests overlap, unless the floor was given positions that clash or two changes
\* were merged in its document.
THEOREM PlacesStayUnique == Spec => []PlacesAreUnique
<1>1. Init => PlacesInv
  <2> SUFFICES ASSUME Init PROVE PlacesInv
    OBVIOUS
  <2>1. \A f \in Floor : db[f] = None \/ db[f] = <<>>
    BY DEF Init
  <2>2. \A r \in Request : req[r].stage = "idle"
    BY IdleType DEF Init
  <2>3. QED
    BY <2>1, <2>2, EmptyFloor DEF PlacesInv, Placing
<1>2. FloorInv /\ PlacesInv /\ [Next]_vars => PlacesInv'
  BY PlacesStep
<1>3. PlacesInv => PlacesAreUnique
  BY DEF PlacesInv, PlacesAreUnique
<1>4. QED
  BY <1>1, <1>2, <1>3, FloorInvariance, PTL DEF Spec

-----------------------------------------------------------------------------
(* Positions of printers that exist.                                       *)

\* Printers that exist, or are being deleted
Owners == {p \in Printer : p \in known \/ Pulling(p)}

\* The positions of s, if there is a document, are of printers in ps.
OfPrinters(ps, s) == s = None \/ \A i \in DOMAIN s : s[i].printer \in ps

\* So are those that the saves under way bring back.
OwnersInv ==
    \A f \in Floor \ orphaned :
        /\ OfPrinters(Owners, db[f])
        /\ \A r \in Request, p \in Printer : Restores(req[r], f, p) => p \in Owners

LEMMA WithinOfPrinters ==
    ASSUME NEW s \in Seq(Position), NEW t \in Seq(Position), Within(t, s), NEW ps, OfPrinters(ps, s)
    PROVE  OfPrinters(ps, t)
<1>1. DOMAIN s = 1..Len(s) /\ DOMAIN t = 1..Len(t) /\ s # None
  BY SeqOfPositions
<1>2. QED
  BY <1>1 DEF Within, OfPrinters

LEMMA OwnersType == CoreOK => known \in SUBSET Owners /\ Owners \in SUBSET Printer
BY DEF CoreOK, Owners

\* A deletion under way goes on, and no other printer stops to exist.
LEMMA OwnersStay ==
    ASSUME NEW r \in Request, known' = known, req[r].stage # "pull",
           \A x \in Request \ {r} : Alike(x)
    PROVE  Owners \in SUBSET Owners'
<1> SUFFICES ASSUME NEW p \in Owners PROVE p \in Owners'
  OBVIOUS
<1>1. CASE p \in known
  BY <1>1 DEF Owners
<1>2. CASE Pulling(p)
  <2>1. PICK x \in Request : req[x].stage = "pull" /\ req[x].printer = p
    BY <1>2 DEF Pulling
  <2>2. x # r /\ req'[x].stage = "pull" /\ req'[x].printer = p
    BY <2>1 DEF Alike
  <2>3. QED
    BY <2>2 DEF Owners, Pulling
<1>3. QED
  BY <1>1, <1>2 DEF Owners

LEMMA OwnersKept ==
    ASSUME OwnersInv, NEW r \in Request, orphaned \in SUBSET orphaned',
           Owners \in SUBSET Owners', \A x \in Request \ {r} : Alike(x),
           \A f \in Floor \ orphaned' : db'[f] = db[f] \/ OfPrinters(Owners', db'[f]),
           \A f \in Floor \ orphaned', p \in Printer : Restores(req'[r], f, p) => p \in Owners'
    PROVE  OwnersInv'
<1> SUFFICES ASSUME NEW f \in Floor \ orphaned'
             PROVE  /\ OfPrinters(Owners', db'[f])
                    /\ \A x \in Request, p \in Printer : Restores(req'[x], f, p) => p \in Owners'
  BY DEF OwnersInv, OfPrinters, Restores, On
<1>1. f \in Floor \ orphaned /\ OfPrinters(Owners, db[f])
  BY DEF OwnersInv
<1>2. OfPrinters(Owners', db'[f])
  <2>1. CASE db'[f] = db[f]
    BY <1>1, <2>1 DEF OfPrinters
  <2>2. QED
    BY <2>1
<1>3. ASSUME NEW x \in Request \ {r}, NEW p \in Printer, Restores(req'[x], f, p) PROVE p \in Owners'
  <2>1. Restores(req[x], f, p)
    BY <1>3 DEF Restores, Alike
  <2>2. QED
    BY <1>1, <2>1 DEF OwnersInv
<1>4. QED
  BY <1>2, <1>3

\* Steps that write no positions, of requests that delete no printer and save none then
LEMMA OwnersUntouched ==
    ASSUME OwnersInv, NEW r \in Request, orphaned' = orphaned, known' = known,
           req[r].stage # "pull", \A x \in Request \ {r} : Alike(x),
           req'[r].stage # "save" \/ req'[r].change = "none",
           \A f \in Floor : db'[f] = db[f] \/ db'[f] = None
    PROVE  OwnersInv'
<1>1. Owners \in SUBSET Owners'
  BY OwnersStay
<1>2. \A f \in Floor, p \in Printer : ~Restores(req'[r], f, p)
  BY DEF Restores
<1>3. \A f \in Floor : db'[f] = db[f] \/ OfPrinters(Owners', db'[f])
  BY DEF OfPrinters
<1>4. QED
  BY <1>1, <1>2, <1>3, OwnersKept

\* What a save writes: positions that were stored, and positions it restores
LEMMA WrittenPrinters ==
    ASSUME NEW q \in Waiting, NEW f \in Floor, q.stage = "save", f \in q.fs,
           NEW stored \in Seq(Position), q.docs[f] \in Seq(Position),
           q.change = "push" => q.docs[f] # <<>> /\ Last(q.docs[f]).printer = q.printer,
           q.change = "element" => On(q.docs[f], q.printer),
           NEW ps, OfPrinters(ps, stored), \A p \in Printer : Restores(q, f, p) => p \in ps
    PROVE  OfPrinters(ps, Written(stored, q.docs[f], q.change, q.printer))
<1> DEFINE doc == q.docs[f]
           w == Written(stored, doc, q.change, q.printer)
<1>1. /\ DOMAIN stored = 1..Len(stored) /\ Len(stored) \in Nat /\ stored # None
      /\ DOMAIN doc = 1..Len(doc) /\ Len(doc) \in Nat
      /\ \A i \in 1..Len(doc) : doc[i] \in Position /\ doc[i].printer \in Printer
  BY SeqOfPositions DEF Position
<1>2. \A i \in 1..Len(stored) : stored[i].printer \in ps
  BY <1>1 DEF OfPrinters
<1>3. ASSUME NEW i \in 1..Len(doc), doc[i].printer = q.printer, q.change \in {"push", "element"}
      PROVE  doc[i] \in Position /\ doc[i].printer \in ps
  BY <1>1, <1>3 DEF Restores
<1>4. CASE q.change = "none"
  BY <1>4 DEF Written
<1>5. CASE q.change = "whole"
  <2>1. ASSUME NEW i \in DOMAIN doc PROVE doc[i].printer \in ps
    <3>1. On(doc, doc[i].printer) /\ doc[i].printer \in Printer
      BY <1>1 DEF On
    <3>2. QED
      BY <1>5, <3>1 DEF Restores
  <2>2. w = doc
    BY <1>5 DEF Written
  <2>3. QED
    BY <2>1, <2>2 DEF OfPrinters
<1>6. ASSUME NEW pos \in Position, pos.printer \in ps PROVE OfPrinters(ps, Append(stored, pos))
  <2> DEFINE t == Append(stored, pos)
  <2>1. /\ t \in Seq(Position) /\ Len(t) = Len(stored) + 1 /\ t[Len(stored) + 1] = pos
        /\ \A i \in 1..Len(stored) : t[i] = stored[i]
    BY PushedProperties
  <2> HIDE DEF t
  <2>2. DOMAIN t = 1..(Len(stored) + 1)
    BY <2>1, SeqOfPositions
  <2>3. \A i \in 1..(Len(stored) + 1) : i \in 1..Len(stored) \/ i = Len(stored) + 1
    BY <1>1
  <2>4. OfPrinters(ps, t)
    BY <1>2, <1>6, <2>1, <2>2, <2>3 DEF OfPrinters
  <2>5. QED
    BY <2>4 DEF t
<1>7. CASE q.change = "push"
  <2>1. Len(doc) \in 1..Len(doc) /\ Last(doc) = doc[Len(doc)]
    BY <1>1, <1>7, EmptySeq DEF Last
  <2>2. Last(doc) \in Position /\ Last(doc).printer \in ps
    BY <1>3, <1>7, <2>1
  <2>3. w = Append(stored, Last(doc))
    BY <1>7 DEF Written
  <2>4. QED
    BY <1>6, <2>2, <2>3
<1>8. CASE q.change = "element"
  <2> DEFINE i == FirstOf(doc, q.printer)
  <2>1. i \in 1..Len(doc) /\ doc[i].printer = q.printer
    BY <1>8, FirstOfExists
  <2>2. w = IF i <= Len(stored) THEN [stored EXCEPT ![i] = doc[i]] ELSE Append(stored, doc[i])
    BY <1>8 DEF Written
  <2> HIDE DEF i, w, doc
  <2>3. doc[i] \in Position /\ doc[i].printer \in ps
    BY <1>3, <1>8, <2>1
  <2>4. CASE i <= Len(stored)
    <3> DEFINE t == [stored EXCEPT ![i] = doc[i]]
    <3>1. i \in 1..Len(stored)
      BY <1>1, <2>1, <2>4
    <3>2. t \in Seq(Position) /\ Len(t) = Len(stored) /\ t[i] = doc[i]
          /\ \A k \in 1..Len(stored) : k # i => t[k] = stored[k]
      BY <2>3, <3>1, AssignedProperties
    <3> HIDE DEF t
    <3>3. DOMAIN t = 1..Len(stored)
      BY <3>2, SeqOfPositions
    <3>4. OfPrinters(ps, t)
      BY <1>2, <2>3, <3>2, <3>3 DEF OfPrinters
    <3>5. QED
      BY <2>2, <2>4, <3>4 DEF t, w, doc
  <2>5. CASE ~(i <= Len(stored))
    <3>1. OfPrinters(ps, Append(stored, doc[i]))
      BY <1>6, <2>3
    <3>2. QED
      BY <2>2, <2>5, <3>1 DEF w, doc
  <2>6. QED
    BY <2>4, <2>5
<1>9. QED
  BY <1>4, <1>5, <1>7, <1>8 DEF Waiting, Change

LEMMA AddOwners ==
    ASSUME FloorInv, OwnersInv, NEW r \in Request, NEW f \in Floor, NEW pos \in Position,
           NEW text \in BOOLEAN, AddPrinter(r, f, pos, text)
    PROVE  OwnersInv'
<1> DEFINE t == Placed(db[f], pos, text)
           change == PlacedHow(db[f], pos, text)
           p == pos.printer
<1>1. /\ db[f] # None /\ Await(r, "save", f, t, change, p) /\ db' = db /\ known' = known
      /\ orphaned' = orphaned /\ p \in known /\ req[r].stage # "pull"
  BY DEF AddPrinter, Asked, Exists
<1>2. db[f] \in Seq(Position) /\ p \in Printer \cup {None} /\ p \in Owners
  BY <1>1, DocumentType, OwnersType DEF FloorInv, CoreOK
<1>3. /\ t \in Seq(Position)
      /\ \A m \in 1..Len(t) : t[m] = pos \/ \E i \in 1..Len(db[f]) : t[m] = db[f][i]
  BY <1>2, PlacedProperties
<1>4. change \in Change /\ t \in MaybeFloor /\ "save" \in Stage
  BY <1>2, <1>3, PlacedHowProperties, DocumentType DEF Change, Stage
<1>5. DOMAIN t = 1..Len(t) /\ DOMAIN db[f] = 1..Len(db[f])
  BY <1>2, <1>3, SeqOfPositions
<1> HIDE DEF t, change
<1>6. /\ \A x \in Request \ {r} : Alike(x)
      /\ req'[r].fs = {f} /\ req'[r].docs[f] = t /\ req'[r].printer = p
  BY <1>1, <1>2, <1>4, AwaitAlike
<1>7. Owners \in SUBSET Owners'
  BY <1>1, <1>6, OwnersStay
<1>8. ASSUME NEW g \in Floor \ orphaned', NEW o \in Printer, Restores(req'[r], g, o) PROVE o \in Owners
  <2>1. g = f /\ (o = p \/ On(t, o))
    BY <1>6, <1>8 DEF Restores
  <2>2. CASE On(t, o)
    <3>1. PICK m \in 1..Len(t) : t[m].printer = o
      BY <1>5, <2>2 DEF On
    <3>2. OfPrinters(Owners, db[f])
      BY <1>1, <2>1 DEF OwnersInv
    <3>3. QED
      BY <1>1, <1>2, <1>3, <1>5, <3>1, <3>2 DEF OfPrinters
  <2>3. QED
    BY <1>2, <2>1, <2>2
<1>9. QED
  BY <1>1, <1>6, <1>7, <1>8, OwnersKept

LEMMA RemoveOwners ==
    ASSUME FloorInv, OwnersInv, NEW r \in Request, NEW f \in Floor, NEW p \in Printer,
           RemovePrinter(r, f, p)
    PROVE  OwnersInv'
<1> DEFINE n == FirstOf(db[f], p)
           t == RemoveAt(db[f], n)
<1>1. /\ db[f] # None /\ db' = db /\ orphaned' = orphaned /\ known' = known /\ req[r].stage # "pull"
  BY DEF RemovePrinter, Asked
<1>2. db[f] \in Seq(Position) /\ db[f] \in MaybeFloor
  BY <1>1, DocumentType DEF FloorInv, CoreOK
<1>3. CASE On(db[f], p)
  <2>1. Await(r, "save", f, t, "whole", p)
    BY <1>3 DEF RemovePrinter
  <2>2. n \in 1..Len(db[f])
    BY <1>2, <1>3, FirstOfExists
  <2>3. t \in Seq(Position) /\ Within(t, db[f])
    BY <1>2, <2>2, RemoveAtProperties
  <2> HIDE DEF t
  <2>4. t \in MaybeFloor /\ "save" \in Stage /\ "whole" \in Change /\ t # None
    BY <2>3, DocumentType DEF Stage, Change
  <2>5. /\ \A x \in Request \ {r} : Alike(x)
        /\ req'[r].fs = {f} /\ req'[r].docs[f] = t /\ req'[r].change = "whole"
    BY <2>1, <2>4, AwaitAlike
  <2>6. Owners \in SUBSET Owners'
    BY <1>1, <2>5, OwnersStay
  <2>7. ASSUME NEW g \in Floor \ orphaned', NEW o \in Printer, Restores(req'[r], g, o) PROVE o \in Owners
    <3>1. g = f /\ On(t, o)
      BY <2>5, <2>7 DEF Restores
    <3>2. OfPrinters(Owners, db[f])
      BY <1>1, <3>1 DEF OwnersInv
    <3>3. OfPrinters(Owners, t)
      BY <1>2, <2>3, <3>2, WithinOfPrinters
    <3>4. QED
      BY <2>4, <3>1, <3>3 DEF On, OfPrinters
  <2>8. QED
    BY <1>1, <2>5, <2>6, <2>7, OwnersKept
<1>4. CASE ~On(db[f], p)
  <2>1. Await(r, "reply", f, db[f], "none", p) /\ "reply" \in Stage /\ "none" \in Change
    BY <1>4 DEF RemovePrinter, Stage, Change
  <2>2. (\A x \in Request \ {r} : Alike(x)) /\ req'[r].change = "none"
    BY <1>2, <2>1, AwaitAlike
  <2>3. QED
    BY <1>1, <2>2, OwnersUntouched
<1>5. QED
  BY <1>3, <1>4

LEMMA SaveOwners ==
    ASSUME FloorInv, OwnersInv, NEW r \in Request, NEW f \in Floor, Save(r, f)
    PROVE  OwnersInv'
<1> DEFINE q == req[r]
           w == Written(db[f], q.docs[f], q.change, q.printer)
<1>1. /\ q.stage = "save" /\ f \in q.fs /\ q \in Waiting /\ orphaned' = orphaned /\ known' = known
      /\ req \in [Request -> Waiting] /\ db \in [Floor -> MaybeFloor]
  BY ReqType DEF Save, FloorInv, CoreOK
<1>2. /\ q.docs[f] # None
      /\ q.change = "push" => q.docs[f] # <<>> /\ Last(q.docs[f]).printer = q.printer
      /\ q.change = "element" => On(q.docs[f], q.printer)
  BY <1>1 DEF FloorInv, AllFit, Fits
<1>3. CASE db[f] = None \/ (Checked(q.change) /\ ~q.same)
  <2>1. Finish(r) /\ db' = db
    BY <1>3 DEF Save
  <2>2. req'[r].stage = "idle" /\ \A x \in Request \ {r} : Alike(x)
    BY <2>1, FinishAlike
  <2>3. QED
    BY <1>1, <2>1, <2>2, OwnersUntouched
<1>4. CASE ~(db[f] = None \/ (Checked(q.change) /\ ~q.same))
  <2>1. /\ db' = [db EXCEPT ![f] = w]
        /\ req' = [s \in Request |->
                  IF s = r THEN [q EXCEPT !.stage = "reply"]
                  ELSE IF req[s].stage = "save" /\ f \in req[s].fs /\ Bumped(q.change)
                       THEN [req[s] EXCEPT !.same = FALSE]
                       ELSE req[s]]
    BY <1>4 DEF Save
  <2>2. req'[r].stage = "reply" /\ \A x \in Request \ {r} : Alike(x)
    BY <1>1, <2>1 DEF Waiting, Alike
  <2>3. db[f] \in Seq(Position) /\ q.docs[f] \in Seq(Position)
    BY <1>1, <1>2, <1>4, DocumentType DEF Waiting
  <2>4. f \notin orphaned => OfPrinters(Owners, w)
    BY <1>1, <1>2, <2>3, WrittenPrinters DEF OwnersInv
  <2> HIDE DEF w, q
  <2>5. Owners \in SUBSET Owners'
    BY <1>1, <2>2, OwnersStay DEF q
  <2>6. ASSUME NEW g \in Floor \ orphaned' PROVE db'[g] = db[g] \/ OfPrinters(Owners', db'[g])
    <3>1. CASE g # f
      BY <1>1, <2>1, <3>1
    <3>2. CASE g = f
      <4>1. db'[g] = w /\ OfPrinters(Owners, w)
        BY <1>1, <2>1, <2>4, <3>2
      <4>2. QED
        BY <2>5, <4>1 DEF OfPrinters
    <3>3. QED
      BY <3>1, <3>2
  <2>7. \A g \in Floor, p \in Printer : ~Restores(req'[r], g, p)
    BY <2>2 DEF Restores
  <2>8. QED
    BY <1>1, <2>2, <2>5, <2>6, <2>7, OwnersKept
<1>5. QED
  BY <1>3, <1>4

\* $pull: the printer's positions are gone from every floor, and what a save would bring
\* back is on an orphaned one.
LEMMA PullOwners ==
    ASSUME FloorInv, OwnersInv, NEW r \in Request, Pull(r)
    PROVE  OwnersInv'
<1> DEFINE p == req[r].printer
<1>1. /\ req[r].stage = "pull" /\ AwaitAll(r, "list", NoDocs, None) /\ known' = known
      /\ orphaned' = orphaned \cup {f \in Floor : \E s \in Request : Restores(req[s], f, p)}
  BY DEF Pull
<1>2. "list" \in Stage
  BY DEF Stage
<1>3. (\A x \in Request \ {r} : Alike(x)) /\ req'[r].stage = "list"
  BY <1>1, <1>2, AwaitAllAlike, NoDocsType
<1> HIDE DEF p
<1>4. Owners \ {p} \in SUBSET Owners'
  <2> SUFFICES ASSUME NEW o \in Owners \ {p} PROVE o \in Owners'
    OBVIOUS
  <2>1. CASE o \in known
    BY <1>1, <2>1 DEF Owners
  <2>2. CASE Pulling(o)
    <3>1. PICK x \in Request : req[x].stage = "pull" /\ req[x].printer = o
      BY <2>2 DEF Pulling
    <3>2. x # r /\ req'[x].stage = "pull" /\ req'[x].printer = o
      BY <1>3, <3>1 DEF Alike, p
    <3>3. QED
      BY <3>2 DEF Owners, Pulling
  <2>3. QED
    BY <2>1, <2>2 DEF Owners
<1>5. ASSUME NEW f \in Floor \ orphaned'
      PROVE  /\ OfPrinters(Owners', db'[f])
             /\ \A x \in Request, o \in Printer : Restores(req'[x], f, o) => o \in Owners'
  <2>1. f \notin orphaned /\ \A s \in Request : ~Restores(req[s], f, p)
    BY <1>1
  <2>2. OfPrinters(Owners, db[f])
    BY <2>1 DEF OwnersInv
  <2>3. OfPrinters(Owners', db'[f])
    <3>1. CASE db[f] = None
      BY <3>1, PulledFloors DEF FloorInv, OfPrinters
    <3>2. CASE db[f] # None
      <4>1. /\ db[f] \in Seq(Position) /\ db'[f] \in Seq(Position) /\ Within(db'[f], db[f])
            /\ \A m \in 1..Len(db'[f]) : db'[f][m].printer # p
        BY <3>2, PulledFloors DEF FloorInv, p
      <4>2. OfPrinters(Owners, db'[f]) /\ db'[f] # None /\ DOMAIN db'[f] = 1..Len(db'[f])
        BY <2>2, <4>1, WithinOfPrinters, SeqOfPositions
      <4>3. QED
        BY <1>4, <4>1, <4>2 DEF OfPrinters
    <3>3. QED
      BY <3>1, <3>2
  <2>4. ASSUME NEW x \in Request, NEW o \in Printer, Restores(req'[x], f, o) PROVE o \in Owners'
    <3>1. x # r
      BY <1>3, <2>4 DEF Restores
    <3>2. Restores(req[x], f, o)
      BY <1>3, <2>4, <3>1 DEF Restores, Alike
    <3>3. o # p /\ o \in Owners
      BY <2>1, <3>2 DEF OwnersInv
    <3>4. QED
      BY <1>4, <3>3
  <2>5. QED
    BY <2>3, <2>4
<1>6. QED
  BY <1>5 DEF OwnersInv, OfPrinters, Restores, On

LEMMA OwnersStep ==
    ASSUME FloorInv, OwnersInv, [Next]_vars
    PROVE  OwnersInv'
<1>1. db \in [Floor -> MaybeFloor] /\ unused \in SUBSET Floor /\ known \in SUBSET Printer
  BY DEF FloorInv, CoreOK
\* A request that deletes no printer starts to wait for a call that writes no positions, or ends.
<1>2. ASSUME NEW r \in Request, NEW f \in Floor, NEW stage \in Stage, NEW s \in MaybeFloor,
             NEW p \in Printer \cup {None}, Await(r, stage, f, s, "none", p),
             req[r].stage # "pull", db' = db, orphaned' = orphaned, known' = known
      PROVE  OwnersInv'
  <2>1. (\A x \in Request \ {r} : Alike(x)) /\ req'[r].change = "none"
    BY <1>2, AwaitAlike DEF Change
  <2>2. QED
    BY <1>2, <2>1, OwnersUntouched
<1>3. ASSUME NEW r \in Request, NEW stage \in Stage, NEW docs \in [Floor -> MaybeFloor],
             AwaitAll(r, stage, docs, None),
             req[r].stage # "pull", db' = db, orphaned' = orphaned, known' = known
      PROVE  OwnersInv'
  <2>1. (\A x \in Request \ {r} : Alike(x)) /\ req'[r].change = "none"
    BY <1>3, AwaitAllAlike
  <2>2. QED
    BY <1>3, <2>1, OwnersUntouched
<1>4. ASSUME NEW r \in Request, Finish(r),
             req[r].stage # "pull", db' = db, orphaned' = orphaned, known' = known
      PROVE  OwnersInv'
  <2>1. (\A x \in Request \ {r} : Alike(x)) /\ req'[r].stage = "idle"
    BY <1>4, FinishAlike
  <2>2. QED
    BY <1>4, <2>1, OwnersUntouched
\* A floor is created.
<1>5. ASSUME NEW r \in Request, NEW f \in Floor, NEW s \in Seq(Position),
             OfPrinters(known, s) \/ f \in orphaned',
             Await(r, "reply", f, s, "none", None), db' = [db EXCEPT ![f] = s],
             req[r].stage # "pull", orphaned \in SUBSET orphaned', known' = known
      PROVE  OwnersInv'
  <2>1. s \in MaybeFloor /\ "reply" \in Stage /\ "none" \in Change
    BY DocumentType DEF Stage, Change
  <2>2. (\A x \in Request \ {r} : Alike(x)) /\ req'[r].stage = "reply"
    BY <1>5, <2>1, AwaitAlike
  <2>3. Owners \in SUBSET Owners' /\ known \in SUBSET Owners'
    BY <1>1, <1>5, <2>2, OwnersStay DEF Owners
  <2>4. ASSUME NEW g \in Floor \ orphaned' PROVE db'[g] = db[g] \/ OfPrinters(Owners', db'[g])
    <3>1. CASE g # f
      BY <1>1, <1>5, <3>1
    <3>2. CASE g = f
      <4>1. db'[g] = s /\ OfPrinters(known, s)
        BY <1>1, <1>5, <2>4, <3>2
      <4>2. QED
        BY <2>3, <4>1 DEF OfPrinters
    <3>3. QED
      BY <3>1, <3>2
  <2>5. \A g \in Floor, p \in Printer : ~Restores(req'[r], g, p)
    BY <2>2 DEF Restores
  <2>6. QED
    BY <1>5, <2>2, <2>3, <2>4, <2>5, OwnersKept
<1>6. ASSUME NEW r \in Request, RequestNext(r) PROVE OwnersInv'
  <2>1. ASSUME NEW f \in Floor, NEW pos \in Position, NEW text \in BOOLEAN, AddPrinter(r, f, pos, text)
        PROVE  OwnersInv'
    BY <2>1, AddOwners
  <2>2. ASSUME NEW f \in Floor, NEW p \in Printer, RemovePrinter(r, f, p) PROVE OwnersInv'
    BY <2>2, RemoveOwners
  <2>3. ASSUME NEW f \in Floor, Rename(r, f) PROVE OwnersInv'
    BY <1>1, <1>2, <2>3 DEF Rename, Asked, Stage
  <2>4. ASSUME NEW f \in Floor, Save(r, f) PROVE OwnersInv'
    BY <2>4, SaveOwners
  <2>5. ASSUME NEW f \in Floor, Reply(r, f) PROVE OwnersInv'
    BY <1>4, <2>5 DEF Reply, history
  <2>6. ASSUME NEW f \in Floor, NEW given \in Given, Create(r, f, given) PROVE OwnersInv'
    <3>1. /\ Await(r, "reply", f, given, "none", None) /\ db' = [db EXCEPT ![f] = given]
          /\ orphaned' = IF \A i \in DOMAIN given : given[i].printer \in known
                         THEN orphaned ELSE orphaned \cup {f}
          /\ known' = known /\ req[r].stage # "pull"
      BY <2>6 DEF Create, Asked
    <3>2. given \in Seq(Position) /\ orphaned \in SUBSET orphaned' /\ (OfPrinters(known, given) \/ f \in orphaned')
      BY <3>1, GivenType DEF OfPrinters
    <3>3. QED
      BY <1>5, <3>1, <3>2
  <2>7. ASSUME NEW f \in Floor, Delete(r, f) PROVE OwnersInv'
    BY <1>2, <2>7, DocumentType DEF Delete, Asked, Stage
  <2>8. ASSUME NEW f \in Floor, DeleteOne(r, f) PROVE OwnersInv'
    <3>1. /\ db' = [db EXCEPT ![f] = None] /\ req' = [req EXCEPT ![r].stage = "deleted"]
          /\ orphaned' = orphaned /\ known' = known /\ req[r].stage # "pull" /\ req \in [Request -> Waiting]
      BY <2>8, ReqType DEF DeleteOne, history, FloorInv
    <3>2. req'[r].stage = "deleted" /\ \A x \in Request \ {r} : Alike(x)
      BY <3>1 DEF Waiting, Alike
    <3>3. \A g \in Floor : db'[g] = db[g] \/ db'[g] = None
      BY <1>1, <3>1
    <3>4. QED
      BY <3>1, <3>2, <3>3, OwnersUntouched
  <2>9. ASSUME NEW f \in Floor, Forget(r, f) PROVE OwnersInv'
    BY <1>4, <2>9 DEF Forget, history
  <2>10. ASSUME NEW f \in Floor, GetFloor(r, f) PROVE OwnersInv'
    BY <1>1, <1>2, <2>10 DEF GetFloor, Asked, Stage
  <2>11. ASSUME NEW p \in Printer, DeletePrinter(r, p) PROVE OwnersInv'
    <3>1. /\ known' = known \ {p} /\ AwaitAll(r, "pull", NoDocs, p) /\ db' = db
          /\ orphaned' = orphaned /\ req[r].stage # "pull" /\ "pull" \in Stage
      BY <2>11 DEF DeletePrinter, Asked, Stage
    <3>2. (\A x \in Request \ {r} : Alike(x)) /\ req'[r].stage = "pull" /\ req'[r].printer = p
      BY <3>1, AwaitAllAlike, NoDocsType
    <3>3. ASSUME NEW o \in Owners PROVE o \in Owners'
      <4>1. CASE o \in known
        BY <3>1, <3>2, <4>1 DEF Owners, Pulling
      <4>2. CASE Pulling(o)
        <5>1. PICK x \in Request : req[x].stage = "pull" /\ req[x].printer = o
          BY <4>2 DEF Pulling
        <5>2. req'[x].stage = "pull" /\ req'[x].printer = o
          BY <3>1, <3>2, <5>1 DEF Alike
        <5>3. QED
          BY <5>2 DEF Owners, Pulling
      <4>3. QED
        BY <4>1, <4>2 DEF Owners
    <3>4. \A f \in Floor, o \in Printer : ~Restores(req'[r], f, o)
      BY <3>2 DEF Restores
    <3>5. QED
      BY <3>1, <3>2, <3>3, <3>4, OwnersKept
  <2>12. CASE Refused(r)
    BY <1>4, <2>12 DEF Refused, history
  <2>13. CASE ListCache(r)
    BY <1>3, <2>13, NoDocsType DEF ListCache, Asked, Stage
  <2>14. CASE Pull(r)
    BY <2>14, PullOwners
  <2>15. CASE List(r)
    <3> DEFINE stage == IF db = NoDocs THEN "default" ELSE "load"
    <3>1. /\ AwaitAll(r, stage, db, None) /\ db' = db /\ orphaned' = orphaned /\ known' = known
          /\ req[r].stage # "pull"
      BY <2>15 DEF List, history
    <3>2. stage \in Stage
      BY DEF Stage
    <3> HIDE DEF stage
    <3>3. QED
      BY <1>1, <1>3, <3>1, <3>2
  <2>16. CASE CreateDefault(r)
    <3>1. orphaned' = orphaned /\ known' = known /\ req[r].stage # "pull"
      BY <2>16 DEF CreateDefault, history
    <3>2. ASSUME NEW f \in unused, db' = [db EXCEPT ![f] = <<>>], Await(r, "reply", f, <<>>, "none", None)
          PROVE  OwnersInv'
      <4>1. OfPrinters(known, <<>>)
        BY EmptyFloor DEF OfPrinters
      <4>2. QED
        BY <1>1, <1>5, <3>1, <3>2, <4>1, EmptyFloor
    <3>3. QED
      BY <1>4, <2>16, <3>1, <3>2 DEF CreateDefault
  <2>17. CASE Load(r)
    BY <1>4, <2>17 DEF Load, history
  <2>18. QED
    BY <1>6, <2>1, <2>2, <2>3, <2>4, <2>5, <2>6, <2>7, <2>8, <2>9, <2>10, <2>11, <2>12,
       <2>13, <2>14, <2>15, <2>16, <2>17 DEF RequestNext
<1>7. CASE DeleteAllPrinters
  <2>1. /\ db' = db /\ req' = req
        /\ orphaned' = orphaned \cup {f \in Floor : db[f] \notin {None, <<>>}}
                                \cup UNION {req[r].fs : r \in Request}
    BY <1>7 DEF DeleteAllPrinters
  <2>2. ASSUME NEW f \in Floor \ orphaned'
        PROVE  OfPrinters(Owners', db'[f]) /\ \A r \in Request, p \in Printer : ~Restores(req'[r], f, p)
    <3>1. db[f] \in {None, <<>>} /\ \A r \in Request : f \notin req[r].fs
      BY <2>1
    <3>2. QED
      BY <2>1, <3>1, EmptyFloor DEF OfPrinters, Restores
  <2>3. QED
    BY <2>2 DEF OwnersInv, OfPrinters, Restores, On
<1>8. CASE Restart
  <2>1. /\ db' = db /\ known' = known /\ \A r \in Request : req'[r].stage = "idle"
        /\ orphaned' = orphaned \cup
               {f \in Floor : db[f] # None /\ \E i \in DOMAIN db[f] : Pulling(db[f][i].printer)}
    BY <1>8, IdleType DEF Restart
  <2>2. ASSUME NEW f \in Floor \ orphaned'
        PROVE  OfPrinters(Owners', db'[f]) /\ \A r \in Request, p \in Printer : ~Restores(req'[r], f, p)
    <3>1. OfPrinters(Owners, db[f])
      BY <2>1 DEF OwnersInv
    <3>2. ASSUME db[f] # None, NEW i \in DOMAIN db[f] PROVE db[f][i].printer \in Owners'
      <4>1. ~Pulling(db[f][i].printer)
        BY <2>1, <3>2
      <4>2. db[f][i].printer \in known /\ db[f][i].printer \in Printer
        BY <3>1, <3>2, <4>1 DEF OfPrinters, Owners
      <4>3. QED
        BY <2>1, <4>2 DEF Owners
    <3>3. QED
      BY <2>1, <3>2 DEF OfPrinters, Restores
  <2>3. QED
    BY <2>2 DEF OwnersInv, OfPrinters, Restores, On
<1>9. CASE UNCHANGED vars
  BY <1>9 DEF vars, OwnersInv, OfPrinters, Owners, Pulling, Restores, On
<1>10. QED
  BY <1>6, <1>7, <1>8, <1>9 DEF Next

\* A floor has positions of printers that exist or are being deleted, however requests
\* overlap, unless it was given others when it was created, all printers were deleted at
\* once, or a deletion was interrupted or overlapped a save that brings its printer back.
THEOREM NoneOrphaned == Spec => []NoOrphans
<1>1. Init => OwnersInv
  <2> SUFFICES ASSUME Init PROVE OwnersInv
    OBVIOUS
  <2>1. \A f \in Floor : db[f] = None \/ db[f] = <<>>
    BY DEF Init
  <2>2. \A r \in Request : req[r].stage = "idle"
    BY IdleType DEF Init
  <2>3. QED
    BY <2>1, <2>2, EmptyFloor DEF OwnersInv, OfPrinters, Restores
<1>2. FloorInv /\ OwnersInv /\ [Next]_vars => OwnersInv'
  BY OwnersStep
<1>3. OwnersInv => NoOrphans
  BY DEF OwnersInv, OfPrinters, Owners, NoOrphans
<1>4. QED
  BY <1>1, <1>2, <1>3, FloorInvariance, PTL DEF Spec

-----------------------------------------------------------------------------
(* The version check and the index a position is written to.               *)

Own(r, f) ==
    LET q == req[r] IN
    q.stage = "save" /\ q.change = "element" /\ q.same /\ db[f] # None =>
        LET i == FirstOf(q.docs[f], q.printer) IN
        i \in DOMAIN db[f] /\ db[f][i].printer = q.printer

UnusedFree == \A f \in unused : \A r \in Request : f \in req[r].fs => req[r].stage # "save"
AllOwn == \A r \in Request : \A f \in req[r].fs \ shifted : Own(r, f)
IndexInv == UnusedFree /\ AllOwn

\* After a step, a request is where it was, or it does not wait for a save by index;
\* what it waits for a save of is stored.
Harmless(x) ==
    \/ req'[x] = req[x]
    \/ req'[x].stage = "save" =>
          req'[x].change # "element" /\ \A f \in req'[x].fs : f \notin unused

LEMMA HarmlessStep ==
    ASSUME IndexInv, db' = db, unused' = unused, shifted' = shifted, \A x \in Request : Harmless(x)
    PROVE  IndexInv'
<1>1. UnusedFree'
  BY DEF IndexInv, UnusedFree, Harmless
<1>2. ASSUME NEW x \in Request, NEW f \in req'[x].fs \ shifted' PROVE Own(x, f)'
  <2>1. CASE req'[x] = req[x]
    BY <2>1 DEF IndexInv, AllOwn, Own
  <2>2. CASE req'[x].stage = "save" => req'[x].change # "element"
    BY <2>2 DEF Own
  <2>3. QED
    BY <2>1, <2>2 DEF Harmless
<1>3. QED
  BY <1>1, <1>2 DEF IndexInv, AllOwn

\* A floor that is in the database had its id given out.
UsedUp == \A f \in unused : db[f] = None

LEMMA AddIndexStep ==
    ASSUME FloorInv, UsedUp, IndexInv, NEW r \in Request, NEW f \in Floor, NEW pos \in Position,
           NEW text \in BOOLEAN, AddPrinter(r, f, pos, text)
    PROVE  IndexInv'
<1> DEFINE t == Placed(db[f], pos, text)
           change == PlacedHow(db[f], pos, text)
           p == pos.printer
           i == FirstOf(t, p)
<1>1. CoreOK
  BY DEF FloorInv
<1>2. db[f] # None /\ Await(r, "save", f, t, change, p) /\ db' = db /\ unused' = unused /\ shifted' = shifted
  BY DEF AddPrinter
<1>3. db[f] \in Seq(Position) /\ p \in Printer
  BY <1>1, <1>2, DocumentType DEF CoreOK
<1>4. t \in Seq(Position)
  BY <1>3, PlacedProperties
<1>5. change \in Change /\ (change = "element" => i \in 1..Len(db[f]) /\ db[f][i].printer = p)
  BY <1>3, PlacedHowProperties DEF Change
<1>6. DOMAIN db[f] = 1..Len(db[f])
  BY <1>3, SeqOfPositions
<1> HIDE DEF t, change, p, i
<1>7. /\ req'[r].stage = "save" /\ req'[r].fs = {f} /\ req'[r].docs[f] = t
      /\ req'[r].change = change /\ req'[r].printer = p
      /\ \A x \in Request \ {r} : req'[x] = req[x]
  BY <1>1, <1>2, <1>3, <1>4, <1>5, DocumentType, AwaitFacts DEF Stage
<1>8. UnusedFree'
  BY <1>2, <1>7 DEF IndexInv, UnusedFree, UsedUp
<1>9. Own(r, f)'
  BY <1>2, <1>5, <1>6, <1>7 DEF Own, i
<1>10. ASSUME NEW x \in Request \ {r}, NEW g \in req'[x].fs \ shifted' PROVE Own(x, g)'
  BY <1>2, <1>7 DEF IndexInv, AllOwn, Own
<1>11. QED
  BY <1>7, <1>8, <1>9, <1>10 DEF IndexInv, AllOwn

\* Every index of t, if there is a document, holds the printer it holds in s.
SamePrinters(s, t) ==
    t # None => s # None /\ DOMAIN t = DOMAIN s /\ \A i \in DOMAIN s : t[i].printer = s[i].printer

LEMMA OwnKept ==
    ASSUME NEW r \in Request, NEW f, Own(r, f), SamePrinters(db[f], db'[f]),
           req'[r].stage = "save" => req[r].stage = "save", req'[r].change = req[r].change,
           req'[r].docs = req[r].docs, req'[r].printer = req[r].printer, req'[r].same => req[r].same
    PROVE  Own(r, f)'
<1> DEFINE i == FirstOf(req[r].docs[f], req[r].printer)
<1>1. FirstOf(req'[r].docs[f], req'[r].printer) = i
  OBVIOUS
<1> HIDE DEF i
<1>2. SUFFICES ASSUME req'[r].stage = "save", req'[r].change = "element", req'[r].same, db'[f] # None
               PROVE  i \in DOMAIN db'[f] /\ db'[f][i].printer = req'[r].printer
  BY <1>1 DEF Own
<1>3. db[f] # None /\ DOMAIN db'[f] = DOMAIN db[f]
      /\ \A k \in DOMAIN db[f] : db'[f][k].printer = db[f][k].printer
  BY <1>2 DEF SamePrinters
<1>4. i \in DOMAIN db[f] /\ db[f][i].printer = req[r].printer
  BY <1>2, <1>3 DEF Own, i
<1>5. QED
  BY <1>3, <1>4

LEMMA SaveIndexStep ==
    ASSUME FloorInv, UsedUp, IndexInv, NEW r \in Request, NEW f \in Floor, Save(r, f)
    PROVE  IndexInv'
<1> DEFINE q == req[r]
           w == Written(db[f], q.docs[f], q.change, q.printer)
<1>1. CoreOK /\ AllFit /\ req \in [Request -> Waiting] /\ db \in [Floor -> MaybeFloor]
  BY ReqType DEF FloorInv, CoreOK
<1>2. /\ q.stage = "save" /\ q.fs = {f} /\ q.docs[f] # None
      /\ q.change = "element" => On(q.docs[f], q.printer)
  BY <1>1 DEF Save, AllFit, Fits
<1>3. unused' = unused /\ shifted' = shifted
  BY DEF Save
<1>4. CASE db[f] = None \/ (Checked(q.change) /\ ~q.same)
  <2>1. Finish(r) /\ db' = db
    BY <1>4 DEF Save
  <2>2. \A x \in Request : Harmless(x)
    BY <1>1, <2>1, FinishFacts DEF Harmless
  <2>3. QED
    BY <1>3, <2>1, <2>2, HarmlessStep
<1>5. CASE ~(db[f] = None \/ (Checked(q.change) /\ ~q.same))
  <2> DEFINE saved == [q EXCEPT !.stage = "reply"]
             other(x) == IF req[x].stage = "save" /\ f \in req[x].fs /\ Bumped(q.change)
                         THEN [req[x] EXCEPT !.same = FALSE]
                         ELSE req[x]
  <2>1. db' = [db EXCEPT ![f] = w] /\ req' = [x \in Request |-> IF x = r THEN saved ELSE other(x)]
    BY <1>5 DEF Save
  <2>2. saved.stage = "reply"
    BY <1>1 DEF Waiting
  <2>3. ASSUME NEW x \in Request \ {r}
        PROVE  /\ other(x).stage = req[x].stage /\ other(x).fs = req[x].fs
               /\ other(x).docs = req[x].docs /\ other(x).change = req[x].change
               /\ other(x).printer = req[x].printer /\ (other(x).same => req[x].same)
               /\ req[x].stage = "save" /\ f \in req[x].fs /\ Bumped(q.change) => ~other(x).same
    BY <1>1 DEF Waiting
  <2> HIDE DEF saved, other
  <2>4. req'[r] = saved /\ \A x \in Request \ {r} : req'[x] = other(x)
    BY <2>1
  <2>5. UnusedFree'
    BY <1>3, <2>2, <2>3, <2>4 DEF IndexInv, UnusedFree
  <2> HIDE DEF w
  <2>6. db'[f] = w /\ \A g \in Floor \ {f} : db'[g] = db[g]
    BY <1>1, <2>1
  <2>7. \A g \in Floor \ {f} : SamePrinters(db[g], db'[g])
    BY <2>6 DEF SamePrinters
  <2>8. f \in shifted \/ Bumped(q.change) \/ SamePrinters(db[f], db'[f])
    <3>1. q.change \in Change /\ db[f] \in Seq(Position) /\ q.docs[f] \in Seq(Position)
      BY <1>1, <1>2, <1>5, DocumentType DEF Waiting
    <3>2. CASE q.change = "none"
      BY <1>5, <2>6, <3>2 DEF Written, w, SamePrinters
    <3>3. CASE q.change = "element" /\ f \notin shifted
      <4> DEFINE i == FirstOf(q.docs[f], q.printer)
      <4>1. i \in DOMAIN db[f] /\ db[f][i].printer = q.printer
        BY <1>2, <1>5, <3>3 DEF IndexInv, AllOwn, Own, Checked
      <4>2. i \in 1..Len(q.docs[f]) /\ q.docs[f][i].printer = q.printer
        BY <1>2, <3>1, <3>3, FirstOfExists
      <4>3. q.docs[f][i] \in Position
        BY <3>1, <4>2, SeqOfPositions
      <4>4. Len(db[f]) \in Nat /\ DOMAIN db[f] = 1..Len(db[f])
        BY <3>1, SeqOfPositions
      <4>5. w = IF i <= Len(db[f]) THEN [db[f] EXCEPT ![i] = q.docs[f][i]]
                                   ELSE Append(db[f], q.docs[f][i])
        BY <3>3 DEF Written, w
      <4> HIDE DEF i
      <4>6. i <= Len(db[f])
        BY <4>1, <4>4
      <4>7. w = [db[f] EXCEPT ![i] = q.docs[f][i]]
        BY <4>5, <4>6
      <4>8. DOMAIN w = DOMAIN db[f] /\ \A k \in DOMAIN db[f] : w[k].printer = db[f][k].printer
        BY <4>1, <4>2, <4>7
      <4>9. QED
        BY <1>5, <2>6, <4>8 DEF SamePrinters
    <3>4. QED
      BY <3>1, <3>2, <3>3 DEF Change, Bumped
  <2>9. ASSUME NEW x \in Request \ {r}, NEW g \in req'[x].fs \ shifted' PROVE Own(x, g)'
    <3>1. g \in req[x].fs /\ Own(x, g) /\ g \in Floor /\ g \notin shifted
      BY <1>1, <1>3, <2>3, <2>4 DEF IndexInv, AllOwn, Waiting
    <3>2. CASE SamePrinters(db[g], db'[g])
      BY <2>3, <2>4, <3>1, <3>2, OwnKept
    <3>3. CASE ~SamePrinters(db[g], db'[g])
      <4>1. g = f /\ Bumped(q.change)
        BY <2>7, <2>8, <3>1, <3>3
      <4>2. req'[x].stage = "save" => ~req'[x].same
        BY <2>3, <2>4, <3>1, <4>1
      <4>3. QED
        BY <4>2 DEF Own
    <3>4. QED
      BY <3>2, <3>3
  <2>10. ASSUME NEW g \in req'[r].fs \ shifted' PROVE Own(r, g)'
    BY <2>2, <2>4 DEF Own
  <2>11. QED
    BY <2>5, <2>9, <2>10 DEF IndexInv, AllOwn
<1>6. QED
  BY <1>4, <1>5

\* A floor is created with an id nobody saves.
LEMMA CreatedIndexStep ==
    ASSUME FloorInv, IndexInv, NEW r \in Request, NEW f \in unused, NEW s \in Seq(Position),
           unused' = unused \ {f}, shifted' = shifted, db' = [db EXCEPT ![f] = s], Await(r, "reply", f, s, "none", None)
    PROVE  IndexInv'
<1>1. CoreOK /\ f \in Floor /\ db \in [Floor -> MaybeFloor] /\ s \in MaybeFloor
  BY DocumentType DEF FloorInv, CoreOK
<1>2. /\ req'[r].stage = "reply" /\ \A x \in Request \ {r} : req'[x] = req[x]
  BY <1>1, AwaitFacts DEF Stage, Change
<1>3. UnusedFree'
  BY <1>2 DEF IndexInv, UnusedFree
<1>4. \A g \in Floor \ {f} : db'[g] = db[g]
  BY <1>1
<1>5. ASSUME NEW x \in Request \ {r}, NEW g \in req'[x].fs \ shifted' PROVE Own(x, g)'
  <2>1. g \in req[x].fs /\ req'[x] = req[x] /\ g \in Floor
    BY <1>1, <1>2, ReqType DEF Waiting
  <2>2. CASE g = f
    BY <2>1, <2>2 DEF IndexInv, UnusedFree, Own
  <2>3. CASE g # f
    BY <1>4, <2>1, <2>3 DEF IndexInv, AllOwn, Own
  <2>4. QED
    BY <2>2, <2>3
<1>6. \A g \in req'[r].fs : Own(r, g)'
  BY <1>2 DEF Own
<1>7. QED
  BY <1>3, <1>5, <1>6 DEF IndexInv, AllOwn

LEMMA DeletedIndexStep ==
    ASSUME FloorInv, IndexInv, NEW r \in Request, NEW f \in Floor, DeleteOne(r, f)
    PROVE  IndexInv'
<1>1. /\ req[r].stage = "delete" /\ db' = [db EXCEPT ![f] = None]
      /\ req' = [req EXCEPT ![r].stage = "deleted"] /\ unused' = unused /\ shifted' = shifted
  BY DEF DeleteOne, history
<1>2. /\ req \in [Request -> Waiting] /\ db \in [Floor -> MaybeFloor]
  BY ReqType DEF FloorInv, CoreOK
<1>3. req'[r].stage = "deleted" /\ \A x \in Request \ {r} : req'[x] = req[x]
  BY <1>1, <1>2 DEF Waiting
<1>4. db'[f] = None /\ \A g \in Floor \ {f} : db'[g] = db[g]
  BY <1>1, <1>2
<1>5. UnusedFree'
  BY <1>1, <1>3 DEF IndexInv, UnusedFree
<1>6. ASSUME NEW x \in Request \ {r}, NEW g \in req'[x].fs \ shifted' PROVE Own(x, g)'
  <2>1. g \in req[x].fs /\ req'[x] = req[x] /\ g \in Floor /\ Own(x, g)
    BY <1>1, <1>2, <1>3 DEF Waiting, IndexInv, AllOwn
  <2>2. QED
    BY <1>4, <2>1 DEF Own
<1>7. \A g \in req'[r].fs : Own(r, g)'
  BY <1>3 DEF Own
<1>8. QED
  BY <1>5, <1>6, <1>7 DEF IndexInv, AllOwn

LEMMA UsedUpStep ==
    ASSUME FloorInv, UsedUp, [Next]_vars
    PROVE  UsedUp'
<1>1. /\ unused \in SUBSET Floor /\ db \in [Floor -> MaybeFloor]
  BY DEF FloorInv, CoreOK
<1>2. ASSUME unused' \in SUBSET unused, \A f \in unused' : db'[f] = db[f] PROVE UsedUp'
  BY <1>2 DEF UsedUp
<1>3. ASSUME NEW r \in Request, RequestNext(r) PROVE UsedUp'
  <2>1. ASSUME unused' = unused, db' = db PROVE UsedUp'
    BY <2>1 DEF UsedUp
  <2>2. ASSUME NEW f \in Floor, Save(r, f) PROVE UsedUp'
    <3>1. unused' = unused /\ (db' = db \/ (db[f] # None /\ \A g \in Floor \ {f} : db'[g] = db[g]))
      BY <1>1, <2>2 DEF Save, Finish
    <3>2. QED
      BY <1>1, <3>1 DEF UsedUp
  <2>3. ASSUME NEW f \in Floor, NEW given \in Given, Create(r, f, given) PROVE UsedUp'
    BY <1>1, <2>3 DEF Create, UsedUp
  <2>4. ASSUME NEW f \in Floor, DeleteOne(r, f) PROVE UsedUp'
    BY <1>1, <2>4 DEF DeleteOne, UsedUp
  <2>5. CASE Pull(r)
    BY <1>1, <2>5 DEF Pull, UsedUp
  <2>6. CASE CreateDefault(r)
    BY <1>1, <2>6 DEF CreateDefault, UsedUp
  <2>7. QED
    BY <1>3, <2>1, <2>2, <2>3, <2>4, <2>5, <2>6
       DEF RequestNext, AddPrinter, RemovePrinter, Rename, Reply, Delete, Forget, GetFloor,
           DeletePrinter, Refused, ListCache, List, Load
<1>4. CASE DeleteAllPrinters
  BY <1>4 DEF DeleteAllPrinters, UsedUp
<1>5. CASE Restart
  BY <1>5 DEF Restart, UsedUp
<1>6. CASE UNCHANGED vars
  BY <1>6 DEF vars, UsedUp
<1>7. QED
  BY <1>3, <1>4, <1>5, <1>6 DEF Next

\* $pull leaves a floor without the printer as it is.
LEMMA PullIndexStep ==
    ASSUME FloorInv, IndexInv, NEW r \in Request, Pull(r)
    PROVE  IndexInv'
<1> DEFINE p == req[r].printer
<1>1. CoreOK /\ db \in [Floor -> MaybeFloor]
  BY DEF FloorInv, CoreOK
<1>2. /\ AwaitAll(r, "list", NoDocs, None) /\ unused' = unused
      /\ shifted' = shifted \cup {f \in Floor : db[f] # None /\ On(db[f], p) /\ \E s \in Request : ByIndex(req[s], f)}
      /\ db' = [f \in Floor |-> IF db[f] = None THEN None ELSE Pulled(db[f], p)]
  BY DEF Pull
<1> HIDE DEF p
<1>3. req'[r].stage = "list" /\ \A x \in Request \ {r} : req'[x] = req[x]
  BY <1>1, <1>2, AwaitAllFacts, NoDocsType DEF Stage
<1>4. UnusedFree'
  BY <1>2, <1>3 DEF IndexInv, UnusedFree
<1>5. ASSUME NEW x \in Request \ {r}, NEW g \in req'[x].fs \ shifted' PROVE Own(x, g)'
  <2>1. req'[x] = req[x] /\ g \in req[x].fs /\ g \in Floor /\ Own(x, g)
    BY <1>1, <1>2, <1>3, ReqType DEF IndexInv, AllOwn, Waiting
  <2>2. SUFFICES ASSUME ByIndex(req[x], g), db'[g] # None PROVE Own(x, g)'
    BY <2>1 DEF Own, ByIndex
  <2>3. db[g] # None /\ ~On(db[g], p)
    BY <1>2, <2>1, <2>2
  <2>4. db'[g] = db[g]
    BY <1>1, <1>2, <2>1, <2>3, DocumentType, PulledUntouched
  <2>5. QED
    BY <2>1, <2>4 DEF Own
<1>6. \A g \in req'[r].fs : Own(r, g)'
  BY <1>3 DEF Own
<1>7. QED
  BY <1>4, <1>5, <1>6 DEF IndexInv, AllOwn

LEMMA IndexStep ==
    ASSUME FloorInv, UsedUp, IndexInv, [Next]_vars
    PROVE  IndexInv'
<1>1. CoreOK /\ unused \in SUBSET Floor /\ db \in [Floor -> MaybeFloor]
  BY DEF FloorInv, CoreOK
\* A request starts to wait, without changing anything yet, or ends.
<1>2. ASSUME NEW r \in Request, NEW f \in Floor, NEW stage \in {"save", "reply", "delete"}, NEW s \in MaybeFloor,
             NEW change \in Change \ {"element"}, NEW p \in Printer \cup {None}, Await(r, stage, f, s, change, p),
             stage = "save" => db[f] # None, db' = db, unused' = unused, shifted' = shifted
      PROVE  IndexInv'
  <2>1. /\ req'[r].stage = stage /\ req'[r].fs = {f} /\ req'[r].change = change
        /\ \A x \in Request \ {r} : req'[x] = req[x]
    BY <1>1, <1>2, AwaitFacts DEF Stage
  <2>2. \A x \in Request : Harmless(x)
    BY <1>2, <2>1 DEF Harmless, UsedUp
  <2>3. QED
    BY <1>2, <2>2, HarmlessStep
<1>3. ASSUME NEW r \in Request, NEW stage \in {"pull", "list", "default", "load"}, NEW docs \in [Floor -> MaybeFloor],
             NEW p \in Printer \cup {None}, AwaitAll(r, stage, docs, p), db' = db, unused' = unused, shifted' = shifted
      PROVE  IndexInv'
  <2>1. req'[r].stage = stage /\ \A x \in Request \ {r} : req'[x] = req[x]
    BY <1>1, <1>3, AwaitAllFacts DEF Stage
  <2>2. \A x \in Request : Harmless(x)
    BY <1>3, <2>1 DEF Harmless
  <2>3. QED
    BY <1>3, <2>2, HarmlessStep
<1>4. ASSUME NEW r \in Request, Finish(r), db' = db, unused' = unused, shifted' = shifted
      PROVE  IndexInv'
  <2>1. \A x \in Request : Harmless(x)
    BY <1>1, <1>4, FinishFacts DEF Harmless
  <2>2. QED
    BY <1>4, <2>1, HarmlessStep
<1>5. ASSUME NEW r \in Request, RequestNext(r) PROVE IndexInv'
  <2>1. ASSUME NEW f \in Floor, NEW pos \in Position, NEW text \in BOOLEAN, AddPrinter(r, f, pos, text)
        PROVE  IndexInv'
    BY <2>1, AddIndexStep
  <2>2. ASSUME NEW f \in Floor, NEW p \in Printer, RemovePrinter(r, f, p) PROVE IndexInv'
    <3>1. db[f] # None /\ db[f] \in Seq(Position) /\ db[f] \in MaybeFloor /\ db' = db /\ unused' = unused /\ shifted' = shifted
      BY <1>1, <2>2, DocumentType DEF RemovePrinter
    <3>2. CASE On(db[f], p)
      <4>1. RemoveAt(db[f], FirstOf(db[f], p)) \in MaybeFloor
        BY <3>1, <3>2, FirstOfExists, RemoveAtProperties, DocumentType
      <4>2. Await(r, "save", f, RemoveAt(db[f], FirstOf(db[f], p)), "whole", p)
        BY <2>2, <3>2 DEF RemovePrinter
      <4>3. QED
        BY <1>2, <3>1, <4>1, <4>2 DEF Change
    <3>3. CASE ~On(db[f], p)
      <4>1. Await(r, "reply", f, db[f], "none", p)
        BY <2>2, <3>3 DEF RemovePrinter
      <4>2. QED
        BY <1>2, <3>1, <4>1 DEF Change
    <3>4. QED
      BY <3>2, <3>3
  <2>3. ASSUME NEW f \in Floor, Rename(r, f) PROVE IndexInv'
    BY <1>1, <1>2, <2>3 DEF Rename, Change
  <2>4. ASSUME NEW f \in Floor, Save(r, f) PROVE IndexInv'
    BY <2>4, SaveIndexStep
  <2>5. ASSUME NEW f \in Floor, Reply(r, f) PROVE IndexInv'
    BY <1>4, <2>5 DEF Reply, history
  <2>6. ASSUME NEW f \in Floor, NEW given \in Given, Create(r, f, given) PROVE IndexInv'
    BY <2>6, GivenType, CreatedIndexStep DEF Create
  <2>7. ASSUME NEW f \in Floor, Delete(r, f) PROVE IndexInv'
    BY <1>2, <2>7, DocumentType DEF Delete, Change
  <2>8. ASSUME NEW f \in Floor, DeleteOne(r, f) PROVE IndexInv'
    BY <2>8, DeletedIndexStep
  <2>9. ASSUME NEW f \in Floor, Forget(r, f) PROVE IndexInv'
    BY <1>4, <2>9 DEF Forget, history
  <2>10. ASSUME NEW f \in Floor, GetFloor(r, f) PROVE IndexInv'
    BY <1>1, <1>2, <2>10 DEF GetFloor, Change
  <2>11. ASSUME NEW p \in Printer, DeletePrinter(r, p) PROVE IndexInv'
    BY <1>3, <2>11, NoDocsType DEF DeletePrinter
  <2>12. CASE Refused(r)
    BY <1>4, <2>12 DEF Refused, history
  <2>13. CASE ListCache(r)
    BY <1>3, <2>13, NoDocsType DEF ListCache
  <2>14. CASE Pull(r)
    BY <2>14, PullIndexStep
  <2>15. CASE List(r)
    <3> DEFINE stage == IF db = NoDocs THEN "default" ELSE "load"
    <3>1. AwaitAll(r, stage, db, None) /\ db' = db /\ unused' = unused /\ shifted' = shifted
      BY <2>15 DEF List, history
    <3>2. stage \in {"pull", "list", "default", "load"}
      OBVIOUS
    <3> HIDE DEF stage
    <3>3. QED
      BY <1>1, <1>3, <3>1, <3>2
  <2>16. CASE CreateDefault(r)
    BY <1>4, <2>16, EmptySeq, CreatedIndexStep DEF CreateDefault, history
  <2>17. CASE Load(r)
    BY <1>4, <2>17 DEF Load, history
  <2>18. QED
    BY <1>5, <2>1, <2>2, <2>3, <2>4, <2>5, <2>6, <2>7, <2>8, <2>9, <2>10, <2>11, <2>12,
       <2>13, <2>14, <2>15, <2>16, <2>17 DEF RequestNext
<1>6. CASE DeleteAllPrinters
  BY <1>6, HarmlessStep DEF DeleteAllPrinters, Harmless
<1>7. CASE Restart
  BY <1>7, IdleType, HarmlessStep DEF Restart, Harmless
<1>8. CASE UNCHANGED vars
  BY <1>8, HarmlessStep DEF vars, Harmless
<1>9. QED
  BY <1>5, <1>6, <1>7, <1>8 DEF Next

\* An index that a save writes to is the printer's own while the version is the one
\* that was read, whatever overlaps, unless a printer's deletion has moved positions.
THEOREM IndexStaysOwn == Spec => []IndexIsOwn
<1>1. Init => UsedUp /\ IndexInv
  <2> SUFFICES ASSUME Init PROVE UsedUp /\ IndexInv
    OBVIOUS
  <2>1. UsedUp
    BY DEF Init, UsedUp
  <2>2. \A r \in Request : req[r].stage = "idle" /\ req[r].fs = {}
    BY IdleType DEF Init
  <2>3. QED
    BY <2>1, <2>2 DEF IndexInv, UnusedFree, AllOwn
<1>2. FloorInv /\ UsedUp /\ IndexInv /\ [Next]_vars => UsedUp' /\ IndexInv'
  BY UsedUpStep, IndexStep
<1>3. IndexInv => IndexIsOwn
  BY DEF IndexInv, AllOwn, Own, IndexIsOwn, ByIndex
<1>4. QED
  BY <1>1, <1>2, <1>3, FloorInvariance, PTL DEF Spec

=============================================================================
