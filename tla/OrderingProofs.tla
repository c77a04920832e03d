---------------------------- MODULE OrderingProofs ----------------------------
(***************************************************************************)
(* Places in a finite set of ids, and its sequence in ascending order.  The    *)
(* places of n members are 0 to n - 1, because Place maps the one set into the  *)
(* other without meeting itself; that needs no induction.  It gives one: a set  *)
(* has a greatest member, hence a smallest, hence Induction.                   *)
(***************************************************************************)
EXTENDS Ordering, Sequences, FiniteSetTheorems, TLAPS

LEMMA PlaceIsNat ==
    ASSUME NEW S \in SUBSET Nat, IsFiniteSet(S), NEW n \in Nat
    PROVE  /\ Cardinality(S) \in Nat
           /\ Place(S, n) \in Nat /\ Place(S, n) <= Cardinality(S)
           /\ n \in S => Place(S, n) < Cardinality(S)
<1> DEFINE below == {m \in S : m < n}
<1>1. IsFiniteSet(below) /\ Cardinality(below) <= Cardinality(S)
      /\ (Cardinality(S) = Cardinality(below) => S = below)
  BY FS_Subset
<1>2. Cardinality(below) \in Nat /\ Cardinality(S) \in Nat
  BY <1>1, FS_CardinalityType
<1>3. n \notin below
  OBVIOUS
<1> QED BY <1>1, <1>2, <1>3 DEF Place

(* A greater number has at least the place of a smaller one, and a greater place if   *)
(* the smaller is a member.                                                      *)
LEMMA PlaceGrows ==
    ASSUME NEW S \in SUBSET Nat, IsFiniteSet(S), NEW m \in Nat, NEW n \in Nat, m <= n
    PROVE  /\ Place(S, m) <= Place(S, n)
           /\ m \in S /\ m < n => Place(S, m) < Place(S, n)
<1> DEFINE low == {k \in S : k < m}
           high == {k \in S : k < n}
<1>1. low \subseteq high
  <2>1. \A k \in S : k < m => k < n
    OBVIOUS
  <2> QED BY <2>1
<1>2. m \in S /\ m < n => m \in high /\ m \notin low
  OBVIOUS
<1>3. IsFiniteSet(high) /\ IsFiniteSet(low)
  BY FS_Subset
<1>4. Cardinality(high) \in Nat /\ Cardinality(low) \in Nat
  BY <1>3, FS_CardinalityType
<1>5. Cardinality(low) <= Cardinality(high) /\ (Cardinality(high) = Cardinality(low) => high = low)
  BY <1>1, <1>3, FS_Subset
<1> QED BY <1>2, <1>4, <1>5 DEF Place

LEMMA SamePlaceSameMember ==
    ASSUME NEW S \in SUBSET Nat, IsFiniteSet(S)
    PROVE  \A m, n \in S : Place(S, m) = Place(S, n) => m = n
<1> SUFFICES ASSUME NEW m \in S, NEW n \in S, m # n
             PROVE  Place(S, m) # Place(S, n)
  OBVIOUS
<1>1. ASSUME NEW k \in S, NEW l \in S, k < l PROVE Place(S, k) # Place(S, l)
  <2>1. Place(S, k) < Place(S, l) /\ Place(S, k) \in Nat /\ Place(S, l) \in Nat
    BY <1>1, PlaceGrows, PlaceIsNat
  <2> QED BY <2>1
<1>2. CASE m < n
  BY <1>1, <1>2
<1>3. CASE n < m
  BY <1>1, <1>3
<1> QED BY <1>2, <1>3

(* Each place up to the number of members is one member's.                        *)
LEMMA EachPlaceIsTaken ==
    ASSUME NEW S \in SUBSET Nat, IsFiniteSet(S)
    PROVE  \A p \in 0..(Cardinality(S) - 1) : \E n \in S : Place(S, n) = p
<1> DEFINE places == 0..(Cardinality(S) - 1)
           place == [n \in S |-> Place(S, n)]
<1>1. Cardinality(S) \in Nat
  BY FS_CardinalityType
<1>2. IsFiniteSet(places) /\ Cardinality(places) = Cardinality(S)
  <2>1. PICK c \in Nat : c = Cardinality(S)
    BY <1>1
  <2>2. IsFiniteSet(0..(c - 1)) /\ Cardinality(0..(c - 1)) = c
    BY FS_Interval
  <2> QED BY <2>1, <2>2
<1>3. place \in [S -> places]
  <2>1. \A n \in S : Place(S, n) \in places
    BY <1>1, PlaceIsNat
  <2> QED BY <2>1
<1>4. place \in Injection(S, places)
  BY <1>3, SamePlaceSameMember DEF Injection, IsInjective
<1>5. place \in Surjection(S, places)
  <2> HIDE DEF place, places
  <2> QED BY <1>2, <1>4, FS_Injection
<1> QED BY <1>5 DEF Surjection

(* The greatest member is the one at the last place.                              *)
LEMMA Greatest ==
    ASSUME NEW S \in SUBSET Nat, IsFiniteSet(S), S # {}
    PROVE  \E n \in S : \A m \in S : m <= n
<1>1. Cardinality(S) \in Nat /\ Cardinality(S) # 0
  BY FS_CardinalityType, FS_EmptySet
<1>2. PICK n \in S : Place(S, n) = Cardinality(S) - 1
  BY <1>1, EachPlaceIsTaken
<1>3. ASSUME NEW m \in S, n < m PROVE FALSE
  <2>1. Place(S, m) > Cardinality(S) - 1 /\ Place(S, m) < Cardinality(S) /\ Place(S, m) \in Nat
    BY <1>2, <1>3, PlaceGrows, PlaceIsNat
  <2> QED BY <1>1, <2>1
<1> QED BY <1>3

(* Any set of natural numbers has a smallest member: the greatest of what it takes to get  *)
(* from each of its members, up to any one k of them, to k.                          *)
LEMMA SmallestMember ==
    ASSUME NEW S \in SUBSET Nat, S # {}
    PROVE  \E n \in S : \A m \in S : n <= m
<1>1. PICK k \in S : TRUE
  OBVIOUS
<1> DEFINE T == {i \in 0..k : k - i \in S}
<1>2. T \in SUBSET Nat /\ IsFiniteSet(T) /\ 0 \in T
  <2>1. IsFiniteSet(0..k)
    BY FS_Interval
  <2>2. IsFiniteSet(T)
    BY <2>1, FS_Subset
  <2> QED BY <2>2
<1>3. PICK i \in T : \A j \in T : j <= i
  <2> HIDE DEF T
  <2> QED BY <1>2, Greatest
<1>4. ASSUME NEW m \in S, m < k - i PROVE FALSE
  <2>1. k - m \in T
    BY <1>4
  <2> QED BY <1>3, <1>4, <2>1
<1> QED BY <1>3, <1>4

(* Induction, for the set of the numbers that have the property.  (The theorems of      *)
(* NaturalsInduction take the property as an operator.)                              *)
LEMMA Induction ==
    ASSUME NEW S, \A n \in Nat : (\A m \in Nat : m < n => m \in S) => n \in S
    PROVE  Nat \subseteq S
<1> SUFFICES ASSUME Nat \ S # {} PROVE FALSE
  OBVIOUS
<1>1. PICK n \in Nat \ S : \A m \in Nat \ S : n <= m
  BY SmallestMember
<1> QED BY <1>1

(* Ascending(S) has the members of S, each at its place.                           *)
LEMMA AscendingFacts ==
    ASSUME NEW S \in SUBSET Nat, IsFiniteSet(S)
    PROVE  /\ Ascending(S) \in Seq(S) /\ Len(Ascending(S)) = Cardinality(S)
           /\ \A k \in 1..Cardinality(S) :
                Ascending(S)[k] \in S /\ Place(S, Ascending(S)[k]) = k - 1
           /\ \A n \in S : /\ Place(S, n) + 1 \in 1..Cardinality(S)
                           /\ Ascending(S)[Place(S, n) + 1] = n
<1> DEFINE At(k) == CHOOSE n \in S : Place(S, n) = k - 1
<1>1. Cardinality(S) \in Nat
  BY FS_CardinalityType
<1>2. ASSUME NEW k \in 1..Cardinality(S) PROVE At(k) \in S /\ Place(S, At(k)) = k - 1
  <2>1. k - 1 \in 0..(Cardinality(S) - 1)
    BY <1>1
  <2>2. \E n \in S : Place(S, n) = k - 1
    BY <2>1, EachPlaceIsTaken
  <2> QED BY <2>2
<1>3. Ascending(S) = [k \in 1..Cardinality(S) |-> At(k)]
  BY DEF Ascending
<1> HIDE DEF At
<1>4. Ascending(S) \in Seq(S) /\ Len(Ascending(S)) = Cardinality(S)
  <2>1. Ascending(S) \in [1..Cardinality(S) -> S]
    BY <1>2, <1>3
  <2>2. ASSUME NEW n \in Nat, NEW f \in [1..n -> S] PROVE f \in Seq(S) /\ Len(f) = n
    OBVIOUS
  <2> QED BY ONLY <1>1, <2>1, <2>2
<1>5. \A k \in 1..Cardinality(S) : Ascending(S)[k] \in S /\ Place(S, Ascending(S)[k]) = k - 1
  BY <1>2, <1>3
<1>6. ASSUME NEW n \in S
      PROVE  Place(S, n) + 1 \in 1..Cardinality(S) /\ Ascending(S)[Place(S, n) + 1] = n
  <2>1. PICK j \in 1..Cardinality(S) : j = Place(S, n) + 1 /\ j - 1 = Place(S, n)
    BY <1>1, PlaceIsNat
  <2>2. Ascending(S)[j] \in S /\ Place(S, Ascending(S)[j]) = Place(S, n)
    BY <1>5, <2>1
  <2>3. \A k, l \in S : Place(S, k) = Place(S, l) => k = l
    BY SamePlaceSameMember
  <2>4. Ascending(S)[j] = n
    BY ONLY <2>2, <2>3, n \in S
  <2> QED BY <2>1, <2>4
<1> QED BY <1>4, <1>5, <1>6
===============================================================================
