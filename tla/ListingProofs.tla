---------------------------- MODULE ListingProofs ----------------------------
(***************************************************************************)
(* Theorems about Listing.                                                   *)
(***************************************************************************)
EXTENDS Listing, OrderingProofs, SequenceTheorems

(* How many rows come before n.                                                *)
Rank(n) == Place(rows, n)

Running == phase \in {"count", "page"}

(* n has been there all the time, and nothing before it has come or gone.         *)
Untouched(n) ==
    /\ n \in rows \ inserted
    /\ \A m \in removed \cup inserted : m >= n

TypeOK ==
    /\ resource \in {"nodes", "tags"}
    /\ limit \in Nat \ {0}
    /\ rows \in SUBSET (0..MaxId)
    /\ removed \in SUBSET (0..MaxId) /\ inserted \in SUBSET (0..MaxId)
    /\ items \in Seq(0..MaxId)
    /\ offset \in 0..FarOff /\ total \in Nat
    /\ phase \in {"count", "page", "done", "failed"}

(* What lies before the offset has been collected.                               *)
CollectsAll == Running => \A n \in 0..MaxId :
    /\ Untouched(n) /\ Rank(n) < offset => n \in ToSet(items)
    /\ Untouched(n) /\ phase = "page" => Rank(n) < total

NeverTooMany == Running => Len(items) <= offset

(* And nothing else: what is no greater than a collected row lies before the offset, *)
(* unless an insertion has pushed it on.                                          *)
CollectsInOrder == Running => \A i \in 1..Len(items), x \in 0..MaxId :
    x <= items[i] /\ (\A m \in inserted : m > x) => Rank(x) < offset

IInv ==
    /\ TypeOK
    /\ ToSet(items) \subseteq rows \cup removed
    /\ CollectsAll
    /\ NeverTooMany
    /\ CollectsInOrder
    /\ \A i, j \in 1..Len(items) : i < j /\ items[i] >= items[j] =>
          \E m \in inserted : m <= items[j]
    /\ phase = "done" => \A n \in 0..MaxId : Untouched(n) => n \in ToSet(items)
-----------------------------------------------------------------------------
(* Places of rows.                                                             *)

LEMMA Finite ==
    ASSUME NEW S \in SUBSET (0..MaxId)
    PROVE  /\ S \in SUBSET Nat /\ IsFiniteSet(S)
           /\ Cardinality(S) \in Nat /\ Cardinality(S) <= FarOff
<1>1. MaxId \in Nat /\ FarOff \in Nat /\ FarOff > MaxId
  BY IdsAssumption, ListingAssumption
<1>2. IsFiniteSet(0..MaxId) /\ Cardinality(0..MaxId) = MaxId + 1
  BY <1>1, FS_Interval
<1>3. IsFiniteSet(S) /\ Cardinality(S) <= MaxId + 1
  BY <1>2, FS_Subset
<1>4. Cardinality(S) \in Nat
  BY <1>3, FS_CardinalityType
<1>5. S \in SUBSET Nat
  BY <1>1
<1> QED BY <1>1, <1>3, <1>4, <1>5

LEMMA RankIsNat ==
    ASSUME NEW S \in SUBSET (0..MaxId), NEW n \in 0..MaxId
    PROVE  /\ Place(S, n) \in Nat
           /\ n \in S => Place(S, n) < Cardinality(S)
<1>1. S \in SUBSET Nat /\ IsFiniteSet(S) /\ n \in Nat
  BY Finite, IdsAssumption
<1> QED BY <1>1, PlaceIsNat

LEMMA RankGrows ==
    ASSUME NEW S \in SUBSET (0..MaxId), NEW m \in 0..MaxId, NEW n \in 0..MaxId, m <= n
    PROVE  Place(S, m) <= Place(S, n)
<1>1. S \in SUBSET Nat /\ IsFiniteSet(S) /\ m \in Nat /\ n \in Nat
  BY Finite, IdsAssumption
<1> QED BY <1>1, PlaceGrows

LEMMA MinOfTwo ==
    ASSUME NEW a \in Int, NEW b \in Int
    PROVE  Min({a, b}) = IF a <= b THEN a ELSE b
<1> DEFINE least == IF a <= b THEN a ELSE b
<1>1. least \in {a, b} /\ \A y \in {a, b} : least <= y
  OBVIOUS
<1>2. \A x \in {a, b} : (\A y \in {a, b} : x <= y) => x = least
  OBVIOUS
<1> QED BY <1>1, <1>2 DEF Min
(* A page is the rows of its places, in order.                                    *)
LEMMA PageFacts ==
    ASSUME TypeOK
    PROVE  /\ Page \in Seq(0..MaxId) /\ Len(Page) \in 0..limit
           /\ Len(Page) > 0 => offset + Len(Page) <= Cardinality(rows)
           /\ \A k \in 1..Len(Page) : Page[k] \in rows /\ Rank(Page[k]) = offset + k - 1
           /\ \A n \in rows : Rank(n) \in offset..(offset + limit - 1) =>
                \E k \in 1..Len(Page) : Page[k] = n
<1> DEFINE sorted == Ascending(rows)
           last == IF offset + limit <= Cardinality(rows) THEN offset + limit ELSE Cardinality(rows)
           size == IF last > offset THEN last - offset ELSE 0
<1>1. /\ rows \in SUBSET (0..MaxId) /\ offset \in Nat /\ limit \in Nat \ {0}
      /\ Cardinality(rows) \in Nat /\ rows \in SUBSET Nat /\ IsFiniteSet(rows)
  BY Finite, ListingAssumption DEF TypeOK
<1>2. /\ \A k \in 1..Cardinality(rows) : sorted[k] \in rows /\ Rank(sorted[k]) = k - 1
      /\ \A n \in rows : Rank(n) + 1 \in 1..Cardinality(rows) /\ sorted[Rank(n) + 1] = n
  BY <1>1, AscendingFacts DEF Rank
<1>3. Page = SubSeq(sorted, offset + 1, last)
  BY <1>1, MinOfTwo DEF Page
<1> HIDE DEF sorted
<1>4. last \in Nat /\ size \in 0..limit /\ (size > 0 => offset + size <= Cardinality(rows))
  BY <1>1
<1>5. \A i \in (offset + 1)..last : sorted[i] \in 0..MaxId
  <2>1. \A i \in (offset + 1)..last : i \in 1..Cardinality(rows)
    BY <1>1
  <2> QED BY <1>1, <1>2, <2>1
<1>6. /\ Page \in Seq(0..MaxId) /\ Len(Page) = size
      /\ \A k \in 1..size : Page[k] = sorted[offset + k]
  <2>1. PICK from \in Int, to \in Int : from = offset + 1 /\ to = last
    BY <1>1, <1>4
  <2>2. /\ Page \in Seq(0..MaxId) /\ Len(Page) = IF from <= to THEN to - from + 1 ELSE 0
        /\ \A k \in 1..(to - from + 1) : Page[k] = sorted[from + k - 1]
    BY <1>3, <1>5, <2>1, SubSeqProperties
  <2> QED BY <1>1, <1>4, <2>1, <2>2
<1>7. ASSUME NEW k \in 1..size
      PROVE  Page[k] \in rows /\ Rank(Page[k]) = offset + k - 1
  <2>1. PICK j \in 1..Cardinality(rows) : j = offset + k
    BY <1>1, <1>4
  <2>2. Page[k] = sorted[j]
    BY <1>6, <2>1
  <2>3. sorted[j] \in rows /\ Rank(sorted[j]) = j - 1
    BY <1>2
  <2>4. j - 1 = offset + k - 1
    BY <1>1, <2>1
  <2> QED BY ONLY <2>2, <2>3, <2>4
<1>8. ASSUME NEW n \in rows, Rank(n) \in offset..(offset + limit - 1)
      PROVE  \E k \in 1..size : Page[k] = n
  <2>1. PICK r \in Nat : r = Rank(n)
    BY <1>1, <1>8
  <2>2. r + 1 \in 1..Cardinality(rows) /\ sorted[r + 1] = n /\ r \in offset..(offset + limit - 1)
    BY <1>2, <1>8, <2>1
  <2>3. r - offset + 1 \in 1..size /\ offset + (r - offset + 1) = r + 1
    BY <1>1, <2>2
  <2>4. Page[r - offset + 1] = n
    BY <1>6, <2>2, <2>3
  <2> QED BY <2>3, <2>4
<1> QED BY <1>4, <1>6, <1>7, <1>8
-----------------------------------------------------------------------------
(* The invariant.                                                              *)

LEMMA InitIsIInv == Init => IInv
<1> SUFFICES ASSUME Init PROVE IInv
  OBVIOUS
<1>1. items = <<>> /\ Len(items) = 0 /\ ToSet(items) = {} /\ items \in Seq(0..MaxId)
  BY DEF Init, ToSet
<1>2. TypeOK
  BY <1>1, IdsAssumption, ListingAssumption DEF Init, TypeOK
<1>3. \A n \in 0..MaxId : Rank(n) \in Nat
  BY <1>2, RankIsNat DEF TypeOK, Rank
<1> QED BY <1>1, <1>2, <1>3 DEF Init, IInv, CollectsAll, NeverTooMany, CollectsInOrder

LEMMA CountKeepsIInv == IInv /\ Count => IInv'
<1> SUFFICES ASSUME IInv, Count PROVE IInv'
  OBVIOUS
<1> USE DEF Count, history
<1>1. Cardinality(rows) \in Nat
  BY Finite DEF IInv, TypeOK
<1>2. TypeOK'
  BY <1>1 DEF IInv, TypeOK
<1>3. \A n \in 0..MaxId : Untouched(n)' = Untouched(n) /\ Rank(n)' = Rank(n)
  BY DEF Untouched, Rank
<1>4. \A n \in 0..MaxId : Untouched(n) => Rank(n) < Cardinality(rows)
  BY RankIsNat DEF IInv, TypeOK, Untouched, Rank
<1>5. CollectsAll'
  BY <1>3, <1>4 DEF IInv, CollectsAll, Running
<1>6. NeverTooMany' /\ CollectsInOrder'
  BY <1>3 DEF IInv, NeverTooMany, CollectsInOrder, Running
<1> QED BY <1>2, <1>5, <1>6 DEF IInv

LEMMA FetchPageKeepsIInv == IInv /\ FetchPage => IInv'
<1> SUFFICES ASSUME IInv, FetchPage PROVE IInv'
  OBVIOUS
<1> DEFINE next == IF offset + limit <= FarOff THEN offset + limit ELSE FarOff
<1>1. /\ rows \in SUBSET (0..MaxId) /\ items \in Seq(0..MaxId) /\ Len(items) \in Nat
      /\ offset \in Nat /\ offset <= FarOff /\ FarOff \in Nat
      /\ limit \in Nat \ {0} /\ total \in Nat
      /\ Cardinality(rows) \in Nat /\ Cardinality(rows) <= FarOff
  BY ListingAssumption, Finite DEF IInv, TypeOK
<1>2. /\ Page \in Seq(0..MaxId) /\ Len(Page) \in 0..limit
      /\ Len(Page) > 0 => offset + Len(Page) <= Cardinality(rows)
  BY PageFacts DEF IInv
<1>3. /\ items' = items \o Page /\ items' \in Seq(0..MaxId)
      /\ Len(items') = Len(items) + Len(Page)
      /\ \A i \in 1..Len(items) : items'[i] = items[i]
      /\ \A k \in 1..Len(Page) : items'[Len(items) + k] = Page[k]
  <2>1. items' = items \o Page
    BY DEF FetchPage
  <2> QED BY <1>1, <1>2, <2>1, ConcatProperties
<1>4. Min({offset + limit, FarOff}) = next /\ next \in 0..FarOff /\ next >= offset
  BY <1>1, MinOfTwo
<1>5. /\ phase = "page" /\ phase' \in {"count", "done"}
      /\ phase' = "count" => offset' = next
      /\ phase' = "done" => Len(items') >= total /\ offset' = offset
      /\ UNCHANGED <<resource, limit, rows, total, removed, inserted>>
  BY <1>4 DEF FetchPage, history
<1>6. Len(items) <= offset
  BY <1>5 DEF IInv, NeverTooMany, Running
<1>7. Len(items') <= next
  BY <1>1, <1>2, <1>3, <1>6
<1>8. TypeOK'
  BY <1>1, <1>3, <1>4, <1>5 DEF IInv, TypeOK
<1>9. \A n \in 0..MaxId : Untouched(n)' = Untouched(n) /\ Rank(n)' = Rank(n) /\ Rank(n) \in Nat
  BY <1>1, <1>5, RankIsNat DEF Untouched, Rank
<1>10. ASSUME NEW i \in 1..Len(items')
       PROVE  \/ i \in 1..Len(items) /\ items'[i] = items[i]
              \/ \E k \in 1..Len(Page) : i = Len(items) + k /\ items'[i] = Page[k]
  <2>1. CASE i <= Len(items)
    BY <1>1, <1>3, <2>1
  <2>2. CASE i > Len(items)
    <3>1. i - Len(items) \in 1..Len(Page) /\ i = Len(items) + (i - Len(items))
      BY <1>1, <1>2, <1>3, <2>2
    <3> QED BY <1>3, <3>1
  <2> QED BY <1>1, <2>1, <2>2
<1>11. \A k \in 1..Len(Page) : /\ Page[k] \in rows /\ Rank(Page[k]) = offset + k - 1
                              /\ Page[k] \in ToSet(items')
  <2>1. \A k \in 1..Len(Page) : Len(items) + k \in DOMAIN items'
    BY <1>1, <1>2, <1>3
  <2> QED BY <1>3, <2>1, PageFacts DEF IInv, ToSet
<1>12. ToSet(items) \subseteq ToSet(items') /\ ToSet(items') \subseteq rows \cup removed
  <2>1. DOMAIN items = 1..Len(items) /\ DOMAIN items' = 1..Len(items')
    BY <1>1, <1>3
  <2>2. ToSet(items) \subseteq ToSet(items')
    BY <1>1, <1>2, <1>3, <2>1 DEF ToSet
  <2>3. \A i \in 1..Len(items') : items'[i] \in rows \cup removed
    BY <1>10, <1>11, <2>1 DEF IInv, ToSet
  <2> QED BY <2>1, <2>2, <2>3 DEF ToSet
<1>13. \A n \in 0..MaxId : Untouched(n) /\ Rank(n) < offset + limit => n \in ToSet(items')
  <2> SUFFICES ASSUME NEW n \in 0..MaxId, Untouched(n), Rank(n) < offset + limit
               PROVE  n \in ToSet(items')
    OBVIOUS
  <2>1. CASE Rank(n) < offset
    BY <1>5, <1>12, <2>1 DEF IInv, CollectsAll, Running
  <2>2. CASE Rank(n) >= offset
    <3>1. n \in rows /\ Rank(n) \in offset..(offset + limit - 1)
      BY <1>1, <1>9, <2>2 DEF Untouched
    <3> QED BY <1>11, <3>1, PageFacts DEF IInv
  <2> QED BY <1>1, <1>9, <2>1, <2>2
<1>14. CollectsAll'
  <2>1. \A n \in 0..MaxId : Untouched(n) /\ Rank(n) < next => n \in ToSet(items')
    BY <1>1, <1>9, <1>13
  <2> QED BY <1>5, <1>9, <2>1 DEF CollectsAll, Running
<1>15. NeverTooMany'
  BY <1>5, <1>7 DEF NeverTooMany, Running
<1>16. CollectsInOrder'
  <2> SUFFICES ASSUME phase' = "count", NEW i \in 1..Len(items'), NEW x \in 0..MaxId,
                      x <= items'[i], \A m \in inserted : m > x
               PROVE  Rank(x) < next
    BY <1>5, <1>9 DEF CollectsInOrder, Running
  <2>1. CASE i \in 1..Len(items) /\ items'[i] = items[i]
    <3>1. Rank(x) < offset
      BY <1>5, <2>1 DEF IInv, CollectsInOrder, Running
    <3> QED BY <1>1, <1>4, <1>9, <3>1
  <2>2. ASSUME NEW k \in 1..Len(Page), items'[i] = Page[k] PROVE Rank(x) < next
    <3>1. Rank(x) <= Rank(Page[k]) /\ Rank(Page[k]) = offset + k - 1
      BY <1>1, <1>2, <1>11, <2>2, RankGrows DEF Rank
    <3>2. k <= limit /\ offset + k <= Cardinality(rows)
      BY <1>1, <1>2
    <3> QED BY <1>1, <1>9, <3>1, <3>2
  <2> QED BY <1>10, <2>1, <2>2
<1>17. ASSUME NEW i \in 1..Len(items'), NEW j \in 1..Len(items'), i < j, items'[i] >= items'[j],
              \A m \in inserted : m > items'[j]
       PROVE  FALSE
  <2>1. items'[i] \in 0..MaxId /\ items'[j] \in 0..MaxId /\ i \in Nat /\ j \in Nat
    <3>1. \A k \in 1..Len(items') : items'[k] \in 0..MaxId
      BY <1>3, ElementOfSeq
    <3> QED BY <3>1
  <2>2. CASE j \in 1..Len(items)
    <3>1. i \in 1..Len(items) /\ items'[i] = items[i] /\ items'[j] = items[j]
      BY <1>1, <1>3, <1>17, <2>2
    <3>2. \E m \in inserted : m <= items[j]
      BY <1>17, <2>2, <3>1 DEF IInv
    <3>3. inserted \in SUBSET (0..MaxId)
      BY DEF IInv, TypeOK
    <3> QED BY <1>17, <2>1, <3>1, <3>2, <3>3
  <2>3. ASSUME NEW k \in 1..Len(Page), j = Len(items) + k, items'[j] = Page[k] PROVE FALSE
    <3>1. Rank(items'[j]) = offset + k - 1
      BY <1>11, <2>3
    <3>2. CASE i \in 1..Len(items) /\ items'[i] = items[i]
      <4>1. Rank(items'[j]) < offset
        BY <1>5, <1>17, <2>1, <3>2 DEF IInv, CollectsInOrder, Running
      <4> QED BY <1>1, <1>2, <3>1, <4>1
    <3>3. ASSUME NEW l \in 1..Len(Page), i = Len(items) + l, items'[i] = Page[l] PROVE FALSE
      <4>1. Rank(items'[i]) = offset + l - 1 /\ l < k
        BY <1>1, <1>2, <1>11, <1>17, <2>3, <3>3
      <4>2. Rank(items'[j]) <= Rank(items'[i])
        BY <1>1, <1>17, <2>1, RankGrows DEF Rank
      <4> QED BY <1>1, <1>2, <3>1, <4>1, <4>2
    <3> QED BY <1>10, <3>2, <3>3
  <2> QED BY <1>10, <2>2, <2>3
<1>18. \A i, j \in 1..Len(items') : i < j /\ items'[i] >= items'[j] =>
          \E m \in inserted : m <= items'[j]
  <2>1. \A j \in 1..Len(items') : items'[j] \in 0..MaxId
    BY <1>3, ElementOfSeq
  <2>2. inserted \in SUBSET (0..MaxId)
    BY DEF IInv, TypeOK
  <2>3. \A j \in 1..Len(items'), m \in inserted : m > items'[j] \/ m <= items'[j]
    BY <2>1, <2>2
  <2> QED BY <1>17, <2>3
<1>19. phase' = "done" => \A n \in 0..MaxId : Untouched(n) => n \in ToSet(items')
  <2> SUFFICES ASSUME phase' = "done", NEW n \in 0..MaxId, Untouched(n)
               PROVE  n \in ToSet(items')
    OBVIOUS
  <2>1. Rank(n) < total
    BY <1>5 DEF IInv, CollectsAll, Running
  <2>2. Len(items') <= offset + limit
    BY <1>1, <1>7
  <2>3. Rank(n) < offset + limit
    BY <1>1, <1>3, <1>2, <1>5, <1>9, <2>1, <2>2
  <2> QED BY <1>13, <2>3
<1> QED BY <1>5, <1>8, <1>9, <1>12, <1>14, <1>15, <1>16, <1>18, <1>19 DEF IInv

(* Where nothing before n came, no more rows come before it than did; where nothing   *)
(* went either, as many.                                                         *)
LEMMA ChangeMovesBack ==
    ASSUME NEW S \in SUBSET (0..MaxId), NEW T \in SUBSET (0..MaxId), NEW n \in 0..MaxId,
           \A m \in T : m < n => m \in S
    PROVE  Place(T, n) <= Place(S, n)
<1> DEFINE before == {m \in S : m < n}
           after == {m \in T : m < n}
<1>1. after \subseteq before
  OBVIOUS
<1>2. IsFiniteSet(before)
  BY Finite
<1>3. Cardinality(after) <= Cardinality(before)
  BY <1>1, <1>2, FS_Subset
<1> QED BY <1>3 DEF Place

LEMMA ChangeKeepsIInv ==
    ASSUME IInv, NEW new \in SUBSET (0..MaxId), NEW gone \in SUBSET (0..MaxId), Change(new, gone)
    PROVE  IInv'
<1>1. /\ rows \in SUBSET (0..MaxId) /\ items \in Seq(0..MaxId)
      /\ inserted \in SUBSET (0..MaxId) /\ removed \in SUBSET (0..MaxId)
      /\ offset \in Nat /\ total \in Nat
  BY ListingAssumption DEF IInv, TypeOK
<1>2. /\ phase \in {"count", "page"}
      /\ rows' = (rows \ gone) \cup new
      /\ inserted' = inserted \cup new /\ removed' = removed \cup gone
      /\ UNCHANGED <<resource, limit, phase, offset, total, items>>
  BY DEF Change, client
<1>3. rows' \in SUBSET (0..MaxId)
  BY <1>1, <1>2
<1>4. TypeOK'
  BY <1>1, <1>2, <1>3 DEF IInv, TypeOK
<1>5. \A n \in 0..MaxId : Rank(n) \in Nat /\ Rank(n)' \in Nat
  BY <1>1, <1>3, RankIsNat DEF Rank
<1>6. ASSUME NEW n \in 0..MaxId, \A m \in inserted' : m >= n PROVE Rank(n)' <= Rank(n)
  <2>1. \A m \in rows' : m < n => m \in rows
    BY <1>1, <1>2, <1>6
  <2> QED BY <1>1, <1>3, <2>1, ChangeMovesBack DEF Rank
<1>7. ASSUME NEW n \in 0..MaxId, Untouched(n)' PROVE Untouched(n) /\ Rank(n)' <= Rank(n)
  <2>1. n \in rows' /\ n \notin inserted' /\ \A m \in removed' \cup inserted' : m >= n
    BY <1>7 DEF Untouched
  <2>2. Untouched(n)
    BY <1>2, <2>1 DEF Untouched
  <2> QED BY <1>6, <2>1, <2>2
<1>8. CollectsAll'
  <2> SUFFICES ASSUME NEW n \in 0..MaxId, Untouched(n)'
               PROVE  /\ Rank(n)' < offset => n \in ToSet(items)
                      /\ phase = "page" => Rank(n)' < total
    BY <1>2 DEF CollectsAll, Running
  <2>1. n \in rows /\ n \notin gone
    <3>1. n \in rows' /\ n \notin inserted'
      BY DEF Untouched
    <3> QED BY <1>2, <3>1
  <2>2. Place(rows, n) <= Place(rows', n)
    <3>1. \A m \in rows : m < n => m \in rows'
      <4> SUFFICES ASSUME NEW m \in rows, m < n PROVE m \in rows'
        OBVIOUS
      <4>1. m \notin removed'
        BY <1>1 DEF Untouched
      <4> QED BY <1>2, <4>1
    <3> QED BY <1>1, <1>3, <3>1, ChangeMovesBack
  <2>3. Rank(n)' = Rank(n) /\ Untouched(n)
    BY <1>5, <1>7, <2>2 DEF Rank
  <2> QED BY <1>2, <2>3 DEF IInv, CollectsAll, Running
<1>9. NeverTooMany'
  BY <1>2 DEF IInv, NeverTooMany, Running
<1>10. CollectsInOrder'
  <2> SUFFICES ASSUME NEW i \in 1..Len(items), NEW x \in 0..MaxId,
                      x <= items[i], \A m \in inserted' : m > x
               PROVE  Rank(x)' < offset
    BY <1>2 DEF CollectsInOrder, Running
  <2>1. Rank(x) < offset
    BY <1>2 DEF IInv, CollectsInOrder, Running
  <2>2. Rank(x)' <= Rank(x)
    <3>1. inserted' \in SUBSET (0..MaxId)
      BY <1>1, <1>2
    <3>2. \A m \in inserted' : m >= x
      BY <3>1
    <3> QED BY <1>6, <3>2
  <2> QED BY <1>1, <1>5, <2>1, <2>2
<1>11. ToSet(items') \subseteq rows' \cup removed'
  BY <1>2 DEF IInv
<1>12. \A i, j \in 1..Len(items') : i < j /\ items'[i] >= items'[j] =>
          \E m \in inserted' : m <= items'[j]
  BY <1>2 DEF IInv
<1> QED BY <1>2, <1>4, <1>8, <1>9, <1>10, <1>11, <1>12 DEF IInv

LEMMA OthersKeepIInv ==
    ASSUME IInv, \/ PostNode \/ PutNode \/ DeleteNode
                 \/ CreateTag \/ DeleteTag \/ RenameTag
    PROVE  IInv'
<1>1. MaxId \in Nat /\ Draws \in Nat \ {0} /\ Clocks \subseteq Nat
  BY IdsAssumption, ListingAssumption
<1>2. \A n : n \in 1..MaxId => {n} \in SUBSET (0..MaxId)
  BY <1>1
<1>3. {} \in SUBSET (0..MaxId) /\ rows \in SUBSET (0..MaxId)
  BY DEF IInv, TypeOK
<1>4. CASE PostNode
  <2>1. PICK now \in Clocks, draw \in 0..(Draws - 1) :
          Fits(NewId(now, draw)) /\ Change({NewId(now, draw)}, {})
    BY <1>4 DEF PostNode
  <2>2. now * Draws \in Nat /\ draw \in Nat
    BY <1>1
  <2>3. {NewId(now, draw)} \in SUBSET (0..MaxId)
    BY <1>1, <2>1, <2>2 DEF NewId, Fits
  <2> QED BY <1>3, <2>1, <2>3, ChangeKeepsIInv
<1>5. CASE PutNode
  BY <1>2, <1>3, <1>5, ChangeKeepsIInv DEF PutNode, Named
<1>6. CASE DeleteNode
  BY <1>2, <1>3, <1>6, ChangeKeepsIInv DEF DeleteNode, Named
<1>7. CASE CreateTag
  BY <1>2, <1>3, <1>7, ChangeKeepsIInv DEF CreateTag
<1>8. CASE DeleteTag
  <2>1. \A n \in rows : {n} \in SUBSET (0..MaxId)
    BY <1>3
  <2> QED BY <2>1, <1>3, <1>8, ChangeKeepsIInv DEF DeleteTag
<1>9. CASE RenameTag
  <2>1. PICK n \in rows, m \in 1..MaxId : Change({m}, {n})
    BY <1>9 DEF RenameTag
  <2>2. {m} \in SUBSET (0..MaxId) /\ {n} \in SUBSET (0..MaxId)
    BY <1>2, <1>3
  <2> QED BY <2>1, <2>2, ChangeKeepsIInv
<1> QED BY <1>4, <1>5, <1>6, <1>7, <1>8, <1>9

LEMMA QuietStepKeepsIInv ==
    ASSUME IInv, Refused \/ UNCHANGED vars
    PROVE  IInv'
<1>1. /\ UNCHANGED <<resource, limit, rows, offset, total, items, removed, inserted>>
      /\ phase' = phase \/ phase' = "failed"
  BY DEF Refused, history, vars
<1>2. \A n \in 0..MaxId : Untouched(n)' = Untouched(n) /\ Rank(n)' = Rank(n)
  BY <1>1 DEF Untouched, Rank
<1>3. TypeOK'
  BY <1>1 DEF IInv, TypeOK
<1>4. CollectsAll' /\ NeverTooMany' /\ CollectsInOrder'
  BY <1>1, <1>2 DEF IInv, CollectsAll, NeverTooMany, CollectsInOrder, Running
<1> QED BY <1>1, <1>2, <1>3, <1>4 DEF IInv

THEOREM Invariance == Spec => []IInv
<1>1. IInv /\ [Next]_vars => IInv'
  BY CountKeepsIInv, FetchPageKeepsIInv, OthersKeepIInv, QuietStepKeepsIInv DEF Next, List
<1> QED BY InitIsIInv, <1>1, PTL DEF Spec

(* Whatever others insert, delete and rename between and within the pages, a list that *)
(* is complete is exact but for what they moved.                                  *)
THEOREM ListsAreExact == Spec => []ListsAreExactUnlessRowsMove
<1>1. IInv => ListsAreExactUnlessRowsMove
  <2> SUFFICES ASSUME IInv, phase = "done"
               PROVE  /\ \A n \in (rows \ inserted) \ ToSet(items) :
                            \E m \in removed \cup inserted : m < n
                      /\ \A i, j \in DOMAIN items : i < j /\ items[i] >= items[j] =>
                            \E m \in inserted : m <= items[j]
                      /\ ToSet(items) \subseteq rows \cup removed
    BY DEF ListsAreExactUnlessRowsMove
  <2>1. /\ rows \in SUBSET (0..MaxId) /\ inserted \in SUBSET (0..MaxId)
        /\ removed \in SUBSET (0..MaxId) /\ DOMAIN items = 1..Len(items)
    BY DEF IInv, TypeOK
  <2>2. \A n \in (rows \ inserted) \ ToSet(items) : ~Untouched(n)
    BY <2>1 DEF IInv
  <2>3. \A n \in (rows \ inserted) \ ToSet(items) : \E m \in removed \cup inserted : m < n
    BY <2>1, <2>2 DEF Untouched
  <2> QED BY <2>1, <2>3 DEF IInv
<1> QED BY <1>1, Invariance, PTL
-----------------------------------------------------------------------------
(* Texts: what decode_id makes of what encode writes.  Each fact about all numbers or all *)
(* texts goes through the set of the numbers that have it, and Induction.                *)

LEMMA DivFacts ==
    ASSUME NEW n \in Nat, n >= Base
    PROVE  /\ n \div Base \in Nat /\ n \div Base < n /\ n \div Base # 0
           /\ n % Base \in 0..(Base - 1)
           /\ (n \div Base) * Base + (n % Base) = n
<1>1. Base \in Nat /\ Base > 1
  BY IdsAssumption
<1>2. n \div Base \in Int /\ n % Base \in 0..(Base - 1) /\ n = Base * (n \div Base) + (n % Base)
  BY <1>1
<1>3. n \div Base \in Nat
  BY <1>1, <1>2
<1>4. n \div Base < n
  BY <1>1, <1>2, <1>3
<1>5. n \div Base # 0
  BY <1>1, <1>2
<1>6. (n \div Base) * Base + (n % Base) = n
  BY <1>1, <1>2
<1> QED BY <1>2, <1>3, <1>4, <1>5, <1>6

(* The digits, and one step of the loop of encode.                                     *)
Digits == 0..(Base - 1)
Spelt(g, n) == IF n < Base THEN <<n>> ELSE Append(g[n \div Base], n % Base)

(* There is a function that satisfies the equation of Encode, so that Encode does.       *)
LEMMA EncodeExists == \E f : f = [n \in 0..MaxId |-> Spelt(f, n)]
<1> DEFINE Partial(k, g) == DOMAIN g = 0..k /\ \A n \in 0..k : g[n] = Spelt(g, n)
           S == {k \in Nat : \E g : Partial(k, g)}
<1>1. ASSUME NEW k \in Nat, \A m \in Nat : m < k => m \in S PROVE k \in S
  <2>1. CASE k < Base
    <3> DEFINE g == [n \in 0..k |-> <<n>>]
    <3>1. Partial(k, g)
      BY <2>1, IdsAssumption DEF Spelt
    <3> HIDE DEF g, Partial
    <3> QED BY <3>1
  <2>2. CASE k >= Base
    <3>1. k - 1 \in Nat /\ k - 1 < k
      BY <2>2, IdsAssumption
    <3>2. PICK g : Partial(k - 1, g)
      BY <1>1, <3>1
    <3> DEFINE h == [n \in 0..k |-> IF n = k THEN Spelt(g, k) ELSE g[n]]
    <3>3. ASSUME NEW n \in 0..k PROVE h[n] = Spelt(h, n)
      <4>1. n >= Base => n \div Base \in 0..(k - 1) /\ n \div Base # k
        BY <3>1, DivFacts
      <4>2. n >= Base => h[n \div Base] = g[n \div Base]
        BY <4>1
      <4>3. Spelt(h, n) = Spelt(g, n)
        <5>1. n < Base \/ n >= Base
          BY <1>1, IdsAssumption
        <5> HIDE DEF h
        <5> QED BY <4>2, <5>1 DEF Spelt
      <4>4. n # k => n \in 0..(k - 1)
        BY <1>1
      <4> QED BY <3>2, <4>3, <4>4
    <3>4. Partial(k, h)
      BY <3>3
    <3> HIDE DEF h, Partial
    <3> QED BY <3>4
  <2> QED BY <1>1, <2>1, <2>2, IdsAssumption
<1>2. Nat \subseteq S
  <2> HIDE DEF S
  <2> QED BY <1>1, Induction
<1>3. PICK g : Partial(MaxId, g)
  BY <1>2, IdsAssumption
<1> DEFINE f == [n \in 0..MaxId |-> g[n]]
<1>4. ASSUME NEW n \in 0..MaxId PROVE g[n] = Spelt(f, n)
  <2>1. n >= Base => n \div Base \in 0..MaxId
    BY DivFacts, IdsAssumption
  <2>2. n >= Base => f[n \div Base] = g[n \div Base]
    BY <2>1
  <2>3. Spelt(f, n) = Spelt(g, n)
    <3>1. n < Base \/ n >= Base
      BY IdsAssumption
    <3> HIDE DEF f
    <3> QED BY <2>2, <3>1 DEF Spelt
  <2> QED BY <1>3, <2>3
<1>5. f = [n \in 0..MaxId |-> Spelt(f, n)]
  BY <1>4
<1> HIDE DEF f
<1> QED BY <1>5

LEMMA EncodeSpells ==
    ASSUME NEW n \in 0..MaxId
    PROVE  /\ n < Base => Encode[n] = <<n>>
           /\ n >= Base => Encode[n] = Append(Encode[n \div Base], n % Base)
<1> DEFINE Q(f) == f = [m \in 0..MaxId |-> IF m < Base THEN <<m>> ELSE Append(f[m \div Base], m % Base)]
<1>1. \E f : Q(f)
  BY EncodeExists DEF Spelt
<1>2. Encode = CHOOSE f : Q(f)
  BY DEF Encode
<1> HIDE DEF Q
<1>3. Q(Encode)
  BY <1>1, <1>2
<1>4. Encode[n] = IF n < Base THEN <<n>> ELSE Append(Encode[n \div Base], n % Base)
  BY <1>3 DEF Q
<1>5. n >= Base => ~(n < Base)
  BY IdsAssumption
<1> QED BY <1>4, <1>5

(* Every text that encode writes has only digits, and at least one.                     *)
LEMMA TextsHaveDigits ==
    ASSUME NEW n \in 0..MaxId
    PROVE  Encode[n] \in Seq(Digits) /\ Encode[n] # <<>>
<1> DEFINE S == {k \in Nat : k <= MaxId => Encode[k] \in Seq(Digits) /\ Encode[k] # <<>>}
<1>1. ASSUME NEW k \in Nat, \A m \in Nat : m < k => m \in S PROVE k \in S
  <2> SUFFICES ASSUME k <= MaxId PROVE Encode[k] \in Seq(Digits) /\ Encode[k] # <<>>
    OBVIOUS
  <2>1. k \in 0..MaxId
    BY IdsAssumption
  <2>2. CASE k < Base
    <3>1. Encode[k] = <<k>>
      BY <2>1, <2>2, EncodeSpells
    <3>2. k \in Digits
      BY <2>2, IdsAssumption DEF Digits
    <3> QED BY <3>1, <3>2
  <2>3. CASE k >= Base
    <3>1. Encode[k] = Append(Encode[k \div Base], k % Base)
      BY <2>1, <2>3, EncodeSpells
    <3>2. k \div Base \in S /\ k \div Base <= MaxId /\ k % Base \in Digits
      <4>1. k \div Base \in Nat /\ k \div Base < k /\ k % Base \in Digits
        BY <2>3, DivFacts DEF Digits
      <4>2. k \div Base \in S
        BY <1>1, <4>1
      <4>3. k \div Base <= MaxId
        BY <2>1, <4>1, IdsAssumption
      <4> QED BY <4>1, <4>2, <4>3
    <3>3. Encode[k \div Base] \in Seq(Digits)
      BY <3>2
    <3> QED BY <3>1, <3>2, <3>3
  <2> QED BY <2>2, <2>3, IdsAssumption
<1>2. Nat \subseteq S
  <2> HIDE DEF S
  <2> QED BY <1>1, Induction
<1> QED BY <1>2, IdsAssumption

(* Max chooses the greatest.                                                     *)
LEMMA Largest ==
    ASSUME NEW k \in Nat, NEW T \in SUBSET (1..k), T # {}
    PROVE  Max(T) \in T /\ \A m \in T : m <= Max(T)
<1>1. IsFiniteSet(T)
  <2>1. IsFiniteSet(1..k)
    BY FS_Interval
  <2> QED BY <2>1, FS_Subset
<1>2. T \in SUBSET Nat
  OBVIOUS
<1>3. PICK n \in T : \A m \in T : m <= n
  BY <1>1, <1>2, Greatest
<1>4. \E x \in T : \A y \in T : x >= y
  BY <1>2, <1>3
<1>5. Max(T) \in T /\ \A y \in T : Max(T) >= y
  BY <1>4 DEF Max
<1> QED BY <1>2, <1>5

(* What the digits of s in the places of T come to.                                *)
Worth(g, s, T) == IF T = {} THEN 0 ELSE g[T \ {Max(T)}] * Base + s[Max(T)]

(* And there is a function that satisfies the equation of FoldLeft.                      *)
LEMMA WorthExists ==
    ASSUME NEW l \in Nat, NEW s
    PROVE  \E f : f = [T \in SUBSET (1..l) |-> Worth(f, s, T)]
<1> DEFINE Partial(k, g) == DOMAIN g = SUBSET (1..k) /\ \A T \in SUBSET (1..k) : g[T] = Worth(g, s, T)
           S == {k \in Nat : \E g : Partial(k, g)}
<1>1. ASSUME NEW k \in Nat, \A m \in Nat : m < k => m \in S PROVE k \in S
  <2>1. CASE k = 0
    <3> DEFINE g == [T \in SUBSET (1..k) |-> 0]
    <3>1. \A T \in SUBSET (1..k) : T = {}
      BY <2>1
    <3>2. Partial(k, g)
      BY <3>1 DEF Worth
    <3> HIDE DEF g, Partial
    <3> QED BY <3>2
  <2>2. CASE k # 0
    <3>1. k - 1 \in Nat /\ k - 1 < k
      BY <2>2
    <3>2. PICK g : Partial(k - 1, g)
      BY <1>1, <3>1
    <3> DEFINE h == [T \in SUBSET (1..k) |-> IF k \in T THEN Worth(g, s, T) ELSE g[T]]
    <3>3. ASSUME NEW T \in SUBSET (1..k) PROVE h[T] = Worth(h, s, T)
      <4>1. CASE T = {}
        BY <3>1, <3>2, <4>1 DEF Worth
      <4>2. CASE T # {}
        <5>1. Max(T) \in T /\ \A m \in T : m <= Max(T)
          BY <4>2, Largest
        <5> PICK R : R = T \ {Max(T)}
          OBVIOUS
        <5> PICK x : x = Max(T)
          OBVIOUS
        <5>6. x \in 1..k /\ \A m \in R : m \in 1..k /\ m <= x /\ m # x
          BY <5>1
        <5>2. R \in SUBSET (1..(k - 1)) /\ R \in SUBSET (1..k) /\ k \notin R
          <6> HIDE DEF h, Partial
          <6>1. \A m \in R : m \in 1..(k - 1) /\ m \in 1..k /\ m # k
            BY <3>1, <5>6
          <6> QED BY <6>1
        <5>3. h[R] = g[R]
          BY <5>2
        <5>4. Worth(h, s, T) = Worth(g, s, T)
          BY <4>2, <5>3 DEF Worth
        <5>5. k \notin T => T \in SUBSET (1..(k - 1))
          BY <3>1
        <5> QED BY <3>2, <5>4, <5>5
      <4> QED BY <4>1, <4>2
    <3>4. Partial(k, h)
      BY <3>3
    <3> HIDE DEF h, Partial
    <3> QED BY <3>4
  <2> QED BY <2>1, <2>2
<1>2. Nat \subseteq S
  <2> HIDE DEF S
  <2> QED BY <1>1, Induction
<1>3. PICK g : Partial(l, g)
  BY <1>2
<1> DEFINE f == [T \in SUBSET (1..l) |-> g[T]]
<1>4. ASSUME NEW T \in SUBSET (1..l) PROVE g[T] = Worth(f, s, T)
  <2>1. T # {} => T \ {Max(T)} \in SUBSET (1..l)
    OBVIOUS
  <2>2. Worth(f, s, T) = Worth(g, s, T)
    BY <2>1 DEF Worth
  <2> QED BY <1>3, <2>2
<1>5. f = [T \in SUBSET (1..l) |-> Worth(f, s, T)]
  BY <1>4
<1> HIDE DEF f
<1> QED BY <1>5

(* The loop of decode.                                                            *)
Value(s) == FoldLeft(LAMBDA value, digit : value * Base + digit, 0, s)

(* The fold, place by place.                                                      *)
Sums(g, s) == g[0] = 0 /\ \A k \in 1..Len(s) : g[k] = g[k - 1] * Base + s[k]

LEMMA ValueSums ==
    ASSUME NEW s \in Seq(Digits)
    PROVE  \E g : Sums(g, s) /\ Value(s) = g[Len(s)]
<1> DEFINE Q(f) == f = [T \in SUBSET DOMAIN s |-> IF T = {} THEN 0 ELSE f[T \ {Max(T)}] * Base + s[Max(T)]]
           h == CHOOSE f : Q(f)
<1>1. Len(s) \in Nat /\ DOMAIN s = 1..Len(s)
  OBVIOUS
<1>2. Q(h)
  <2>1. \E f : Q(f)
    <3>1. PICK l \in Nat : l = Len(s)
      BY <1>1
    <3>2. PICK f : f = [T \in SUBSET (1..l) |-> Worth(f, s, T)]
      BY WorthExists
    <3>3. Q(f)
      BY <1>1, <3>1, <3>2 DEF Worth
    <3> HIDE DEF Q
    <3> QED BY <3>3
  <2> HIDE DEF Q
  <2> QED BY <2>1
<1>3. Value(s) = h[DOMAIN s]
  BY DEF Value, FoldLeft, MapThenFoldSet
<1> HIDE DEF h
<1> DEFINE g == [k \in 0..Len(s) |-> h[1..k]]
<1>4. g[0] = 0
  <2>1. 1..0 = {} /\ 1..0 \in SUBSET DOMAIN s
    OBVIOUS
  <2> QED BY <1>1, <1>2, <2>1
<1>5. ASSUME NEW k \in 1..Len(s) PROVE g[k] = g[k - 1] * Base + s[k]
  <2> PICK T : T = 1..k
    OBVIOUS
  <2>0. k \in Nat /\ k >= 1 /\ k <= Len(s)
    BY <1>1
  <2>1. T \in SUBSET DOMAIN s /\ T # {} /\ k \in T /\ k \in Nat /\ T \in SUBSET (1..k)
    <3>1. k \in T /\ T \in SUBSET (1..k)
      BY <2>0
    <3>2. T \in SUBSET (1..Len(s))
      BY <1>1, <2>0
    <3> QED BY <1>1, <2>0, <3>1, <3>2
  <2>2. Max(T) = k
    <3>1. Max(T) \in T /\ \A m \in T : m <= Max(T)
      BY <2>1, Largest
    <3> QED BY <2>1, <3>1
  <2>3. T \ {k} = 1..(k - 1) /\ k - 1 \in 0..Len(s)
    BY <1>1
  <2>4. h[T] = h[T \ {k}] * Base + s[k]
    BY <1>2, <2>1, <2>2
  <2>5. g[k] = h[T] /\ g[k - 1] = h[1..(k - 1)]
    BY <1>1, <2>0, <2>3
  <2> HIDE DEF g
  <2> QED BY <2>3, <2>4, <2>5
<1>6. Value(s) = g[Len(s)]
  BY <1>1, <1>3
<1> HIDE DEF g
<1> QED BY <1>4, <1>5, <1>6 DEF Sums

(* One more digit.                                                                *)
LEMMA ValueOfAppend ==
    ASSUME NEW s \in Seq(Digits), NEW d \in Digits
    PROVE  Value(Append(s, d)) = Value(s) * Base + d
<1> DEFINE b == Append(s, d)
<1>1. /\ b \in Seq(Digits) /\ Len(b) = Len(s) + 1 /\ b[Len(b)] = d /\ Len(s) \in Nat
      /\ \A k \in 1..Len(s) : b[k] = s[k]
  OBVIOUS
<1> HIDE DEF b
<1>2. PICK g : Sums(g, s) /\ Value(s) = g[Len(s)]
  BY ValueSums
<1>3. PICK h : Sums(h, b) /\ Value(b) = h[Len(b)]
  BY <1>1, ValueSums
<1> DEFINE S == {k \in Nat : k <= Len(s) => g[k] = h[k]}
<1>4. ASSUME NEW k \in Nat, \A m \in Nat : m < k => m \in S PROVE k \in S
  <2> SUFFICES ASSUME k <= Len(s) PROVE g[k] = h[k]
    OBVIOUS
  <2>1. CASE k = 0
    BY <1>2, <1>3, <2>1 DEF Sums
  <2>2. CASE k # 0
    <3>1. k \in 1..Len(s) /\ k \in 1..Len(b) /\ k - 1 \in S /\ k - 1 <= Len(s)
      BY <1>1, <1>4, <2>2
    <3>2. g[k - 1] = h[k - 1]
      BY <3>1
    <3> QED BY <1>1, <1>2, <1>3, <3>1, <3>2 DEF Sums
  <2> QED BY <2>1, <2>2
<1>5. Nat \subseteq S
  <2> HIDE DEF S
  <2> QED BY <1>4, Induction
<1>6. g[Len(s)] = h[Len(s)]
  BY <1>1, <1>5
<1>7. Len(b) \in 1..Len(b) /\ Len(b) - 1 = Len(s)
  BY <1>1
<1>8. Value(b) = Value(s) * Base + d
  BY <1>1, <1>2, <1>3, <1>6, <1>7 DEF Sums
<1> QED BY <1>8 DEF b

(* What encode writes, the loop of decode reads back.                                    *)
LEMMA ValueOfText ==
    ASSUME NEW n \in 0..MaxId
    PROVE  Value(Encode[n]) = n
<1> DEFINE S == {k \in Nat : k <= MaxId => Value(Encode[k]) = k}
<1>1. ASSUME NEW k \in Nat, \A m \in Nat : m < k => m \in S PROVE k \in S
  <2> SUFFICES ASSUME k <= MaxId PROVE Value(Encode[k]) = k
    OBVIOUS
  <2>1. k \in 0..MaxId
    BY IdsAssumption
  <2>2. CASE k < Base
    <3>1. Encode[k] = <<k>>
      BY <2>1, <2>2, EncodeSpells
    <3>2. k \in Digits
      BY <2>2, IdsAssumption DEF Digits
    <3>3. <<>> \in Seq(Digits) /\ <<k>> = Append(<<>>, k) /\ Len(<<>>) = 0
      BY <3>2
    <3>4. Value(<<>>) = 0
      BY <3>3, ValueSums DEF Sums
    <3>5. Value(<<k>>) = 0 * Base + k
      BY <3>2, <3>3, <3>4, ValueOfAppend
    <3> QED BY <3>1, <3>5, IdsAssumption
  <2>3. CASE k >= Base
    <3>1. Encode[k] = Append(Encode[k \div Base], k % Base)
      BY <2>1, <2>3, EncodeSpells
    <3>2. k \div Base \in S /\ k \div Base \in 0..MaxId /\ k % Base \in Digits
      <4>1. k \div Base \in Nat /\ k \div Base < k /\ k % Base \in Digits
        BY <2>3, DivFacts DEF Digits
      <4>2. k \div Base \in S
        BY <1>1, <4>1
      <4>3. k \div Base \in 0..MaxId
        BY <2>1, <4>1, IdsAssumption
      <4> QED BY <4>1, <4>2, <4>3
    <3>3. Encode[k \div Base] \in Seq(Digits)
      BY <3>2, TextsHaveDigits
    <3>4. Value(Encode[k]) = Value(Encode[k \div Base]) * Base + (k % Base)
      BY <3>1, <3>2, <3>3, ValueOfAppend
    <3>5. Value(Encode[k \div Base]) = k \div Base
      BY <3>2
    <3>6. (k \div Base) * Base + (k % Base) = k
      BY <2>3, DivFacts
    <3> QED BY <3>4, <3>5, <3>6
  <2> QED BY <2>2, <2>3, IdsAssumption
<1>2. Nat \subseteq S
  <2> HIDE DEF S
  <2> QED BY <1>1, Induction
<1> QED BY <1>2, IdsAssumption

LEMMA TextsAreDecoded ==
    ASSUME NEW n \in 1..MaxId
    PROVE  DecodeId(Encode[n]) = n
<1>1. n \in 0..MaxId /\ n \in Nat /\ MaxId \in Nat
  BY IdsAssumption
<1> PICK s : s = Encode[n]
  OBVIOUS
<1>2. s \in Seq(Digits) /\ s # <<>>
  BY <1>1, TextsHaveDigits
<1>3. Base \notin ToSet(s)
  BY <1>2, IdsAssumption DEF ToSet, Digits
<1>4. Decode(s) = n
  BY <1>1, <1>2, <1>3, ValueOfText DEF Decode, Value
<1> QED BY <1>1, <1>4 DEF DecodeId

(* decode_id takes it, and no other text, as any other with this value is not its encoding. *)
LEMMA OneTextEach ==
    ASSUME NEW n \in 1..MaxId, Encode[n] \in Texts
    PROVE  TextsOf[n] = {Encode[n]}
<1>1. DecodeId(Encode[n]) = n
  BY TextsAreDecoded
<1>2. ASSUME NEW s, DecodeId(s) = n PROVE s = Encode[n]
  BY <1>2 DEF DecodeId, NoId
<1> QED BY <1>1, <1>2 DEF TextsOf

(* Each node answers to exactly one text, the one encode writes: for every base, every     *)
(* largest id and whatever else may be typed.                                        *)
THEOREM NodesHaveOneText == Spec => []NodesAnswerToOneText
<1>1. IInv => NodesAnswerToOneText
  <2> SUFFICES ASSUME IInv, NEW n \in rows \ {0} PROVE TextsOf[n] = {Encode[n]}
    BY DEF NodesAnswerToOneText
  <2>1. n \in 1..MaxId
    BY IdsAssumption DEF IInv, TypeOK
  <2>2. Encode[n] \in Texts
    BY <2>1, ListingAssumption
  <2> QED BY <2>1, <2>2, OneTextEach
<1> QED BY <1>1, Invariance, PTL
===============================================================================
