------------------------ MODULE TrackingFilterProofs ------------------------
(***************************************************************************)
(* Proofs about TrackingFilter for any keys, capacity and TTL.             *)
(*                                                                         *)
(* The keys before k in the list have all been used since k was.  So when  *)
(* k is evicted from the back of a full list, Capacity other keys have     *)
(* been used since k, and that stays so until k is asked for again.        *)
(***************************************************************************)
EXTENDS TrackingFilter, FunctionTheorems, FiniteSetTheorems,
        SequenceTheorems, TLAPS

Elems(list) == {list[i] : i \in 1..Len(list)}

Distinct(list) ==
    \A i, j \in 1..Len(list) : list[i] = list[j] => i = j

\* A list of distinct keys, the ones of the map.
Coherent(list, map) ==
    /\ list \in Seq(Keys)
    /\ Distinct(list)
    /\ map = Elems(list)

\* The keys before an entry have been used since.
InOrder(list, used) ==
    \A i, j \in 1..Len(list) : j < i => list[j] \in used[list[i]]

Limit == IF Capacity = 0 THEN 1 ELSE Capacity

----------------------------------------------------------------------------
(* Lists. *)

\* A list of distinct keys is as long as the set of its keys is large.
LEMMA DistinctCardinality ==
    ASSUME NEW list \in Seq(Keys), Distinct(list)
    PROVE  /\ IsFiniteSet(Elems(list))
           /\ Cardinality(Elems(list)) = Len(list)
<1>1. Len(list) \in Nat /\ list \in [1..Len(list) -> Keys]
  BY LenProperties
<1>2. IsFiniteSet(1..Len(list)) /\ Cardinality(1..Len(list)) = Len(list)
  BY <1>1, FS_Interval
<1>3. list \in [1..Len(list) -> Elems(list)]
  BY <1>1 DEF Elems
<1>4. list \in Surjection(1..Len(list), Elems(list))
  BY <1>3 DEF Elems, Surjection
<1>5. list \in Injection(1..Len(list), Elems(list))
  BY <1>3 DEF Distinct, Injection, IsInjective
<1> QED
  BY <1>2, <1>4, <1>5, FS_Surjection

\* What cacheList.Remove leaves of a list.
LEMMA WithoutProperties ==
    ASSUME NEW list \in Seq(Keys), NEW k \in Elems(list)
    PROVE  LET w == Without(list, k)
           IN  /\ Place(list, k) \in 1..Len(list)
               /\ list[Place(list, k)] = k
               /\ w \in Seq(Keys)
               /\ Len(w) = Len(list) - 1
               /\ \A i \in 1..Len(w) :
                    w[i] = IF i < Place(list, k) THEN list[i] ELSE list[i + 1]
<1> DEFINE p == Place(list, k)
           before == SubSeq(list, 1, p - 1)
           after  == SubSeq(list, p + 1, Len(list))
<1>1. Len(list) \in Nat /\ \A i \in 1..Len(list) : list[i] \in Keys
  BY LenProperties, ElementOfSeq
<1>2. p \in 1..Len(list) /\ list[p] = k
  BY DEF Elems, Place
<1> HIDE DEF p
<1>3. /\ before \in Seq(Keys)
      /\ Len(before) = p - 1
      /\ \A i \in 1..p-1 : before[i] = list[i]
  <2>1. \A i \in 1..p-1 : list[i] \in Keys
    BY <1>1, <1>2
  <2> QED
    BY <1>1, <1>2, <2>1, SubSeqProperties
<1>4. /\ after \in Seq(Keys)
      /\ Len(after) = Len(list) - p
      /\ \A i \in 1..Len(list)-p : after[i] = list[p + i]
  <2>1. \A i \in p+1..Len(list) : list[i] \in Keys
    BY <1>1, <1>2
  <2>2. /\ after \in Seq(Keys)
        /\ Len(after) = IF p + 1 <= Len(list) THEN Len(list) - (p + 1) + 1 ELSE 0
        /\ \A i \in 1..Len(list)-(p + 1)+1 : after[i] = list[p + 1 + i - 1]
    BY <1>1, <1>2, <2>1, SubSeqProperties
  <2> QED
    BY <1>1, <1>2, <2>2
<1> HIDE DEF before, after
<1>5. /\ before \o after \in Seq(Keys)
      /\ Len(before \o after) = Len(list) - 1
      /\ \A i \in 1..Len(list)-1 :
            (before \o after)[i] = IF i < p THEN list[i] ELSE list[i + 1]
  <2>1. /\ before \o after \in Seq(Keys)
        /\ Len(before \o after) = Len(before) + Len(after)
        /\ \A i \in 1..Len(before)+Len(after) : (before \o after)[i] =
              IF i <= Len(before) THEN before[i] ELSE after[i - Len(before)]
    BY <1>3, <1>4, ConcatProperties
  <2>2. ASSUME NEW i \in 1..Len(list)-1
        PROVE  (before \o after)[i] = IF i < p THEN list[i] ELSE list[i + 1]
    <3>1. CASE i < p
      BY <1>1, <1>2, <1>3, <1>4, <2>1, <3>1
    <3>2. CASE ~(i < p)
      <4>1. i - (p - 1) \in 1..Len(list)-p /\ p + (i - (p - 1)) = i + 1
        BY <1>1, <1>2, <3>2
      <4>2. (before \o after)[i] = after[i - (p - 1)]
        BY <1>1, <1>2, <1>3, <1>4, <2>1, <3>2
      <4> QED
        BY <1>4, <3>2, <4>1, <4>2
    <3> QED
      BY <3>1, <3>2
  <2> QED
    BY <1>1, <1>2, <1>3, <1>4, <2>1, <2>2
<1>6. Without(list, k) = before \o after
  BY DEF Without, before, after, p
<1> QED
  BY <1>2, <1>5, <1>6 DEF p

\* Removing a key leaves the others, in their order.
LEMMA RemoveOne ==
    ASSUME NEW list, NEW map, Coherent(list, map), NEW k \in map, NEW used,
           InOrder(list, used)
    PROVE  /\ Coherent(Without(list, k), Unmap(map, k))
           /\ InOrder(Without(list, k), used)
           /\ Len(Without(list, k)) = Len(list) - 1
           /\ Len(list) \in Nat
<1> DEFINE w == Without(list, k)
           p == Place(list, k)
<1>1. list \in Seq(Keys) /\ k \in Elems(list) /\ Len(list) \in Nat
  BY LenProperties DEF Coherent
<1>2. /\ p \in 1..Len(list)
      /\ list[p] = k
      /\ w \in Seq(Keys)
      /\ Len(w) = Len(list) - 1
      /\ \A i \in 1..Len(w) : w[i] = IF i < p THEN list[i] ELSE list[i + 1]
  BY <1>1, WithoutProperties
<1> HIDE DEF w, p
<1>3. Distinct(w)
  BY <1>1, <1>2 DEF Coherent, Distinct
<1>4. Elems(w) = Elems(list) \ {k}
  <2>1. ASSUME NEW i \in 1..Len(w) PROVE w[i] \in Elems(list) \ {k}
    <3>1. PICK j \in 1..Len(list) : j # p /\ w[i] = list[j]
      <4>1. /\ i \in 1..Len(list) /\ i + 1 \in 1..Len(list)
            /\ i < p => i # p
            /\ ~(i < p) => i + 1 # p
        BY <1>1, <1>2
      <4> QED
        BY <1>2, <4>1
    <3>2. list[j] # k
      BY <1>2, <3>1 DEF Coherent, Distinct
    <3> QED
      BY <3>1, <3>2 DEF Elems
  <2>2. ASSUME NEW i \in 1..Len(list), list[i] # k PROVE list[i] \in Elems(w)
    <3>1. CASE i < p
      <4>1. i \in 1..Len(w) /\ w[i] = list[i]
        BY <1>1, <1>2, <3>1
      <4> QED
        BY <4>1 DEF Elems
    <3>2. CASE i > p
      <4>1. i - 1 \in 1..Len(w) /\ w[i - 1] = list[i]
        BY <1>1, <1>2, <3>2
      <4> QED
        BY <4>1 DEF Elems
    <3> QED
      BY <1>1, <1>2, <2>2, <3>1, <3>2
  <2> QED
    BY <2>1, <2>2 DEF Elems
<1>5. InOrder(w, used)
  BY <1>1, <1>2 DEF InOrder
<1> QED
  BY <1>1, <1>2, <1>3, <1>4, <1>5 DEF Coherent, Unmap, w

\* A key in front of a list that does not hold it.
LEMMA PushFront ==
    ASSUME NEW list, NEW map, Coherent(list, map), NEW k \in Keys \ map
    PROVE  /\ Coherent(<<k>> \o list, map \cup {k})
           /\ Len(<<k>> \o list) = Len(list) + 1
           /\ \A i \in 1..Len(list) + 1 :
                (<<k>> \o list)[i] = IF i = 1 THEN k ELSE list[i - 1]
           /\ Len(list) \in Nat
<1> DEFINE f == <<k>> \o list
<1>1. list \in Seq(Keys) /\ Len(list) \in Nat /\ k \notin Elems(list)
  BY LenProperties DEF Coherent
<1>2. <<k>> \in Seq(Keys) /\ Len(<<k>>) = 1 /\ <<k>>[1] = k
  OBVIOUS
<1>3. /\ f \in Seq(Keys)
      /\ Len(f) = Len(list) + 1
      /\ \A i \in 1..Len(list) + 1 : f[i] = IF i = 1 THEN k ELSE list[i - 1]
  BY <1>1, <1>2, ConcatProperties
<1> HIDE DEF f
<1>4. Distinct(f)
  <2>1. SUFFICES ASSUME NEW i \in 1..Len(f), NEW j \in 1..Len(f), f[i] = f[j]
                 PROVE  i = j
    BY DEF Distinct
  <2>2. \A m \in 1..Len(list) : list[m] # k
    BY <1>1 DEF Elems
  <2>3. CASE i = 1 \/ j = 1
    <3>1. ASSUME NEW m \in 2..Len(f) PROVE f[m] # k
      <4>1. m - 1 \in 1..Len(list) /\ f[m] = list[m - 1]
        BY <1>1, <1>3
      <4> QED
        BY <2>2, <4>1
    <3>2. f[1] = k
      BY <1>1, <1>3
    <3>3. i \in {1} \cup 2..Len(f) /\ j \in {1} \cup 2..Len(f)
      BY <1>1, <1>3
    <3> QED
      BY <2>1, <2>3, <3>1, <3>2, <3>3
  <2>4. CASE i # 1 /\ j # 1
    <3>1. /\ i - 1 \in 1..Len(list) /\ j - 1 \in 1..Len(list)
          /\ list[i - 1] = list[j - 1]
      BY <1>1, <1>3, <2>1, <2>4
    <3>2. i - 1 = j - 1
      BY <3>1 DEF Coherent, Distinct
    <3> QED
      BY <1>1, <1>3, <3>2
  <2> QED
    BY <2>3, <2>4
<1>5. Elems(f) = Elems(list) \cup {k}
  <2>1. ASSUME NEW i \in 1..Len(f) PROVE f[i] \in Elems(list) \cup {k}
    BY <1>1, <1>3 DEF Elems
  <2>2. ASSUME NEW i \in 1..Len(list) PROVE list[i] \in Elems(f)
    <3>1. i + 1 \in 1..Len(f) /\ f[i + 1] = list[i]
      BY <1>1, <1>3
    <3> QED
      BY <3>1 DEF Elems
  <2>3. k \in Elems(f)
    <3>1. 1 \in 1..Len(f) /\ f[1] = k
      BY <1>1, <1>3
    <3> QED
      BY <3>1 DEF Elems
  <2> QED
    BY <2>1, <2>2, <2>3 DEF Elems
<1> QED
  BY <1>1, <1>3, <1>4, <1>5 DEF Coherent, f

\* A list without its last key.
LEMMA DropBack ==
    ASSUME NEW list, NEW map, Coherent(list, map), list # <<>>
    PROVE  LET last == list[Len(list)]
               d == SubSeq(list, 1, Len(list) - 1)
           IN  /\ last \in map
               /\ Coherent(d, Unmap(map, last))
               /\ Len(d) = Len(list) - 1
               /\ \A i \in 1..Len(list) - 1 : d[i] = list[i]
               /\ Len(list) \in Nat \ {0}
<1> DEFINE last == list[Len(list)]
           d == SubSeq(list, 1, Len(list) - 1)
<1>1. list \in Seq(Keys) /\ Len(list) \in Nat \ {0}
  BY EmptySeq DEF Coherent
<1>2. \A i \in 1..Len(list) : list[i] \in Keys
  BY <1>1, ElementOfSeq
<1>3. /\ d \in Seq(Keys)
      /\ Len(d) = Len(list) - 1
      /\ \A i \in 1..Len(list) - 1 : d[i] = list[i]
  <2>1. \A i \in 1..Len(list)-1 : list[i] \in Keys
    BY <1>1, <1>2
  <2>2. /\ d \in Seq(Keys)
        /\ Len(d) = IF 1 <= Len(list) - 1 THEN Len(list) - 1 - 1 + 1 ELSE 0
        /\ \A i \in 1..Len(list)-1-1+1 : d[i] = list[1 + i - 1]
    BY <1>1, <2>1, SubSeqProperties
  <2> HIDE DEF d
  <2>3. ASSUME NEW i \in 1..Len(list)-1 PROVE d[i] = list[i]
    <3>1. i \in 1..Len(list)-1-1+1 /\ 1 + i - 1 = i
      BY <1>1
    <3> QED
      BY <2>2, <3>1
  <2>4. Len(d) = Len(list) - 1
    <3>1. \A n \in Nat \ {0} :
            (IF 1 <= n - 1 THEN n - 1 - 1 + 1 ELSE 0) = n - 1
      OBVIOUS
    <3> QED
      BY <1>1, <2>2, <3>1
  <2> QED
    BY <2>2, <2>3, <2>4
<1> HIDE DEF d
<1>4. Distinct(d)
  BY <1>1, <1>3 DEF Coherent, Distinct
<1>5. last \in Elems(list)
  BY <1>1 DEF Elems
<1>6. Elems(d) = Elems(list) \ {last}
  <2>1. ASSUME NEW i \in 1..Len(d) PROVE d[i] \in Elems(list) \ {last}
    BY <1>1, <1>3 DEF Coherent, Distinct, Elems
  <2>2. ASSUME NEW i \in 1..Len(list), list[i] # last PROVE list[i] \in Elems(d)
    <3>1. i \in 1..Len(d) /\ d[i] = list[i]
      BY <1>1, <1>3, <2>2
    <3> QED
      BY <3>1 DEF Elems
  <2> QED
    BY <2>1, <2>2 DEF Elems
<1> QED
  BY <1>1, <1>3, <1>4, <1>5, <1>6 DEF Coherent, Unmap, d

----------------------------------------------------------------------------
(* The inductive invariant. *)

Typed ==
    /\ now \in 0..MaxTime
    /\ expiresAt \in [Keys -> 0..MaxTime + TTL]
    /\ trackedAt \in [Keys -> 0..MaxTime \cup {Never}]
    /\ usedSince \in [Keys -> SUBSET Keys]
    /\ \A k \in Keys : IsFiniteSet(usedSince[k])

\* A cached key was tracked one TTL before it expires.
Dated ==
    \A k \in cacheMap :
        trackedAt[k] \in 0..MaxTime /\ expiresAt[k] = trackedAt[k] + TTL

\* A key that was tracked and is not cached has been evicted since.
Forgotten ==
    \A k \in Keys :
        trackedAt[k] # Never /\ k \notin cacheMap
            => Capacity <= Cardinality(usedSince[k])

IInv ==
    /\ Typed
    /\ Coherent(cacheList, cacheMap)
    /\ InOrder(cacheList, usedSince)
    /\ Len(cacheList) <= Limit
    /\ Dated
    /\ Forgotten

LEMMA InitIInv == Init => IInv
<1> SUFFICES ASSUME Init PROVE IInv
  OBVIOUS
<1> USE TrackingFilterAssumption DEF TrackingFilterAssumption, Init
<1>1. Typed
  BY FS_EmptySet DEF Typed, Never
<1>2. Coherent(cacheList, cacheMap)
  BY DEF Coherent, Distinct, Elems
<1>3. InOrder(cacheList, usedSince) /\ Len(cacheList) <= Limit
  BY DEF InOrder, Limit
<1>4. Dated /\ Forgotten
  BY DEF Dated, Forgotten
<1> QED
  BY <1>1, <1>2, <1>3, <1>4 DEF IInv

\* Asking for k adds k to what was used since any other key was.
LEMMA UseProperties ==
    ASSUME Typed, NEW k \in Keys, Use(k)
    PROVE  /\ usedSince' \in [Keys -> SUBSET Keys]
           /\ \A j \in Keys : IsFiniteSet(usedSince'[j])
           /\ \A j \in Keys \ {k} :
                /\ usedSince'[j] = usedSince[j] \cup {k}
                /\ Cardinality(usedSince[j]) <= Cardinality(usedSince'[j])
<1>1. /\ usedSince' \in [Keys -> SUBSET Keys]
      /\ usedSince'[k] = {}
      /\ \A j \in Keys \ {k} : usedSince'[j] = usedSince[j] \cup {k}
  BY DEF Typed, Use
<1>2. ASSUME NEW j \in Keys \ {k}
      PROVE  /\ IsFiniteSet(usedSince[j] \cup {k})
             /\ Cardinality(usedSince[j]) <= Cardinality(usedSince[j] \cup {k})
  <2>1. IsFiniteSet(usedSince[j])
    BY DEF Typed
  <2>2. IsFiniteSet(usedSince[j] \cup {k})
    BY <2>1, FS_AddElement
  <2> QED
    BY <2>2, FS_Subset
<1> QED
  BY <1>1, <1>2, FS_EmptySet

\* What Insert puts in front of: the list, or the list without its back.
LEMMA InsertProperties ==
    ASSUME NEW list, NEW map, Coherent(list, map), NEW k \in Keys \ map,
           Insert(list, map, k)
    PROVE  \E base, left :
             /\ Coherent(base, left)
             /\ left \subseteq map
             /\ cacheList' = <<k>> \o base
             /\ cacheMap' = left \cup {k}
             /\ Len(base) \in Nat /\ Len(list) \in Nat
             /\ Len(base) <= Len(list)
             /\ \A i \in 1..Len(base) : base[i] = list[i]
             /\ \/ left = map /\ ~Full(list)
                \/ /\ Full(list)
                   /\ list # <<>>
                   /\ Len(list) = Len(base) + 1
                   /\ left = map \ {list[Len(list)]}
<1>1. CASE Full(list)
  <2> DEFINE base == SubSeq(list, 1, Len(list) - 1)
             left == Unmap(map, list[Len(list)])
  <2>1. list # <<>>
    BY <1>1 DEF Full
  <2>2. /\ Coherent(base, left)
        /\ Len(base) = Len(list) - 1
        /\ \A i \in 1..Len(list) - 1 : base[i] = list[i]
        /\ Len(list) \in Nat \ {0}
    BY <2>1, DropBack
  <2>3. /\ cacheList' = <<k>> \o base
        /\ cacheMap' = left \cup {k}
    BY <1>1 DEF Insert
  <2>4. left = map \ {list[Len(list)]}
    BY DEF Unmap
  <2> HIDE DEF base, left
  <2>5. /\ Len(base) \in Nat /\ Len(list) \in Nat
        /\ Len(base) <= Len(list)
        /\ Len(list) = Len(base) + 1
        /\ \A i \in 1..Len(base) : base[i] = list[i]
    BY <2>2
  <2> QED
    BY <1>1, <2>1, <2>2, <2>3, <2>4, <2>5
<1>2. CASE ~Full(list)
  <2>1. cacheList' = <<k>> \o list /\ cacheMap' = map \cup {k}
    BY <1>2 DEF Insert
  <2>2. Len(list) \in Nat
    BY LenProperties DEF Coherent
  <2> QED
    BY <1>2, <2>1, <2>2
<1> QED
  BY <1>1, <1>2

\* The back of a full list has been passed by Capacity other keys.
LEMMA EvictedIsOld ==
    ASSUME NEW list, NEW map, Coherent(list, map), list # <<>>,
           InOrder(list, usedSince), Full(list), Typed,
           NEW k \in Keys \ map, Use(k), NEW e \in Keys,
           e = list[Len(list)]
    PROVE  Capacity <= Cardinality(usedSince'[e])
<1> DEFINE d == SubSeq(list, 1, Len(list) - 1)
           before == Elems(d)
<1>1. /\ Coherent(d, Unmap(map, e))
      /\ e \in map
      /\ Len(d) = Len(list) - 1
      /\ \A i \in 1..Len(list) - 1 : d[i] = list[i]
      /\ Len(list) \in Nat \ {0}
  BY DropBack
<1> HIDE DEF d
<1>2. IsFiniteSet(before) /\ Cardinality(before) = Len(d)
  BY <1>1, DistinctCardinality DEF Coherent
<1>3. before \subseteq usedSince[e]
  <2>1. ASSUME NEW i \in 1..Len(d) PROVE d[i] \in usedSince[e]
    <3>1. /\ i \in 1..Len(list) /\ Len(list) \in 1..Len(list)
          /\ i < Len(list) /\ d[i] = list[i]
      BY <1>1
    <3> QED
      BY <3>1 DEF InOrder
  <2> QED
    BY <2>1 DEF Elems
<1>4. k \notin before
  BY <1>1 DEF Coherent, Unmap
<1> HIDE DEF before
<1>5. /\ IsFiniteSet(before \cup {k})
      /\ Cardinality(before \cup {k}) = Len(list)
  <2>1. /\ IsFiniteSet(before \cup {k})
        /\ Cardinality(before \cup {k}) = Cardinality(before) + 1
    BY <1>2, <1>4, FS_AddElement
  <2> QED
    BY <1>1, <1>2, <2>1
<1>6. /\ IsFiniteSet(usedSince'[e])
      /\ before \cup {k} \subseteq usedSince'[e]
  BY <1>1, <1>3, UseProperties
<1>7. Cardinality(before \cup {k}) <= Cardinality(usedSince'[e])
  BY <1>6, FS_Subset
<1>8. Cardinality(usedSince'[e]) \in Nat
  BY <1>6, FS_CardinalityType
<1>9. Capacity <= Len(list)
  BY <1>1, TrackingFilterAssumption DEF Full, TrackingFilterAssumption
<1> QED
  BY <1>1, <1>5, <1>7, <1>8, <1>9, TrackingFilterAssumption
  DEF TrackingFilterAssumption

\* A key that is not in the list is tracked and inserted.
LEMMA TrackPreserves ==
    ASSUME IInv, NEW list, NEW map, Coherent(list, map),
           InOrder(list, usedSince), Len(list) <= Limit,
           NEW k \in Keys \ map, map \cup {k} = cacheMap \cup {k},
           Insert(list, map, k), Use(k),
           trackedAt' = [trackedAt EXCEPT ![k] = now], now' = now
    PROVE  IInv'
<1> USE TrackingFilterAssumption DEF TrackingFilterAssumption
<1>1. PICK base, left :
        /\ Coherent(base, left)
        /\ left \subseteq map
        /\ cacheList' = <<k>> \o base
        /\ cacheMap' = left \cup {k}
        /\ Len(base) \in Nat /\ Len(list) \in Nat
        /\ Len(base) <= Len(list)
        /\ \A i \in 1..Len(base) : base[i] = list[i]
        /\ \/ left = map /\ ~Full(list)
           \/ /\ Full(list)
              /\ list # <<>>
              /\ Len(list) = Len(base) + 1
              /\ left = map \ {list[Len(list)]}
  BY InsertProperties
<1>2. /\ usedSince' \in [Keys -> SUBSET Keys]
      /\ \A j \in Keys : IsFiniteSet(usedSince'[j])
      /\ \A j \in Keys \ {k} :
           /\ usedSince'[j] = usedSince[j] \cup {k}
           /\ Cardinality(usedSince[j]) <= Cardinality(usedSince'[j])
  BY UseProperties DEF IInv
<1>3. expiresAt' = [expiresAt EXCEPT ![k] = now + TTL]
  BY DEF Insert
<1>4. k \notin left
  BY <1>1
<1>5. /\ Coherent(cacheList', cacheMap')
      /\ Len(cacheList') = Len(base) + 1
      /\ \A i \in 1..Len(base) + 1 :
           cacheList'[i] = IF i = 1 THEN k ELSE base[i - 1]
  BY <1>1, <1>4, PushFront
<1>6. /\ \A i \in 1..Len(base) : base[i] \in left
      /\ left \subseteq Keys /\ map \subseteq Keys
  <2>1. \A i \in 1..Len(base) : base[i] \in left
    BY <1>1 DEF Coherent, Elems
  <2>2. map \subseteq Keys
    BY ElementOfSeq DEF Coherent, Elems
  <2> QED
    BY <1>1, <2>1, <2>2
<1>7. Typed'
  <2>1. now' \in 0..MaxTime
    BY DEF IInv, Typed
  <2>2. expiresAt' \in [Keys -> 0..MaxTime + TTL]
    <3>1. now + TTL \in 0..MaxTime + TTL
      BY DEF IInv, Typed
    <3> QED
      BY <1>3, <3>1 DEF IInv, Typed
  <2>3. trackedAt' \in [Keys -> 0..MaxTime \cup {Never'}]
    BY DEF IInv, Typed, Never
  <2> QED
    BY <1>2, <2>1, <2>2, <2>3 DEF Typed
<1>8. InOrder(cacheList', usedSince')
  <2>1. SUFFICES ASSUME NEW i \in 1..Len(cacheList'),
                        NEW j \in 1..Len(cacheList'), j < i
                 PROVE  cacheList'[j] \in usedSince'[cacheList'[i]]
    BY DEF InOrder
  <2>2. i - 1 \in 1..Len(base) /\ cacheList'[i] = base[i - 1]
    BY <1>1, <1>5, <2>1
  <2>3. /\ base[i - 1] \in Keys \ {k}
        /\ usedSince'[base[i - 1]] = usedSince[base[i - 1]] \cup {k}
    BY <1>2, <1>4, <1>6, <2>2
  <2>4. CASE j = 1
    BY <1>1, <1>5, <2>2, <2>3, <2>4
  <2>5. CASE j # 1
    <3>1. j - 1 \in 1..Len(base) /\ cacheList'[j] = base[j - 1]
      BY <1>1, <1>5, <2>1, <2>5
    <3>2. /\ i - 1 \in 1..Len(list) /\ j - 1 \in 1..Len(list) /\ j - 1 < i - 1
          /\ base[i - 1] = list[i - 1] /\ base[j - 1] = list[j - 1]
      BY <1>1, <2>1, <2>2, <3>1
    <3>3. base[j - 1] \in usedSince[base[i - 1]]
      BY <3>2 DEF InOrder
    <3> QED
      BY <2>2, <2>3, <3>1, <3>3
  <2> QED
    BY <2>4, <2>5
<1>9. Len(cacheList') <= Limit
  <2>1. CASE Full(list)
    BY <1>1, <1>5, <2>1
  <2>2. CASE ~Full(list)
    <3>1. Len(list) = 0 \/ Len(list) < Capacity
      BY <1>1, <2>2 DEF Full, Coherent
    <3>2. Len(base) = 0 \/ Len(base) < Capacity
      BY <1>1, <3>1
    <3> QED
      BY <1>1, <1>5, <3>2 DEF Limit
  <2> QED
    BY <2>1, <2>2
<1>10. Dated'
  <2>1. SUFFICES ASSUME NEW j \in cacheMap'
                 PROVE  /\ trackedAt'[j] \in 0..MaxTime
                        /\ expiresAt'[j] = trackedAt'[j] + TTL
    BY DEF Dated
  <2>2. CASE j = k
    BY <1>3, <2>2 DEF IInv, Typed
  <2>3. CASE j # k
    <3>1. j \in cacheMap /\ j \in Keys
      BY <1>1, <1>6, <2>1, <2>3
    <3>2. trackedAt'[j] = trackedAt[j] /\ expiresAt'[j] = expiresAt[j]
      BY <1>3, <2>3, <3>1 DEF IInv, Typed
    <3> QED
      BY <3>1, <3>2 DEF IInv, Dated
  <2> QED
    BY <2>2, <2>3
<1>11. Forgotten'
  <2>1. SUFFICES ASSUME NEW j \in Keys, trackedAt'[j] # Never, j \notin cacheMap'
                 PROVE  Capacity <= Cardinality(usedSince'[j])
    BY DEF Forgotten, Never
  <2>2. j # k /\ trackedAt'[j] = trackedAt[j]
    BY <1>1, <2>1 DEF IInv, Typed
  <2>3. CASE j \in map
    <3>1. Full(list) /\ list # <<>> /\ j = list[Len(list)]
      BY <1>1, <2>1, <2>3
    <3> QED
      BY <3>1, EvictedIsOld DEF IInv
  <2>4. CASE j \notin map
    <3>1. Capacity <= Cardinality(usedSince[j])
      BY <2>1, <2>2, <2>4 DEF IInv, Forgotten
    <3>2. /\ Cardinality(usedSince[j]) <= Cardinality(usedSince'[j])
          /\ Cardinality(usedSince[j]) \in Nat
          /\ Cardinality(usedSince'[j]) \in Nat
      BY <1>2, <2>2, FS_CardinalityType DEF IInv, Typed
    <3> QED
      BY <3>1, <3>2
  <2> QED
    BY <2>3, <2>4
<1> QED
  BY <1>5, <1>7, <1>8, <1>9, <1>10, <1>11 DEF IInv, Limit

LEMMA StepTrackNew ==
    ASSUME IInv, NEW k \in Keys, TrackNew(k)
    PROVE  IInv'
<1>1. /\ k \in Keys \ cacheMap
      /\ Insert(cacheList, cacheMap, k) /\ Use(k)
      /\ trackedAt' = [trackedAt EXCEPT ![k] = now] /\ now' = now
  BY DEF TrackNew
<1>2. /\ Coherent(cacheList, cacheMap) /\ InOrder(cacheList, usedSince)
      /\ Len(cacheList) <= Limit
  BY DEF IInv
<1> QED
  BY <1>1, <1>2, TrackPreserves

LEMMA StepTrackExpired ==
    ASSUME IInv, NEW k \in Keys, TrackExpired(k)
    PROVE  IInv'
<1> DEFINE list == Without(cacheList, k)
           map == Unmap(cacheMap, k)
<1>1. /\ k \in cacheMap
      /\ Insert(list, map, k) /\ Use(k)
      /\ trackedAt' = [trackedAt EXCEPT ![k] = now] /\ now' = now
  BY DEF TrackExpired
<1>2. /\ Coherent(list, map) /\ InOrder(list, usedSince)
      /\ Len(list) = Len(cacheList) - 1 /\ Len(cacheList) \in Nat
      /\ Len(cacheList) <= Limit
  BY <1>1, RemoveOne DEF IInv
<1>3. k \in Keys \ map /\ map \cup {k} = cacheMap \cup {k}
  BY <1>1 DEF Unmap
<1> HIDE DEF list, map
<1>4. Len(list) <= Limit
  BY <1>2, TrackingFilterAssumption DEF Limit, TrackingFilterAssumption
<1> QED
  BY <1>1, <1>2, <1>3, <1>4, TrackPreserves

LEMMA StepDuplicate ==
    ASSUME IInv, NEW k \in Keys, Duplicate(k)
    PROVE  IInv'
<1> DEFINE list == Without(cacheList, k)
           map == Unmap(cacheMap, k)
<1>1. /\ k \in cacheMap /\ Use(k)
      /\ cacheList' = <<k>> \o list
      /\ UNCHANGED <<now, cacheMap, expiresAt, trackedAt>>
  BY DEF Duplicate, Valid, MoveToFront
<1>2. /\ Coherent(list, map) /\ InOrder(list, usedSince)
      /\ Len(list) = Len(cacheList) - 1 /\ Len(cacheList) \in Nat
  BY <1>1, RemoveOne DEF IInv
<1>3. k \in Keys \ map /\ map \cup {k} = cacheMap /\ map \subseteq cacheMap
  BY <1>1 DEF Unmap
<1> HIDE DEF list, map
<1>4. /\ Coherent(cacheList', cacheMap')
      /\ Len(cacheList') = Len(list) + 1
      /\ \A i \in 1..Len(list) + 1 :
           cacheList'[i] = IF i = 1 THEN k ELSE list[i - 1]
      /\ Len(list) \in Nat
  BY <1>1, <1>2, <1>3, PushFront
<1>5. /\ usedSince' \in [Keys -> SUBSET Keys]
      /\ \A j \in Keys : IsFiniteSet(usedSince'[j])
      /\ \A j \in Keys \ {k} :
           /\ usedSince'[j] = usedSince[j] \cup {k}
           /\ Cardinality(usedSince[j]) <= Cardinality(usedSince'[j])
  BY <1>1, UseProperties DEF IInv
<1>6. Typed'
  BY <1>1, <1>5 DEF IInv, Typed, Never
<1>7. InOrder(cacheList', usedSince')
  <2>1. SUFFICES ASSUME NEW i \in 1..Len(cacheList'),
                        NEW j \in 1..Len(cacheList'), j < i
                 PROVE  cacheList'[j] \in usedSince'[cacheList'[i]]
    BY DEF InOrder
  <2>2. i - 1 \in 1..Len(list) /\ cacheList'[i] = list[i - 1]
    BY <1>4, <2>1
  <2>3. list[i - 1] \in Keys \ {k}
    <3>1. list[i - 1] \in map
      BY <1>2, <2>2 DEF Coherent, Elems
    <3>2. list[i - 1] \in Keys
      BY <1>2, <2>2, ElementOfSeq DEF Coherent
    <3> QED
      BY <1>3, <3>1, <3>2
  <2>4. usedSince'[list[i - 1]] = usedSince[list[i - 1]] \cup {k}
    BY <1>5, <2>3
  <2>5. CASE j = 1
    BY <1>4, <2>2, <2>4, <2>5
  <2>6. CASE j # 1
    <3>1. j - 1 \in 1..Len(list) /\ cacheList'[j] = list[j - 1]
      BY <1>4, <2>1, <2>6
    <3>2. j - 1 < i - 1
      BY <1>4, <2>1
    <3>3. list[j - 1] \in usedSince[list[i - 1]]
      BY <1>2, <2>2, <3>1, <3>2 DEF InOrder
    <3> QED
      BY <2>2, <2>4, <3>1, <3>3
  <2> QED
    BY <2>5, <2>6
<1>8. Len(cacheList') <= Limit'
  BY <1>2, <1>4 DEF IInv, Limit
<1>9. Dated'
  BY <1>1 DEF IInv, Dated
<1>10. Forgotten'
  <2>1. SUFFICES ASSUME NEW j \in Keys, trackedAt[j] # Never, j \notin cacheMap
                 PROVE  Capacity <= Cardinality(usedSince'[j])
    BY <1>1 DEF Forgotten, Never
  <2>2. Capacity <= Cardinality(usedSince[j])
    BY <2>1 DEF IInv, Forgotten
  <2>3. /\ Cardinality(usedSince[j]) <= Cardinality(usedSince'[j])
        /\ Cardinality(usedSince[j]) \in Nat
        /\ Cardinality(usedSince'[j]) \in Nat
    BY <1>1, <1>5, <2>1, FS_CardinalityType DEF IInv, Typed
  <2> QED
    BY <2>2, <2>3, TrackingFilterAssumption DEF TrackingFilterAssumption
<1> QED
  BY <1>4, <1>6, <1>7, <1>8, <1>9, <1>10 DEF IInv

LEMMA StepIInv == IInv /\ [Next]_vars => IInv'
<1> SUFFICES ASSUME IInv, [Next]_vars PROVE IInv'
  OBVIOUS
<1>1. CASE Tick
  BY <1>1, TrackingFilterAssumption
  DEF Tick, IInv, Typed, Never, Dated, Forgotten, Limit, TrackingFilterAssumption
<1>2. ASSUME NEW k \in Keys, Duplicate(k) PROVE IInv'
  BY <1>2, StepDuplicate
<1>3. ASSUME NEW k \in Keys, TrackNew(k) PROVE IInv'
  BY <1>3, StepTrackNew
<1>4. ASSUME NEW k \in Keys, TrackExpired(k) PROVE IInv'
  BY <1>4, StepTrackExpired
<1>5. CASE UNCHANGED vars
  BY <1>5 DEF vars, IInv, Typed, Never, Dated, Forgotten, Limit
<1> QED
  BY <1>1, <1>2, <1>3, <1>4, <1>5 DEF Next

\* The inductive invariant holds in every state, whatever the constants.
THEOREM Invariant == Spec => []IInv
<1> QED
  BY InitIInv, StepIInv, PTL DEF Spec

\* Every variable keeps its type, and a cached key has been tracked.
THEOREM Typing == Spec => []TypeOK
<1>1. IInv => TypeOK
  <2> SUFFICES ASSUME IInv PROVE TypeOK
    OBVIOUS
  <2>1. cacheList \in Seq(Keys) /\ cacheMap \subseteq Keys
    BY ElementOfSeq DEF IInv, Coherent, Elems
  <2>2. \A k \in cacheMap : trackedAt[k] # Never /\ expiresAt[k] >= TTL
    BY TrackingFilterAssumption DEF TrackingFilterAssumption, IInv, Dated, Never
  <2> QED
    BY <2>1, <2>2 DEF IInv, Typed, TypeOK
<1> QED
  BY <1>1, Invariant, PTL

\* Map and list hold the same keys, each once, and stay within the capacity.
THEOREM MapAndList == Spec => []CacheIsCoherent
<1>1. IInv => MapMatchesList
  BY DistinctCardinality DEF IInv, Coherent, Elems, MapMatchesList
<1>2. IInv => CacheBounded
  BY DEF IInv, Limit, CacheBounded
<1>3. IInv => CacheIsCoherent
  BY <1>1, <1>2 DEF CacheIsCoherent
<1> QED
  BY <1>3, Invariant, PTL

\* A key is forgotten within its TTL only for Capacity other keys.
THEOREM LeastRecentlyUsed == Spec => []RecentIsRemembered
<1>1. IInv => RecentIsRemembered
  <2> SUFFICES ASSUME IInv, NEW k \in Keys, trackedAt[k] # Never,
                      now < trackedAt[k] + TTL,
                      Cardinality(usedSince[k]) < Capacity
               PROVE  Valid(k)
    BY DEF RecentIsRemembered
  <2>1. Cardinality(usedSince[k]) \in Nat
    BY FS_CardinalityType DEF IInv, Typed
  <2>2. k \in cacheMap
    BY <2>1, TrackingFilterAssumption
    DEF IInv, Forgotten, TrackingFilterAssumption
  <2>3. expiresAt[k] = trackedAt[k] + TTL
    BY <2>2 DEF IInv, Dated
  <2> QED
    BY <2>2, <2>3 DEF Valid
<1> QED
  BY <1>1, Invariant, PTL

\* A key that was tracked is silent for one TTL at most.
THEOREM SilenceEnds == Spec => []ExpiryIsFixed
<1>1. IInv => ExpiryIsFixed
  BY DEF IInv, Dated, ExpiryIsFixed, Valid
<1> QED
  BY <1>1, Invariant, PTL

============================================================================
