--------------------------- MODULE TrackingFilter ---------------------------
(***************************************************************************)
(* The deduplication of tracked events: exposureFilter.shouldTrack and     *)
(* assignmentFilter.shouldTrack over internal/cache, a least recently used *)
(* cache whose entries also expire.                                        *)
(*                                                                         *)
(* shouldTrack runs under the filter's mutex, so each call is one action:  *)
(* the cached key is still valid, is unknown, or has expired.  A key       *)
(* stands for the canonical form of an exposure (user, device, flags and   *)
(* variants).  Empty exposures never reach the cache and are left out.     *)
(***************************************************************************)
EXTENDS Naturals, Sequences, FiniteSets

CONSTANTS
    Keys,       \* canonical exposures
    Capacity,   \* c.Capacity
    TTL,        \* c.TTL, dayMillis in the code
    MaxTime     \* bound: the last instant of the clock

ASSUME TrackingFilterAssumption ==
    /\ Capacity \in Nat
    /\ TTL \in Nat \ {0}
    /\ MaxTime \in Nat

VARIABLES
    now,        \* the clock
    cacheList,  \* c.cacheList: the cached keys, most recently used first
    cacheMap,   \* c.cacheMap: the keys that can be looked up
    expiresAt,  \* ExpiresAt of the item of each key
    trackedAt,  \* when each key was last tracked, or Never
    usedSince   \* the other keys asked for since each key was last asked for

vars == <<now, cacheList, cacheMap, expiresAt, trackedAt, usedSince>>

Never == MaxTime + TTL + 1

TypeOK ==
    /\ now \in 0..MaxTime
    /\ cacheList \in Seq(Keys)
    /\ cacheMap \subseteq Keys
    /\ expiresAt \in [Keys -> 0..MaxTime + TTL]
    /\ trackedAt \in [Keys -> 0..MaxTime \cup {Never}]
    /\ usedSince \in [Keys -> SUBSET Keys]
    /\ \A k \in cacheMap : trackedAt[k] # Never /\ expiresAt[k] >= TTL

Init ==
    /\ now = 0
    /\ cacheList = <<>>
    /\ cacheMap = {}
    /\ expiresAt = [k \in Keys |-> 0]
    /\ trackedAt = [k \in Keys |-> Never]
    /\ usedSince = [k \in Keys |-> {}]

----------------------------------------------------------------------------
\* The map holds the element of k, so it need not be searched for.
Place(list, k) == CHOOSE i \in 1..Len(list) : list[i] = k

Without(list, k) ==
    SubSeq(list, 1, Place(list, k) - 1)
        \o SubSeq(list, Place(list, k) + 1, Len(list))

\* Mutant: used entries keep their place in the list.
MoveToFrontNot(list, k) == list

MoveToFront(list, k) == <<k>> \o Without(list, k)

\* Mutant: one entry too many is kept.
FullOffByOne(list) == Len(list) > Capacity /\ list # <<>>

\* The back element is evicted, if there is one (Capacity may be 0).
Full(list) == Len(list) >= Capacity /\ list # <<>>

\* Mutant: an evicted entry stays in the map.
UnmapNone(map, k) == map

Unmap(map, k) == map \ {k}

\* Mutant: a new item gets no expiry.
InsertUndated(list, map, k) ==
    /\ cacheList' = <<k>> \o list
    /\ cacheMap' = map \cup {k}
    /\ UNCHANGED expiresAt

\* Insert k, which is not in the list.
Insert(list, map, k) ==
    /\ IF Full(list)
         THEN /\ cacheList' = <<k>> \o SubSeq(list, 1, Len(list) - 1)
              /\ cacheMap' = Unmap(map, list[Len(list)]) \cup {k}
         ELSE /\ cacheList' = <<k>> \o list
              /\ cacheMap' = map \cup {k}
    /\ expiresAt' = [expiresAt EXCEPT ![k] = now + TTL]

Use(k) ==
    usedSince' = [j \in Keys |-> IF j = k THEN {} ELSE usedSince[j] \cup {k}]

Valid(k) == k \in cacheMap /\ now < expiresAt[k]

\* Mutant: a duplicate extends the life of the entry it hits.
DuplicateExtends(k) ==
    /\ Valid(k)
    /\ cacheList' = MoveToFront(cacheList, k)
    /\ expiresAt' = [expiresAt EXCEPT ![k] = now + TTL]
    /\ Use(k)
    /\ UNCHANGED <<now, cacheMap, trackedAt>>

\* Get finds the key: the event is dropped.
Duplicate(k) ==
    /\ Valid(k)
    /\ cacheList' = MoveToFront(cacheList, k)
    /\ Use(k)
    /\ UNCHANGED <<now, cacheMap, expiresAt, trackedAt>>

\* Get finds nothing: the key is inserted and the event tracked.
TrackNew(k) ==
    /\ k \notin cacheMap
    /\ Insert(cacheList, cacheMap, k)
    /\ trackedAt' = [trackedAt EXCEPT ![k] = now]
    /\ Use(k)
    /\ UNCHANGED now

\* Get removes an entry that has expired, then Set inserts it anew.
TrackExpired(k) ==
    /\ k \in cacheMap /\ ~Valid(k)
    /\ Insert(Without(cacheList, k), Unmap(cacheMap, k), k)
    /\ trackedAt' = [trackedAt EXCEPT ![k] = now]
    /\ Use(k)
    /\ UNCHANGED now

Tick ==
    /\ now < MaxTime
    /\ now' = now + 1
    /\ UNCHANGED <<cacheList, cacheMap, expiresAt, trackedAt, usedSince>>

Next == Tick \/ \E k \in Keys : Duplicate(k) \/ TrackNew(k) \/ TrackExpired(k)

Spec == Init /\ [][Next]_vars

----------------------------------------------------------------------------
(* Properties. *)

MapMatchesList ==
    /\ cacheMap = {cacheList[i] : i \in 1..Len(cacheList)}
    /\ Cardinality(cacheMap) = Len(cacheList)

CacheBounded == Len(cacheList) <= IF Capacity = 0 THEN 1 ELSE Capacity

\* The map and the list hold the same keys, each once, and stay within the
\* capacity, through evictions and expiries in any order; one entry is kept
\* even if the capacity is 0.
CacheIsCoherent == MapMatchesList /\ CacheBounded

\* No duplicate is tracked within the TTL unless Capacity other keys came in
\* between: until then a tracked key is remembered.
RecentIsRemembered ==
    \A k \in Keys :
        /\ trackedAt[k] # Never
        /\ now < trackedAt[k] + TTL
        /\ Cardinality(usedSince[k]) < Capacity
        => Valid(k)

\* A key is tracked again once its TTL is over, however often it was asked
\* for in the meantime: duplicates do not prolong the silence.
ExpiryIsFixed ==
    \A k \in Keys : Valid(k) => now < trackedAt[k] + TTL

============================================================================
