--------------------------- MODULE TTLCacheProofs ---------------------------
(***************************************************************************)
(* Proofs about TTLCache for every set of keys and values, every capacity, *)
(* every TTL and every order of calls.                                     *)
(***************************************************************************)
EXTENDS TTLCache, TTLStoreProofs

USE TtlAssumption

-----------------------------------------------------------------------------
(* Every call preserves the invariant.                                     *)

LEMMA StoreIsWellFormed == CacheInv => WellFormed(cache, Keys, Values)
PROOF
  BY DEF CacheInv, StateInv, EntryInv, OrderInv, WellFormed

\* What the list lemmas ask of the two lists.
LEMMA Lists ==
    ASSUME CacheInv
    PROVE  /\ now \in Nat
           /\ cache.order \in Seq(Keys) /\ Distinct(cache.order)
           /\ uses \in Seq(Keys) /\ Distinct(uses)
           /\ Listed(cache.order) \subseteq Listed(uses)
PROOF
  <1>1. now \in Nat /\ cache.order \in Seq(Keys) /\ uses \in Seq(Keys)
    BY DEF CacheInv, StateInv
  <1>2. Distinct(cache.order) /\ Distinct(uses)
    BY DEF CacheInv, OrderInv
  <1>3. Listed(cache.order) \subseteq Listed(uses)
    BY DEF CacheInv, EntryInv
  <1> QED BY <1>1, <1>2, <1>3

\* The first of the recently used keys, by their places.
LEMMA RecentPlaces ==
    ASSUME uses \in Seq(Keys)
    PROVE  Recent = {uses[i] : i \in {x \in 1 .. Len(uses) : x =< Capacity}}
PROOF
  BY CapacityIsPositive DEF Recent

\* A key that moves to the front of uses is the only one that can become recent.
LEMMA RecentStep ==
    ASSUME uses \in Seq(Keys), Distinct(uses), NEW k \in Keys,
           uses' = ToFront(uses, k)
    PROVE  Recent' \subseteq Recent \cup {k}
PROOF
  <1>1. uses' \in Seq(Keys)
    BY ToFrontKeepsOrder
  <1>2. Recent' = {uses'[i] : i \in {x \in 1 .. Len(uses') : x =< Capacity}}
    BY <1>1, CapacityIsPositive DEF Recent, Capacity
  <1>3. ASSUME NEW i \in 1 .. Len(uses'), i =< Capacity, uses'[i] # k
        PROVE  uses'[i] \in Recent
    <2>1. PICK j \in 1 .. Len(uses) : j =< i /\ uses[j] = uses'[i]
      BY <1>3, OthersMoveBack
    <2>2. j =< Capacity
      BY <1>1, <1>3, <2>1, CapacityIsPositive
    <2> QED BY <2>1, <2>2, RecentPlaces
  <1> QED BY <1>2, <1>3

LEMMA HitStep ==
    ASSUME CacheInv, NEW k \in Keys, Hit(k)
    PROVE  CacheInv'
PROOF
  <1>0. StateInv /\ EntryInv /\ OrderInv /\ WellFormed(cache, Keys, Values)
    BY StoreIsWellFormed DEF CacheInv
  <1>1. /\ cache' = AfterGet(cache, k, now) /\ uses' = ToFront(uses, k)
        /\ now' = now /\ lastSet' = lastSet /\ IsHit(cache, k, now)
        /\ answer' = [op |-> "hit", key |-> k, value |-> cache.items[k].value,
                      at |-> now]
    BY DEF Hit
  <1>2. /\ WellFormed(cache', Keys, Values)
        /\ cache' = [items |-> cache.items, order |-> ToFront(cache.order, k)]
        /\ k \in Listed(cache.order)
        /\ Listed(ToFront(cache.order, k)) = Listed(cache.order)
    BY <1>0, <1>1, HitEffect DEF StateInv
  <1>3. /\ uses' \in Seq(Keys) /\ Distinct(uses')
        /\ Listed(uses') = Listed(uses)
        /\ \A a, b : Ahead(uses', a, b) <=> \/ a = k /\ b \in Listed(uses) \ {k}
                                            \/ Ahead(uses, a, b) /\ a # k /\ b # k
    <2>1. Listed(uses) \cup {k} = Listed(uses)
      BY <1>0, <1>2 DEF EntryInv
    <2>2. uses \in Seq(Keys) /\ Distinct(uses) /\ uses' = ToFront(uses, k)
      BY <1>1, Lists
    <2>3. /\ uses' \in Seq(Keys) /\ Distinct(uses')
          /\ Listed(uses') = Listed(uses) \cup {k}
          /\ \A a, b : Ahead(uses', a, b) <=> \/ a = k /\ b \in Listed(uses) \ {k}
                                              \/ Ahead(uses, a, b) /\ a # k /\ b # k
      BY <2>2, ToFrontKeepsOrder
    <2> QED BY <2>1, <2>3
  <1>4. cache'.items = cache.items /\ cache'.order = ToFront(cache.order, k)
    BY <1>2
  <1>5. StateInv'
    <2>1. cache' \in [items : [Listed(cache'.order) -> [value : Values, expiresAt : Nat]],
                      order : Seq(Keys)]
      BY <1>2 DEF WellFormed
    <2> QED BY <1>0, <1>1, <1>3, <2>1 DEF StateInv
  <1>6. EntryInv'
    <2>1. Ttl # 0
      BY <1>1, TtlAssumption DEF IsHit
    <2> QED BY <1>0, <1>1, <1>2, <1>3, <1>4, <2>1 DEF EntryInv
  <1>7. OrderInv'
    <2>1. ASSUME NEW a \in Keys, NEW b \in Keys, Ahead(cache'.order, a, b)
          PROVE  Ahead(uses', a, b)
      <3>1. \/ a = k /\ b \in Listed(cache.order) \ {k}
            \/ Ahead(cache.order, a, b) /\ a # k /\ b # k
        <4>1. cache.order \in Seq(Keys) /\ Distinct(cache.order)
          BY Lists
        <4>2. Ahead(ToFront(cache.order, k), a, b)
          BY <1>4, <2>1
        <4> QED BY <4>1, <4>2, ToFrontKeepsOrder
      <3>2. Listed(cache.order) \subseteq Listed(uses)
        BY <1>0 DEF EntryInv
      <3> QED BY <1>0, <1>3, <3>1, <3>2 DEF OrderInv
    <2> QED BY <1>2, <1>3, <2>1 DEF OrderInv, WellFormed, Capacity
  <1>8. HitIsLatestAndFresh'
    <2>1. k \in DOMAIN lastSet /\ cache.items[k] = [value |-> lastSet[k].value,
                                                    expiresAt |-> lastSet[k].at + Ttl]
      BY <1>0, <1>2 DEF EntryInv, StateInv
    <2>2. now =< lastSet[k].at + Ttl /\ Ttl > 0
      BY <1>1, <2>1 DEF IsHit, Fresh
    <2>3. lastSet[k].at \in Nat /\ now \in Nat
      BY <1>0, <2>1 DEF StateInv
    <2> QED BY <1>1, <2>1, <2>2, <2>3 DEF HitIsLatestAndFresh
  <1>9. NothingLostEarly'
    <2>1. Recent' \subseteq Recent \cup {k}
      BY <1>0, <1>1, RecentStep DEF StateInv, OrderInv
    <2>2. \A j : Fresh(cache', j, now) <=> Fresh(cache, j, now)
      BY <1>4 DEF Fresh, Holds
    <2>3. Fresh(cache, k, now)
      BY <1>1 DEF IsHit
    <2>4. \A j \in Recent : (Ttl > 0 /\ now =< lastSet[j].at + Ttl) => Fresh(cache, j, now)
      BY DEF CacheInv, NothingLostEarly
    <2> QED BY <1>1, <2>1, <2>2, <2>3, <2>4 DEF NothingLostEarly
  <1> QED BY <1>5, <1>6, <1>7, <1>8, <1>9 DEF CacheInv

LEMMA MissStep ==
    ASSUME CacheInv, NEW k \in Keys, Miss(k)
    PROVE  CacheInv'
PROOF
  <1>0. StateInv /\ EntryInv /\ OrderInv /\ WellFormed(cache, Keys, Values)
    BY StoreIsWellFormed DEF CacheInv
  <1>1. /\ cache' = AfterGet(cache, k, now) /\ ~IsHit(cache, k, now)
        /\ now' = now /\ lastSet' = lastSet /\ uses' = uses
        /\ answer' = [op |-> "miss", key |-> k, at |-> now]
    BY DEF Miss
  <1>2. /\ WellFormed(cache', Keys, Values)
        /\ \A j \in Listed(cache'.order) : /\ j \in Listed(cache.order)
                                           /\ cache'.items[j] = cache.items[j]
        /\ \A j \in Listed(cache.order) : j # k \/ ~Fresh(cache, k, now)
        /\ \A j \in Listed(cache.order) : j # k => j \in Listed(cache'.order)
        /\ \A a, b : Ahead(cache'.order, a, b) => Ahead(cache.order, a, b)
    <2>1. now \in Nat
      BY Lists
    <2> QED BY <1>0, <1>1, <2>1, MissEffect
  <1>3. StateInv'
    <2>1. cache' \in [items : [Listed(cache'.order) -> [value : Values, expiresAt : Nat]],
                      order : Seq(Keys)]
      BY <1>2 DEF WellFormed
    <2> QED BY <1>0, <1>1, <2>1 DEF StateInv
  <1>4. EntryInv'
    BY <1>0, <1>1, <1>2 DEF EntryInv, WellFormed
  <1>5. OrderInv'
    BY <1>0, <1>1, <1>2 DEF OrderInv, WellFormed, Capacity
  <1>6. HitIsLatestAndFresh'
    BY <1>1 DEF HitIsLatestAndFresh
  <1>7. NothingLostEarly'
    <2> SUFFICES ASSUME NEW j \in Recent, Ttl > 0, now =< lastSet[j].at + Ttl
                 PROVE  Fresh(cache', j, now)
      BY <1>1 DEF NothingLostEarly, Recent, Capacity
    <2>1. Fresh(cache, j, now)
      BY DEF CacheInv, NothingLostEarly
    <2>2. j \in Listed(cache.order)
      BY <1>0, <2>1 DEF Fresh, Holds, StateInv
    <2>3. j \in Listed(cache'.order) /\ cache'.items[j] = cache.items[j]
      BY <1>2, <2>1, <2>2
    <2> QED BY <1>2, <2>1, <2>3 DEF Fresh, Holds, WellFormed
  <1> QED BY <1>3, <1>4, <1>5, <1>6, <1>7 DEF CacheInv

LEMMA SetStep ==
    ASSUME CacheInv, NEW k \in Keys, NEW v \in Values, Set(k, v)
    PROVE  CacheInv'
PROOF
  <1>0. StateInv /\ EntryInv /\ OrderInv /\ WellFormed(cache, Keys, Values)
    BY StoreIsWellFormed DEF CacheInv
  <1>1. /\ cache' = AfterSet(cache, k, v, now) /\ now' = now
        /\ lastSet' = [j \in DOMAIN lastSet \cup {k} |->
                          IF j = k THEN [value |-> v, at |-> now] ELSE lastSet[j]]
        /\ uses' = ToFront(uses, k) /\ answer' = NoAnswer
    BY DEF Set
  <1>2. /\ uses' \in Seq(Keys) /\ Distinct(uses')
        /\ Listed(uses') = Listed(uses) \cup {k}
        /\ \A a, b : Ahead(uses', a, b) <=> \/ a = k /\ b \in Listed(uses) \ {k}
                                            \/ Ahead(uses, a, b) /\ a # k /\ b # k
    <2>1. uses \in Seq(Keys) /\ Distinct(uses) /\ uses' = ToFront(uses, k)
      BY <1>1, Lists
    <2> QED BY <2>1, ToFrontKeepsOrder
  <1>3. /\ lastSet' \in [Listed(uses') -> [value : Values, at : 0 .. now]]
        /\ lastSet'[k] = [value |-> v, at |-> now]
        /\ \A j \in Listed(uses) : j # k => lastSet'[j] = lastSet[j]
    BY <1>0, <1>1, <1>2 DEF StateInv
  <1>4. HitIsLatestAndFresh'
    BY <1>1 DEF HitIsLatestAndFresh, NoAnswer
  <1>5. CASE Ttl = 0
    <2>1. cache' = cache /\ cache.order = <<>>
      BY <1>0, <1>1, <1>5 DEF AfterSet, EntryInv
    <2>2. Listed(cache.order) = {} /\ \A a, b : ~Ahead(cache.order, a, b)
      BY <2>1 DEF Listed, Ahead
    <2>3. StateInv'
      BY <1>0, <1>1, <1>2, <1>3, <2>1 DEF StateInv
    <2>4. EntryInv' /\ OrderInv' /\ NothingLostEarly'
      BY <1>0, <1>2, <1>5, <2>1, <2>2
         DEF EntryInv, OrderInv, NothingLostEarly, Capacity
    <2> QED BY <1>4, <2>3, <2>4 DEF CacheInv
  <1>6. CASE Ttl > 0
    <2> DEFINE front == ToFront(cache.order, k)
    <2>1. /\ WellFormed(cache', Keys, Values)
          /\ k \in Listed(cache'.order)
          /\ cache'.items[k] = [value |-> v, expiresAt |-> now + Ttl]
          /\ \A j \in Listed(cache'.order) :
                j # k => j \in Listed(cache.order) /\ cache'.items[j] = cache.items[j]
          /\ \A i \in 1 .. Len(front) :
                i =< Capacity => front[i] \in Listed(cache'.order)
          /\ \A a, b : Ahead(cache'.order, a, b) => Ahead(front, a, b)
      <3>1. now \in Nat
        BY Lists
      <3>2. WellFormed(cache, Keys, Values) /\ Ttl > 0 /\ cache' = AfterSet(cache, k, v, now)
        BY <1>0, <1>1, <1>6
      <3> DEFINE after == AfterSet(cache, k, v, now)
      <3>3. /\ WellFormed(after, Keys, Values)
            /\ k \in Listed(after.order)
            /\ after.items[k] = [value |-> v, expiresAt |-> now + Ttl]
            /\ \A j \in Listed(after.order) :
                  j # k => j \in Listed(cache.order) /\ after.items[j] = cache.items[j]
            /\ \A i \in 1 .. Len(front) :
                  i =< Capacity => front[i] \in Listed(after.order)
            /\ \A a, b : Ahead(after.order, a, b) => Ahead(front, a, b)
        BY <3>1, <3>2, SetEffect, Zenon
      <3> QED BY <3>2, <3>3
    <2>2. /\ front \in Seq(Keys) /\ Distinct(front)
          /\ Listed(front) = Listed(cache.order) \cup {k}
          /\ \A a, b : Ahead(front, a, b)
                          <=> \/ a = k /\ b \in Listed(cache.order) \ {k}
                              \/ Ahead(cache.order, a, b) /\ a # k /\ b # k
      BY <1>0, ToFrontKeepsOrder DEF StateInv, OrderInv
    <2> HIDE DEF front
    <2>3. StateInv'
      <3>1. cache' \in [items : [Listed(cache'.order) -> [value : Values, expiresAt : Nat]],
                        order : Seq(Keys)]
        BY <2>1 DEF WellFormed
      <3> QED BY <1>0, <1>1, <1>2, <1>3, <3>1 DEF StateInv
    <2>4. EntryInv'
      <3>1. Listed(cache'.order) \subseteq Listed(uses')
        BY <1>0, <1>2, <2>1 DEF EntryInv
      <3>2. ASSUME NEW j \in Listed(cache'.order)
            PROVE  cache'.items[j] = [value |-> lastSet'[j].value,
                                      expiresAt |-> lastSet'[j].at + Ttl]
        <4>1. CASE j = k
          BY <1>3, <2>1, <4>1
        <4>2. CASE j # k
          <5>1. j \in Listed(cache.order) /\ cache'.items[j] = cache.items[j]
            BY <2>1, <4>2
          <5>2. lastSet'[j] = lastSet[j]
            BY <1>0, <1>3, <4>2, <5>1 DEF EntryInv
          <5> QED BY <1>0, <5>1, <5>2 DEF EntryInv
        <4> QED BY <4>1, <4>2
      <3>3. Ttl # 0
        BY <1>6, TtlAssumption
      <3> QED BY <3>1, <3>2, <3>3 DEF EntryInv
    <2>5. \A a, b \in Keys : Ahead(front, a, b) => Ahead(uses', a, b)
      <3>1. Listed(cache.order) \subseteq Listed(uses)
        BY <1>0 DEF EntryInv
      <3> QED BY <1>0, <1>2, <2>2, <3>1 DEF OrderInv
    <2>6. OrderInv'
      BY <1>2, <2>1, <2>5 DEF OrderInv, WellFormed, Capacity
    <2>7. NothingLostEarly'
      <3> SUFFICES ASSUME NEW j \in Recent', now =< lastSet'[j].at + Ttl
                   PROVE  Fresh(cache', j, now)
        BY <1>1 DEF NothingLostEarly
      <3>1. DOMAIN cache'.items = Listed(cache'.order)
        BY <2>1 DEF WellFormed
      <3>2. CASE j = k
        BY <1>0, <2>1, <3>1, <3>2 DEF Fresh, Holds, StateInv
      <3>3. CASE j # k
        <4>1. j \in Recent /\ j \in Listed(uses)
          <5>1. j \in Recent
            BY <1>0, <1>1, <3>3, RecentStep DEF StateInv, OrderInv
          <5> QED BY <1>0, <5>1, RecentPlaces DEF StateInv, Listed
        <4>2. Fresh(cache, j, now)
          BY <1>3, <1>6, <3>3, <4>1 DEF CacheInv, NothingLostEarly
        <4>3. j \in Listed(cache.order)
          BY <1>0, <4>2 DEF Fresh, Holds, StateInv
        <4>4. PICK m \in 1 .. Len(front) : front[m] = j
          <5>1. j \in Listed(front) /\ DOMAIN front = 1 .. Len(front)
            BY <2>2, <4>3
          <5> QED BY <5>1 DEF Listed
        <4>5. PICK i \in 1 .. Len(uses') : i =< Capacity /\ uses'[i] = j
          BY <1>2, CapacityIsPositive DEF Recent, Capacity
        <4>6. m =< i
          BY <1>2, <2>2, <2>5, <4>4, <4>5, NoNearer
        <4>7. m =< Capacity
          BY <1>2, <2>2, <4>4, <4>5, <4>6, CapacityIsPositive
        <4>8. j \in Listed(cache'.order)
          BY <2>1, <4>4, <4>7
        <4> QED BY <2>1, <3>1, <3>3, <4>2, <4>8 DEF Fresh, Holds
      <3> QED BY <3>2, <3>3
    <2> QED BY <1>4, <2>3, <2>4, <2>6, <2>7 DEF CacheInv
  <1> QED BY <1>5, <1>6

LEMMA ClockStep ==
    ASSUME CacheInv, Count \/ Tick \/ UNCHANGED cacheVars
    PROVE  CacheInv'
PROOF
  <1>0. StateInv /\ EntryInv /\ OrderInv /\ HitIsLatestAndFresh /\ NothingLostEarly
    BY DEF CacheInv
  <1>1. /\ UNCHANGED <<cache, lastSet, uses>>
        /\ now' = now \/ now' = now + 1
        /\ answer' = answer \/ answer'.op = "len"
    BY DEF Count, Tick, cacheVars
  <1>2. StateInv' /\ now' >= now
    BY <1>0, <1>1 DEF StateInv
  <1>3. EntryInv' /\ OrderInv'
    BY <1>0, <1>1 DEF EntryInv, OrderInv, Capacity
  <1>4. HitIsLatestAndFresh'
    BY <1>0, <1>1 DEF HitIsLatestAndFresh
  <1>5. NothingLostEarly'
    <2> SUFFICES ASSUME NEW j \in Recent, Ttl > 0, now' =< lastSet[j].at + Ttl
                 PROVE  Fresh(cache, j, now')
      BY <1>1 DEF NothingLostEarly, Recent, Capacity, Fresh, Holds
    <2>1. j \in Listed(uses)
      BY <1>0, RecentPlaces DEF StateInv, Listed
    <2>2. lastSet[j].at \in Nat
      BY <1>0, <2>1 DEF StateInv
    <2>3. now =< lastSet[j].at + Ttl
      BY <1>0, <1>2, <2>2 DEF StateInv
    <2>4. Fresh(cache, j, now)
      BY <1>0, <2>3 DEF NothingLostEarly
    <2>5. cache.items[j].expiresAt = lastSet[j].at + Ttl
      <3>1. j \in Listed(cache.order)
        BY <1>0, <2>4 DEF Fresh, Holds, StateInv
      <3>2. cache.items[j] = [value |-> lastSet[j].value,
                              expiresAt |-> lastSet[j].at + Ttl]
        BY <1>0, <3>1 DEF EntryInv
      <3> QED BY <3>2
    <2> QED BY <2>4, <2>5 DEF Fresh
  <1> QED BY <1>2, <1>3, <1>4, <1>5 DEF CacheInv

LEMMA InitEstablishes == CacheInit => CacheInv
PROOF
  <1> SUFFICES ASSUME CacheInit PROVE CacheInv
    OBVIOUS
  <1>1. /\ now = 0 /\ cache.order = <<>> /\ cache.items = <<>>
        /\ cache = [items |-> cache.items, order |-> cache.order]
        /\ lastSet = <<>> /\ uses = <<>> /\ answer.op = "none"
    BY DEF CacheInit, EmptyCache, NoAnswer
  <1>2. Listed(<<>>) = {} /\ Distinct(<<>>) /\ \A a, b : ~Ahead(<<>>, a, b)
    BY DEF Listed, Distinct, Ahead
  <1>3. \A T : <<>> \in [{} -> T]
    OBVIOUS
  <1>4. StateInv
    <2>1. cache \in [items : [Listed(cache.order) -> [value : Values, expiresAt : Nat]],
                      order : Seq(Keys)]
      <3>1. cache.items \in [Listed(cache.order) -> [value : Values, expiresAt : Nat]]
        BY <1>1, <1>2, <1>3
      <3>2. cache.order \in Seq(Keys)
        BY <1>1
      <3> QED BY <1>1, <3>1, <3>2
    <2>2. lastSet \in [Listed(uses) -> [value : Values, at : 0 .. now]]
      BY <1>1, <1>2, <1>3
    <2> QED BY <1>1, <2>1, <2>2 DEF StateInv
  <1>5. EntryInv /\ OrderInv
    BY <1>1, <1>2, CapacityIsPositive DEF EntryInv, OrderInv
  <1>6. HitIsLatestAndFresh
    BY <1>1 DEF HitIsLatestAndFresh
  <1>7. NothingLostEarly
    <2>1. Recent = {}
      BY <1>1, RecentPlaces
    <2> QED BY <2>1 DEF NothingLostEarly
  <1> QED BY <1>4, <1>5, <1>6, <1>7 DEF CacheInv

-----------------------------------------------------------------------------
(* The invariant and what follows from it.                                 *)

\* CacheInv holds in every reachable state, for any keys, values, capacity,
\* TTL and order of calls.
THEOREM CacheInvariant == CacheSpec => []CacheInv
PROOF
  <1>1. CacheInv /\ [CacheNext]_cacheVars => CacheInv'
    BY HitStep, MissStep, SetStep, ClockStep DEF CacheNext
  <1> QED BY <1>1, InitEstablishes, PTL DEF CacheSpec

\* The map and the list stay in step, and every entry is the one stored last.
THEOREM CacheTypeCorrect == CacheSpec => []CacheTypeOK
PROOF
  <1>1. ASSUME CacheInv PROVE CacheTypeOK
    <2>1. now \in Nat /\ DOMAIN cache.items = Listed(cache.order)
      BY <1>1 DEF CacheInv, StateInv
    <2>2. DOMAIN lastSet \subseteq Keys
      <3>1. DOMAIN lastSet = Listed(uses) /\ uses \in Seq(Keys)
        BY <1>1 DEF CacheInv, StateInv
      <3> QED BY <3>1 DEF Listed
    <2>3. \A k \in DOMAIN cache.items :
             cache.items[k] = [value |-> lastSet[k].value,
                               expiresAt |-> lastSet[k].at + Ttl]
      BY <1>1, <2>1 DEF CacheInv, EntryInv
    <2>4. \A i, j \in DOMAIN cache.order : i # j => cache.order[i] # cache.order[j]
      BY <1>1 DEF CacheInv, OrderInv, Distinct
    <2> QED BY <2>1, <2>2, <2>3, <2>4 DEF CacheTypeOK
  <1>2. CacheInv => CacheTypeOK
    BY <1>1
  <1> QED BY <1>2, CacheInvariant, PTL

\* Neither the map nor the list outgrows the capacity.
THEOREM CapacityIsKept == CacheSpec => []WithinCapacity
PROOF
  <1>1. ASSUME CacheInv PROVE WithinCapacity
    <2>1. /\ cache.order \in Seq(Keys) /\ Len(cache.order) =< Capacity
          /\ DOMAIN cache.items = Listed(cache.order)
      BY <1>1 DEF CacheInv, StateInv, OrderInv
    <2>2. /\ cache.order \in Surjection(1 .. Len(cache.order), Listed(cache.order))
          /\ Len(cache.order) \in Nat
      BY <2>1 DEF Surjection, Listed
    <2>3. ExistsSurjection(1 .. Len(cache.order), Listed(cache.order))
      BY <2>2 DEF ExistsSurjection
    <2>4. Cardinality(Listed(cache.order)) =< Len(cache.order)
      BY <2>2, <2>3, FS_SurjCardinalityBound
    <2>5. Cardinality(Listed(cache.order)) \in Nat
      BY <2>2, <2>3, FS_NatSurjection, FS_CardinalityType
    <2> QED BY <2>1, <2>2, <2>4, <2>5, CapacityIsPositive DEF WithinCapacity
  <1>2. CacheInv => WithinCapacity
    BY <1>1
  <1> QED BY <1>2, CacheInvariant, PTL

\* A hit returns the response stored last under that key, within its TTL.
THEOREM HitsAreRight == CacheSpec => []HitIsLatestAndFresh
PROOF
  <1>1. CacheInv => HitIsLatestAndFresh
    BY DEF CacheInv
  <1> QED BY <1>1, CacheInvariant, PTL

\* The cache is least recently used first: a response is gone before its time
\* only when as many keys as fit have been used since.
THEOREM EvictionIsByRecency == CacheSpec => []NothingLostEarly
PROOF
  <1>1. CacheInv => NothingLostEarly
    BY DEF CacheInv
  <1> QED BY <1>1, CacheInvariant, PTL
=============================================================================
