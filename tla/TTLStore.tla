------------------------------ MODULE TTLStore ------------------------------
(***************************************************************************)
(* The value of a cache.TTL and what Get and Set make of it: an LRU list   *)
(* of keys, front first, and an entry with an expiry for each of them.     *)
(***************************************************************************)
EXTENDS Integers, Sequences

CONSTANTS
    Ttl,        \* cfg.CacheTTL, in ticks; zero disables the cache
    MaxEntries  \* cfg.CacheMaxEntries; zero or less means one

ASSUME TtlAssumption == Ttl \in Nat /\ MaxEntries \in Int

\* NewTTL: the capacity the cache works with.
Capacity == IF MaxEntries =< 0 THEN 1 ELSE MaxEntries

EmptyCache == [items |-> <<>>, order |-> <<>>]

Listed(order) == {order[i] : i \in DOMAIN order}

\* No key is twice in a list.
Distinct(order) == \A i, j \in DOMAIN order : order[i] = order[j] => i = j

\* In a list a is ahead of b.
Ahead(order, a, b) ==
    \E i, j \in DOMAIN order : i < j /\ order[i] = a /\ order[j] = b

\* list.Remove of the element of k, if it is listed.
Without(order, k) ==
    IF k \notin Listed(order) THEN order
    ELSE LET at == CHOOSE i \in DOMAIN order : order[i] = k
         IN  SubSeq(order, 1, at - 1) \o SubSeq(order, at + 1, Len(order))

\* list.MoveToFront and list.PushFront.
ToFront(order, k) == <<k>> \o Without(order, k)

Holds(cache, k) == k \in DOMAIN cache.items

\* The entry is present and the clock is not after its expiry.
Fresh(cache, k, t) == Holds(cache, k) /\ t =< cache.items[k].expiresAt

\* Get answers (value, true).
IsHit(cache, k, t) == Ttl > 0 /\ Fresh(cache, k, t)

\* Only the entries of the keys in order.
KeepOnly(items, order) ==
    [k \in Listed(order) |-> items[k]]

\* Mutant of AfterGet: a hit keeps its place, so the list is first in first out.
AfterGetUnmoved(cache, k, t) ==
    CASE Ttl = 0 \/ ~Holds(cache, k) -> cache
      [] IsHit(cache, k, t) -> cache
      [] OTHER ->
            LET order == Without(cache.order, k)
            IN  [items |-> KeepOnly(cache.items, order), order |-> order]

\* What Get leaves behind: a hit moves to the front, an expired entry goes.
AfterGet(cache, k, t) ==
    CASE Ttl = 0 \/ ~Holds(cache, k) -> cache
      [] IsHit(cache, k, t) ->
            [cache EXCEPT !.order = ToFront(cache.order, k)]
      [] OTHER ->
            LET order == Without(cache.order, k)
            IN  [items |-> KeepOnly(cache.items, order), order |-> order]

\* Mutant of AfterSet: what falls off the list stays in the map.
AfterSetLeaky(cache, k, v, t) ==
    IF Ttl = 0 THEN cache
    ELSE LET entry == [value |-> v, expiresAt |-> t + Ttl]
             order == ToFront(cache.order, k)
             kept  == IF Len(order) > Capacity THEN SubSeq(order, 1, Capacity)
                                               ELSE order
         IN  [items |-> [j \in DOMAIN cache.items \cup {k} |->
                            IF j = k THEN entry ELSE cache.items[j]],
              order |-> kept]

\* Mutant of AfterSet: one entry too many is kept.
AfterSetOffByOne(cache, k, v, t) ==
    IF Ttl = 0 THEN cache
    ELSE LET entry == [value |-> v, expiresAt |-> t + Ttl]
             order == ToFront(cache.order, k)
             kept  == IF Len(order) > Capacity + 1
                      THEN SubSeq(order, 1, Capacity + 1) ELSE order
             items == [j \in DOMAIN cache.items \cup {k} |->
                          IF j = k THEN entry ELSE cache.items[j]]
         IN  [items |-> KeepOnly(items, kept), order |-> kept]

\* Mutant of AfterSet: an entry that is already there keeps its value and only
\* gets a new expiry.
AfterSetKeepsOld(cache, k, v, t) ==
    IF Ttl = 0 THEN cache
    ELSE LET old   == IF Holds(cache, k) THEN cache.items[k].value ELSE v
             entry == [value |-> old, expiresAt |-> t + Ttl]
             order == ToFront(cache.order, k)
             kept  == IF Len(order) > Capacity THEN SubSeq(order, 1, Capacity)
                                               ELSE order
             items == [j \in DOMAIN cache.items \cup {k} |->
                          IF j = k THEN entry ELSE cache.items[j]]
         IN  [items |-> KeepOnly(items, kept), order |-> kept]

\* What Set leaves behind: the entry is new and first, and what no longer fits
\* is dropped from the back.
AfterSet(cache, k, v, t) ==
    IF Ttl = 0 THEN cache
    ELSE LET entry == [value |-> v, expiresAt |-> t + Ttl]
             order == ToFront(cache.order, k)
             kept  == IF Len(order) > Capacity THEN SubSeq(order, 1, Capacity)
                                               ELSE order
             items == [j \in DOMAIN cache.items \cup {k} |->
                          IF j = k THEN entry ELSE cache.items[j]]
         IN  [items |-> KeepOnly(items, kept), order |-> kept]
=============================================================================
