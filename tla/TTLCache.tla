------------------------------ MODULE TTLCache ------------------------------
(***************************************************************************)
(* cache.TTL as its callers see it: Get, Set and Len by any goroutine, in  *)
(* any order, at any time.  Each runs under the cache's mutex from start   *)
(* to end, so each is one step.                                            *)
(*                                                                         *)
(* lastSet, uses and answer are history: what was stored last under a key  *)
(* and when, the keys by recency of use with nothing evicted, and what the *)
(* last call returned.                                                     *)
(***************************************************************************)
EXTENDS TTLStore, FiniteSets

CONSTANTS
    Keys,       \* vanity:include_activity strings
    Values,     \* responses
    Horizon     \* bound on the clock

ASSUME KeysAssumption == IsFiniteSet(Keys) /\ Horizon \in Nat

VARIABLES
    now,        \* the clock
    cache,      \* the items and order of the TTL
    lastSet,    \* history: the last value stored under each key, and when
    uses,       \* history: every key ever stored, most recently used first
    answer      \* history: the last answer

cacheVars == <<now, cache, lastSet, uses, answer>>

NoAnswer == [op |-> "none"]

CacheInit ==
    /\ now = 0
    /\ cache = EmptyCache
    /\ lastSet = <<>>
    /\ uses = <<>>
    /\ answer = NoAnswer

\* Get returns the value: it becomes the most recently used.
Hit(k) ==
    /\ IsHit(cache, k, now)
    /\ cache' = AfterGet(cache, k, now)
    /\ uses' = ToFront(uses, k)
    /\ answer' = [op |-> "hit", key |-> k, value |-> cache.items[k].value,
                  at |-> now]
    /\ UNCHANGED <<now, lastSet>>

\* Get returns false: the key is absent, expired, or the cache is disabled.
Miss(k) ==
    /\ ~IsHit(cache, k, now)
    /\ cache' = AfterGet(cache, k, now)
    /\ answer' = [op |-> "miss", key |-> k, at |-> now]
    /\ UNCHANGED <<now, lastSet, uses>>

Set(k, v) ==
    /\ cache' = AfterSet(cache, k, v, now)
    /\ lastSet' = [j \in DOMAIN lastSet \cup {k} |->
                      IF j = k THEN [value |-> v, at |-> now] ELSE lastSet[j]]
    /\ uses' = ToFront(uses, k)
    /\ answer' = NoAnswer
    /\ UNCHANGED now

\* Len: the length of the LRU list, for /health.
Count ==
    /\ answer' = [op |-> "len", n |-> Len(cache.order), at |-> now]
    /\ UNCHANGED <<now, cache, lastSet, uses>>

Tick ==
    /\ now < Horizon
    /\ now' = now + 1
    /\ UNCHANGED <<cache, lastSet, uses, answer>>

CacheNext ==
    \/ \E k \in Keys : Hit(k) \/ Miss(k) \/ \E v \in Values : Set(k, v)
    \/ Count
    \/ Tick

CacheSpec == CacheInit /\ [][CacheNext]_cacheVars

-----------------------------------------------------------------------------
\* The map and the LRU list hold the same keys, each once, never more than the
\* capacity, and every entry is the last one stored with the expiry it got:
\* the two structures Get and Set keep in step.
CacheTypeOK ==
    /\ now \in Nat
    /\ DOMAIN lastSet \subseteq Keys
    /\ DOMAIN cache.items = Listed(cache.order)
    /\ \A k \in DOMAIN cache.items :
          cache.items[k] = [value |-> lastSet[k].value,
                            expiresAt |-> lastSet[k].at + Ttl]
    /\ \A i, j \in DOMAIN cache.order :
          i # j => cache.order[i] # cache.order[j]

\* The cache never outgrows its bound, in its map or in its list, however the
\* calls mix fresh keys, repeated keys and expired ones.
WithinCapacity ==
    /\ Len(cache.order) =< Capacity
    /\ Cardinality(DOMAIN cache.items) =< Capacity

\* A hit returns the latest response stored under that very key, never one
\* that is older than the TTL, and none at all when the TTL is zero.
HitIsLatestAndFresh ==
    answer.op = "hit" =>
        /\ answer.key \in DOMAIN lastSet
        /\ Ttl > 0
        /\ answer.value = lastSet[answer.key].value
        /\ answer.at - lastSet[answer.key].at =< Ttl

\* The first Capacity keys by recency of use, evicted or not.
Recent == {uses[i] : i \in 1 .. (IF Len(uses) < Capacity THEN Len(uses)
                                                         ELSE Capacity)}

\* A response is lost early only to the capacity: a key that is among the
\* Capacity most recently used and has not expired is still there, whatever
\* expired entries were removed or kept meanwhile.
NothingLostEarly ==
    \A k \in Recent :
        (Ttl > 0 /\ now =< lastSet[k].at + Ttl) => Fresh(cache, k, now)

-----------------------------------------------------------------------------
(* The inductive invariant behind the safety properties.                   *)

\* The values of the variables.
StateInv ==
    /\ now \in Nat
    /\ cache \in [items : [Listed(cache.order) -> [value : Values, expiresAt : Nat]],
                  order : Seq(Keys)]
    /\ lastSet \in [Listed(uses) -> [value : Values, at : 0 .. now]]
    /\ uses \in Seq(Keys)

\* The entries are those stored last, and a disabled cache has none.
EntryInv ==
    /\ Listed(cache.order) \subseteq Listed(uses)
    /\ \A k \in Listed(cache.order) :
          cache.items[k] = [value |-> lastSet[k].value,
                            expiresAt |-> lastSet[k].at + Ttl]
    /\ Ttl = 0 => cache.order = <<>>

\* The list keeps the keys in their order of use, so what is dropped from its
\* end has as many keys ahead of it as fit.
OrderInv ==
    /\ Distinct(cache.order) /\ Distinct(uses)
    /\ \A a, b \in Keys : Ahead(cache.order, a, b) => Ahead(uses, a, b)
    /\ Len(cache.order) =< Capacity

CacheInv ==
    /\ StateInv
    /\ EntryInv
    /\ OrderInv
    /\ HitIsLatestAndFresh
    /\ NothingLostEarly
=============================================================================
