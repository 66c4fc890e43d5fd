--------------------------- MODULE TTLStoreProofs ---------------------------
(***************************************************************************)
(* What Get and Set make of a cache.TTL, for every set of keys and values, *)
(* every capacity and every TTL: lemmas about the list of keys and about   *)
(* the store, for the modules that keep one.                               *)
(***************************************************************************)
EXTENDS TTLStore, FiniteSetTheorems, SequenceTheorems, TLAPS

USE TtlAssumption

-----------------------------------------------------------------------------
(* The list.                                                               *)

\* A listed key has a place in the list.
LEMMA PlaceOf ==
    ASSUME NEW S, NEW order \in Seq(S), NEW k \in Listed(order)
    PROVE  LET p == CHOOSE i \in DOMAIN order : order[i] = k
           IN  p \in 1 .. Len(order) /\ order[p] = k /\ k \in S
PROOF
  BY DEF Listed

\* What is left when a listed key is removed: its places, one by one.
LEMMA WithoutListed ==
    ASSUME NEW S, NEW order \in Seq(S), NEW k \in Listed(order)
    PROVE  LET p == CHOOSE i \in DOMAIN order : order[i] = k
               left == Without(order, k)
           IN  /\ left \in Seq(S)
               /\ Len(left) = Len(order) - 1
               /\ \A i \in 1 .. (Len(order) - 1) :
                     left[i] = IF i < p THEN order[i] ELSE order[i + 1]
PROOF
  <1> DEFINE p == CHOOSE i \in DOMAIN order : order[i] = k
             front == SubSeq(order, 1, p - 1)
             back  == SubSeq(order, p + 1, Len(order))
  <1>1. p \in 1 .. Len(order)
    BY PlaceOf
  <1>2. Without(order, k) = front \o back
    BY DEF Without
  <1> HIDE DEF p
  <1>3. /\ front \in Seq(S) /\ Len(front) = p - 1
        /\ \A i \in 1 .. (p - 1) : front[i] = order[i]
    BY <1>1, SubSeqProperties
  <1>4. /\ back \in Seq(S) /\ Len(back) = Len(order) - p
        /\ \A i \in 1 .. (Len(order) - p) : back[i] = order[p + i]
    <2>1. \A i \in (p + 1) .. Len(order) : order[i] \in S
      BY <1>1
    <2> QED BY <1>1, <2>1, SubSeqProperties
  <1> HIDE DEF front, back
  <1>5. /\ front \o back \in Seq(S)
        /\ Len(front \o back) = Len(order) - 1
        /\ \A i \in 1 .. (Len(order) - 1) :
              (front \o back)[i] = IF i =< p - 1 THEN front[i] ELSE back[i - (p - 1)]
    <2>1. Len(front) + Len(back) = Len(order) - 1
      BY <1>1, <1>3, <1>4
    <2>2. /\ front \o back \in Seq(S)
          /\ Len(front \o back) = Len(front) + Len(back)
          /\ \A i \in 1 .. Len(front) + Len(back) :
                (front \o back)[i] = IF i =< Len(front) THEN front[i]
                                                       ELSE back[i - Len(front)]
      BY <1>3, <1>4, ConcatProperties
    <2> QED BY <1>3, <2>1, <2>2
  <1>6. ASSUME NEW i \in 1 .. (Len(order) - 1)
        PROVE  (front \o back)[i] = IF i < p THEN order[i] ELSE order[i + 1]
    <2>1. CASE i < p
      BY <1>1, <1>3, <1>5, <2>1
    <2>2. CASE ~(i < p)
      <3>1. i - (p - 1) \in 1 .. (Len(order) - p)
        BY <1>1, <2>2
      <3>2. back[i - (p - 1)] = order[p + (i - (p - 1))] /\ p + (i - (p - 1)) = i + 1
        BY <1>1, <1>4, <3>1
      <3> QED BY <1>1, <1>5, <2>2, <3>2
    <2> QED BY <2>1, <2>2
  <1> QED BY <1>2, <1>5, <1>6 DEF p

\* Removing a key keeps all others, in their order, and each once.
LEMMA WithoutKeepsOrder ==
    ASSUME NEW S, NEW order \in Seq(S), Distinct(order), NEW k
    PROVE  /\ Without(order, k) \in Seq(S)
           /\ Distinct(Without(order, k))
           /\ Listed(Without(order, k)) = Listed(order) \ {k}
           /\ Len(Without(order, k)) =< Len(order)
           /\ \A a, b : Ahead(Without(order, k), a, b)
                           <=> Ahead(order, a, b) /\ a # k /\ b # k
PROOF
  <1>1. CASE k \notin Listed(order)
    <2>1. Without(order, k) = order
      BY <1>1 DEF Without
    <2>2. \A a, b : Ahead(order, a, b) => a # k /\ b # k
      BY <1>1 DEF Ahead, Listed
    <2> QED BY <1>1, <2>1, <2>2
  <1>2. CASE k \in Listed(order)
    <2> DEFINE p == CHOOSE i \in DOMAIN order : order[i] = k
               left == Without(order, k)
    <2>1. p \in 1 .. Len(order) /\ order[p] = k
      BY <1>2, PlaceOf
    <2>2. /\ left \in Seq(S)
          /\ Len(left) = Len(order) - 1
          /\ \A i \in 1 .. (Len(order) - 1) :
                left[i] = IF i < p THEN order[i] ELSE order[i + 1]
      BY <1>2, WithoutListed
    <2> HIDE DEF p, left
    <2>3. \A i \in 1 .. Len(order) : i # p => order[i] # k
      BY <2>1 DEF Distinct
    <2>4. Distinct(left)
      BY <2>1, <2>2 DEF Distinct
    <2>5. ASSUME NEW i \in 1 .. Len(order), i # p
          PROVE  /\ (IF i < p THEN i ELSE i - 1) \in DOMAIN left
                 /\ left[IF i < p THEN i ELSE i - 1] = order[i]
      BY <2>1, <2>2, <2>5
    <2>6. ASSUME NEW j \in DOMAIN left
          PROVE  \E i \in 1 .. Len(order) :
                    i # p /\ left[j] = order[i] /\ i = IF j < p THEN j ELSE j + 1
      BY <2>1, <2>2
    <2>7. Listed(left) = Listed(order) \ {k}
      <3>1. ASSUME NEW j \in DOMAIN left PROVE left[j] \in Listed(order) \ {k}
        BY <2>3, <2>6 DEF Listed
      <3>2. ASSUME NEW i \in 1 .. Len(order), order[i] # k
            PROVE  order[i] \in Listed(left)
        <4>1. i # p
          BY <2>1, <3>2
        <4> QED BY <2>5, <4>1 DEF Listed
      <3> QED BY <3>1, <3>2 DEF Listed
    <2>8. ASSUME NEW a, NEW b
          PROVE  Ahead(left, a, b) <=> Ahead(order, a, b) /\ a # k /\ b # k
      <3>1. ASSUME NEW i \in DOMAIN left, NEW j \in DOMAIN left, i < j
            PROVE  /\ Ahead(order, left[i], left[j])
                   /\ left[i] # k /\ left[j] # k
        <4>1. PICK x \in 1 .. Len(order) :
                 x # p /\ left[i] = order[x] /\ x = IF i < p THEN i ELSE i + 1
          BY <2>6
        <4>2. PICK y \in 1 .. Len(order) :
                 y # p /\ left[j] = order[y] /\ y = IF j < p THEN j ELSE j + 1
          BY <2>6
        <4>3. x < y
          BY <2>1, <2>2, <3>1, <4>1, <4>2
        <4> QED BY <2>3, <4>1, <4>2, <4>3 DEF Ahead
      <3>2. ASSUME NEW x \in 1 .. Len(order), NEW y \in 1 .. Len(order), x < y,
                   order[x] # k, order[y] # k
            PROVE  Ahead(left, order[x], order[y])
        <4>1. x # p /\ y # p
          BY <2>1, <3>2
        <4> DEFINE i == IF x < p THEN x ELSE x - 1
                   j == IF y < p THEN y ELSE y - 1
        <4>2. /\ i \in DOMAIN left /\ left[i] = order[x]
              /\ j \in DOMAIN left /\ left[j] = order[y]
          BY <2>5, <4>1
        <4>3. i < j
          BY <2>1, <3>2, <4>1
        <4> QED BY <4>2, <4>3 DEF Ahead
      <3> QED BY <3>1, <3>2 DEF Ahead
    <2> QED BY <2>2, <2>4, <2>7, <2>8 DEF left
  <1> QED BY <1>1, <1>2

\* Moving a key to the front, listed or not: it is ahead of every other key,
\* and those keep their order.
LEMMA ToFrontKeepsOrder ==
    ASSUME NEW S, NEW order \in Seq(S), Distinct(order), NEW k \in S
    PROVE  /\ ToFront(order, k) \in Seq(S)
           /\ Distinct(ToFront(order, k))
           /\ Listed(ToFront(order, k)) = Listed(order) \cup {k}
           /\ Len(ToFront(order, k)) =< Len(order) + 1
           /\ k \in Listed(order) => Len(ToFront(order, k)) = Len(order)
           /\ \A a, b : Ahead(ToFront(order, k), a, b)
                           <=> \/ a = k /\ b \in Listed(order) \ {k}
                               \/ Ahead(order, a, b) /\ a # k /\ b # k
PROOF
  <1> DEFINE rest == Without(order, k)
             front == ToFront(order, k)
  <1>1. /\ rest \in Seq(S) /\ Distinct(rest)
        /\ Listed(rest) = Listed(order) \ {k}
        /\ Len(rest) =< Len(order)
        /\ \A a, b : Ahead(rest, a, b) <=> Ahead(order, a, b) /\ a # k /\ b # k
    BY WithoutKeepsOrder
  <1>2. k \in Listed(order) => Len(rest) = Len(order) - 1
    BY WithoutListed
  <1>3. /\ front \in Seq(S)
        /\ Len(front) = Len(rest) + 1
        /\ front[1] = k
        /\ \A i \in 1 .. Len(rest) : front[i + 1] = rest[i]
    <2> HIDE DEF rest
    <2>1. front = <<k>> \o rest
      BY DEF ToFront, rest
    <2> QED BY <1>1, <2>1
  <1> HIDE DEF rest, front
  <1>4. \A i \in DOMAIN front : i # 1 => i - 1 \in 1 .. Len(rest) /\ front[i] = rest[i - 1]
    BY <1>1, <1>3
  <1>5. \A i \in 1 .. Len(rest) : rest[i] # k
    BY <1>1 DEF Listed
  <1>6. Distinct(front)
    <2> SUFFICES ASSUME NEW i \in DOMAIN front, NEW j \in DOMAIN front,
                        front[i] = front[j]
                 PROVE  i = j
      BY DEF Distinct
    <2>1. i = 1 <=> j = 1
      BY <1>3, <1>4, <1>5
    <2>2. CASE i # 1 /\ j # 1
      <3>1. i - 1 \in DOMAIN rest /\ j - 1 \in DOMAIN rest
            /\ rest[i - 1] = rest[j - 1]
        BY <1>1, <1>4, <2>2
      <3>2. i - 1 = j - 1 /\ i \in Int /\ j \in Int
        BY <1>1, <1>3, <3>1 DEF Distinct
      <3> QED BY <3>2
    <2> QED BY <2>1, <2>2
  <1>7. Listed(front) = Listed(order) \cup {k}
    <2>1. ASSUME NEW i \in DOMAIN front PROVE front[i] \in Listed(rest) \cup {k}
      BY <1>1, <1>3, <1>4 DEF Listed
    <2>2. k \in Listed(front)
      BY <1>1, <1>3 DEF Listed
    <2>3. ASSUME NEW i \in DOMAIN rest PROVE rest[i] \in Listed(front)
      <3>1. i + 1 \in DOMAIN front /\ front[i + 1] = rest[i]
        BY <1>1, <1>3
      <3> QED BY <3>1 DEF Listed
    <2>4. Listed(front) = Listed(rest) \cup {k}
      BY <2>1, <2>2, <2>3 DEF Listed
    <2> QED BY <1>1, <2>4
  <1>8. ASSUME NEW a, NEW b
        PROVE  Ahead(front, a, b) <=> \/ a = k /\ b \in Listed(order) \ {k}
                                      \/ Ahead(order, a, b) /\ a # k /\ b # k
    <2>1. Ahead(front, a, b) <=> (a = k /\ b \in Listed(rest)) \/ Ahead(rest, a, b)
      <3>1. ASSUME NEW i \in DOMAIN front, NEW j \in DOMAIN front, i < j
            PROVE  \/ front[i] = k /\ front[j] \in Listed(rest)
                   \/ Ahead(rest, front[i], front[j])
        <4>1. j - 1 \in 1 .. Len(rest) /\ front[j] = rest[j - 1]
          BY <1>3, <1>4, <3>1
        <4>2. CASE i = 1
          BY <1>1, <1>3, <4>1, <4>2 DEF Listed
        <4>3. CASE i # 1
          <5>1. i - 1 \in 1 .. Len(rest) /\ front[i] = rest[i - 1] /\ i - 1 < j - 1
            BY <1>3, <1>4, <3>1, <4>3
          <5> QED BY <1>1, <4>1, <5>1 DEF Ahead
        <4> QED BY <4>2, <4>3
      <3>2. ASSUME NEW i \in 1 .. Len(rest)
            PROVE  Ahead(front, k, rest[i])
        <4>1. 1 \in DOMAIN front /\ i + 1 \in DOMAIN front /\ 1 < i + 1
          BY <1>1, <1>3
        <4> QED BY <1>3, <4>1 DEF Ahead
      <3>3. ASSUME NEW i \in 1 .. Len(rest), NEW j \in 1 .. Len(rest), i < j
            PROVE  Ahead(front, rest[i], rest[j])
        <4>1. i + 1 \in DOMAIN front /\ j + 1 \in DOMAIN front /\ i + 1 < j + 1
          BY <1>1, <1>3, <3>3
        <4> QED BY <1>3, <4>1 DEF Ahead
      <3>4. DOMAIN rest = 1 .. Len(rest)
        BY <1>1
      <3> QED BY <3>1, <3>2, <3>3, <3>4 DEF Ahead, Listed
    <2> QED BY <1>1, <2>1
  <1> QED BY <1>1, <1>2, <1>3, <1>6, <1>7, <1>8 DEF front

\* Cutting a list off behind its first n keys.
LEMMA CutKeepsOrder ==
    ASSUME NEW S, NEW order \in Seq(S), Distinct(order),
           NEW n \in Nat, n =< Len(order)
    PROVE  /\ SubSeq(order, 1, n) \in Seq(S)
           /\ Len(SubSeq(order, 1, n)) = n
           /\ Distinct(SubSeq(order, 1, n))
           /\ Listed(SubSeq(order, 1, n)) = {order[i] : i \in 1 .. n}
           /\ \A a, b : Ahead(SubSeq(order, 1, n), a, b) => Ahead(order, a, b)
PROOF
  <1> DEFINE cut == SubSeq(order, 1, n)
  <1>1. /\ cut \in Seq(S) /\ Len(cut) = n
        /\ \A i \in 1 .. n : cut[i] = order[i]
    BY SubSeqProperties
  <1> HIDE DEF cut
  <1>2. DOMAIN cut = 1 .. n /\ 1 .. n \subseteq DOMAIN order
    BY <1>1
  <1> QED BY <1>1, <1>2 DEF Distinct, Listed, Ahead, cut

\* A key is no nearer to the front of a list than of another one in which the
\* same keys, and no others than are listed there, are ahead of it.
LEMMA NoNearer ==
    ASSUME NEW S, NEW order \in Seq(S), NEW other \in Seq(S),
           Distinct(order), Distinct(other),
           \A a, b \in S : Ahead(order, a, b) => Ahead(other, a, b),
           NEW i \in 1 .. Len(order), NEW j \in 1 .. Len(other), order[i] = other[j]
    PROVE  i =< j
PROOF
  <1> DEFINE ahead == 1 .. (i - 1)
             room  == 1 .. (j - 1)
             place == [x \in ahead |-> CHOOSE y \in room : other[y] = order[x]]
  <1>1. ASSUME NEW x \in ahead
        PROVE  \E y \in room : other[y] = order[x]
    <2>1. x \in 1 .. Len(order) /\ x < i
      BY <1>1
    <2>2. Ahead(other, order[x], order[i])
      <3>1. Ahead(order, order[x], order[i])
        BY <2>1 DEF Ahead
      <3>2. order[x] \in S /\ order[i] \in S
        BY <2>1
      <3> QED BY <3>1, <3>2
    <2>3. PICK u, v \in DOMAIN other : u < v /\ other[u] = order[x] /\ other[v] = order[i]
      BY <2>2 DEF Ahead
    <2>4. v = j
      BY <2>3 DEF Distinct
    <2>5. u \in room
      BY <2>3, <2>4
    <2> QED BY <2>3, <2>5
  <1>2. place \in [ahead -> room] /\ \A x \in ahead : other[place[x]] = order[x]
    BY <1>1
  <1> HIDE DEF place
  <1>3. \A x, y \in ahead : place[x] = place[y] => x = y
    <2>1. ahead \subseteq DOMAIN order
      OBVIOUS
    <2> QED BY <1>2, <2>1 DEF Distinct
  <1>4. place \in Injection(ahead, room)
    BY <1>2, <1>3 DEF Injection, IsInjective
  <1>5. /\ IsFiniteSet(room)
        /\ Cardinality(ahead) = i - 1 /\ Cardinality(room) = j - 1
    <2>1. ASSUME NEW n \in Int
          PROVE  /\ IsFiniteSet(1 .. n)
                 /\ Cardinality(1 .. n) = IF 1 > n THEN 0 ELSE n - 1 + 1
      <3>1. 1 \in Int
        OBVIOUS
      <3> QED BY <3>1, FS_Interval, Zenon
    <2>2. i - 1 \in Int /\ j - 1 \in Int /\ 1 =< i /\ 1 =< j
      OBVIOUS
    <2> QED BY <2>1, <2>2
  <1>6. Cardinality(ahead) =< Cardinality(room)
    BY <1>4, <1>5, FS_Injection
  <1> QED BY <1>5, <1>6

\* When a key moves to the front no other key comes nearer to it.
LEMMA OthersMoveBack ==
    ASSUME NEW S, NEW order \in Seq(S), Distinct(order), NEW k \in S,
           NEW i \in 1 .. Len(ToFront(order, k)), ToFront(order, k)[i] # k
    PROVE  \E j \in 1 .. Len(order) : j =< i /\ order[j] = ToFront(order, k)[i]
PROOF
  <1> DEFINE rest == Without(order, k)
  <1>1. rest \in Seq(S)
    BY WithoutKeepsOrder
  <1>2. /\ Len(ToFront(order, k)) = Len(rest) + 1
        /\ i # 1 /\ i - 1 \in 1 .. Len(rest) /\ ToFront(order, k)[i] = rest[i - 1]
    <2> HIDE DEF rest
    <2>1. ToFront(order, k) = <<k>> \o rest
      BY DEF ToFront, rest
    <2> QED BY <1>1, <2>1
  <1>3. CASE k \notin Listed(order)
    <2>1. rest = order
      BY <1>3 DEF Without
    <2> HIDE DEF rest
    <2> QED BY <1>2, <2>1
  <1>4. CASE k \in Listed(order)
    <2> DEFINE p == CHOOSE x \in DOMAIN order : order[x] = k
    <2>1. /\ Len(rest) = Len(order) - 1
          /\ \A x \in 1 .. (Len(order) - 1) :
                rest[x] = IF x < p THEN order[x] ELSE order[x + 1]
      BY <1>4, WithoutListed
    <2> HIDE DEF rest, p
    <2> QED BY <1>2, <2>1
  <1> QED BY <1>3, <1>4

-----------------------------------------------------------------------------
(* The cache: what Get and Set make of it.                                 *)

\* A store of values V under keys K.
WellFormed(c, K, V) ==
    /\ c \in [items : [Listed(c.order) -> [value : V, expiresAt : Nat]],
              order : Seq(K)]
    /\ Distinct(c.order)
    /\ Len(c.order) =< Capacity
    /\ Ttl = 0 => c.order = <<>>

LEMMA CapacityIsPositive == Capacity \in Nat /\ Capacity >= 1
PROOF
  BY DEF Capacity

\* Get moves a hit to the front and keeps everything.
LEMMA HitEffect ==
    ASSUME NEW K, NEW V, NEW c, WellFormed(c, K, V), NEW k, NEW t \in Nat, IsHit(c, k, t)
    PROVE  /\ WellFormed(AfterGet(c, k, t), K, V)
           /\ AfterGet(c, k, t) = [items |-> c.items, order |-> ToFront(c.order, k)]
           /\ k \in Listed(c.order) /\ k \in K
           /\ Listed(ToFront(c.order, k)) = Listed(c.order)
PROOF
  <1>1. k \in Listed(c.order) /\ k \in K
    <2>1. k \in Listed(c.order)
      BY DEF WellFormed, IsHit, Fresh, Holds
    <2> QED BY <2>1 DEF WellFormed, Listed
  <1>2. AfterGet(c, k, t) = [items |-> c.items, order |-> ToFront(c.order, k)]
    BY DEF WellFormed, AfterGet, IsHit, Fresh
  <1>3. /\ ToFront(c.order, k) \in Seq(K) /\ Distinct(ToFront(c.order, k))
        /\ Listed(ToFront(c.order, k)) = Listed(c.order) \cup {k}
        /\ Len(ToFront(c.order, k)) = Len(c.order)
    BY <1>1, ToFrontKeepsOrder DEF WellFormed
  <1>4. Listed(ToFront(c.order, k)) = Listed(c.order)
    BY <1>1, <1>3
  <1> HIDE DEF AfterGet
  <1> QED BY <1>1, <1>2, <1>3, <1>4 DEF WellFormed, IsHit

\* Get of an expired entry removes it, Get of an absent one changes nothing.
LEMMA MissEffect ==
    ASSUME NEW K, NEW V, NEW c, WellFormed(c, K, V), NEW k, NEW t \in Nat, ~IsHit(c, k, t)
    PROVE  LET after == AfterGet(c, k, t) IN
           /\ WellFormed(after, K, V)
           /\ \A j \in Listed(after.order) : /\ j \in Listed(c.order)
                                             /\ after.items[j] = c.items[j]
           /\ \A j \in Listed(c.order) : j # k \/ ~Fresh(c, k, t)
           /\ \A j \in Listed(c.order) : j # k => j \in Listed(after.order)
           /\ \A a, b : Ahead(after.order, a, b) => Ahead(c.order, a, b)
PROOF
  <1> DEFINE after == AfterGet(c, k, t)
             left == Without(c.order, k)
  <1>0. \A j \in Listed(c.order) : j # k \/ ~Fresh(c, k, t)
    BY DEF WellFormed, IsHit, Listed
  <1>1. CASE Ttl = 0 \/ ~Holds(c, k)
    BY <1>0, <1>1 DEF AfterGet
  <1>2. CASE ~(Ttl = 0 \/ ~Holds(c, k))
    <2>1. after = [items |-> KeepOnly(c.items, left), order |-> left]
      BY <1>2 DEF AfterGet
    <2>2. /\ left \in Seq(K) /\ Distinct(left)
          /\ Listed(left) = Listed(c.order) \ {k}
          /\ Len(left) =< Len(c.order)
          /\ \A a, b : Ahead(left, a, b) => Ahead(c.order, a, b)
      BY WithoutKeepsOrder DEF WellFormed
    <2> HIDE DEF after, left
    <2>3. /\ KeepOnly(c.items, left) \in [Listed(left) -> [value : V, expiresAt : Nat]]
          /\ \A j \in Listed(left) : KeepOnly(c.items, left)[j] = c.items[j]
      BY <2>2 DEF KeepOnly, WellFormed
    <2>4. Len(left) =< Capacity
      BY <2>2, CapacityIsPositive DEF WellFormed
    <2>5. WellFormed(after, K, V)
      BY <1>2, <2>1, <2>2, <2>3, <2>4 DEF WellFormed
    <2> QED BY <1>0, <2>1, <2>2, <2>3, <2>5 DEF after
  <1> QED BY <1>1, <1>2

\* Set puts the entry in front and drops at most one entry, the last of as
\* many as fit and one.
LEMMA SetEffect ==
    ASSUME NEW K, NEW V, NEW c, WellFormed(c, K, V), NEW k \in K, NEW v \in V, NEW t \in Nat,
           Ttl > 0
    PROVE  LET after == AfterSet(c, k, v, t)
               front == ToFront(c.order, k)
           IN
           /\ WellFormed(after, K, V)
           /\ k \in Listed(after.order)
           /\ after.items[k] = [value |-> v, expiresAt |-> t + Ttl]
           /\ \A j \in Listed(after.order) :
                 j # k => j \in Listed(c.order) /\ after.items[j] = c.items[j]
           /\ \A i \in 1 .. Len(front) :
                 i =< Capacity => front[i] \in Listed(after.order)
           /\ \A a, b : Ahead(after.order, a, b) => Ahead(front, a, b)
PROOF
  <1> DEFINE after == AfterSet(c, k, v, t)
             front == ToFront(c.order, k)
             kept == IF Len(front) > Capacity THEN SubSeq(front, 1, Capacity)
                                              ELSE front
             entry == [value |-> v, expiresAt |-> t + Ttl]
             items == [j \in DOMAIN c.items \cup {k} |->
                          IF j = k THEN entry ELSE c.items[j]]
  <1>1. after = [items |-> KeepOnly(items, kept), order |-> kept]
    BY DEF AfterSet
  <1>2. /\ front \in Seq(K) /\ Distinct(front)
        /\ Listed(front) = Listed(c.order) \cup {k}
        /\ front[1] = k /\ Len(front) >= 1
    <2>1. Without(c.order, k) \in Seq(K)
      BY WithoutKeepsOrder DEF WellFormed
    <2>2. front[1] = k /\ Len(front) >= 1
      <3> HIDE DEF kept, items, entry, after
      <3> QED BY <2>1 DEF ToFront
    <2>3. c.order \in Seq(K) /\ Distinct(c.order)
      BY DEF WellFormed
    <2> HIDE DEF kept, items, entry, after
    <2> QED BY <2>2, <2>3, ToFrontKeepsOrder
  <1> HIDE DEF after, front
  <1>3. /\ kept \in Seq(K) /\ Distinct(kept) /\ Len(kept) =< Capacity
        /\ Listed(kept) \subseteq Listed(front)
        /\ \A i \in 1 .. Len(front) : i =< Capacity => front[i] \in Listed(kept)
        /\ \A a, b : Ahead(kept, a, b) => Ahead(front, a, b)
    <2>1. CASE Len(front) > Capacity
      <3>1. /\ kept \in Seq(K) /\ Distinct(kept) /\ Len(kept) = Capacity
            /\ Listed(kept) = {front[i] : i \in 1 .. Capacity}
            /\ \A a, b : Ahead(kept, a, b) => Ahead(front, a, b)
        BY <1>2, <2>1, CapacityIsPositive, CutKeepsOrder
      <3>2. 1 .. Capacity \subseteq DOMAIN front
        BY <1>2, <2>1, CapacityIsPositive
      <3> HIDE DEF kept
      <3>3. Listed(kept) \subseteq Listed(front)
        BY <3>1, <3>2 DEF Listed
      <3>4. \A i \in 1 .. Len(front) : i =< Capacity => front[i] \in Listed(kept)
        BY <1>2, <3>1, CapacityIsPositive
      <3> QED BY <3>1, <3>3, <3>4, CapacityIsPositive
    <2>2. CASE ~(Len(front) > Capacity)
      <3>1. kept = front /\ Len(front) =< Capacity
        BY <1>2, <2>2, CapacityIsPositive
      <3> HIDE DEF kept
      <3> QED BY <1>2, <3>1 DEF Listed
    <2> QED BY <2>1, <2>2
  <1>4. k \in Listed(kept)
    BY <1>2, <1>3, CapacityIsPositive
  <1> HIDE DEF kept
  <1>5. /\ items \in [Listed(c.order) \cup {k} -> [value : V, expiresAt : Nat]]
        /\ items[k] = entry
        /\ \A j \in Listed(c.order) : j # k => items[j] = c.items[j]
    <2>1. c.items \in [Listed(c.order) -> [value : V, expiresAt : Nat]]
      BY DEF WellFormed
    <2>2. entry \in [value : V, expiresAt : Nat]
      OBVIOUS
    <2> HIDE DEF entry
    <2> QED BY <2>1, <2>2
  <1> HIDE DEF items
  <1>6. /\ KeepOnly(items, kept) \in [Listed(kept) -> [value : V, expiresAt : Nat]]
        /\ \A j \in Listed(kept) : KeepOnly(items, kept)[j] = items[j]
    BY <1>2, <1>3, <1>5 DEF KeepOnly
  <1>7. WellFormed(after, K, V)
    BY <1>1, <1>3, <1>6 DEF WellFormed
  <1> QED BY <1>1, <1>2, <1>3, <1>4, <1>5, <1>6, <1>7 DEF after, front, entry
=============================================================================
