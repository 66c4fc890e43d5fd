---------------------------- MODULE ListsProofs -----------------------------
(***************************************************************************)
(* What the filters of Lists return for every list, how the trees of       *)
(* Blocks are built, and the facts about numbers and sequences that the    *)
(* other proofs share.                                                     *)
(***************************************************************************)
EXTENDS Blocks, FiniteSetTheorems, SequenceTheorems, WellFoundedInduction, TLAPS

\* A set of natural numbers that is not empty has a least element.  (The sets
\* 0..x are finite, and strict inclusion is well founded on finite sets.)
LEMMA LeastNatural ==
    ASSUME NEW T, T \subseteq Nat, T # {}
    PROVE  \E x \in T : \A y \in T : x =< y
PROOF
  <1> DEFINE Below == {0 .. x : x \in T}
  <1>1. Below \subseteq FiniteSubsetsOf(Nat)
    <2>1. \A x \in T : IsFiniteSet(0 .. x)
      BY FS_Interval
    <2> QED BY <2>1 DEF FiniteSubsetsOf
  <1>2. Below # {}
    OBVIOUS
  <1>3. PICK U \in Below :
           \A V \in Below : <<V, U>> \notin StrictSubsetOrdering(Nat)
    <2> HIDE DEF Below
    <2>1. \E U \in Below :
             \A V \in Below : ~ (<<V, U>> \in StrictSubsetOrdering(Nat))
      BY <1>1, <1>2, FS_StrictSubsetOrderingWellFounded, WFMin
    <2> QED BY <2>1
  <1>4. PICK x \in T : U = 0 .. x
    BY <1>3
  <1>5. ASSUME NEW y \in T, y < x PROVE FALSE
    <2>1. 0 .. y \in Below
      OBVIOUS
    <2>2. 0 .. y \subseteq Nat /\ U \subseteq Nat
      BY <1>4
    <2>3. 0 .. y \subseteq U /\ x \in U /\ x \notin 0 .. y
      BY <1>4, <1>5
    <2>4. <<0 .. y, U>> \in StrictSubsetOrdering(Nat)
      BY <2>2, <2>3 DEF StrictSubsetOrdering
    <2> QED BY <2>1, <2>4, <1>3
  <1> QED BY <1>5

\* Induction up to a bound: a set of numbers that holds zero, and with each
\* number below the bound the next one, holds them all.
LEMMA BoundedInduction ==
    ASSUME NEW T, NEW m \in Nat, 0 \in T,
           \A n \in 0 .. m : n < m /\ n \in T => n + 1 \in T
    PROVE  0 .. m \subseteq T
PROOF
  <1> DEFINE missing == (0 .. m) \ T
  <1> SUFFICES ASSUME missing # {} PROVE FALSE
    OBVIOUS
  <1>1. missing \subseteq Nat
    OBVIOUS
  <1>2. PICK x \in missing : \A y \in missing : x =< y
    <2> HIDE DEF missing
    <2> QED BY <1>1, LeastNatural
  <1>3. x \in 1 .. m /\ x - 1 \in 0 .. m /\ x - 1 < m
    BY <1>2
  <1>4. x - 1 \in T
    BY <1>2, <1>3
  <1>5. x - 1 + 1 = x
    BY <1>3
  <1> QED BY <1>2, <1>3, <1>4, <1>5

-----------------------------------------------------------------------------
(* Lists.                                                                  *)

\* What Append and Tail make of a list.
LEMMA AppendIs ==
    ASSUME NEW S, NEW s \in Seq(S), NEW l \in S
    PROVE  /\ Len(s) \in Nat /\ DOMAIN s = 1 .. Len(s)
           /\ Append(s, l) \in Seq(S) /\ Append(s, l) # <<>>
           /\ DOMAIN Append(s, l) = 1 .. Len(s) + 1
           /\ Len(Append(s, l)) = Len(s) + 1
           /\ \A a \in DOMAIN s : a \in DOMAIN Append(s, l) /\ Append(s, l)[a] = s[a]
           /\ Append(s, l)[Len(s) + 1] = l
PROOF
  OBVIOUS

LEMMA TailIs ==
    ASSUME NEW S, NEW s \in Seq(S), s # <<>>
    PROVE  /\ Len(s) \in Nat \ {0} /\ Head(s) = s[1] /\ s[1] \in S
           /\ Tail(s) \in Seq(S) /\ Len(Tail(s)) = Len(s) - 1
           /\ DOMAIN Tail(s) = 1 .. Len(s) - 1
           /\ \A a \in DOMAIN Tail(s) : a + 1 \in DOMAIN s /\ Tail(s)[a] = s[a + 1]
PROOF
  OBVIOUS

\* What is in a list, and that nothing is in it twice.
Members(s) == {s[a] : a \in DOMAIN s}
Apart(s) == \A a, b \in DOMAIN s : a # b => s[a] # s[b]

LEMMA TailMembers ==
    ASSUME NEW S, NEW s \in Seq(S), s # <<>>
    PROVE  /\ Head(s) \in S /\ Tail(s) \in Seq(S)
           /\ Members(s) = {Head(s)} \cup Members(Tail(s))
           /\ Apart(s) => Apart(Tail(s)) /\ Head(s) \notin Members(Tail(s))
PROOF
  <1>1. /\ Len(s) \in Nat \ {0} /\ Head(s) = s[1] /\ s[1] \in S /\ Tail(s) \in Seq(S)
        /\ DOMAIN s = 1 .. Len(s) /\ DOMAIN Tail(s) = 1 .. Len(s) - 1
        /\ \A a \in DOMAIN Tail(s) : a + 1 \in DOMAIN s /\ Tail(s)[a] = s[a + 1]
    BY TailIs
  <1>2. ASSUME NEW x \in Members(s) PROVE x \in {Head(s)} \cup Members(Tail(s))
    <2>1. PICK a \in 1 .. Len(s) : s[a] = x
      BY <1>1 DEF Members
    <2>2. CASE a = 1
      BY <1>1, <2>1, <2>2
    <2>3. CASE a # 1
      <3>1. a - 1 \in DOMAIN Tail(s) /\ Tail(s)[a - 1] = x
        BY <1>1, <2>1, <2>3
      <3> QED BY <3>1 DEF Members
    <2> QED BY <2>2, <2>3
  <1>3. \A x \in Members(Tail(s)) : x \in Members(s)
    BY <1>1 DEF Members
  <1>4. Head(s) \in Members(s)
    <2>1. 1 \in DOMAIN s /\ Head(s) = s[1]
      BY <1>1
    <2> QED BY <2>1 DEF Members
  <1>5. ASSUME Apart(s) PROVE Apart(Tail(s)) /\ Head(s) \notin Members(Tail(s))
    <2>1. \A a, b \in 1 .. Len(s) : a # b => s[a] # s[b]
      BY <1>1, <1>5 DEF Apart
    <2>2. Apart(Tail(s))
      BY <1>1, <2>1 DEF Apart
    <2>3. \A a \in DOMAIN Tail(s) : Tail(s)[a] # Head(s)
      BY <1>1, <2>1
    <2> QED BY <2>2, <2>3 DEF Members
  <1> QED BY <1>1, <1>2, <1>3, <1>4, <1>5

LEMMA AppendMembers ==
    ASSUME NEW S, NEW s \in Seq(S), NEW x \in S
    PROVE  /\ Append(s, x) \in Seq(S)
           /\ Members(Append(s, x)) = Members(s) \cup {x}
           /\ Apart(s) /\ x \notin Members(s) => Apart(Append(s, x))
PROOF
  <1> DEFINE q == Append(s, x)
  <1>1. /\ q \in Seq(S) /\ Len(s) \in Nat /\ DOMAIN s = 1 .. Len(s)
        /\ DOMAIN q = 1 .. Len(s) + 1
        /\ q[Len(s) + 1] = x /\ \A a \in DOMAIN s : q[a] = s[a]
    BY AppendIs
  <1> HIDE DEF q
  <1>2. Len(s) + 1 \in DOMAIN q /\ \A a \in DOMAIN q : a = Len(s) + 1 \/ a \in DOMAIN s
    BY <1>1
  <1>3. Members(q) = Members(s) \cup {x}
    BY <1>1, <1>2 DEF Members
  <1>4. Apart(s) /\ x \notin Members(s) => Apart(q)
    BY <1>1, <1>2 DEF Apart, Members
  <1> QED BY <1>1, <1>3, <1>4 DEF q

LEMMA ConcatMembers ==
    ASSUME NEW S, NEW s \in Seq(S), NEW t \in Seq(S)
    PROVE  /\ s \o t \in Seq(S)
           /\ Members(s \o t) = Members(s) \cup Members(t)
           /\ Apart(s) /\ Apart(t) /\ Members(s) \cap Members(t) = {} => Apart(s \o t)
PROOF
  <1> DEFINE q == s \o t
             m == Len(s)
             n == Len(t)
  <1>1. /\ m \in Nat /\ n \in Nat /\ DOMAIN s = 1 .. m /\ DOMAIN t = 1 .. n
        /\ q \in Seq(S) /\ Len(q) = m + n /\ DOMAIN q = 1 .. m + n
        /\ \A a \in 1 .. m + n : q[a] = IF a =< m THEN s[a] ELSE t[a - m]
    BY ConcatProperties
  <1> HIDE DEF q, m, n
  <1>2. \A a \in DOMAIN s : a \in DOMAIN q /\ q[a] = s[a]
    BY <1>1
  <1>3. \A a \in DOMAIN t : m + a \in DOMAIN q /\ q[m + a] = t[a]
    BY <1>1
  <1>4. \A a \in DOMAIN q : \/ a \in DOMAIN s /\ q[a] = s[a]
                            \/ a - m \in DOMAIN t /\ q[a] = t[a - m] /\ a \notin DOMAIN s
    BY <1>1
  <1>5. Members(q) = Members(s) \cup Members(t)
    BY <1>2, <1>3, <1>4 DEF Members
  <1>6. ASSUME Apart(s), Apart(t), Members(s) \cap Members(t) = {},
               NEW a \in DOMAIN q, NEW b \in DOMAIN q, a # b
        PROVE  q[a] # q[b]
    <2>1. CASE a \in DOMAIN s /\ b \in DOMAIN s
      BY <1>2, <1>6, <2>1 DEF Apart
    <2>2. CASE a \notin DOMAIN s /\ b \notin DOMAIN s
      <3>1. a - m \in DOMAIN t /\ b - m \in DOMAIN t /\ a - m # b - m
        BY <1>1, <1>4, <1>6, <2>2
      <3> QED BY <1>4, <1>6, <2>2, <3>1 DEF Apart
    <2>3. CASE a \in DOMAIN s /\ b \notin DOMAIN s
      BY <1>4, <1>6, <2>3 DEF Members
    <2>4. CASE a \notin DOMAIN s /\ b \in DOMAIN s
      BY <1>4, <1>6, <2>4 DEF Members
    <2> QED BY <2>1, <2>2, <2>3, <2>4
  <1>7. Apart(s) /\ Apart(t) /\ Members(s) \cap Members(t) = {} => Apart(q)
    BY <1>6 DEF Apart
  <1> QED BY <1>1, <1>5, <1>7 DEF q

-----------------------------------------------------------------------------
(* FlattenSeq.                                                             *)

\* f[n] is what the first n lists of seqs make, one after the other.
Concats(seqs, f, n) ==
    f = [i \in 1 .. n |-> IF i = 1 THEN seqs[i] ELSE f[i - 1] \o seqs[i]]

LEMMA ConcatsExists ==
    ASSUME NEW seqs, NEW m \in Nat
    PROVE  \E f : Concats(seqs, f, m)
PROOF
  <1> DEFINE T == {n \in Nat : \E f : Concats(seqs, f, n)}
  <1>1. 0 \in T
    <2> DEFINE f == [i \in 1 .. 0 |-> <<>>]
    <2>1. Concats(seqs, f, 0)
      BY DEF Concats
    <2> QED BY <2>1
  <1>2. ASSUME NEW n \in 0 .. m, n < m, n \in T PROVE n + 1 \in T
    <2>1. PICK f : Concats(seqs, f, n)
      BY <1>2
    <2> DEFINE g == [i \in 1 .. n + 1 |->
                        IF i = 1 THEN seqs[i] ELSE f[i - 1] \o seqs[i]]
    <2>2. ASSUME NEW i \in 1 .. n + 1
          PROVE  g[i] = IF i = 1 THEN seqs[i] ELSE g[i - 1] \o seqs[i]
      <3>1. CASE i = 1
        BY <3>1
      <3>2. CASE i # 1
        <4>1. i - 1 \in 1 .. n /\ i - 1 \in 1 .. n + 1
          BY <3>2
        <4>2. f[i - 1] = IF i - 1 = 1 THEN seqs[i - 1] ELSE f[i - 1 - 1] \o seqs[i - 1]
          BY <2>1, <4>1 DEF Concats
        <4>3. g[i - 1] = IF i - 1 = 1 THEN seqs[i - 1] ELSE f[i - 1 - 1] \o seqs[i - 1]
          BY <4>1
        <4>4. g[i] = f[i - 1] \o seqs[i]
          BY <3>2
        <4> QED BY <3>2, <4>2, <4>3, <4>4
      <3> QED BY <3>1, <3>2
    <2>3. Concats(seqs, g, n + 1)
      <3>1. g = [i \in 1 .. n + 1 |-> g[i]]
        OBVIOUS
      <3> HIDE DEF g
      <3> QED BY <2>2, <3>1 DEF Concats
    <2> QED BY <2>3
  <1>3. 0 .. m \subseteq T
    <2> HIDE DEF T
    <2> QED BY <1>1, <1>2, BoundedInduction
  <1> QED BY <1>3

\* FlattenSeq by what it is after each list.
SoFar(S, seqs, f) ==
    /\ f \in [0 .. Len(seqs) -> Seq(S)]
    /\ f[0] = <<>> /\ f[Len(seqs)] = FlattenSeq(seqs)
    /\ \A k \in 0 .. Len(seqs), n \in 1 .. Len(seqs) :
          n = k + 1 => f[n] = f[k] \o seqs[n]

LEMMA FlattenRuns ==
    ASSUME NEW S, NEW seqs \in Seq(Seq(S))
    PROVE  \E f : SoFar(S, seqs, f)
PROOF
  <1> DEFINE m == Len(seqs)
             g == CHOOSE h : Concats(seqs, h, m)
             f == [n \in 0 .. m |-> IF n = 0 THEN <<>> ELSE g[n]]
  <1>1. m \in Nat /\ \A n \in 1 .. m : seqs[n] \in Seq(S)
    OBVIOUS
  <1>2. Concats(seqs, g, m)
    <2> HIDE DEF m
    <2> QED BY <1>1, ConcatsExists
  <1>3. FlattenSeq(seqs) = IF m = 0 THEN seqs ELSE g[m]
    BY DEF FlattenSeq, Concats
  <1>4. m = 0 => seqs = <<>>
    BY <1>1
  <1>5. <<>> \in Seq(S)
    OBVIOUS
  <1> HIDE DEF g, m
  <1>6. \A n \in 1 .. m : g[n] = IF n = 1 THEN seqs[n] ELSE g[n - 1] \o seqs[n]
    BY <1>2 DEF Concats
  <1>7. ASSUME NEW k \in 0 .. m, NEW n \in 1 .. m, n = k + 1
        PROVE  f[n] = f[k] \o seqs[n]
    <2>0. n - 1 = k
      BY <1>7
    <2>1. n \in 0 .. m /\ n - 1 \in 0 .. m /\ n # 0 /\ f[n] = g[n]
      BY <1>1
    <2>2. CASE n = 1
      <3>1. f[n - 1] = <<>> /\ g[n] = seqs[n]
        BY <1>6, <2>1, <2>2
      <3>2. \A s \in Seq(S) : <<>> \o s = s
        OBVIOUS
      <3> QED BY <1>1, <2>0, <2>1, <3>1, <3>2
    <2>3. CASE n # 1
      <3>1. n - 1 # 0
        BY <1>1, <2>3
      <3>2. f[n - 1] = g[n - 1]
        BY <2>1, <3>1
      <3>3. g[n] = g[n - 1] \o seqs[n]
        BY <1>6, <2>3
      <3> QED BY <2>0, <2>1, <3>2, <3>3
    <2> QED BY <2>2, <2>3
  <1>8. f[0] = <<>> /\ f[m] = FlattenSeq(seqs) /\ DOMAIN f = 0 .. m
    BY <1>1, <1>3, <1>4
  <1>9. ASSUME NEW n \in 0 .. m PROVE f[n] \in Seq(S)
    <2> DEFINE T == {k \in 0 .. m : f[k] \in Seq(S)}
    <2>1. 0 \in T
      BY <1>1, <1>5, <1>8
    <2>2. ASSUME NEW k \in 0 .. m, k < m, k \in T PROVE k + 1 \in T
      <3>1. k + 1 \in 1 .. m /\ k + 1 \in 0 .. m
        BY <1>1, <2>2
      <3> HIDE DEF f
      <3>2. f[k + 1] = f[k] \o seqs[k + 1] /\ seqs[k + 1] \in Seq(S) /\ f[k] \in Seq(S)
        BY <1>1, <1>7, <2>2, <3>1
      <3>3. \A s, t \in Seq(S) : s \o t \in Seq(S)
        OBVIOUS
      <3> QED BY <3>1, <3>2, <3>3
    <2>3. 0 .. m \subseteq T
      <3> HIDE DEF T, f
      <3> QED BY <1>1, <2>1, <2>2, BoundedInduction
    <2> QED BY <2>3
  <1>10. f = [n \in 0 .. m |-> f[n]]
    BY <1>8
  <1> HIDE DEF f
  <1>11. f \in [0 .. m -> Seq(S)]
    BY <1>9, <1>10
  <1> QED BY <1>7, <1>8, <1>11 DEF SoFar, m

\* What all the lists hold, and no fewer of it than any of them or any two.
LEMMA FlattenMembers ==
    ASSUME NEW S, NEW seqs \in Seq(Seq(S))
    PROVE  LET flat == FlattenSeq(seqs)
           IN  /\ flat \in Seq(S)
               /\ Members(flat) = UNION {Members(seqs[k]) : k \in DOMAIN seqs}
               /\ \A k \in DOMAIN seqs : Len(flat) >= Len(seqs[k])
               /\ \A j, k \in DOMAIN seqs :
                     j < k => Len(flat) >= Len(seqs[j]) + Len(seqs[k])
PROOF
  <1> DEFINE m == Len(seqs)
             L(k) == Len(seqs[k])
  <1>1. PICK f : SoFar(S, seqs, f)
    BY FlattenRuns
  <1>2. /\ m \in Nat /\ DOMAIN seqs = 1 .. m
        /\ \A k \in 1 .. m : seqs[k] \in Seq(S) /\ L(k) \in Nat
    OBVIOUS
  <1> HIDE DEF m, L
  <1>3. /\ f \in [0 .. m -> Seq(S)] /\ f[0] = <<>> /\ f[m] = FlattenSeq(seqs)
        /\ \A k \in 0 .. m, n \in 1 .. m : n = k + 1 => f[n] = f[k] \o seqs[n]
    BY <1>1 DEF SoFar, m
  <1> DEFINE Holds(n) ==
                 /\ Members(f[n]) = UNION {Members(seqs[k]) : k \in 1 .. n}
                 /\ \A k \in 1 .. n : Len(f[n]) >= L(k)
                 /\ \A j, k \in 1 .. n : j < k => Len(f[n]) >= L(j) + L(k)
             T == {n \in 0 .. m : Holds(n)}
  <1>4. 0 \in T
    <2>1. Members(<<>>) = {}
      BY DEF Members
    <2> QED BY <1>2, <1>3, <2>1
  <1>5. ASSUME NEW n \in 0 .. m, n < m, n \in T PROVE n + 1 \in T
    <2> DEFINE p == f[n]
               q == seqs[n + 1]
    <2>1. n + 1 \in 1 .. m /\ n + 1 \in 0 .. m /\ n + 1 - 1 = n /\ n \in Nat
      BY <1>2, <1>5
    <2>2. p \in Seq(S) /\ q \in Seq(S) /\ f[n + 1] = p \o q /\ L(n + 1) \in Nat
      <3>1. f[n + 1] = f[n] \o seqs[n + 1]
        BY <1>3, <1>5, <2>1
      <3>2. p \in Seq(S) /\ q \in Seq(S) /\ L(n + 1) \in Nat
        BY <1>2, <1>3, <2>1
      <3> QED BY <2>1, <3>1, <3>2
    <2>3. L(n + 1) = Len(q)
      BY DEF L
    <2>4. Holds(n)
      BY <1>5
    <2> HIDE DEF p, q
    <2>5. /\ Len(p) \in Nat /\ Len(p \o q) = Len(p) + Len(q)
          /\ Members(p \o q) = Members(p) \cup Members(q)
      <3>1. Len(p) \in Nat /\ Len(p \o q) = Len(p) + Len(q)
        BY <2>2
      <3> QED BY <2>2, <3>1, ConcatMembers
    <2>6. \A k \in 1 .. n + 1 : k \in 1 .. n \/ k = n + 1
      BY <2>1
    <2>7. \A k \in 1 .. n : k \in 1 .. m /\ k \in 1 .. n + 1 /\ k < n + 1
      BY <1>2, <1>5
    <2>8. Members(f[n + 1]) = UNION {Members(seqs[k]) : k \in 1 .. n + 1}
      <3>1. Members(p) = UNION {Members(seqs[k]) : k \in 1 .. n}
        BY <2>4 DEF p
      <3>2. n + 1 \in 1 .. n + 1
        BY <2>1
      <3> QED BY <2>2, <2>5, <2>6, <2>7, <3>1, <3>2 DEF q
    <2>9. \A k \in 1 .. n : L(k) \in Nat /\ Len(p) >= L(k)
      BY <1>2, <2>4, <2>7 DEF p
    <2>10. \A k \in 1 .. n + 1 : Len(f[n + 1]) >= L(k)
      <3> SUFFICES ASSUME NEW k \in 1 .. n + 1 PROVE Len(f[n + 1]) >= L(k)
        OBVIOUS
      <3>1. Len(f[n + 1]) = Len(p) + L(n + 1)
        BY <2>2, <2>3, <2>5
      <3>2. CASE k = n + 1
        BY <2>2, <2>5, <3>1, <3>2
      <3>3. CASE k \in 1 .. n
        BY <2>2, <2>5, <2>9, <3>1, <3>3
      <3> QED BY <2>6, <3>2, <3>3
    <2>11. ASSUME NEW j \in 1 .. n + 1, NEW k \in 1 .. n + 1, j < k
           PROVE  Len(f[n + 1]) >= L(j) + L(k)
      <3>1. Len(f[n + 1]) = Len(p) + L(n + 1)
        BY <2>2, <2>3, <2>5
      <3>2. j \in 1 .. n
        BY <2>1, <2>11
      <3>3. CASE k = n + 1
        BY <2>2, <2>5, <2>9, <3>1, <3>2, <3>3
      <3>4. CASE k \in 1 .. n
        <4>1. Len(p) >= L(j) + L(k)
          BY <2>4, <2>11, <3>2, <3>4 DEF p
        <4> QED BY <2>2, <2>5, <2>9, <3>1, <3>2, <3>4, <4>1
      <3> QED BY <2>6, <3>3, <3>4
    <2>12. Holds(n + 1)
      BY <2>8, <2>10, <2>11
    <2> HIDE DEF Holds
    <2> QED BY <2>1, <2>12
  <1>6. 0 .. m \subseteq T
    <2> HIDE DEF T
    <2> QED BY <1>2, <1>4, <1>5, BoundedInduction
  <1>7. Holds(m) /\ f[m] \in Seq(S)
    BY <1>2, <1>3, <1>6
  <1> QED BY <1>2, <1>3, <1>7 DEF L

\* One list more is one list after the others.
LEMMA FlattenAppend ==
    ASSUME NEW S, NEW seqs \in Seq(Seq(S)), NEW t \in Seq(S)
    PROVE  FlattenSeq(Append(seqs, t)) = FlattenSeq(seqs) \o t
PROOF
  <1> DEFINE more == Append(seqs, t)
             m == Len(seqs)
  <1>1. /\ m \in Nat /\ more \in Seq(Seq(S)) /\ Len(more) = m + 1
        /\ \A n \in 1 .. m : more[n] = seqs[n]
        /\ more[m + 1] = t
    BY AppendIs
  <1> HIDE DEF more, m
  <1>2. PICK f : SoFar(S, seqs, f)
    BY FlattenRuns
  <1>3. PICK g : SoFar(S, more, g)
    BY <1>1, FlattenRuns
  <1>4. /\ f[0] = <<>> /\ f[m] = FlattenSeq(seqs)
        /\ \A k \in 0 .. m, n \in 1 .. m : n = k + 1 => f[n] = f[k] \o seqs[n]
    BY <1>2 DEF SoFar, m
  <1>5. /\ g[0] = <<>> /\ g[m + 1] = FlattenSeq(more)
        /\ \A k \in 0 .. m + 1, n \in 1 .. m + 1 : n = k + 1 => g[n] = g[k] \o more[n]
    BY <1>1, <1>3 DEF SoFar
  <1> DEFINE T == {n \in 0 .. m : g[n] = f[n]}
  <1>6. 0 \in T
    BY <1>1, <1>4, <1>5
  <1>7. ASSUME NEW n \in 0 .. m, n < m, n \in T PROVE n + 1 \in T
    <2>1. /\ n + 1 \in 1 .. m /\ n + 1 \in 1 .. m + 1 /\ n + 1 \in 0 .. m
          /\ n \in 0 .. m + 1
      BY <1>1, <1>7
    <2>2. f[n + 1] = f[n] \o seqs[n + 1] /\ g[n + 1] = g[n] \o more[n + 1]
      BY <1>1, <1>4, <1>5, <1>7, <2>1
    <2>3. more[n + 1] = seqs[n + 1] /\ g[n] = f[n]
      BY <1>1, <1>7, <2>1
    <2> QED BY <2>1, <2>2, <2>3
  <1>8. m \in T
    <2>1. m \in 0 .. m
      BY <1>1
    <2> HIDE DEF T
    <2>2. 0 .. m \subseteq T
      BY <1>1, <1>6, <1>7, BoundedInduction
    <2> QED BY <2>1, <2>2
  <1>9. m + 1 \in 1 .. m + 1 /\ m \in 0 .. m + 1
    BY <1>1
  <1>10. g[m + 1] = g[m] \o t
    <2>1. g[m + 1] = g[m] \o more[m + 1]
      BY <1>5, <1>9
    <2> QED BY <1>1, <2>1
  <1> QED BY <1>4, <1>5, <1>8, <1>10 DEF more

-----------------------------------------------------------------------------
(* KeepAt and the filters made of it.                                      *)

\* What is kept after n elements.
KeptOf(S, seq, positions, n, r) ==
    /\ r \in Seq(S)
    /\ \A i \in 1 .. n : i \in positions => \E a \in DOMAIN r : r[a] = seq[i]
    /\ \A a \in DOMAIN r : \E i \in 1 .. n : r[a] = seq[i] /\ i \in positions
    /\ \A a, b \in DOMAIN r :
          a < b => \E i, j \in 1 .. n : /\ i < j /\ r[a] = seq[i] /\ r[b] = seq[j]
                                        /\ i \in positions /\ j \in positions

\* KeepAt keeps what stands at the positions and nothing else, in its order.
LEMMA KeepAtIs ==
    ASSUME NEW S, NEW seq \in Seq(S), NEW positions
    PROVE  KeptOf(S, seq, positions, Len(seq), KeepAt(seq, positions))
PROOF
  <1> DEFINE m == Len(seq)
             parts == [n \in DOMAIN seq |-> IF n \in positions THEN <<seq[n]>> ELSE <<>>]
  <1>1. m \in Nat /\ DOMAIN seq = 1 .. m /\ \A i \in 1 .. m : seq[i] \in S
    OBVIOUS
  <1>2. parts \in Seq(Seq(S)) /\ Len(parts) = m
    <2>1. \A x \in S : <<x>> \in Seq(S)
      OBVIOUS
    <2>2. <<>> \in Seq(S)
      OBVIOUS
    <2>3. \A n \in 1 .. m : parts[n] \in Seq(S)
      BY <1>1, <2>1, <2>2
    <2>4. parts = [n \in 1 .. m |-> parts[n]]
      BY <1>1
    <2> HIDE DEF parts, m
    <2> QED BY <1>1, <2>3, <2>4
  <1>3. \A n \in 1 .. m : parts[n] = IF n \in positions THEN <<seq[n]>> ELSE <<>>
    BY <1>1
  <1>4. KeepAt(seq, positions) = FlattenSeq(parts)
    BY DEF KeepAt
  <1> HIDE DEF parts, m
  <1>5. PICK K : SoFar(S, parts, K)
    BY <1>2, FlattenRuns
  <1>6. /\ \A n \in 0 .. m : K[n] \in Seq(S)
        /\ K[0] = <<>> /\ K[m] = KeepAt(seq, positions)
        /\ \A k \in 0 .. m, n \in 1 .. m : n = k + 1 => K[n] = K[k] \o parts[n]
    BY <1>2, <1>4, <1>5 DEF SoFar
  <1> DEFINE T == {n \in 0 .. m : KeptOf(S, seq, positions, n, K[n])}
  <1>7. 0 \in T
    <2>1. <<>> \in Seq(S) /\ DOMAIN <<>> = {} /\ 1 .. 0 = {}
      OBVIOUS
    <2>2. KeptOf(S, seq, positions, 0, <<>>)
      BY <2>1 DEF KeptOf
    <2> QED BY <1>1, <1>6, <2>2
  <1>8. ASSUME NEW n \in 0 .. m, n < m, n \in T PROVE n + 1 \in T
    <2> DEFINE r == K[n]
               l == seq[n + 1]
    <2>0. n + 1 \in 1 .. m /\ n + 1 \in 0 .. m /\ l \in S /\ n \in Nat
      BY <1>1, <1>8
    <2>1. KeptOf(S, seq, positions, n, r) /\ r \in Seq(S)
      BY <1>8 DEF KeptOf
    <2>2. K[n + 1] = IF n + 1 \in positions THEN Append(r, l) ELSE r
      <3>1. K[n + 1] = r \o parts[n + 1]
        BY <1>6, <1>8, <2>0
      <3>2. parts[n + 1] = IF n + 1 \in positions THEN <<l>> ELSE <<>>
        BY <1>3, <2>0
      <3>3. \A q \in Seq(S), x \in S : q \o <<x>> = Append(q, x) /\ q \o <<>> = q
        OBVIOUS
      <3> HIDE DEF r, l
      <3> QED BY <2>0, <2>1, <3>1, <3>2, <3>3
    <2>3. KeptOf(S, seq, positions, n + 1, K[n + 1])
      <3> HIDE DEF r
      <3>1. CASE n + 1 \notin positions
        BY <2>0, <2>1, <2>2, <3>1 DEF KeptOf
      <3>2. CASE n + 1 \in positions
        <4> DEFINE q == Append(r, l)
        <4>1. /\ q \in Seq(S) /\ Len(r) \in Nat /\ DOMAIN r = 1 .. Len(r)
              /\ DOMAIN q = 1 .. Len(r) + 1
              /\ q[Len(r) + 1] = l /\ \A a \in DOMAIN r : q[a] = r[a]
          BY <2>0, <2>1
        <4> HIDE DEF q
        <4>2. ASSUME NEW i \in 1 .. n + 1, i \in positions
              PROVE  \E a \in DOMAIN q : q[a] = seq[i]
          <5>1. CASE i = n + 1
            BY <2>0, <4>1, <5>1
          <5>2. CASE i # n + 1
            <6>1. i \in 1 .. n
              BY <2>0, <5>2
            <6>2. PICK a \in DOMAIN r : r[a] = seq[i]
              BY <2>1, <4>2, <6>1 DEF KeptOf
            <6> QED BY <4>1, <6>2
          <5> QED BY <5>1, <5>2
        <4>3. ASSUME NEW a \in DOMAIN q
              PROVE  \E i \in 1 .. n + 1 : q[a] = seq[i] /\ i \in positions
          <5>1. CASE a = Len(r) + 1
            BY <2>0, <3>2, <4>1, <5>1
          <5>2. CASE a # Len(r) + 1
            <6>1. a \in DOMAIN r /\ q[a] = r[a]
              BY <4>1, <5>2
            <6>2. PICK i \in 1 .. n : r[a] = seq[i] /\ i \in positions
              BY <2>1, <6>1 DEF KeptOf
            <6>3. i \in 1 .. n + 1
              BY <2>0
            <6> QED BY <6>1, <6>2, <6>3
          <5> QED BY <5>1, <5>2
        <4>5. ASSUME NEW a \in DOMAIN q, NEW b \in DOMAIN q, a < b
              PROVE  \E i, j \in 1 .. n + 1 : /\ i < j /\ q[a] = seq[i] /\ q[b] = seq[j]
                                              /\ i \in positions /\ j \in positions
          <5>1. a \in DOMAIN r /\ q[a] = r[a]
            BY <4>1, <4>5
          <5>2. CASE b = Len(r) + 1
            <6>1. PICK i \in 1 .. n : r[a] = seq[i] /\ i \in positions
              BY <2>1, <5>1 DEF KeptOf
            <6>2. i \in 1 .. n + 1 /\ n + 1 \in 1 .. n + 1 /\ i < n + 1
              BY <2>0
            <6> QED BY <3>2, <4>1, <5>1, <5>2, <6>1, <6>2
          <5>3. CASE b # Len(r) + 1
            <6>1. b \in DOMAIN r /\ q[b] = r[b]
              BY <4>1, <5>3
            <6>2. PICK i, j \in 1 .. n : /\ i < j /\ r[a] = seq[i] /\ r[b] = seq[j]
                                        /\ i \in positions /\ j \in positions
              BY <2>1, <4>5, <5>1, <6>1 DEF KeptOf
            <6>3. i \in 1 .. n + 1 /\ j \in 1 .. n + 1
              BY <2>0
            <6> QED BY <5>1, <6>1, <6>2, <6>3
          <5> QED BY <5>2, <5>3
        <4>6. KeptOf(S, seq, positions, n + 1, q)
          BY <4>1, <4>2, <4>3, <4>5 DEF KeptOf
        <4> QED BY <2>2, <3>2, <4>6 DEF q
      <3> QED BY <3>1, <3>2
    <2> QED BY <2>0, <2>3
  <1>9. 0 .. m \subseteq T
    <2> HIDE DEF T
    <2> QED BY <1>1, <1>7, <1>8, BoundedInduction
  <1> QED BY <1>1, <1>6, <1>9 DEF m

\* The same in terms of what the lists hold.
LEMMA KeepAtMembers ==
    ASSUME NEW S, NEW seq \in Seq(S), NEW positions, positions \subseteq DOMAIN seq
    PROVE  LET r == KeepAt(seq, positions)
           IN  /\ r \in Seq(S) /\ Members(r) = {seq[i] : i \in positions}
               /\ \A a, b \in DOMAIN r :
                     a < b => \E i, j \in positions : i < j /\ r[a] = seq[i] /\ r[b] = seq[j]
               /\ Apart(seq) => Apart(r)
PROOF
  <1> DEFINE r == KeepAt(seq, positions)
  <1>1. KeptOf(S, seq, positions, Len(seq), r) /\ DOMAIN seq = 1 .. Len(seq)
    BY KeepAtIs
  <1> HIDE DEF r
  <1>2. r \in Seq(S) /\ DOMAIN r = 1 .. Len(r) /\ Len(r) \in Nat
    BY <1>1 DEF KeptOf
  <1>3. ASSUME NEW x \in Members(r) PROVE x \in {seq[i] : i \in positions}
    <2>1. PICK a \in DOMAIN r : r[a] = x
      BY <1>3 DEF Members
    <2>2. \E i \in 1 .. Len(seq) : r[a] = seq[i] /\ i \in positions
      BY <1>1 DEF KeptOf
    <2> QED BY <2>1, <2>2
  <1>4. ASSUME NEW i \in positions PROVE seq[i] \in Members(r)
    <2>1. \E a \in DOMAIN r : r[a] = seq[i]
      BY <1>1 DEF KeptOf
    <2> QED BY <2>1 DEF Members
  <1>5. \A a, b \in DOMAIN r :
           a < b => \E i, j \in positions : i < j /\ r[a] = seq[i] /\ r[b] = seq[j]
    BY <1>1 DEF KeptOf
  <1>6. ASSUME Apart(seq) PROVE Apart(r)
    <2>1. ASSUME NEW a \in DOMAIN r, NEW b \in DOMAIN r, a < b PROVE r[a] # r[b]
      <3>1. PICK i \in positions, j \in positions : i < j /\ r[a] = seq[i] /\ r[b] = seq[j]
        BY <1>5, <2>1
      <3>2. i \in DOMAIN seq /\ j \in DOMAIN seq /\ i # j
        BY <1>1, <3>1
      <3> QED BY <1>6, <3>1, <3>2 DEF Apart
    <2>2. \A a, b \in DOMAIN r : a # b => a < b \/ b < a
      BY <1>2
    <2> QED BY <2>1, <2>2 DEF Apart
  <1> QED BY <1>2, <1>3, <1>4, <1>5, <1>6 DEF r

LEMMA OnlyMembers ==
    ASSUME NEW S, NEW seq \in Seq(S), NEW set
    PROVE  /\ Only(seq, set) \in Seq(S)
           /\ Members(Only(seq, set)) = Members(seq) \cap set
           /\ Apart(seq) => Apart(Only(seq, set))
PROOF
  <1> DEFINE at == {n \in DOMAIN seq : seq[n] \in set}
  <1>1. Only(seq, set) = KeepAt(seq, at)
    BY DEF Only
  <1>2. {seq[n] : n \in at} = Members(seq) \cap set
    BY DEF Members
  <1>3. at \subseteq DOMAIN seq
    OBVIOUS
  <1> HIDE DEF at
  <1> QED BY <1>1, <1>2, <1>3, KeepAtMembers

LEMMA AllButMembers ==
    ASSUME NEW S, NEW seq \in Seq(S), NEW set
    PROVE  /\ AllBut(seq, set) \in Seq(S)
           /\ Members(AllBut(seq, set)) = Members(seq) \ set
           /\ Apart(seq) => Apart(AllBut(seq, set))
           /\ \A a, b \in DOMAIN AllBut(seq, set) :
                 a < b => \E i, j \in DOMAIN seq : /\ i < j
                                                   /\ AllBut(seq, set)[a] = seq[i]
                                                   /\ AllBut(seq, set)[b] = seq[j]
PROOF
  <1> DEFINE at == {n \in DOMAIN seq : seq[n] \notin set}
             r == AllBut(seq, set)
  <1>1. r = KeepAt(seq, at)
    BY DEF AllBut
  <1>2. {seq[n] : n \in at} = Members(seq) \ set
    BY DEF Members
  <1>3. at \subseteq DOMAIN seq
    OBVIOUS
  <1> HIDE DEF at, r
  <1>4. /\ r \in Seq(S) /\ Members(r) = Members(seq) \ set /\ (Apart(seq) => Apart(r))
        /\ \A a, b \in DOMAIN r :
              a < b => \E i, j \in at : i < j /\ r[a] = seq[i] /\ r[b] = seq[j]
    BY <1>1, <1>2, <1>3, KeepAtMembers
  <1> QED BY <1>3, <1>4 DEF r

\* Position i of seq holds something that is not before it.
IsNew(seq, i) == i \in DOMAIN seq /\ \A a \in 1 .. (i - 1) : seq[a] # seq[i]

\* Every member is new somewhere.
LEMMA NewSomewhere ==
    ASSUME NEW S, NEW seq \in Seq(S), NEW x \in Members(seq)
    PROVE  \E i \in DOMAIN seq : IsNew(seq, i) /\ seq[i] = x
PROOF
  <1> DEFINE At == {i \in DOMAIN seq : seq[i] = x}
  <1>1. DOMAIN seq = 1 .. Len(seq) /\ Len(seq) \in Nat
    OBVIOUS
  <1>2. At \subseteq Nat /\ At # {}
    BY <1>1 DEF Members
  <1>3. PICK i \in At : \A j \in At : i =< j
    <2> HIDE DEF At
    <2> QED BY <1>2, LeastNatural
  <1>4. IsNew(seq, i)
    BY <1>1, <1>3 DEF IsNew
  <1> QED BY <1>3, <1>4

\* FirstOfEach holds what seq holds, at the positions where it is new.
LEMMA FirstOfEachIs ==
    ASSUME NEW S, NEW seq \in Seq(S)
    PROVE  LET r == FirstOfEach(seq)
           IN  /\ r \in Seq(S) /\ Members(r) = Members(seq)
               /\ \A a, b \in DOMAIN r :
                     a < b => \E i, j \in DOMAIN seq : /\ i < j
                                                       /\ IsNew(seq, i) /\ r[a] = seq[i]
                                                       /\ IsNew(seq, j) /\ r[b] = seq[j]
PROOF
  <1> DEFINE at == {n \in DOMAIN seq : \A a \in 1 .. (n - 1) : seq[a] # seq[n]}
             r == FirstOfEach(seq)
  <1>1. r = KeepAt(seq, at)
    BY DEF FirstOfEach
  <1>2. \A n : n \in at <=> IsNew(seq, n)
    BY DEF IsNew
  <1>3. at \subseteq DOMAIN seq
    OBVIOUS
  <1> HIDE DEF at, r
  <1>4. /\ r \in Seq(S) /\ Members(r) = {seq[n] : n \in at}
        /\ \A a, b \in DOMAIN r :
              a < b => \E i, j \in at : i < j /\ r[a] = seq[i] /\ r[b] = seq[j]
    BY <1>1, <1>3, KeepAtMembers
  <1>5. Members(r) = Members(seq)
    <2>1. \A x \in Members(seq) : \E i \in at : seq[i] = x
      BY <1>2, NewSomewhere
    <2> QED BY <1>3, <1>4, <2>1 DEF Members
  <1> QED BY <1>2, <1>3, <1>4, <1>5 DEF r

IsList(s) == s \in Seq(Members(s))

LEMMA ListIs ==
    ASSUME NEW f, NEW n \in Nat, f = [k \in 1 .. n |-> f[k]]
    PROVE  IsList(f)
PROOF
  <1>1. \A k \in 1 .. n : f[k] \in Members(f)
    BY DEF Members
  <1> QED BY <1>1 DEF IsList

LEMMA SeqIsList ==
    ASSUME NEW S, NEW s \in Seq(S)
    PROVE  IsList(s) /\ Len(s) \in Nat /\ DOMAIN s = 1 .. Len(s)
PROOF
  <1>1. Len(s) \in Nat /\ s = [k \in 1 .. Len(s) |-> s[k]] /\ DOMAIN s = 1 .. Len(s)
    OBVIOUS
  <1> QED BY <1>1, ListIs

-----------------------------------------------------------------------------
(* Trees of blocks as lists.                                               *)

LEMMA ToSetIs ==
    ASSUME NEW s
    PROVE  ToSet(s) = Members(s)
PROOF
  BY DEF ToSet, Members

\* Whatever stands in an outline.
OutlineLines(o) == UNION {Members(o[j].texts) : j \in DOMAIN o}

LEMMA OutlineIs ==
    ASSUME NEW o, IsOutline(o)
    PROVE  /\ Len(o) \in Nat /\ DOMAIN o = 1 .. Len(o)
           /\ \A i \in DOMAIN o : /\ o[i].level \in Nat
                                  /\ o[i].texts \in Seq(OutlineLines(o))
PROOF
  <1>1. o \in Seq(ToSet(o))
    BY DEF IsOutline
  <1>2. Len(o) \in Nat /\ DOMAIN o = 1 .. Len(o)
    BY <1>1
  <1> DEFINE Level(n) == n \in DOMAIN o => o[n].level \in Nat
             T == {n \in 0 .. Len(o) : Level(n)}
  <1>3. 0 \in T
    BY <1>2
  <1>4. ASSUME NEW n \in 0 .. Len(o), n < Len(o), n \in T PROVE n + 1 \in T
    <2>1. n + 1 \in DOMAIN o /\ n + 1 \in 0 .. Len(o)
      BY <1>2, <1>4
    <2>2. o[n + 1].level \in 0 .. (IF n + 1 = 1 THEN 0 ELSE o[n + 1 - 1].level + 1)
      BY <2>1 DEF IsOutline
    <2>3. o[n + 1].level \in Nat
      BY <2>2
    <2> QED BY <2>1, <2>3
  <1>5. 0 .. Len(o) \subseteq T
    <2> HIDE DEF T
    <2> QED BY <1>2, <1>3, <1>4, BoundedInduction
  <1>6. ASSUME NEW i \in DOMAIN o
        PROVE  o[i].level \in Nat /\ o[i].texts \in Seq(OutlineLines(o))
    <2>1. o[i].level \in Nat
      BY <1>2, <1>5
    <2>2. o[i].texts \in Seq(ToSet(o[i].texts))
      BY DEF IsOutline
    <2>3. ToSet(o[i].texts) \subseteq OutlineLines(o)
      BY ToSetIs DEF OutlineLines
    <2>4. \A S, T1 : S \subseteq T1 => Seq(S) \subseteq Seq(T1)
      OBVIOUS
    <2> QED BY <2>1, <2>2, <2>3, <2>4
  <1> QED BY <1>2, <1>6

\* What TextsOf returns.
LEMMA TextsAre ==
    ASSUME NEW o, IsOutline(o), NEW set
    PROVE  /\ TextsOf(o, set) \in Seq(OutlineLines(o))
           /\ Members(TextsOf(o, set)) =
                 UNION {Members(o[j].texts) : j \in set \cap DOMAIN o}
PROOF
  <1> DEFINE L == OutlineLines(o)
             parts == [j \in DOMAIN o |-> IF j \in set THEN o[j].texts ELSE <<>>]
  <1>1. /\ Len(o) \in Nat /\ DOMAIN o = 1 .. Len(o)
        /\ \A i \in DOMAIN o : o[i].texts \in Seq(L)
    BY OutlineIs
  <1>2. <<>> \in Seq(L) /\ Members(<<>>) = {}
    BY DEF Members
  <1> HIDE DEF L
  <1>3. \A j \in DOMAIN o : parts[j] \in Seq(L)
    BY <1>1, <1>2
  <1>4. /\ DOMAIN parts = DOMAIN o
        /\ \A j \in DOMAIN o : parts[j] = IF j \in set THEN o[j].texts ELSE <<>>
    OBVIOUS
  <1>5. TextsOf(o, set) = FlattenSeq(parts)
    BY DEF TextsOf
  <1>6. parts \in Seq(Seq(L))
    BY <1>1, <1>3
  <1> HIDE DEF parts
  <1>7. /\ FlattenSeq(parts) \in Seq(L)
        /\ Members(FlattenSeq(parts)) = UNION {Members(parts[k]) : k \in DOMAIN parts}
    BY <1>6, FlattenMembers
  <1>8. UNION {Members(parts[k]) : k \in DOMAIN parts} =
           UNION {Members(o[j].texts) : j \in set \cap DOMAIN o}
    BY <1>2, <1>4
  <1> QED BY <1>5, <1>7, <1>8 DEF L

\* What lies inside a block is the run of deeper blocks after it.
LEMMA InSubtree ==
    ASSUME NEW o, IsOutline(o), NEW r \in DOMAIN o, NEW i
    PROVE  i \in Subtree(o, r) <=>
              /\ i \in DOMAIN o /\ r =< i
              /\ \A k \in DOMAIN o : r < k /\ k =< i => o[k].level > o[r].level
PROOF
  <1>1. Len(o) \in Nat /\ DOMAIN o = 1 .. Len(o)
    BY OutlineIs
  <1>2. ASSUME i \in DOMAIN o, r =< i
        PROVE  \A k : k \in (r + 1) .. i <=> k \in DOMAIN o /\ r < k /\ k =< i
    BY <1>1, <1>2
  <1>3. i \in r .. Len(o) <=> i \in DOMAIN o /\ r =< i
    BY <1>1
  <1> QED BY <1>2, <1>3 DEF Subtree

\* A block inside another is a child of one that is inside it too, or is it.
LEMMA ParentIs ==
    ASSUME NEW o, IsOutline(o), NEW r \in DOMAIN o, NEW i \in Subtree(o, r), i # r
    PROVE  \E p \in Subtree(o, r) : /\ p < i /\ i \in ChildSet(o, p)
                                    /\ Subtree(o, i) \subseteq Subtree(o, p)
PROOF
  <1> DEFINE D == DOMAIN o
             V(k) == o[k].level
             above == {k \in D : k < i /\ V(k) < V(i)}
             back == {i - k : k \in above}
  <1>1. /\ Len(o) \in Nat /\ D = 1 .. Len(o) /\ \A k \in D : V(k) \in Nat
    BY OutlineIs
  <1>2. /\ i \in D /\ r < i /\ \A k \in D : r < k /\ k =< i => V(k) > V(r)
    BY <1>1, InSubtree
  <1>3. r \in above
    BY <1>1, <1>2
  <1>4. PICK b \in back : \A c \in back : b =< c
    <2>1. back \subseteq Nat /\ back # {}
      BY <1>1, <1>2, <1>3
    <2> HIDE DEF back
    <2> QED BY <2>1, LeastNatural
  <1>5. PICK p \in above : b = i - p
    BY <1>4
  <1>6. ASSUME NEW k \in above PROVE k =< p
    <2>1. i - k \in back
      OBVIOUS
    <2>2. i - p =< i - k
      <3> HIDE DEF back
      <3> QED BY <1>4, <1>5, <2>1
    <2>3. i \in Nat /\ k \in Nat /\ p \in Nat
      BY <1>1, <1>2
    <2> QED BY <2>2, <2>3
  <1>7. p \in D /\ p < i /\ V(p) < V(i) /\ r =< p
    BY <1>3, <1>5, <1>6
  <1>8. \A k \in D : p < k /\ k < i => V(k) >= V(i)
    BY <1>1, <1>2, <1>6, <1>7
  <1>9. V(i) =< V(p) + 1
    <2> DEFINE q == p + 1
    <2>1. q \in D /\ q # 1 /\ q - 1 = p /\ p < q /\ q =< i
      <3>1. i \in Nat /\ p \in Nat \ {0} /\ p < i /\ i =< Len(o)
        BY <1>1, <1>2, <1>7
      <3> QED BY <1>1, <3>1
    <2>2. V(q) \in 0 .. (IF q = 1 THEN 0 ELSE V(q - 1) + 1)
      <3> HIDE DEF q
      <3> QED BY <2>1 DEF IsOutline
    <2>3. V(q) =< V(p) + 1
      <3> HIDE DEF q
      <3>1. V(q) \in 0 .. V(p) + 1
        BY <2>1, <2>2
      <3> QED BY <1>1, <1>7, <3>1
    <2>4. V(i) =< V(q)
      <3> HIDE DEF q
      <3>1. q = i \/ V(q) >= V(i)
        BY <1>1, <1>2, <1>8, <2>1
      <3> QED BY <1>1, <1>2, <2>1, <3>1
    <2> HIDE DEF q
    <2> QED BY <1>1, <1>2, <1>7, <2>1, <2>3, <2>4
  <1>10. V(i) = V(p) + 1
    BY <1>1, <1>2, <1>7, <1>9
  <1>11. i \in Subtree(o, p)
    <2>1. \A k \in D : p < k /\ k =< i => V(k) > V(p)
      BY <1>1, <1>2, <1>7, <1>8
    <2>2. i \in Subtree(o, p) <=>
             /\ i \in DOMAIN o /\ p =< i
             /\ \A k \in DOMAIN o : p < k /\ k =< i => o[k].level > o[p].level
      BY <1>7, InSubtree
    <2> QED BY <1>1, <1>2, <1>7, <2>1, <2>2
  <1>12. i \in ChildSet(o, p)
    BY <1>10, <1>11 DEF ChildSet
  <1>13. p \in Subtree(o, r)
    <2>1. \A k \in D : r < k /\ k =< p => V(k) > V(r)
      BY <1>1, <1>2, <1>7
    <2> QED BY <1>7, <2>1, InSubtree
  <1>14. ASSUME NEW j \in Subtree(o, i) PROVE j \in Subtree(o, p)
    <2>1. j \in D /\ i =< j /\ \A k \in D : i < k /\ k =< j => V(k) > V(i)
      BY <1>2, <1>14, InSubtree
    <2>2. ASSUME NEW k \in D, p < k, k =< j PROVE V(k) > V(p)
      <3>1. k < i \/ k = i \/ i < k
        BY <1>1, <1>2
      <3>2. V(k) >= V(i)
        BY <1>1, <1>2, <1>8, <2>1, <2>2, <3>1
      <3> QED BY <1>1, <1>2, <1>7, <3>2
    <2>3. j \in Subtree(o, p) <=>
             /\ j \in DOMAIN o /\ p =< j
             /\ \A k \in DOMAIN o : p < k /\ k =< j => o[k].level > o[p].level
      BY <1>7, InSubtree
    <2>4. p =< j
      BY <1>1, <1>2, <1>7, <2>1
    <2> QED BY <2>1, <2>2, <2>3, <2>4
  <1> QED BY <1>7, <1>12, <1>13, <1>14

LEMMA SubtreeNests ==
    ASSUME NEW o, IsOutline(o), NEW c \in DOMAIN o, NEW p \in Subtree(o, c),
           NEW i \in Subtree(o, p)
    PROVE  i \in Subtree(o, c) /\ p \in DOMAIN o /\ i \in DOMAIN o
PROOF
  <1> DEFINE D == DOMAIN o
             V(k) == o[k].level
  <1>1. /\ Len(o) \in Nat /\ D = 1 .. Len(o) /\ \A k \in D : V(k) \in Nat
    BY OutlineIs
  <1>2. /\ p \in D /\ c =< p /\ \A k \in D : c < k /\ k =< p => V(k) > V(c)
    BY InSubtree
  <1>3. /\ i \in D /\ p =< i /\ \A k \in D : p < k /\ k =< i => V(k) > V(p)
    BY <1>2, InSubtree
  <1>4. \A k \in D : c < k /\ k =< i => V(k) > V(c)
    BY <1>1, <1>2, <1>3
  <1>5. i \in Subtree(o, c) <=>
           /\ i \in DOMAIN o /\ c =< i
           /\ \A k \in DOMAIN o : c < k /\ k =< i => o[k].level > o[c].level
    BY InSubtree
  <1>6. c =< i
    BY <1>1, <1>2, <1>3
  <1> QED BY <1>2, <1>3, <1>4, <1>5, <1>6
=============================================================================
