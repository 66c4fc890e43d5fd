--------------------------- MODULE FlatRowsProofs ---------------------------
(***************************************************************************)
(* Proofs about FlatRows for cards of any lines: no line is lost, moved or *)
(* kept twice while the rows are cut, mended and sifted, and a header's    *)
(* employer and place reach the roles under it and no others.              *)
(***************************************************************************)
EXTENDS FlatRows, ListsProofs

USE TextsAssumption
USE DEF None

-----------------------------------------------------------------------------
(* The inductive invariant.                                                *)

\* Where the loops are: the first one leaves nothing unread, the second one
\* begins with the second row, and what waits for a place has an employer.
LoopInv ==
    /\ stage = "split" => at =< Len(text) + 1
    /\ stage = "handBack" => at >= 2
    /\ stage # "split" => current = <<>>
    /\ afterHead => group # None

\* The open row is the run of lines before at, closed rows have lines, and no
\* row is open under a header that waits for its place.
RunInv ==
    /\ \A i \in DOMAIN current : current[i] = at - 1 - Len(current) + i
    /\ \A k \in DOMAIN rows : rows[k].lines # <<>>
    /\ afterHead => current = <<>>

Opens(k) == Head(rows[k].lines)

\* None of the first k rows under header h named an employer of its own.
Undisturbed(h, k) ==
    \A j \in 1 .. k :
        Opens(j) > h => ~NamesItsOwnEmployer(rows[j].lines, text)

\* h is the last of the header names below line l.
LastBelow(h, l) ==
    /\ h \in HeaderNames /\ h < l
    /\ \A g \in HeaderNames : g < l => g =< h

\* Among the lines from a to b is one that is no place.
Interrupted(a, b) == \E m \in a .. b : ~LooksLikeLocation(text[m])

\* The last line before which the place of a header must have been found.
Mark == IF current = <<>> THEN at - 1 ELSE at - Len(current)

\* Header h is the last one, and the group is its group as long as it is
\* undisturbed.
HeadedBy(h) ==
    /\ LastBelow(h, at)
    /\ group = IF Undisturbed(h, Len(rows)) THEN h ELSE None
    /\ groupLoc = IF Undisturbed(h, Len(rows)) THEN PlaceUnder(h) ELSE None
    /\ IF afterHead
       THEN \A m \in (h + 2) .. (at - 1) :
               m \in heads /\ LooksLikeLocation(text[m])
       ELSE Interrupted(h + 2, Mark)
    /\ \A g \in HeaderNames : g # h => Interrupted(g + 2, Mark)

\* There has been no header, or there is a last one.
GroupInv ==
    \/ /\ HeaderNames = {}
       /\ group = None /\ groupLoc = None /\ afterHead = FALSE
    \/ \E h \in HeaderNames : HeadedBy(h)

\* A closed row has a last header above it or none at all, and something
\* that is no place stands between the two.
Above(k) ==
    /\ \/ \A h \in HeaderNames : h >= Opens(k)
       \/ \E h \in HeaderNames : LastBelow(h, Opens(k))
    /\ \A h \in HeaderNames : h < Opens(k) => Interrupted(h + 2, Opens(k))

\* GroupEndsAtOwnEmployer of one row.
RightGroup(k) ==
    LET h == HeaderAbove(Opens(k))
        within == h # None /\ Undisturbed(h, k)
    IN  /\ rows[k].company = IF within THEN h ELSE None
        /\ rows[k].location = IF within THEN PlaceUnder(h) ELSE None

RowsInv == \A k \in DOMAIN rows : Above(k) /\ RightGroup(k)

FlatInv ==
    /\ TypeOK
    /\ LoopInv
    /\ EveryLineInOneRow
    /\ stage = "split" => RunInv /\ GroupInv /\ RowsInv

-----------------------------------------------------------------------------
(* About sets and sequences.                                               *)

\* A member that no other exceeds is the maximum.
LEMMA MaxIs ==
    ASSUME NEW S, S \subseteq Int, NEW x \in S, \A y \in S : y =< x
    PROVE  Max(S) = x
PROOF
  <1>1. \E y \in S : \A z \in S : y >= z
    OBVIOUS
  <1>2. Max(S) \in S /\ \A z \in S : Max(S) >= z
    BY <1>1, Zenon DEF Max
  <1>3. Max(S) \in Int /\ x \in Int /\ Max(S) >= x /\ Max(S) =< x
    BY <1>2
  <1> QED BY <1>3

\* Some lists of lines, and that a line is in one of them.
Lists(m) == [1 .. m -> Seq(Nat)]
In(P, l) == \E k \in DOMAIN P : \E a \in DOMAIN P[k] : P[k][a] = l

\* One list after the other they increase.
Tiled(P) ==
    \A j, k \in DOMAIN P : \A a \in DOMAIN P[j], b \in DOMAIN P[k] :
        (j < k \/ (j = k /\ a < b)) => P[j][a] < P[k][b]

\* P and Q have the same lists except those in S.
SameBut(S, P, Q) == \A k \in DOMAIN P : k \notin S => Q[k] = P[k]

\* The next line may be added to the last list,
LEMMA TileExtend ==
    ASSUME NEW m \in Nat \ {0}, NEW P \in Lists(m), Tiled(P), NEW l \in Nat,
           \A i \in Nat : In(P, i) => i < l,
           NEW Q \in Lists(m),
           Q[m] = Append(P[m], l),
           SameBut({m}, P, Q)
    PROVE  Tiled(Q) /\ \A i : In(Q, i) <=> In(P, i) \/ i = l
PROOF
  <1>1. \A k \in 1 .. m : P[k] \in Seq(Nat) /\ Q[k] \in Seq(Nat)
        /\ DOMAIN P = 1 .. m /\ DOMAIN Q = 1 .. m
    BY DEF Lists
  <1>2. /\ \A k \in 1 .. m : k # m => Q[k] = P[k]
        /\ DOMAIN P[m] = 1 .. Len(P[m]) /\ Len(P[m]) \in Nat
        /\ DOMAIN Q[m] = 1 .. Len(P[m]) + 1
        /\ \A a \in DOMAIN P[m] : a \in DOMAIN Q[m] /\ Q[m][a] = P[m][a]
        /\ Q[m][Len(P[m]) + 1] = l
    <2>1. P[m] \in Seq(Nat) /\ Q[m] = Append(P[m], l)
          /\ \A k \in 1 .. m : k # m => Q[k] = P[k]
      BY <1>1 DEF SameBut
    <2> QED BY <2>1, AppendIs
  <1>3. \A k \in 1 .. m : \A a \in DOMAIN P[k] : P[k][a] \in Nat /\ P[k][a] < l
    BY <1>1 DEF In
  <1>4. Tiled(Q)
    <2> SUFFICES ASSUME NEW j \in DOMAIN Q, NEW k \in DOMAIN Q,
                        NEW a \in DOMAIN Q[j], NEW b \in DOMAIN Q[k],
                        j < k \/ (j = k /\ a < b)
                 PROVE  Q[j][a] < Q[k][b]
      BY DEF Tiled
    <2>0. j \in 1 .. m /\ k \in 1 .. m
      BY <1>1
    <2>1. j = m => k = m
      BY <2>0
    <2>2. a \in DOMAIN P[j] /\ Q[j][a] = P[j][a]
      BY <1>2, <2>0, <2>1
    <2>3. CASE b \in DOMAIN P[k]
      <3>1. Q[k][b] = P[k][b]
        BY <1>2, <2>0, <2>3
      <3> QED BY <1>1, <2>0, <2>2, <2>3, <3>1 DEF Tiled
    <2>4. CASE b \notin DOMAIN P[k]
      <3>1. Q[k][b] = l
        BY <1>2, <2>0, <2>4
      <3> QED BY <1>3, <2>0, <2>2, <3>1
    <2> QED BY <2>3, <2>4
  <1>5. ASSUME NEW i, In(Q, i) PROVE In(P, i) \/ i = l
    <2>1. PICK k \in 1 .. m : \E a \in DOMAIN Q[k] : Q[k][a] = i
      BY <1>1, <1>5 DEF In
    <2>2. PICK a \in DOMAIN Q[k] : Q[k][a] = i
      BY <2>1
    <2>3. CASE a \in DOMAIN P[k] /\ P[k][a] = i
      BY <1>1, <2>3 DEF In
    <2>4. CASE ~(a \in DOMAIN P[k] /\ P[k][a] = i)
      <3>1. k = m
        BY <1>2, <2>2, <2>4
      <3>2. a = Len(P[m]) + 1
        BY <1>2, <2>2, <2>4, <3>1
      <3> QED BY <1>2, <2>2, <3>1, <3>2
    <2> QED BY <2>3, <2>4
  <1>6. ASSUME NEW i, In(P, i) PROVE In(Q, i)
    <2>1. PICK k \in 1 .. m : \E a \in DOMAIN P[k] : P[k][a] = i
      BY <1>1, <1>6 DEF In
    <2>2. \E a \in DOMAIN Q[k] : Q[k][a] = i
      BY <1>2, <2>1
    <2> QED BY <1>1, <2>2 DEF In
  <1>7. In(Q, l)
    <2>1. Len(P[m]) + 1 \in DOMAIN Q[m] /\ Q[m][Len(P[m]) + 1] = l
      BY <1>2
    <2> QED BY <1>1, <2>1 DEF In
  <1> QED BY <1>4, <1>5, <1>6, <1>7

\* a new empty list may be begun,
LEMMA TileBegin ==
    ASSUME NEW m \in Nat \ {0}, NEW P \in Lists(m), Tiled(P),
           NEW Q \in Lists(m + 1),
           \A k \in 1 .. m + 1 : Q[k] = IF k = m + 1 THEN <<>> ELSE P[k]
    PROVE  Tiled(Q) /\ \A i : In(Q, i) <=> In(P, i)
PROOF
  <1>1. DOMAIN P = 1 .. m /\ DOMAIN Q = 1 .. m + 1
    BY DEF Lists
  <1>2. /\ DOMAIN Q[m + 1] = {}
        /\ \A k \in 1 .. m : Q[k] = P[k]
    OBVIOUS
  <1>3. Tiled(Q)
    <2> SUFFICES ASSUME NEW j \in 1 .. m + 1, NEW k \in 1 .. m + 1,
                        NEW a \in DOMAIN Q[j], NEW b \in DOMAIN Q[k],
                        j < k \/ (j = k /\ a < b)
                 PROVE  Q[j][a] < Q[k][b]
      BY <1>1 DEF Tiled
    <2>1. j \in 1 .. m /\ k \in 1 .. m
      BY <1>2
    <2> QED BY <1>1, <1>2, <2>1 DEF Tiled
  <1>4. ASSUME NEW i, In(Q, i) PROVE In(P, i)
    BY <1>1, <1>2, <1>4 DEF In
  <1>5. ASSUME NEW i, In(P, i) PROVE In(Q, i)
    BY <1>1, <1>2, <1>5 DEF In
  <1> QED BY <1>3, <1>4, <1>5

\* a last list of one line may be emptied,
LEMMA TileCut ==
    ASSUME NEW m \in Nat \ {0}, NEW P \in Lists(m), Tiled(P), Len(P[m]) = 1,
           NEW Q \in Lists(m), Q[m] = <<>>, SameBut({m}, P, Q)
    PROVE  /\ Tiled(Q) /\ ~In(Q, P[m][1])
           /\ \A i : In(P, i) <=> In(Q, i) \/ i = P[m][1]
PROOF
  <1>1. /\ DOMAIN P = 1 .. m /\ DOMAIN Q = 1 .. m /\ m \in 1 .. m
        /\ \A k \in 1 .. m : P[k] \in Seq(Nat)
    BY DEF Lists
  <1>2. /\ DOMAIN Q[m] = {} /\ DOMAIN P[m] = {1} /\ P[m][1] \in Nat
        /\ \A k \in 1 .. m : k # m => Q[k] = P[k]
    <2>1. DOMAIN Q[m] = {}
      OBVIOUS
    <2>2. P[m] \in Seq(Nat)
      BY <1>1
    <2>3. DOMAIN P[m] = {1} /\ P[m][1] \in Nat
      BY <2>2
    <2> QED BY <1>1, <2>1, <2>3 DEF SameBut
  <1>3. Tiled(Q)
    BY <1>1, <1>2 DEF Tiled
  <1>4. ASSUME In(Q, P[m][1]) PROVE FALSE
    <2>1. PICK k \in 1 .. m : \E a \in DOMAIN Q[k] : Q[k][a] = P[m][1]
      BY <1>1, <1>4 DEF In
    <2>2. k < m /\ \E a \in DOMAIN P[k] : P[k][a] = P[m][1]
      BY <1>2, <2>1
    <2>3. PICK a \in DOMAIN P[k] : P[k][a] = P[m][1]
      BY <2>2
    <2>4. P[k][a] < P[m][1]
      BY <1>1, <1>2, <2>2 DEF Tiled
    <2> QED BY <1>2, <2>3, <2>4
  <1>5. ASSUME NEW i PROVE In(P, i) <=> In(Q, i) \/ i = P[m][1]
    <2>1. ASSUME In(P, i), i # P[m][1] PROVE In(Q, i)
      <3>1. PICK k \in 1 .. m : \E a \in DOMAIN P[k] : P[k][a] = i
        BY <1>1, <2>1 DEF In
      <3>2. k # m
        BY <1>2, <2>1, <3>1
      <3>3. \E a \in DOMAIN Q[k] : Q[k][a] = i
        BY <1>2, <3>1, <3>2
      <3> QED BY <1>1, <3>3 DEF In
    <2>2. ASSUME In(Q, i) PROVE In(P, i)
      BY <1>1, <1>2, <2>2 DEF In
    <2>3. In(P, P[m][1])
      BY <1>1, <1>2 DEF In
    <2> QED BY <2>1, <2>2, <2>3
  <1> QED BY <1>3, <1>4, <1>5

\* an empty list may go,
LEMMA TileDrop ==
    ASSUME NEW m \in Nat \ {0}, NEW P \in Lists(m + 1), Tiled(P),
           NEW Q \in Lists(m), NEW d \in 1 .. m, P[d] = <<>>,
           \A k \in 1 .. m : Q[k] = IF k < d THEN P[k] ELSE P[k + 1]
    PROVE  Tiled(Q) /\ \A i : In(Q, i) <=> In(P, i)
PROOF
  <1> DEFINE f(k) == IF k < d THEN k ELSE k + 1
  <1>1. DOMAIN P = 1 .. m + 1 /\ DOMAIN Q = 1 .. m
    BY DEF Lists
  <1>2. \A k \in 1 .. m : f(k) \in 1 .. m + 1 /\ Q[k] = P[f(k)]
    OBVIOUS
  <1>3. \A j, k \in 1 .. m : j < k => f(j) < f(k)
    OBVIOUS
  <1>4. \A k \in 1 .. m + 1 : k # d => \E j \in 1 .. m : f(j) = k
    <2> SUFFICES ASSUME NEW k \in 1 .. m + 1, k # d
                 PROVE  \E j \in 1 .. m : f(j) = k
      OBVIOUS
    <2>1. CASE k < d
      BY <2>1
    <2>2. CASE k > d
      <3>1. k - 1 \in 1 .. m /\ f(k - 1) = k
        BY <2>2
      <3> QED BY <3>1
    <2> QED BY <2>1, <2>2
  <1>5. DOMAIN P[d] = {}
    OBVIOUS
  <1> HIDE DEF f
  <1>6. Tiled(Q)
    <2> SUFFICES ASSUME NEW j \in 1 .. m, NEW k \in 1 .. m,
                        NEW a \in DOMAIN Q[j], NEW b \in DOMAIN Q[k],
                        j < k \/ (j = k /\ a < b)
                 PROVE  Q[j][a] < Q[k][b]
      BY <1>1 DEF Tiled
    <2>1. f(j) < f(k) \/ (f(j) = f(k) /\ a < b)
      BY <1>3
    <2> QED BY <1>1, <1>2, <2>1 DEF Tiled
  <1>7. ASSUME NEW i, In(Q, i) PROVE In(P, i)
    BY <1>1, <1>2, <1>7 DEF In
  <1>8. ASSUME NEW i, In(P, i) PROVE In(Q, i)
    <2>1. PICK k \in 1 .. m + 1 : \E a \in DOMAIN P[k] : P[k][a] = i
      BY <1>1, <1>8 DEF In
    <2>2. k # d
      BY <1>5, <2>1
    <2>3. PICK j \in 1 .. m : f(j) = k
      BY <1>4, <2>2
    <2> QED BY <1>1, <1>2, <2>1, <2>3 DEF In
  <1> QED BY <1>6, <1>7, <1>8

\* and the first line of a list may move to the end of the one before.
LEMMA TileMove ==
    ASSUME NEW m \in Nat \ {0}, NEW P \in Lists(m), Tiled(P),
           NEW Q \in Lists(m), NEW d \in 2 .. m, P[d] # <<>>,
           Q[d - 1] = Append(P[d - 1], Head(P[d])), Q[d] = Tail(P[d]),
           SameBut({d - 1, d}, P, Q)
    PROVE  Tiled(Q) /\ \A i : In(Q, i) <=> In(P, i)
PROOF
  <1>0. \A i \in 1 .. m : DOMAIN Q[i] = 1 .. Len(Q[i]) /\ Len(Q[i]) \in Nat
    <2>1. \A i \in 1 .. m : Q[i] \in Seq(Nat)
      BY DEF Lists
    <2> QED BY <2>1
  <1>1. /\ DOMAIN P = 1 .. m /\ DOMAIN Q = 1 .. m
        /\ \A k \in 1 .. m : P[k] \in Seq(Nat) /\ DOMAIN P[k] = 1 .. Len(P[k])
    BY DEF Lists
  <1> DEFINE c == d - 1
             n == Len(P[c])
  <1>2. /\ c \in 1 .. m /\ d \in 1 .. m /\ c < d /\ n \in Nat
        /\ \A k \in 1 .. m : k < d => k =< c
    BY <1>1
  <1>3. /\ Q[c] = Append(P[c], P[d][1]) /\ Q[d] = Tail(P[d])
        /\ \A k \in 1 .. m : k # c /\ k # d => Q[k] = P[k]
    <2>1. Head(P[d]) = P[d][1]
      OBVIOUS
    <2> QED BY <1>1, <1>2, <2>1 DEF SameBut
  <1>4. /\ Len(P[d]) \in Nat \ {0} /\ P[d][1] \in Nat
        /\ DOMAIN Q[d] = 1 .. Len(P[d]) - 1
        /\ \A a \in DOMAIN Q[d] : a + 1 \in DOMAIN P[d] /\ Q[d][a] = P[d][a + 1]
    BY <1>1, <1>2, <1>3, TailIs
  <1>5. /\ DOMAIN Q[c] = 1 .. n + 1 /\ Q[c][n + 1] = P[d][1]
        /\ \A a \in 1 .. n : a \in DOMAIN P[c] /\ Q[c][a] = P[c][a]
    <2>1. P[c] \in Seq(Nat) /\ P[d][1] \in Nat /\ Q[c] = Append(P[c], P[d][1])
      BY <1>1, <1>2, <1>3, <1>4
    <2> QED BY <2>1, AppendIs
  <1> HIDE DEF c, n
  \* Where a line of Q comes from.
  <1> DEFINE list(k, a)  == IF k = c /\ a = n + 1 THEN d ELSE k
             place(k, a) == IF k = c /\ a = n + 1 THEN 1
                            ELSE IF k = d THEN a + 1 ELSE a
  <1>6. ASSUME NEW k \in 1 .. m, NEW a \in DOMAIN Q[k]
        PROVE  /\ list(k, a) \in 1 .. m /\ place(k, a) \in DOMAIN P[list(k, a)]
               /\ Q[k][a] = P[list(k, a)][place(k, a)]
    <2>1. CASE k = c /\ a = n + 1
      BY <1>1, <1>2, <1>4, <1>5, <2>1
    <2>2. CASE k = c /\ a # n + 1
      <3>1. a \in 1 .. n
        BY <1>2, <1>5, <2>2
      <3>2. list(k, a) = c /\ place(k, a) = a
        BY <1>2, <2>2
      <3> QED BY <1>2, <1>5, <2>2, <3>1, <3>2
    <2>3. CASE k = d
      <3>1. list(k, a) = d /\ place(k, a) = a + 1
        BY <1>2, <2>3
      <3> QED BY <1>4, <2>3, <3>1
    <2>4. CASE k # c /\ k # d
      BY <1>3, <2>4
    <2> QED BY <2>1, <2>2, <2>3, <2>4
  <1>7. ASSUME NEW j \in 1 .. m, NEW k \in 1 .. m,
               NEW a \in DOMAIN Q[j], NEW b \in DOMAIN Q[k],
               j < k \/ (j = k /\ a < b)
        PROVE  \/ list(j, a) < list(k, b)
               \/ (list(j, a) = list(k, b) /\ place(j, a) < place(k, b))
    <2>0. a \in Nat \ {0} /\ b \in Nat \ {0}
      <3>1. a \in 1 .. Len(Q[j]) /\ b \in 1 .. Len(Q[k])
            /\ Len(Q[j]) \in Nat /\ Len(Q[k]) \in Nat
        BY <1>0
      <3> QED BY <3>1
    <2>1. CASE j = c /\ a = n + 1
      <3>1. j # k
        BY <1>2, <1>5, <1>7, <2>0, <2>1
      <3>2. k >= d /\ (k = d => place(k, b) = b + 1)
        BY <1>2, <1>7, <3>1, <2>1
      <3> QED BY <1>2, <2>0, <2>1, <3>2
    <2>2. CASE ~(j = c /\ a = n + 1) /\ k = c /\ b = n + 1
      BY <1>2, <1>7, <2>0, <2>2
    <2>3. CASE ~(j = c /\ a = n + 1) /\ ~(k = c /\ b = n + 1)
      BY <1>2, <1>7, <2>0, <2>3
    <2> QED BY <2>1, <2>2, <2>3
  <1>8. ASSUME NEW i, In(P, i) PROVE In(Q, i)
    <2>1. PICK k \in 1 .. m : \E a \in 1 .. Len(P[k]) : P[k][a] = i
      BY <1>1, <1>8 DEF In
    <2>0. PICK a \in 1 .. Len(P[k]) : P[k][a] = i
      BY <2>1
    <2>2. CASE k = d /\ a = 1
      <3>1. n + 1 \in DOMAIN Q[c] /\ Q[c][n + 1] = i
        BY <1>2, <1>5, <2>0, <2>2
      <3> QED BY <1>1, <1>2, <3>1 DEF In
    <2>3. CASE k = d /\ a # 1
      <3>1. a - 1 \in DOMAIN Q[d] /\ Q[d][a - 1] = i
        BY <1>4, <2>0, <2>3
      <3> QED BY <1>1, <1>2, <3>1 DEF In
    <2>4. CASE k = c
      <3>1. a \in DOMAIN Q[c] /\ Q[c][a] = i
        BY <1>2, <1>5, <2>0, <2>4 DEF n
      <3> QED BY <1>1, <1>2, <3>1 DEF In
    <2>5. CASE k # c /\ k # d
      BY <1>1, <1>1, <1>3, <2>0, <2>5 DEF In
    <2> QED BY <2>2, <2>3, <2>4, <2>5
  <1> HIDE DEF list, place
  <1>9. Tiled(Q)
    <2> SUFFICES ASSUME NEW j \in 1 .. m, NEW k \in 1 .. m,
                        NEW a \in DOMAIN Q[j], NEW b \in DOMAIN Q[k],
                        j < k \/ (j = k /\ a < b)
                 PROVE  Q[j][a] < Q[k][b]
      BY <1>1 DEF Tiled
    <2>1. \/ list(j, a) < list(k, b)
          \/ (list(j, a) = list(k, b) /\ place(j, a) < place(k, b))
      BY <1>7
    <2> QED BY <1>1, <1>6, <2>1 DEF Tiled
  <1>10. ASSUME NEW i, In(Q, i) PROVE In(P, i)
    BY <1>1, <1>6, <1>10 DEF In
  <1> QED BY <1>8, <1>9, <1>10

-----------------------------------------------------------------------------
(* How the lines of a row become the fields of an entity.                  *)

Fields == {"title", "names", "dates", "location", "text"}

\* Line l is in field f of entity e, and in no other field.
Holds(e, f, l) ==
    CASE f = "title"    -> e.title = l
      [] f = "names"    -> e.subtitle = l \/ e.employment = l
      [] f = "dates"    -> e.dates = l
      [] f = "location" -> e.location = l
      [] OTHER          -> l \in ToSet(e.description)

InOneField(e, l) == \E f \in Fields : \A g \in Fields : Holds(e, g, l) <=> g = f

LEMMA OneFieldCounts ==
    ASSUME NEW e, NEW l, InOneField(e, l)
    PROVE  Cardinality({f \in Fields : Holds(e, f, l)}) = 1
PROOF
  <1>1. PICK f \in Fields : \A g \in Fields : Holds(e, g, l) <=> g = f
    BY DEF InOneField
  <1>2. {g \in Fields : Holds(e, g, l)} = {f}
    BY <1>1
  <1> QED BY <1>2, FS_Singleton

\* The fields in plain words.
LEMMA OneOfFive ==
    ASSUME NEW e, NEW l,
           \/ /\ e.title = l /\ e.subtitle # l /\ e.employment # l
              /\ e.dates # l /\ e.location # l /\ l \notin ToSet(e.description)
           \/ /\ e.title # l /\ (e.subtitle = l \/ e.employment = l)
              /\ e.dates # l /\ e.location # l /\ l \notin ToSet(e.description)
           \/ /\ e.title # l /\ e.subtitle # l /\ e.employment # l
              /\ e.dates = l /\ e.location # l /\ l \notin ToSet(e.description)
           \/ /\ e.title # l /\ e.subtitle # l /\ e.employment # l
              /\ e.dates # l /\ e.location = l /\ l \notin ToSet(e.description)
           \/ /\ e.title # l /\ e.subtitle # l /\ e.employment # l
              /\ e.dates # l /\ e.location # l /\ l \in ToSet(e.description)
    PROVE  InOneField(e, l)
PROOF
  <1>1. /\ Holds(e, "title", l) <=> e.title = l
        /\ Holds(e, "names", l) <=> e.subtitle = l \/ e.employment = l
        /\ Holds(e, "dates", l) <=> e.dates = l
        /\ Holds(e, "location", l) <=> e.location = l
        /\ Holds(e, "text", l) <=> l \in ToSet(e.description)
    BY DEF Holds
  <1>2. CASE e.title = l
    <2>1. \A g \in Fields : Holds(e, g, l) <=> g = "title"
      BY <1>1, <1>2 DEF Fields
    <2> QED BY <2>1 DEF InOneField, Fields
  <1>3. CASE e.subtitle = l \/ e.employment = l
    <2>1. \A g \in Fields : Holds(e, g, l) <=> g = "names"
      BY <1>1, <1>3 DEF Fields
    <2> QED BY <2>1 DEF InOneField, Fields
  <1>4. CASE e.dates = l
    <2>1. \A g \in Fields : Holds(e, g, l) <=> g = "dates"
      BY <1>1, <1>4 DEF Fields
    <2> QED BY <2>1 DEF InOneField, Fields
  <1>5. CASE e.location = l
    <2>1. \A g \in Fields : Holds(e, g, l) <=> g = "location"
      BY <1>1, <1>5 DEF Fields
    <2> QED BY <2>1 DEF InOneField, Fields
  <1>6. CASE l \in ToSet(e.description)
    <2>1. \A g \in Fields : Holds(e, g, l) <=> g = "text"
      BY <1>1, <1>6 DEF Fields
    <2> QED BY <2>1 DEF InOneField, Fields
  <1> QED BY <1>2, <1>3, <1>4, <1>5, <1>6

\* The first line of a set is in the list, unless the list has none of them.
LEMMA FirstInIs ==
    ASSUME NEW S, NEW s \in Seq(S), NEW set
    PROVE  FirstIn(s, set) \in Members(s) \/ FirstIn(s, set) = None
PROOF
  <1> DEFINE found == Only(s, set)
  <1>1. found \in Seq(S) /\ Members(found) = Members(s) \cap set
    BY OnlyMembers
  <1> HIDE DEF found
  <1>2. CASE found = <<>>
    BY <1>2 DEF FirstIn, found
  <1>3. CASE found # <<>>
    <2>1. Head(found) \in Members(found)
      BY <1>1, <1>3, TailMembers
    <2>2. FirstIn(s, set) = Head(found)
      BY <1>3 DEF FirstIn, found
    <2> QED BY <1>1, <2>1, <2>2
  <1> QED BY <1>2, <1>3

\* ParseEntity makes an entity of any lines, and puts every line of the row
\* into one field when no line is there twice.
LEMMA ParsedShares ==
    ASSUME NEW t \in Seq(Kinds), NEW R \in Seq(DOMAIN t)
    PROVE  LET e == ParseEntity(R, t)
           IN  /\ e \in Entities(t) /\ e.raw = R
               /\ e.employment = None \/ e.employment = e.subtitle
               /\ Apart(R) => \A l \in Members(R) : InOneField(e, l)
PROOF
  <1> DEFINE e           == ParseEntity(R, t)
             D           == DOMAIN t
             creds       == Credentials(t)
             date        == FirstIn(R, Dates(t))
             undated     == Only(R, D \ {date})
             credentials == Only(undated, creds)
             remaining   == Only(undated, D \ creds)
             rest        == IF remaining = <<>> THEN <<>> ELSE Tail(remaining)
             second      == TakesSubtitle(rest, t)
             details     == IF second THEN Tail(rest) ELSE rest
             place       == FirstIn(details, Places(t))
             others      == Only(details, D \ {place})
             title       == IF remaining = <<>> THEN None ELSE Head(remaining)
             subtitle    == IF second THEN Head(rest) ELSE None
  <1>0. e = [title |-> title, subtitle |-> subtitle, employment |-> e.employment,
             dates |-> date, location |-> place,
             description |-> others \o credentials, raw |-> R]
    BY DEF ParseEntity
  <1>1. /\ e.title = title /\ e.subtitle = subtitle
        /\ e.employment = None \/ e.employment = e.subtitle
        /\ e.dates = date /\ e.location = place
        /\ e.description = others \o credentials /\ e.raw = R
    BY DEF ParseEntity
  <1>2. None \notin D /\ \A s \in Seq(D) : Members(s) \subseteq D
    BY DEF Members
  <1>3. date \in Members(R) \/ date = None
    BY FirstInIs
  <1> HIDE DEF e, D, creds, date
  <1>4. /\ undated \in Seq(D) /\ Members(undated) = Members(R) \ {date}
        /\ Apart(R) => Apart(undated)
    <2>1. /\ undated \in Seq(D) /\ Members(undated) = Members(R) \cap (D \ {date})
          /\ Apart(R) => Apart(undated)
      BY OnlyMembers DEF D
    <2>2. Members(R) \subseteq D
      BY <1>2 DEF D
    <2> QED BY <2>1, <2>2
  <1> HIDE DEF undated
  <1>5. /\ credentials \in Seq(D)
        /\ Members(credentials) = Members(undated) \cap creds
    BY <1>4, OnlyMembers
  <1>6. /\ remaining \in Seq(D) /\ Members(remaining) = Members(undated) \ creds
        /\ Apart(R) => Apart(remaining)
    <2>1. /\ remaining \in Seq(D) /\ Members(remaining) = Members(undated) \cap (D \ creds)
          /\ Apart(R) => Apart(remaining)
      BY <1>4, OnlyMembers
    <2>2. Members(undated) \subseteq D
      BY <1>2, <1>4
    <2> QED BY <2>1, <2>2
  <1> HIDE DEF credentials, remaining
  <1>7. /\ rest \in Seq(D)
        /\ title # None => title \in Members(remaining)
        /\ Apart(R) => Apart(rest) /\ (title # None => title \notin Members(rest))
        /\ Members(remaining) \subseteq Members(rest) \cup {title}
        /\ Members(rest) \subseteq Members(remaining)
    <2>1. CASE remaining = <<>>
      <3>1. <<>> \in Seq(D) /\ Members(<<>>) = {} /\ Apart(<<>>)
        BY DEF Members, Apart
      <3> QED BY <2>1, <3>1
    <2>2. CASE remaining # <<>>
      BY <1>6, <2>2, TailMembers
    <2> QED BY <2>1, <2>2
  <1> HIDE DEF rest, title
  <1>8. /\ details \in Seq(D)
        /\ subtitle # None => subtitle \in Members(rest)
        /\ Apart(R) => (subtitle # None => subtitle \notin Members(details))
        /\ Members(rest) \subseteq Members(details) \cup {subtitle}
        /\ Members(details) \subseteq Members(rest)
    <2>1. CASE second
      <3>1. rest # <<>>
        BY <2>1 DEF TakesSubtitle
      <3> QED BY <1>7, <2>1, <3>1, TailMembers
    <2>2. CASE ~second
      BY <1>7, <2>2
    <2> QED BY <2>1, <2>2
  <1> HIDE DEF second, details, subtitle
  <1>9. place \in Members(details) \/ place = None
    BY <1>8, FirstInIs
  <1> HIDE DEF place
  <1>10. others \in Seq(D) /\ Members(others) = Members(details) \ {place}
    <2>1. others \in Seq(D) /\ Members(others) = Members(details) \cap (D \ {place})
      BY <1>8, OnlyMembers
    <2>2. Members(details) \subseteq D
      BY <1>2, <1>8
    <2> QED BY <2>1, <2>2
  <1> HIDE DEF others
  <1>11. /\ Members(others \o credentials) = Members(others) \cup Members(credentials)
         /\ others \o credentials \in Seq(D)
    BY <1>5, <1>10, ConcatMembers
  <1>12. ToSet(e.description) = (Members(details) \ {place}) \cup Members(credentials)
    BY <1>1, <1>10, <1>11 DEF ToSet, Members
  <1>13. e \in Entities(t)
    <2> DEFINE Field == D \cup {None}
    <2>1. \A s \in Seq(D) : Members(s) \subseteq Field
      BY <1>2
    <2>2. /\ title \in Field /\ subtitle \in Field /\ date \in Field /\ place \in Field
      BY <1>3, <1>6, <1>7, <1>8, <1>9, <2>1 DEF D
    <2>3. e = [title |-> title, subtitle |-> subtitle, employment |-> e.employment,
               dates |-> date, location |-> place,
               description |-> others \o credentials, raw |-> R]
      BY <1>0
    <2> HIDE DEF Field
    <2>4. e \in [title : Field, subtitle : Field, employment : Field, dates : Field,
                 location : Field, description : Seq(D), raw : Seq(D)]
      <3>1. e.employment \in Field
        BY <1>1, <2>2 DEF Field
      <3> DEFINE q == others \o credentials
                 m == e.employment
      <3>2. q \in Seq(D) /\ R \in Seq(D) /\ m \in Field
        BY <1>11, <3>1 DEF D
      <3>3. e = [title |-> title, subtitle |-> subtitle, employment |-> m, dates |-> date,
                 location |-> place, description |-> q, raw |-> R]
        BY <2>3
      <3> HIDE DEF q, m
      <3> QED BY <2>2, <3>2, <3>3
    <2> QED BY <2>4 DEF Entities, Field, D
  <1>14. ASSUME Apart(R), NEW l \in Members(R) PROVE InOneField(e, l)
    <2>1. l # None /\ l \in D
      BY <1>2 DEF D
    <2>2. CASE l = date
      <3>1. l \notin Members(undated)
        BY <1>4, <2>2
      <3>2. l \notin Members(credentials) /\ l \notin Members(remaining)
        BY <1>5, <1>6, <3>1
      <3>3. l # title /\ l # subtitle /\ l # place /\ l \notin Members(details)
        BY <1>7, <1>8, <1>9, <2>1, <3>2
      <3> QED BY <1>1, <1>12, <2>1, <2>2, <3>2, <3>3, OneOfFive
    <2>3. CASE l # date /\ l \in creds
      <3>1. l \in Members(credentials) /\ l \notin Members(remaining)
        BY <1>4, <1>5, <1>6, <2>3
      <3>2. l # title /\ l # subtitle /\ l # place
        BY <1>7, <1>8, <1>9, <2>1, <3>1
      <3> QED BY <1>1, <1>12, <2>1, <2>3, <3>1, <3>2, OneOfFive
    <2>4. CASE l # date /\ l \notin creds
      <3>1. l \in Members(remaining) /\ l \notin Members(credentials)
        BY <1>4, <1>5, <1>6, <2>4
      <3>2. CASE l = title
        <4>1. l \notin Members(rest)
          BY <1>7, <1>14, <2>1, <3>2
        <4>2. l # subtitle /\ l # place /\ l \notin Members(details)
          BY <1>8, <1>9, <2>1, <4>1
        <4> QED BY <1>1, <1>12, <2>1, <2>4, <3>1, <3>2, <4>2, OneOfFive
      <3>3. CASE l # title /\ l = subtitle
        <4>1. l \notin Members(details) /\ l # place
          BY <1>8, <1>9, <1>14, <2>1, <3>3
        <4> QED BY <1>1, <1>12, <2>1, <2>4, <3>1, <3>3, <4>1, OneOfFive
      <3>4. CASE l # title /\ l # subtitle
        <4>1. l \in Members(details)
          BY <1>7, <1>8, <3>1, <3>4
        <4>2. CASE l = place
          BY <1>1, <1>12, <2>1, <2>4, <3>1, <3>4, <4>2, OneOfFive
        <4>3. CASE l # place
          BY <1>1, <1>12, <2>1, <2>4, <3>1, <3>4, <4>1, <4>3, OneOfFive
        <4> QED BY <4>2, <4>3
      <3> QED BY <3>2, <3>3, <3>4
    <2> QED BY <2>2, <2>3, <2>4
  <1> QED BY <1>1, <1>13, <1>14 DEF e

\* What a row inherits makes an entity of it again.
LEMMA InheritTyped ==
    ASSUME NEW t \in Seq(Kinds), NEW e \in Entities(t), NEW row,
           row.company \in DOMAIN t \cup {None}, row.location \in DOMAIN t \cup {None}
    PROVE  Inherit(e, row) \in Entities(t)
PROOF
  BY DEF Inherit, Entities

\* What a row inherits is no line of its own, so it stays so.
LEMMA InheritShares ==
    ASSUME NEW t \in Seq(Kinds), NEW R \in Seq(DOMAIN t), Apart(R),
           NEW row, row.company \notin Members(R), row.location \notin Members(R)
    PROVE  LET e == Inherit(ParseEntity(R, t), row)
           IN  e.raw = R /\ \A l \in Members(R) : InOneField(e, l)
PROOF
  <1> DEFINE p == ParseEntity(R, t)
             e == Inherit(p, row)
             typed == p.subtitle # None /\ IsEmployment(text[p.subtitle])
             takes == row.company # None /\ (p.subtitle = None \/ typed)
  <1>1. /\ p.raw = R
        /\ p.employment = None \/ p.employment = p.subtitle
        /\ \A l \in Members(R) : InOneField(p, l)
    BY ParsedShares
  <1>2. /\ e.title = p.title /\ e.dates = p.dates /\ e.raw = p.raw
        /\ e.description = p.description
        /\ e.subtitle = IF takes THEN row.company ELSE p.subtitle
        /\ e.employment = IF takes /\ typed THEN p.subtitle ELSE p.employment
        /\ e.location = IF p.location = None THEN row.location ELSE p.location
    BY DEF Inherit, ParseEntity
  <1> HIDE DEF p, e
  <1>3. ASSUME NEW l \in Members(R) PROVE InOneField(e, l)
    <2>1. l # None /\ l # row.company /\ l # row.location
      BY DEF Members
    <2>2. /\ e.subtitle = l \/ e.employment = l <=> p.subtitle = l \/ p.employment = l
          /\ e.location = l <=> p.location = l
      BY <1>1, <1>2, <2>1
    <2>3. \A f \in Fields : Holds(e, f, l) <=> Holds(p, f, l)
      BY <1>2, <2>2 DEF Holds, Fields
    <2> QED BY <1>1, <2>3 DEF InOneField
  <1> QED BY <1>1, <1>2, <1>3 DEF e, p

-----------------------------------------------------------------------------
(* Types.                                                                  *)

RowType == [lines : Seq(DOMAIN text), company : Lines, location : Lines]

\* A text is a sequence of kinds, rows are sequences of rows of its lines.
LEMMA Typed ==
    ASSUME TypeOK
    PROVE  /\ text \in Seq(Kinds) /\ Len(text) \in Nat /\ DOMAIN text = 1 .. Len(text)
           /\ rows \in Seq(RowType) /\ Len(rows) \in Nat /\ DOMAIN rows = 1 .. Len(rows)
           /\ \A k \in DOMAIN rows :
                 /\ rows[k] \in RowType /\ rows[k].lines \in Seq(DOMAIN text)
                 /\ rows[k].company \in Lines /\ rows[k].location \in Lines
           /\ current \in Seq(DOMAIN text) /\ Len(current) \in Nat
           /\ DOMAIN current = 1 .. Len(current)
           /\ \A s \in Seq(DOMAIN text) : s \in Seq(Nat)
           /\ at \in Nat \ {0} /\ None \in Lines
           /\ group \in Lines /\ groupLoc \in Lines /\ heads \subseteq DOMAIN text
PROOF
  <1>1. text \in Seq(Kinds)
    BY DEF TypeOK
  <1>2. Len(text) \in Nat /\ DOMAIN text = 1 .. Len(text)
    BY <1>1
  <1>3. rows \in Seq(RowType)
    BY DEF TypeOK, RowType
  <1>4. Len(rows) \in Nat /\ DOMAIN rows = 1 .. Len(rows)
        /\ \A k \in DOMAIN rows : rows[k] \in RowType
    BY <1>3
  <1>5. \A k \in DOMAIN rows :
           /\ rows[k].lines \in Seq(DOMAIN text)
           /\ rows[k].company \in Lines /\ rows[k].location \in Lines
    BY <1>4 DEF RowType
  <1>6. current \in Seq(DOMAIN text)
    BY DEF TypeOK
  <1>7. Len(current) \in Nat /\ DOMAIN current = 1 .. Len(current)
    BY <1>6
  <1>8. \A s \in Seq(DOMAIN text) : s \in Seq(Nat)
    BY <1>2
  <1>9. /\ at \in Nat \ {0} /\ group \in Lines /\ groupLoc \in Lines
        /\ heads \subseteq DOMAIN text
    BY DEF TypeOK
  <1>10. None \in Lines
    BY <1>2 DEF Lines
  <1> QED BY <1>1, <1>2, <1>3, <1>4, <1>5, <1>6, <1>7, <1>8, <1>9, <1>10

\* A row is made of its fields.
LEMMA RowIs ==
    ASSUME NEW L \in Seq(DOMAIN text), NEW c \in Lines, NEW p \in Lines
    PROVE  /\ Row(L, c, p) \in RowType /\ Row(L, c, p).lines = L
           /\ Row(L, c, p).company = c /\ Row(L, c, p).location = p
PROOF
  BY DEF Row, RowType

\* What HandBack does to two rows.
LEMMA HandBackIs ==
    ASSUME TypeOK, LoopInv, HandBack
    PROVE  /\ at \in 2 .. Len(rows) /\ rows[at].lines # <<>>
           /\ rows' \in Seq(RowType) /\ Len(rows') = Len(rows)
           /\ rows'[at - 1].lines = Append(rows[at - 1].lines, Head(rows[at].lines))
           /\ rows'[at].lines = Tail(rows[at].lines)
           /\ \A k \in DOMAIN rows : k # at - 1 /\ k # at => rows'[k] = rows[k]
           /\ \A k \in DOMAIN rows : /\ rows'[k].company = rows[k].company
                                     /\ rows'[k].location = rows[k].location
PROOF
  <1>1. /\ at \in 2 .. Len(rows) /\ rows[at].lines # <<>>
        /\ at \in DOMAIN rows /\ at - 1 \in DOMAIN rows /\ at - 1 # at
    BY Typed DEF HandBack, LoopInv, BeginsWithTail
  <1> DEFINE L == Append(rows[at - 1].lines, Head(rows[at].lines))
             T == Tail(rows[at].lines)
  <1>2. L \in Seq(DOMAIN text) /\ T \in Seq(DOMAIN text)
    <2>1. /\ rows[at].lines \in Seq(DOMAIN text)
          /\ rows[at - 1].lines \in Seq(DOMAIN text)
      BY <1>1, Typed
    <2>2. Head(rows[at].lines) \in DOMAIN text /\ T \in Seq(DOMAIN text)
      BY <1>1, <2>1, TailIs
    <2> QED BY <2>1, <2>2, AppendIs
  <1>3. rows' = [rows EXCEPT ![at - 1] = [rows[at - 1] EXCEPT !.lines = L],
                             ![at] = [rows[at] EXCEPT !.lines = T]]
    BY <1>1, Typed DEF HandBack
  <1> HIDE DEF L, T
  <1>4. /\ [rows[at - 1] EXCEPT !.lines = L] \in RowType
        /\ [rows[at] EXCEPT !.lines = T] \in RowType
        /\ [rows[at - 1] EXCEPT !.lines = L].lines = L
        /\ [rows[at] EXCEPT !.lines = T].lines = T
    <2>1. rows[at - 1] \in RowType /\ rows[at] \in RowType
      BY <1>1, Typed
    <2> QED BY <1>2, <2>1 DEF RowType
  <1>5. rows' \in Seq(RowType) /\ Len(rows') = Len(rows)
    BY <1>1, <1>3, <1>4, Typed
  <1>6. /\ rows'[at - 1].lines = L /\ rows'[at].lines = T
        /\ \A k \in DOMAIN rows : k # at - 1 /\ k # at => rows'[k] = rows[k]
    BY <1>1, <1>3, <1>4
  <1>7. \A k \in DOMAIN rows : /\ rows'[k].company = rows[k].company
                               /\ rows'[k].location = rows[k].location
    <2>1. rows[at - 1] \in RowType /\ rows[at] \in RowType
      BY <1>1, Typed
    <2>2. /\ rows'[at - 1] = [rows[at - 1] EXCEPT !.lines = L]
          /\ rows'[at] = [rows[at] EXCEPT !.lines = T]
      BY <1>1, <1>3
    <2>3. /\ rows'[at - 1].company = rows[at - 1].company
          /\ rows'[at - 1].location = rows[at - 1].location
          /\ rows'[at].company = rows[at].company
          /\ rows'[at].location = rows[at].location
      BY <2>1, <2>2 DEF RowType
    <2> QED BY <1>6, <2>3
  <1> QED BY <1>1, <1>5, <1>6, <1>7 DEF L, T

\* What DropRow does to the rows.
LEMMA DropRowIs ==
    ASSUME TypeOK, DropRow
    PROVE  /\ at \in 1 .. Len(rows)
           /\ rows' \in Seq(RowType) /\ Len(rows') = Len(rows) - 1
           /\ \A k \in 1 .. Len(rows) - 1 :
                 rows'[k] = IF k < at THEN rows[k] ELSE rows[k + 1]
PROOF
  <1>1. at \in 1 .. Len(rows) /\ rows \in Seq(RowType) /\ Len(rows) \in Nat
    BY Typed DEF DropRow
  <1> DEFINE A == SubSeq(rows, 1, at - 1)
             B == SubSeq(rows, at + 1, Len(rows))
  <1>2. /\ A \in Seq(RowType) /\ Len(A) = at - 1
        /\ \A k \in 1 .. at - 1 : A[k] = rows[k]
    BY <1>1
  <1>3. /\ B \in Seq(RowType) /\ Len(B) = Len(rows) - at
        /\ \A k \in 1 .. Len(rows) - at : B[k] = rows[at + k]
    BY <1>1
  <1>4. /\ rows' \in Seq(RowType) /\ Len(rows') = Len(rows) - 1
        /\ \A k \in 1 .. Len(rows) - 1 :
              rows'[k] = IF k =< at - 1 THEN A[k] ELSE B[k - (at - 1)]
    <2>1. rows' = A \o B
      BY DEF DropRow, RemoveAt
    <2> HIDE DEF A, B
    <2>2. /\ A \o B \in Seq(RowType) /\ Len(A \o B) = Len(A) + Len(B)
          /\ \A k \in 1 .. Len(A) + Len(B) :
                (A \o B)[k] = IF k =< Len(A) THEN A[k] ELSE B[k - Len(A)]
      BY <1>2, <1>3, ConcatProperties
    <2> QED BY <1>1, <1>2, <1>3, <2>1, <2>2
  <1> HIDE DEF A, B
  <1>5. ASSUME NEW k \in 1 .. Len(rows) - 1
        PROVE  rows'[k] = IF k < at THEN rows[k] ELSE rows[k + 1]
    <2>1. CASE k < at
      BY <1>1, <1>2, <1>4, <2>1
    <2>2. CASE k >= at
      <3>1. rows'[k] = B[k - (at - 1)]
        BY <1>1, <1>4, <2>2
      <3>2. k - (at - 1) \in 1 .. Len(rows) - at /\ at + (k - (at - 1)) = k + 1
        BY <1>1, <2>2
      <3>3. B[k - (at - 1)] = rows[k + 1]
        BY <1>3, <3>2
      <3> QED BY <1>1, <2>2, <3>1, <3>3
    <2> QED BY <1>1, <2>1, <2>2
  <1> QED BY <1>1, <1>4, <1>5

\* The types of the next state, part by part.
LEMMA TypeKept ==
    ASSUME TypeOK, text' = text, stage' \in {"split", "handBack", "drop", "map"},
           at' \in Nat \ {0}, rows' \in Seq(RowType), current' \in Seq(DOMAIN text),
           group' \in Lines, groupLoc' \in Lines, afterHead' \in BOOLEAN,
           group' = None => groupLoc' = None, heads' \subseteq DOMAIN text,
           out' \in Seq(Entities(text))
    PROVE  TypeOK'
PROOF
  BY DEF TypeOK, RowType, Lines

\* What is put out is an entity.
LEMMA OutStep ==
    ASSUME TypeOK, [Next]_vars
    PROVE  out' \in Seq(Entities(text))
PROOF
  <1>1. out \in Seq(Entities(text))
    BY DEF TypeOK
  <1>2. CASE out' = out
    BY <1>1, <1>2
  <1>3. CASE MapRow
    <2> DEFINE e == ParseEntity(rows[at].lines, text)
    <2>1. at \in DOMAIN rows
      BY <1>3, Typed DEF MapRow
    <2>2. /\ rows[at].lines \in Seq(DOMAIN text) /\ text \in Seq(Kinds)
          /\ rows[at].company \in DOMAIN text \cup {None}
          /\ rows[at].location \in DOMAIN text \cup {None}
      BY <2>1, Typed DEF Lines
    <2>3. e \in Entities(text)
      BY <2>2, ParsedShares
    <2>4. out' = out \/ out' = Append(out, Inherit(e, rows[at]))
      BY <1>3 DEF MapRow
    <2> HIDE DEF e
    <2>5. Inherit(e, rows[at]) \in Entities(text)
      BY <2>2, <2>3, InheritTyped
    <2> DEFINE new == Inherit(e, rows[at])
    <2> HIDE DEF new
    <2>6. Append(out, new) \in Seq(Entities(text))
      BY <1>1, <2>5, AppendIs DEF new
    <2> QED BY <1>1, <2>4, <2>6 DEF new
  <1>4. CASE \/ Header \/ HeaderPlace \/ Extend \/ Close \/ EndOfText
             \/ HandBack \/ NextRow \/ RowsRead \/ DropRow \/ KeepRow \/ RowsKept
             \/ UNCHANGED vars
    BY <1>2, <1>4 DEF Header, HeaderPlace, Extend, Close, EndOfText, HandBack, NextRow,
          RowsRead, DropRow, KeepRow, RowsKept, vars
  <1> QED BY <1>3, <1>4 DEF Next

\* Every step keeps the types.
LEMMA TypeStep ==
    ASSUME TypeOK, LoopInv, [Next]_vars
    PROVE  TypeOK'
PROOF
  <1>0. /\ stage \in {"split", "handBack", "drop", "map"} /\ at \in Nat \ {0}
        /\ rows \in Seq(RowType) /\ current \in Seq(DOMAIN text)
        /\ <<>> \in Seq(DOMAIN text) /\ group \in Lines /\ groupLoc \in Lines
        /\ afterHead \in BOOLEAN /\ heads \subseteq DOMAIN text /\ None \in Lines
        /\ group = None => groupLoc = None
        /\ Len(text) \in Nat /\ DOMAIN text = 1 .. Len(text) /\ Len(rows) \in Nat
        /\ out' \in Seq(Entities(text))
    BY Typed, OutStep DEF TypeOK
  <1>1. CASE UNCHANGED vars
    BY <1>0, <1>1, TypeKept DEF vars
  <1>2. CASE Header
    <2>0. at \in Nat \ {0} /\ DOMAIN text = 1 .. Len(text) /\ Len(text) \in Nat
      BY <1>0
    <2>1. current # <<>> /\ at \in DOMAIN text
      BY <1>2, <2>0 DEF Header, IsHeader, AtLine
    <2>2. Head(current) \in DOMAIN text
      BY <1>0, <2>1, TailIs
    <2>3. Head(current) \in Lines
      BY <1>0, <2>2 DEF Lines
    <2> QED BY <1>0, <1>2, <2>1, <2>2, <2>3, TypeKept DEF Header
  <1>3. CASE HeaderPlace
    <2>1. at \in DOMAIN text /\ at \in Lines /\ group # None
      BY <1>0, <1>3 DEF HeaderPlace, IsHeaderPlace, AtLine, Lines, LoopInv
    <2> QED BY <1>0, <1>3, <2>1, TypeKept DEF HeaderPlace
  <1>4. CASE Extend
    <2>1. at \in DOMAIN text
      BY <1>0, <1>4 DEF Extend, AtLine
    <2>2. Append(current, at) \in Seq(DOMAIN text)
      BY <1>0, <2>1, AppendIs
    <2>3. current' \in Seq(DOMAIN text)
      BY <1>4, <2>2 DEF Extend
    <2>4. /\ at' = at + 1 /\ UNCHANGED <<text, stage, rows, group, groupLoc, heads>>
      BY <1>4 DEF Extend
    <2>5. afterHead' \in BOOLEAN
      BY <1>4, Zenon DEF Extend
    <2> QED BY <1>0, <2>3, <2>4, <2>5, TypeKept
  <1>5. CASE Close
    <2>1. at \in DOMAIN text
      BY <1>0, <1>5 DEF Close, AtLine
    <2>2. Append(current, at) \in Seq(DOMAIN text)
      BY <1>0, <2>1, AppendIs
    <2>3. /\ group' \in Lines /\ groupLoc' \in Lines
          /\ group' = None => groupLoc' = None
      BY <1>0, <1>5 DEF Close
    <2>4. rows' = Append(rows, Row(Append(current, at), group', groupLoc'))
      BY <1>5 DEF Close
    <2>5. Row(Append(current, at), group', groupLoc') \in RowType
      BY <2>2, <2>3, RowIs
    <2>6. rows' \in Seq(RowType)
      BY <1>0, <2>4, <2>5, AppendIs
    <2>7. at' = at + 1 /\ current' = <<>> /\ UNCHANGED <<text, stage, heads>>
      BY <1>5 DEF Close
    <2>8. afterHead' \in BOOLEAN
      BY <1>5, Zenon DEF Close
    <2> QED BY <1>0, <2>3, <2>6, <2>7, <2>8, TypeKept
  <1>6. CASE EndOfText
    <2>1. Row(current, group, groupLoc) \in RowType
      BY <1>0, RowIs
    <2>2. Append(rows, Row(current, group, groupLoc)) \in Seq(RowType)
      BY <1>0, <2>1, AppendIs
    <2>3. rows' \in Seq(RowType)
      BY <1>0, <1>6, <2>2 DEF EndOfText
    <2> QED BY <1>0, <1>6, <2>3, TypeKept DEF EndOfText
  <1>7. CASE HandBack
    <2>1. rows' \in Seq(RowType)
      BY <1>7, HandBackIs
    <2> QED BY <1>0, <1>7, <2>1, TypeKept DEF HandBack
  <1>8. CASE NextRow \/ KeepRow \/ RowsRead \/ RowsKept \/ MapRow
    BY <1>0, <1>8, TypeKept DEF NextRow, KeepRow, RowsRead, RowsKept, MapRow
  <1>9. CASE DropRow
    <2>1. rows' \in Seq(RowType)
      BY <1>9, DropRowIs
    <2> QED BY <1>0, <1>9, <2>1, TypeKept DEF DropRow
  <1> QED BY <1>1, <1>2, <1>3, <1>4, <1>5, <1>6, <1>7, <1>8, <1>9 DEF Next

\* Every step keeps the places of the loops.
LEMMA LoopStep ==
    ASSUME TypeOK, LoopInv, [Next]_vars
    PROVE  LoopInv'
PROOF
  <1>1. CASE UNCHANGED vars
    BY <1>1 DEF LoopInv, vars
  <1>2. CASE Header
    <2>0. current \in Seq(DOMAIN text) /\ DOMAIN text = 1 .. Len(text)
      BY Typed
    <2>1. current # <<>>
      BY <1>2, <2>0 DEF Header, IsHeader
    <2>2. Head(current) # None
      BY <2>0, <2>1, TailIs
    <2> QED BY <1>2, <2>2, Typed DEF Header, AtLine, LoopInv
  <1>3. CASE HeaderPlace \/ Extend \/ Close
    BY <1>3, Typed DEF HeaderPlace, Extend, Close, AtLine, LoopInv
  <1>4. CASE EndOfText \/ HandBack \/ NextRow \/ RowsRead
    BY <1>4, Typed DEF EndOfText, HandBack, NextRow, RowsRead, LoopInv
  <1>5. CASE DropRow \/ KeepRow \/ RowsKept \/ MapRow
    BY <1>5, Typed DEF DropRow, KeepRow, RowsKept, MapRow, LoopInv
  <1> QED BY <1>1, <1>2, <1>3, <1>4, <1>5 DEF Next

-----------------------------------------------------------------------------
(* Every line in one row.                                                  *)

\* The rows with the open one as one list of lists.
pieces == [k \in Pieces |-> Piece(k)]

Read == IF stage = "split" THEN 1 .. (at - 1) ELSE DOMAIN text

\* EveryLineInOneRow in terms of it.
OneRow ==
    /\ Tiled(pieces)
    /\ \A l \in heads : ~In(pieces, l)
    /\ \A l : (l \in heads \/ In(pieces, l)) <=> l \in Read

LEMMA PiecesAre ==
    ASSUME TypeOK
    PROVE  /\ Len(rows) + 1 \in Nat \ {0} /\ Pieces = 1 .. Len(rows) + 1
           /\ pieces \in Lists(Len(rows) + 1) /\ DOMAIN pieces = 1 .. Len(rows) + 1
           /\ \A k \in 1 .. Len(rows) : pieces[k] = rows[k].lines
           /\ pieces[Len(rows) + 1] = current
PROOF
  <1>1. /\ Len(rows) \in Nat /\ DOMAIN rows = 1 .. Len(rows)
        /\ \A k \in DOMAIN rows : rows[k].lines \in Seq(Nat)
        /\ current \in Seq(Nat)
    BY Typed
  <1>2. Pieces = 1 .. Len(rows) + 1 /\ Len(rows) + 1 \notin DOMAIN rows
    BY <1>1 DEF Pieces
  <1>3. \A k \in Pieces : Piece(k) \in Seq(Nat)
    BY <1>1 DEF Piece
  <1>4. pieces \in Lists(Len(rows) + 1)
    BY <1>2, <1>3 DEF pieces, Lists
  <1>5. \A k \in 1 .. Len(rows) : pieces[k] = rows[k].lines
    BY <1>1, <1>2 DEF pieces, Piece
  <1>6. pieces[Len(rows) + 1] = current
    BY <1>1, <1>2 DEF pieces, Piece
  <1> QED BY <1>1, <1>2, <1>4, <1>5, <1>6 DEF Lists

\* The same, in a form that holds of the next state as well.
Shape ==
    /\ Len(rows) + 1 \in Nat \ {0}
    /\ pieces \in Lists(Len(rows) + 1)
    /\ \A k \in 1 .. Len(rows) : pieces[k] = rows[k].lines
    /\ pieces[Len(rows) + 1] = current

LEMMA HasShape == TypeOK => Shape
PROOF
  BY PiecesAre DEF Shape

LEMMA NextPieces ==
    ASSUME TypeOK'
    PROVE  /\ Len(rows') + 1 \in Nat \ {0}
           /\ pieces' \in Lists(Len(rows') + 1)
           /\ \A k \in 1 .. Len(rows') : pieces'[k] = rows'[k].lines
           /\ pieces'[Len(rows') + 1] = current'
PROOF
  <1>1. (TypeOK => Shape)'
    BY HasShape, PTL
  <1> QED BY <1>1 DEF Shape, Lists

LEMMA OneRowIs == TypeOK => (EveryLineInOneRow <=> OneRow)
PROOF
  <1> SUFFICES ASSUME TypeOK PROVE EveryLineInOneRow <=> OneRow
    OBVIOUS
  <1>1. /\ DOMAIN pieces = Pieces
        /\ \A k \in Pieces : pieces[k] = Piece(k)
    BY DEF pieces
  <1>2. \A l : l \in InRows <=> In(pieces, l)
    BY <1>1 DEF InRows, ToSet, In
  <1>3. Tiled(pieces) <=>
            \A j, k \in Pieces : \A a \in DOMAIN Piece(j), b \in DOMAIN Piece(k) :
                (j < k \/ (j = k /\ a < b)) => Piece(j)[a] < Piece(k)[b]
    BY <1>1 DEF Tiled
  <1>4. heads \cap InRows = {} <=> \A l \in heads : ~In(pieces, l)
    BY <1>2
  <1>5. heads \cup InRows = Read <=>
            \A l : (l \in heads \/ In(pieces, l)) <=> l \in Read
    BY <1>2
  <1> QED BY <1>3, <1>4, <1>5 DEF EveryLineInOneRow, OneRow, Read

\* The line that is read next is in no row and no header yet.
LEMMA NextLineIsNew ==
    ASSUME TypeOK, OneRow, AtLine
    PROVE  /\ \A i \in Nat : In(pieces, i) => i < at
           /\ \A h \in heads : h < at
           /\ at \in DOMAIN text /\ at \notin heads /\ ~In(pieces, at)
PROOF
  <1>1. at \in Nat \ {0} /\ DOMAIN text = 1 .. Len(text) /\ Len(text) \in Nat
    BY Typed
  <1>2. Read = 1 .. (at - 1) /\ at \in DOMAIN text
    BY <1>1 DEF Read, AtLine
  <1>3. \A l : (l \in heads \/ In(pieces, l)) => l \in 1 .. (at - 1)
    BY <1>2 DEF OneRow
  <1> QED BY <1>1, <1>2, <1>3

\* Reading one more line, into a header or into a row.
LEMMA OneMoreRead ==
    ASSUME TypeOK, AtLine, stage' = stage, at' = at + 1
    PROVE  \A l : l \in Read' <=> l \in Read \/ l = at
PROOF
  <1>1. at \in Nat \ {0}
    BY Typed
  <1>2. Read = 1 .. (at - 1) /\ Read' = 1 .. at
    BY <1>1 DEF Read, AtLine
  <1> QED BY <1>1, <1>2

\* Rows and headers that are as they were.
LEMMA SamePieces ==
    ASSUME UNCHANGED <<rows, current>>
    PROVE  pieces' = pieces
PROOF
  BY DEF pieces, Pieces, Piece

LEMMA HeaderLines ==
    ASSUME TypeOK, TypeOK', OneRow, Header
    PROVE  OneRow'
PROOF
  <1> DEFINE m == Len(rows) + 1
             c == Head(current)
  <1>1. /\ m \in Nat \ {0} /\ pieces \in Lists(m) /\ DOMAIN pieces = 1 .. m
        /\ \A k \in 1 .. m - 1 : pieces[k] = rows[k].lines
        /\ pieces[m] = current
    BY PiecesAre, Typed
  <1>2. /\ pieces' \in Lists(m) /\ pieces'[m] = <<>>
        /\ \A k \in 1 .. m - 1 : pieces'[k] = rows[k].lines
    <2>1. rows' = rows /\ current' = <<>>
      BY DEF Header
    <2> QED BY <1>1, <2>1, NextPieces
  <1>3. SameBut({m}, pieces, pieces')
    BY <1>1, <1>2 DEF SameBut
  <1>4. Len(pieces[m]) = 1 /\ pieces[m][1] = c
    <2>1. Len(current) = 1 /\ current \in Seq(DOMAIN text)
      BY Typed DEF Header, IsHeader
    <2>2. Head(current) = current[1]
      BY <2>1
    <2> QED BY <1>1, <2>1, <2>2
  <1>5. /\ Tiled(pieces') /\ ~In(pieces', c)
        /\ \A i : In(pieces, i) <=> In(pieces', i) \/ i = c
    <2> HIDE DEF m, c
    <2> QED BY <1>1, <1>2, <1>3, <1>4, TileCut DEF OneRow
  <1>6. /\ heads' = heads \cup {c, at} /\ AtLine /\ stage' = stage /\ at' = at + 1
    BY DEF Header
  <1>7. ~In(pieces, at) /\ \A l : l \in Read' <=> l \in Read \/ l = at
    BY <1>6, NextLineIsNew, OneMoreRead
  <1> HIDE DEF c
  <1> QED BY <1>5, <1>6, <1>7 DEF OneRow

LEMMA HeaderPlaceLines ==
    ASSUME TypeOK, OneRow, HeaderPlace
    PROVE  OneRow'
PROOF
  <1>1. /\ heads' = heads \cup {at} /\ AtLine /\ stage' = stage /\ at' = at + 1
        /\ UNCHANGED <<rows, current>>
    BY DEF HeaderPlace
  <1>2. ~In(pieces, at) /\ \A l : l \in Read' <=> l \in Read \/ l = at
    BY <1>1, NextLineIsNew, OneMoreRead
  <1>3. pieces' = pieces
    BY <1>1, SamePieces
  <1> QED BY <1>1, <1>2, <1>3 DEF OneRow

LEMMA ExtendLines ==
    ASSUME TypeOK, TypeOK', OneRow, Extend
    PROVE  OneRow'
PROOF
  <1> DEFINE m == Len(rows) + 1
  <1>1. /\ m \in Nat \ {0} /\ pieces \in Lists(m) /\ DOMAIN pieces = 1 .. m
        /\ \A k \in 1 .. m - 1 : pieces[k] = rows[k].lines
        /\ pieces[m] = current
    BY PiecesAre, Typed
  <1>2. /\ pieces' \in Lists(m) /\ pieces'[m] = Append(current, at)
        /\ \A k \in 1 .. m - 1 : pieces'[k] = rows[k].lines
    <2>1. rows' = rows /\ current' = Append(current, at)
      BY DEF Extend
    <2> QED BY <1>1, <2>1, NextPieces
  <1>3. SameBut({m}, pieces, pieces')
    BY <1>1, <1>2 DEF SameBut
  <1>4. /\ heads' = heads /\ AtLine /\ stage' = stage /\ at' = at + 1
    BY DEF Extend
  <1>5. /\ at \notin heads /\ \A i \in Nat : In(pieces, i) => i < at
        /\ \A l : l \in Read' <=> l \in Read \/ l = at
    BY <1>4, NextLineIsNew, OneMoreRead
  <1>6. Tiled(pieces') /\ \A i : In(pieces', i) <=> In(pieces, i) \/ i = at
    <2>1. at \in Nat /\ pieces'[m] = Append(pieces[m], at)
      BY <1>1, <1>2, Typed
    <2> HIDE DEF m
    <2> QED BY <1>1, <1>2, <1>3, <1>5, <2>1, TileExtend DEF OneRow
  <1> QED BY <1>4, <1>5, <1>6 DEF OneRow

\* The open row, as it is or with the line at hand, becomes a row.
LEMMA RowClosed ==
    ASSUME TypeOK, TypeOK', current' = <<>>, NEW r,
           rows' = Append(rows, r), NEW Q \in Lists(Len(rows) + 1), Tiled(Q),
           Q[Len(rows) + 1] = r.lines, SameBut({Len(rows) + 1}, pieces, Q)
    PROVE  Tiled(pieces') /\ \A i : In(pieces', i) <=> In(Q, i)
PROOF
  <1> DEFINE m == Len(rows) + 1
  <1>1. /\ m \in Nat \ {0} /\ DOMAIN pieces = 1 .. m
        /\ \A k \in 1 .. m - 1 : pieces[k] = rows[k].lines
    BY PiecesAre, Typed
  <1>2. /\ Len(rows') = m /\ rows'[m] = r
        /\ \A k \in 1 .. m - 1 : rows'[k] = rows[k]
    BY Typed
  <1>3. /\ pieces' \in Lists(m + 1) /\ pieces'[m + 1] = <<>>
        /\ \A k \in 1 .. m : pieces'[k] = rows'[k].lines
    BY <1>1, <1>2, NextPieces
  <1>4. \A k \in 1 .. m - 1 : Q[k] = pieces[k]
    BY <1>1 DEF SameBut
  <1>5. \A k \in 1 .. m + 1 : pieces'[k] = IF k = m + 1 THEN <<>> ELSE Q[k]
    <2> SUFFICES ASSUME NEW k \in 1 .. m + 1
                 PROVE  pieces'[k] = IF k = m + 1 THEN <<>> ELSE Q[k]
      OBVIOUS
    <2>1. CASE k = m + 1
      BY <1>3, <2>1
    <2>2. CASE k = m
      BY <1>1, <1>2, <1>3, <2>2
    <2>3. CASE k \in 1 .. m - 1
      BY <1>1, <1>2, <1>3, <1>4, <2>3
    <2> QED BY <1>1, <2>1, <2>2, <2>3
  <1> HIDE DEF m
  <1> QED BY <1>1, <1>3, <1>5, TileBegin DEF m

LEMMA CloseLines ==
    ASSUME TypeOK, TypeOK', OneRow, Close
    PROVE  OneRow'
PROOF
  <1> DEFINE m == Len(rows) + 1
             Q == [pieces EXCEPT ![m] = Append(current, at)]
  <1>1. /\ m \in Nat \ {0} /\ pieces \in Lists(m) /\ DOMAIN pieces = 1 .. m
        /\ pieces[m] = current /\ current \in Seq(Nat)
    BY PiecesAre, Typed
  <1>2. /\ heads' = heads /\ AtLine /\ stage' = stage /\ at' = at + 1
        /\ current' = <<>>
        /\ rows' = Append(rows, Row(Append(current, at), group', groupLoc'))
    BY DEF Close
  <1>3. /\ at \notin heads /\ \A i \in Nat : In(pieces, i) => i < at
        /\ at \in Nat /\ \A l : l \in Read' <=> l \in Read \/ l = at
    BY <1>2, NextLineIsNew, OneMoreRead, Typed
  <1>4. /\ Q \in Lists(m) /\ Q[m] = Append(pieces[m], at)
        /\ SameBut({m}, pieces, Q)
    <2>1. Append(current, at) \in Seq(Nat)
      BY <1>1, <1>3, AppendIs
    <2> QED BY <1>1, <2>1 DEF Lists, SameBut
  <1> HIDE DEF Q
  <1>5. Tiled(Q) /\ \A i : In(Q, i) <=> In(pieces, i) \/ i = at
    <2> HIDE DEF m
    <2> QED BY <1>1, <1>3, <1>4, TileExtend DEF OneRow
  <1>6. Tiled(pieces') /\ \A i : In(pieces', i) <=> In(Q, i)
    <2>1. Q[m] = Row(Append(current, at), group', groupLoc').lines
      BY <1>1, <1>4 DEF Row
    <2> QED BY <1>2, <1>4, <1>5, <2>1, RowClosed
  <1> QED BY <1>2, <1>3, <1>5, <1>6 DEF OneRow

LEMMA EndOfTextLines ==
    ASSUME TypeOK, TypeOK', LoopInv, OneRow, EndOfText
    PROVE  OneRow'
PROOF
  <1>1. heads' = heads /\ Read' = Read
    <2>1. /\ stage = "split" /\ at > Len(text) /\ text' = text
          /\ stage' = "handBack"
      BY DEF EndOfText
    <2>2. 1 .. (at - 1) = DOMAIN text
      BY <2>1, Typed DEF LoopInv
    <2> QED BY <2>1, <2>2 DEF EndOfText, Read
  <1>2. CASE current = <<>>
    <2>1. pieces' = pieces
      BY <1>2, SamePieces DEF EndOfText
    <2> QED BY <1>1, <2>1 DEF OneRow
  <1>3. CASE current # <<>>
    <2>1. /\ current' = <<>>
          /\ rows' = Append(rows, Row(current, group, groupLoc))
      BY <1>3 DEF EndOfText
    <2>2. /\ pieces \in Lists(Len(rows) + 1)
          /\ pieces[Len(rows) + 1] = Row(current, group, groupLoc).lines
      BY PiecesAre DEF Row
    <2>3. SameBut({Len(rows) + 1}, pieces, pieces) /\ Tiled(pieces)
      BY DEF SameBut, OneRow
    <2>4. Tiled(pieces') /\ \A i : In(pieces', i) <=> In(pieces, i)
      BY <2>1, <2>2, <2>3, RowClosed
    <2> QED BY <1>1, <2>4 DEF OneRow
  <1> QED BY <1>2, <1>3

\* The lines that have been read do not change after the first loop.
LEMMA AllRead ==
    ASSUME stage # "split", stage' # "split", text' = text
    PROVE  Read' = Read
PROOF
  BY DEF Read

LEMMA HandBackLines ==
    ASSUME TypeOK, TypeOK', LoopInv, OneRow, HandBack
    PROVE  OneRow'
PROOF
  <1> DEFINE m == Len(rows) + 1
  <1>1. /\ m \in Nat \ {0} /\ pieces \in Lists(m) /\ DOMAIN pieces = 1 .. m
        /\ \A k \in 1 .. m - 1 : pieces[k] = rows[k].lines
        /\ pieces[m] = current /\ DOMAIN rows = 1 .. m - 1
    BY PiecesAre, Typed
  <1>2. /\ at \in 2 .. m - 1 /\ rows[at].lines # <<>>
        /\ Len(rows') = m - 1
        /\ rows'[at - 1].lines = Append(rows[at - 1].lines, Head(rows[at].lines))
        /\ rows'[at].lines = Tail(rows[at].lines)
        /\ \A k \in DOMAIN rows : k # at - 1 /\ k # at => rows'[k] = rows[k]
    BY HandBackIs, Typed
  <1>3. /\ pieces' \in Lists(m) /\ pieces'[m] = current
        /\ \A k \in 1 .. m - 1 : pieces'[k] = rows'[k].lines
    <2>1. current' = current
      BY DEF HandBack
    <2> QED BY <1>1, <1>2, <2>1, NextPieces
  <1>4. /\ at \in 2 .. m /\ pieces[at] # <<>>
        /\ pieces'[at - 1] = Append(pieces[at - 1], Head(pieces[at]))
        /\ pieces'[at] = Tail(pieces[at])
    <2>1. at \in 1 .. m - 1 /\ at - 1 \in 1 .. m - 1
      BY <1>1, <1>2
    <2>2. pieces[at] = rows[at].lines /\ pieces[at - 1] = rows[at - 1].lines
          /\ pieces'[at] = rows'[at].lines /\ pieces'[at - 1] = rows'[at - 1].lines
      BY <1>1, <1>3, <2>1
    <2> QED BY <1>2, <2>1, <2>2
  <1>5. SameBut({at - 1, at}, pieces, pieces')
    <2>1. ASSUME NEW k \in 1 .. m, k # at - 1, k # at
          PROVE  pieces'[k] = pieces[k]
      <3>1. CASE k = m
        BY <1>1, <1>3, <3>1
      <3>2. CASE k # m
        <4>1. k \in DOMAIN rows /\ k \in 1 .. m - 1
          BY <1>1, <3>2
        <4>2. rows'[k] = rows[k]
          BY <1>2, <2>1, <4>1
        <4> QED BY <1>1, <1>3, <4>1, <4>2
      <3> QED BY <3>1, <3>2
    <2> QED BY <1>1, <2>1 DEF SameBut
  <1>6. Tiled(pieces') /\ \A i : In(pieces', i) <=> In(pieces, i)
    <2> HIDE DEF m
    <2> QED BY <1>1, <1>3, <1>4, <1>5, TileMove DEF OneRow
  <1>7. heads' = heads /\ Read' = Read
    BY AllRead DEF HandBack
  <1> QED BY <1>6, <1>7 DEF OneRow

LEMMA DropRowLines ==
    ASSUME TypeOK, TypeOK', OneRow, DropRow
    PROVE  OneRow'
PROOF
  <1> DEFINE m == Len(rows)
  <1>1. /\ m \in Nat /\ pieces \in Lists(m + 1) /\ DOMAIN pieces = 1 .. m + 1
        /\ \A k \in 1 .. m : pieces[k] = rows[k].lines
        /\ pieces[m + 1] = current
    BY PiecesAre, Typed
  <1>2. /\ at \in 1 .. m /\ Len(rows') = m - 1
        /\ \A k \in 1 .. m - 1 :
              rows'[k] = IF k < at THEN rows[k] ELSE rows[k + 1]
        /\ rows[at].lines = <<>>
    BY DropRowIs DEF DropRow
  <1>3. /\ pieces' \in Lists(m) /\ pieces'[m] = current
        /\ \A k \in 1 .. m - 1 : pieces'[k] = rows'[k].lines
    <2>1. current' = current
      BY DEF DropRow
    <2> QED BY <1>1, <1>2, <2>1, NextPieces
  <1>4. m \in Nat \ {0} /\ pieces[at] = <<>>
    BY <1>1, <1>2
  <1>5. ASSUME NEW k \in 1 .. m
        PROVE  pieces'[k] = IF k < at THEN pieces[k] ELSE pieces[k + 1]
    <2>1. CASE k = m
      BY <1>1, <1>2, <1>3, <2>1
    <2>2. CASE k # m /\ k < at
      <3>1. k \in 1 .. m - 1 /\ rows'[k] = rows[k]
        BY <1>1, <1>2, <2>2
      <3> QED BY <1>1, <1>3, <2>2, <3>1
    <2>3. CASE k # m /\ k >= at
      <3>1. k \in 1 .. m - 1 /\ k + 1 \in 1 .. m /\ rows'[k] = rows[k + 1]
        BY <1>1, <1>2, <2>3
      <3> QED BY <1>1, <1>2, <1>3, <2>3, <3>1
    <2> QED BY <1>1, <1>2, <2>1, <2>2, <2>3
  <1>6. Tiled(pieces') /\ \A i : In(pieces', i) <=> In(pieces, i)
    <2> HIDE DEF m
    <2> QED BY <1>1, <1>2, <1>3, <1>4, <1>5, TileDrop DEF OneRow
  <1>7. heads' = heads /\ Read' = Read
    BY AllRead DEF DropRow
  <1> QED BY <1>6, <1>7 DEF OneRow

\* Every step keeps every line in one row.
LEMMA LinesStep ==
    ASSUME TypeOK, TypeOK', LoopInv, EveryLineInOneRow, [Next]_vars
    PROVE  EveryLineInOneRow'
PROOF
  <1>1. OneRow
    BY OneRowIs
  <1>2. OneRow'
    <2>1. CASE UNCHANGED vars
      <3>1. pieces' = pieces /\ heads' = heads /\ Read' = Read
        BY <2>1, SamePieces DEF Read, vars
      <3> QED BY <1>1, <3>1 DEF OneRow
    <2>2. CASE NextRow \/ KeepRow \/ RowsRead \/ RowsKept \/ MapRow
      <3>1. /\ UNCHANGED <<text, rows, current, heads>>
            /\ stage # "split" /\ stage' # "split"
        BY <2>2 DEF NextRow, KeepRow, RowsRead, RowsKept, MapRow
      <3>2. pieces' = pieces /\ heads' = heads /\ Read' = Read
        BY <3>1, SamePieces, AllRead
      <3> QED BY <1>1, <3>2 DEF OneRow
    <2>3. CASE Header
      BY <1>1, <2>3, HeaderLines
    <2>4. CASE HeaderPlace
      BY <1>1, <2>4, HeaderPlaceLines
    <2>5. CASE Extend
      BY <1>1, <2>5, ExtendLines
    <2>6. CASE Close
      BY <1>1, <2>6, CloseLines
    <2>7. CASE EndOfText
      BY <1>1, <2>7, EndOfTextLines
    <2>8. CASE HandBack
      BY <1>1, <2>8, HandBackLines
    <2>9. CASE DropRow
      BY <1>1, <2>9, DropRowLines
    <2> QED BY <2>1, <2>2, <2>3, <2>4, <2>5, <2>6, <2>7, <2>8, <2>9 DEF Next
  <1>3. (TypeOK => (EveryLineInOneRow <=> OneRow))'
    BY OneRowIs, PTL
  <1> QED BY <1>2, <1>3

-----------------------------------------------------------------------------
(* The groups.                                                             *)

\* While lines are read, what is settled lies before the open row.
LEMMA Settled ==
    ASSUME TypeOK, OneRow, RunInv, AtLine
    PROVE  /\ at \in Nat \ {0} /\ Len(current) \in 0 .. (at - 1)
           /\ current # <<>> => Len(current) > 0 /\ current[1] = at - Len(current)
                                /\ Head(current) = current[1]
           /\ \A h \in heads : h \in Nat \ {0} /\ h < at - Len(current)
           /\ \A k \in DOMAIN rows :
                 /\ Opens(k) \in Nat \ {0} /\ Opens(k) < at - Len(current)
                 /\ Opens(k) \notin heads
PROOF
  <1> DEFINE n == Len(current)
             m == Len(rows) + 1
  <1>1. /\ at \in Nat \ {0} /\ n \in Nat /\ DOMAIN current = 1 .. n
        /\ current \in Seq(Nat) /\ current \in Seq(DOMAIN text)
        /\ heads \subseteq DOMAIN text
        /\ Len(text) \in Nat /\ DOMAIN text = 1 .. Len(text) /\ DOMAIN rows = 1 .. m - 1
        /\ m \in Nat \ {0}
    BY Typed
  <1>2. /\ \A i \in 1 .. n : current[i] = at - 1 - n + i
        /\ \A i \in 1 .. n : current[i] \in DOMAIN text
    <2>1. \A i \in DOMAIN current : current[i] = at - 1 - n + i
      BY DEF RunInv
    <2>2. \A i \in DOMAIN current : current[i] \in DOMAIN text
      BY <1>1, ElementOfSeq
    <2> QED BY <1>1, <2>1, <2>2
  <1>3. n \in 0 .. (at - 1)
    <2>1. n > 0 => current[1] = at - n /\ current[1] >= 1
      BY <1>1, <1>2
    <2> QED BY <1>1, <2>1
  <1>4. current # <<>> => n > 0 /\ current[1] = at - n /\ Head(current) = current[1]
    BY <1>1, <1>2, TailIs
  <1>5. /\ pieces[m] = current /\ DOMAIN pieces = 1 .. m
        /\ \A k \in 1 .. m - 1 : pieces[k] = rows[k].lines
    BY <1>1, PiecesAre
  <1>6. ASSUME NEW l \in Nat, In(pieces, l) \/ l \in heads, l >= at - n
        PROVE  \E a \in 1 .. n : current[a] = l
    <2>1. l < at
      BY <1>6, NextLineIsNew
    <2>2. l - (at - 1 - n) \in 1 .. n /\ current[l - (at - 1 - n)] = l
      BY <1>1, <1>2, <1>3, <1>6, <2>1
    <2> QED BY <2>2
  <1>7. ASSUME NEW h \in heads PROVE h \in Nat \ {0} /\ h < at - n
    <2>1. h \in Nat \ {0}
      BY <1>1
    <2>2. CASE h >= at - n
      <3>1. PICK a \in 1 .. n : current[a] = h
        BY <1>6, <2>1, <2>2
      <3>2. m \in DOMAIN pieces /\ a \in DOMAIN pieces[m] /\ pieces[m][a] = h
        BY <1>1, <1>5, <3>1
      <3>3. In(pieces, h)
        BY <3>2 DEF In
      <3> QED BY <3>3 DEF OneRow
    <2> QED BY <1>1, <2>1, <2>2
  <1>8. ASSUME NEW k \in DOMAIN rows
        PROVE  /\ Opens(k) \in Nat \ {0} /\ Opens(k) < at - n
               /\ Opens(k) \notin heads
    <2>1. rows[k].lines \in Seq(DOMAIN text) /\ rows[k].lines # <<>>
      BY Typed DEF RunInv
    <2>2. /\ Len(rows[k].lines) \in Nat \ {0} /\ Opens(k) = rows[k].lines[1]
          /\ Opens(k) \in DOMAIN text /\ DOMAIN rows[k].lines = 1 .. Len(rows[k].lines)
      BY <2>1, TailIs DEF Opens
    <2>3. k \in 1 .. m /\ k < m /\ pieces[k] = rows[k].lines /\ 1 \in DOMAIN pieces[k]
          /\ pieces[k][1] = Opens(k)
      BY <1>1, <1>5, <2>2
    <2>4. In(pieces, Opens(k))
      BY <1>5, <2>3 DEF In
    <2>5. CASE Opens(k) >= at - n
      <3>0. Opens(k) \in Nat /\ (In(pieces, Opens(k)) \/ Opens(k) \in heads)
        BY <1>1, <2>2, <2>4
      <3> HIDE DEF n, m
      <3>1. PICK a \in 1 .. n : current[a] = Opens(k)
        <4>1. \E a \in 1 .. n : current[a] = Opens(k)
          BY <1>6, <2>5, <3>0
        <4> QED BY <4>1
      <3>2. a \in DOMAIN pieces[m] /\ m \in DOMAIN pieces /\ k \in DOMAIN pieces
        BY <1>1, <1>5, <2>3, <3>1
      <3>3. pieces[k][1] < pieces[m][a]
        BY <2>3, <3>2 DEF OneRow, Tiled
      <3> QED BY <1>1, <1>5, <2>2, <2>3, <3>1, <3>3
    <2> QED BY <1>1, <2>2, <2>4, <2>5 DEF OneRow
  <1> QED BY <1>1, <1>3, <1>4, <1>7, <1>8

\* The run of lines after every step of the first loop.
LEMMA RunStep ==
    ASSUME TypeOK, RunInv, Header \/ HeaderPlace \/ Extend \/ Close
    PROVE  RunInv'
PROOF
  <1>0. /\ Len(current) \in Nat /\ DOMAIN current = 1 .. Len(current)
        /\ current \in Seq(Nat) /\ at \in Nat /\ current \in Seq(DOMAIN text)
        /\ rows \in Seq(RowType) /\ DOMAIN rows = 1 .. Len(rows) /\ Len(rows) \in Nat
    BY Typed
  <1>1. CASE Header
    BY <1>1 DEF Header, RunInv
  <1>2. CASE HeaderPlace
    <2>1. current = <<>>
      BY <1>2 DEF HeaderPlace, IsHeaderPlace, RunInv
    <2> QED BY <1>2, <2>1 DEF HeaderPlace, RunInv
  <1>3. CASE Extend
    <2>1. /\ current' = Append(current, at) /\ at' = at + 1
          /\ rows' = rows /\ ~afterHead'
      BY <1>3 DEF Extend
    <2>2. /\ Len(current') = Len(current) + 1
          /\ DOMAIN current' = 1 .. Len(current) + 1
          /\ \A i \in 1 .. Len(current) : current'[i] = current[i]
          /\ current'[Len(current) + 1] = at
      BY <1>0, <2>1, AppendIs
    <2>3. \A i \in DOMAIN current' : current'[i] = at' - 1 - Len(current') + i
      BY <1>0, <2>1, <2>2 DEF RunInv
    <2> QED BY <2>1, <2>3 DEF RunInv
  <1>4. CASE Close
    <2>1. /\ current' = <<>> /\ ~afterHead'
          /\ rows' = Append(rows, Row(Append(current, at), group', groupLoc'))
      BY <1>4 DEF Close
    <2>2. Row(Append(current, at), group', groupLoc').lines # <<>>
      BY <1>0, AppendIs DEF Row
    <2>3. \A k \in DOMAIN rows' : rows'[k].lines # <<>>
      BY <1>0, <2>1, <2>2 DEF RunInv
    <2> QED BY <2>1, <2>3 DEF RunInv
  <1> QED BY <1>1, <1>2, <1>3, <1>4

\* Headers took lines after l only.
NewBeyond(l) ==
    /\ text' = text /\ heads \subseteq heads'
    /\ \A i \in heads' : i \in heads \/ i > l

LEMMA NamesBelow ==
    ASSUME TypeOK, NEW l \in Nat, NewBeyond(l),
           \A i \in heads' : i \in Nat
    PROVE  \A h : (h \in HeaderNames' /\ h < l) <=> (h \in HeaderNames /\ h < l)
PROOF
  <1>1. \A i \in heads : i \in Nat
    BY Typed
  <1>2. ASSUME NEW h \in HeaderNames', h < l PROVE h \in HeaderNames
    <2>1. h \in heads' /\ h + 1 \in heads' /\ IsBareDuration(text[h + 1])
      BY <1>2 DEF HeaderNames, NewBeyond
    <2>2. h \in heads /\ h + 1 \in heads
      BY <1>2, <2>1 DEF NewBeyond
    <2> QED BY <2>1, <2>2 DEF HeaderNames
  <1>3. ASSUME NEW h \in HeaderNames PROVE h \in HeaderNames'
    BY <1>3 DEF HeaderNames, NewBeyond
  <1> QED BY <1>2, <1>3

\* A place under a header stays its place once it is interrupted.
LEMMA PlaceStays ==
    ASSUME TypeOK, NEW l \in Nat, NewBeyond(l), NEW h \in Nat,
           \A i \in heads' : i \in Nat,
           Interrupted(h + 2, l)
    PROVE  PlaceUnder(h)' = PlaceUnder(h)
PROOF
  <1> DEFINE run == {i \in heads : /\ i > h + 1
                                   /\ \A m \in (h + 2) .. i :
                                         LooksLikeLocation(text[m])}
  <1>1. PICK m \in (h + 2) .. l : ~LooksLikeLocation(text[m])
    BY DEF Interrupted
  <1>2. run' = run
    <2>1. ASSUME NEW i \in heads', i > h + 1, i \notin heads,
                 \A q \in (h + 2) .. i : LooksLikeLocation(text[q])
          PROVE  FALSE
      <3>1. m \in (h + 2) .. i
        BY <1>1, <2>1 DEF NewBeyond
      <3> QED BY <1>1, <2>1, <3>1
    <2> QED BY <2>1 DEF NewBeyond
  <1> QED BY <1>2 DEF PlaceUnder

\* The header above a line is the last of those below it in the order of lines.
LEMMA HeaderAboveIs ==
    ASSUME TypeOK, NEW l \in Nat
    PROVE  /\ (\A h \in HeaderNames : h >= l) => HeaderAbove(l) = None
           /\ \A h : LastBelow(h, l) => HeaderAbove(l) = h
PROOF
  <1> DEFINE above == {h \in HeaderNames : h < l}
  <1>1. HeaderNames \subseteq Int
    BY Typed DEF HeaderNames
  <1>2. ASSUME \A h \in HeaderNames : h >= l PROVE HeaderAbove(l) = None
    <2>1. above = {}
      <3> SUFFICES ASSUME NEW h \in HeaderNames, h < l PROVE FALSE
        OBVIOUS
      <3>1. h \in Int /\ h >= l
        BY <1>1, <1>2
      <3> QED BY <3>1
    <2> QED BY <2>1 DEF HeaderAbove
  <1>3. ASSUME NEW h, LastBelow(h, l) PROVE HeaderAbove(l) = h
    <2>1. h \in above /\ above \subseteq Int /\ \A g \in above : g =< h
      BY <1>1, <1>3 DEF LastBelow
    <2>2. Max(above) = h /\ above # {}
      <3> HIDE DEF above
      <3> QED BY <2>1, MaxIs
    <2> QED BY <2>2 DEF HeaderAbove
  <1> QED BY <1>2, <1>3

\* A row is in the right group as long as headers take lines after it only.
LEMMA RowStays ==
    ASSUME TypeOK, TypeOK', NEW k \in DOMAIN rows, NEW l \in Nat, l = Opens(k),
           \A j \in 1 .. k : rows'[j] = rows[j], k \in Nat \ {0},
           NewBeyond(l), Above(k), RightGroup(k)
    PROVE  Above(k)' /\ RightGroup(k)'
PROOF
  <1>1. /\ text' = text /\ rows'[k] = rows[k] /\ Opens(k)' = l
        /\ \A i \in heads' : i \in Nat
        /\ \A h \in HeaderNames : h \in Nat
    <2>1. heads' \subseteq DOMAIN text' /\ text' = text
      BY DEF TypeOK, NewBeyond
    <2>2. \A i \in DOMAIN text : i \in Nat
      BY Typed
    <2>3. rows'[k] = rows[k]
      OBVIOUS
    <2> QED BY <2>1, <2>2, <2>3, Typed DEF Opens, HeaderNames
  <1>2. \A h : (h \in HeaderNames' /\ h < l) <=> (h \in HeaderNames /\ h < l)
    BY <1>1, NamesBelow
  <1>3. \A h : Interrupted(h + 2, l)' <=> Interrupted(h + 2, l)
    BY <1>1 DEF Interrupted
  <1>4. \A h : LastBelow(h, l)' <=> LastBelow(h, l)
    BY <1>2 DEF LastBelow
  <1>5. \A h \in HeaderNames' : h \in Nat
    BY <1>1 DEF HeaderNames
  <1>6. Above(k)'
    <2>1. (\A h \in HeaderNames : h >= l) \/ (\E h \in HeaderNames : LastBelow(h, l))
      BY DEF Above
    <2>2. \A h \in HeaderNames : h < l => Interrupted(h + 2, l)
      BY DEF Above
    <2>3. CASE \A h \in HeaderNames : h >= l
      <3>1. \A h \in HeaderNames' : h >= l
        BY <1>1, <1>2, <1>5, <2>3
      <3> QED BY <1>1, <1>2, <1>3, <2>2, <3>1 DEF Above
    <2>4. CASE \E h \in HeaderNames : LastBelow(h, l)
      <3>1. PICK h \in HeaderNames : LastBelow(h, l)
        BY <2>4
      <3>2. LastBelow(h, l)' /\ h \in HeaderNames'
        BY <1>4, <3>1 DEF LastBelow
      <3>3. \A g \in HeaderNames' : g < l => Interrupted(g + 2, l)'
        BY <1>2, <1>3, <2>2
      <3> QED BY <1>1, <3>2, <3>3 DEF Above
    <2> QED BY <2>1, <2>3, <2>4
  <1>7. HeaderAbove(l)' = HeaderAbove(l)
    <2>1. {h \in HeaderNames' : h < l} = {h \in HeaderNames : h < l}
      BY <1>2
    <2> QED BY <2>1 DEF HeaderAbove
  <1>8. ASSUME NEW h PROVE Undisturbed(h, k)' <=> Undisturbed(h, k)
    <2>1. \A j \in 1 .. k : Opens(j)' = Opens(j) /\ rows'[j].lines = rows[j].lines
      BY DEF Opens
    <2> QED BY <1>1, <2>1 DEF Undisturbed
  <1>9. HeaderAbove(l) = None \/ PlaceUnder(HeaderAbove(l))' = PlaceUnder(HeaderAbove(l))
    <2>1. (\A h \in HeaderNames : h >= l) \/ (\E h \in HeaderNames : LastBelow(h, l))
      BY DEF Above
    <2>2. CASE \A h \in HeaderNames : h >= l
      BY <2>2, HeaderAboveIs
    <2>3. CASE \E h \in HeaderNames : LastBelow(h, l)
      <3>1. PICK h \in HeaderNames : LastBelow(h, l)
        BY <2>3
      <3>2. HeaderAbove(l) = h
        BY <3>1, HeaderAboveIs
      <3>3. h \in Nat /\ Interrupted(h + 2, l)
        BY <1>1, <3>1 DEF Above, LastBelow
      <3>4. PlaceUnder(h)' = PlaceUnder(h)
        BY <1>1, <3>3, PlaceStays
      <3>5. PlaceUnder(HeaderAbove(l))' = PlaceUnder(h)'
        BY <1>7, <3>2 DEF PlaceUnder
      <3> QED BY <3>2, <3>4, <3>5
    <2> QED BY <2>1, <2>2, <2>3
  <1>10. RightGroup(k)'
    <2> DEFINE h == HeaderAbove(l)
    <2>1. /\ rows[k].company = IF h # None /\ Undisturbed(h, k) THEN h ELSE None
          /\ rows[k].location = IF h # None /\ Undisturbed(h, k) THEN PlaceUnder(h)
                                                                 ELSE None
      BY DEF RightGroup
    <2>2. /\ HeaderAbove(Opens(k))' = h
          /\ Undisturbed(HeaderAbove(Opens(k)), k)' <=> Undisturbed(h, k)
          /\ h = None \/ PlaceUnder(HeaderAbove(Opens(k)))' = PlaceUnder(h)
      <3>1. HeaderAbove(Opens(k))' = HeaderAbove(l)'
        BY <1>1 DEF HeaderAbove
      <3>2. HeaderAbove(Opens(k))' = h
        BY <1>7, <3>1
      <3>3. Undisturbed(HeaderAbove(Opens(k)), k)' <=> Undisturbed(h, k)'
        BY <1>7, <3>2 DEF Undisturbed
      <3>4. PlaceUnder(HeaderAbove(Opens(k)))' = PlaceUnder(h)'
        BY <1>7, <3>2 DEF PlaceUnder
      <3> QED BY <1>8, <1>9, <3>2, <3>3, <3>4
    <2> HIDE DEF h
    <2> QED BY <1>1, <2>1, <2>2 DEF RightGroup
  <1> QED BY <1>6, <1>10

\* What interrupts a run of places goes on interrupting it.
LEMMA StaysInterrupted ==
    ASSUME NEW a \in Int, NEW b \in Int, NEW c \in Int, b =< c,
           Interrupted(a, b), text' = text
    PROVE  Interrupted(a, c)'
PROOF
  BY DEF Interrupted

\* Unless the line at hand is one more place under the last header, every
\* header is cut off from the row it is in.
LEMMA CutOff ==
    ASSUME TypeOK, OneRow, RunInv, GroupInv, AtLine, ~IsHeaderPlace
    PROVE  \A g \in HeaderNames : Interrupted(g + 2, at - Len(current))
PROOF
  <1> SUFFICES ASSUME NEW g \in HeaderNames
               PROVE  Interrupted(g + 2, at - Len(current))
    OBVIOUS
  <1> DEFINE n == Len(current)
  <1>1. /\ at \in Nat \ {0} /\ n \in Nat
        /\ \A h \in heads : h \in Nat \ {0} /\ h < at - n
    BY Settled
  <1>2. current = <<>> => n = 0 /\ Mark = at - 1
    BY <1>1 DEF Mark
  <1>3. current # <<>> => Mark = at - n
    BY DEF Mark
  <1>4. Mark \in Int /\ Mark =< at - n
    BY <1>1, <1>2, <1>3
  <1>5. PICK h \in HeaderNames : HeadedBy(h)
    BY DEF GroupInv
  <1>6. g \in Nat /\ g + 1 \in heads
    BY <1>1 DEF HeaderNames
  <1>7. CASE afterHead /\ g = h
    <2>1. current = <<>> /\ ~LooksLikeLocation(text[at])
      BY <1>7 DEF RunInv, IsHeaderPlace
    <2>2. at \in (g + 2) .. (at - n)
      BY <1>1, <1>2, <1>6, <2>1
    <2> QED BY <2>1, <2>2 DEF Interrupted
  <1>8. CASE ~(afterHead /\ g = h)
    <2>1. Interrupted(g + 2, Mark)
      BY <1>5, <1>8 DEF HeadedBy
    <2>2. PICK m \in (g + 2) .. Mark : ~LooksLikeLocation(text[m])
      BY <2>1 DEF Interrupted
    <2>3. m \in (g + 2) .. (at - n)
      BY <1>1, <1>4, <1>6, <2>2
    <2> QED BY <2>2, <2>3 DEF Interrupted
  <1> QED BY <1>7, <1>8

\* The header names are what they were.
LEMMA SameNames ==
    ASSUME heads' = heads, text' = text
    PROVE  /\ HeaderNames' = HeaderNames
           /\ \A h : PlaceUnder(h)' = PlaceUnder(h)
           /\ \A h, l : LastBelow(h, l)' <=> LastBelow(h, l)
PROOF
  <1>1. HeaderNames' = HeaderNames
    BY DEF HeaderNames
  <1>2. \A h : PlaceUnder(h)' = PlaceUnder(h)
    BY DEF PlaceUnder
  <1>3. \A h, l : LastBelow(h, l)' <=> LastBelow(h, l)
    BY <1>1 DEF LastBelow
  <1> QED BY <1>1, <1>2, <1>3

\* Every header's name lies well before the open row.
LEMMA NamesBefore ==
    ASSUME TypeOK, OneRow, RunInv, AtLine
    PROVE  \A g \in HeaderNames :
              /\ g \in Nat \ {0} /\ g + 1 < at - Len(current) /\ g < at
              /\ g \in heads /\ g + 1 \in heads
PROOF
  <1>1. /\ at \in Nat \ {0} /\ Len(current) \in Nat
        /\ \A h \in heads : h \in Nat \ {0} /\ h < at - Len(current)
    BY Settled
  <1>2. \A g \in HeaderNames : g \in heads /\ g + 1 \in heads
    BY DEF HeaderNames
  <1> QED BY <1>1, <1>2

\* The same rows are as undisturbed.
LEMMA SameRows ==
    ASSUME rows' = rows, text' = text
    PROVE  \A h, k : Undisturbed(h, k)' <=> Undisturbed(h, k)
PROOF
  BY DEF Undisturbed, Opens

\* A new header is the last one, with nothing under it yet.
LEMMA HeaderGroup ==
    ASSUME TypeOK, OneRow, RunInv, LoopInv, GroupInv, Header
    PROVE  GroupInv'
PROOF
  <1>0. PICK p \in Nat \ {0} : p = at
    BY Typed
  <1>1. /\ AtLine /\ IsBareDuration(text[at]) /\ Len(current) = 1 /\ current # <<>>
        /\ text' = text /\ rows' = rows /\ current' = <<>> /\ at' = at + 1
        /\ group' = Head(current) /\ groupLoc' = None /\ afterHead' = TRUE
        /\ heads' = heads \cup {Head(current), at}
    <2>1. /\ AtLine /\ IsHeader
          /\ group' = Head(current) /\ groupLoc' = None /\ afterHead' = TRUE
          /\ current' = <<>> /\ heads' = heads \cup {Head(current), at}
          /\ at' = at + 1 /\ text' = text /\ rows' = rows
      BY DEF Header
    <2>2. IsBareDuration(text[at]) /\ Len(current) = 1
      BY <2>1 DEF IsHeader
    <2>3. current # <<>>
      BY <2>2
    <2> QED BY <2>1, <2>2, <2>3
  <1>2. /\ at \in Nat \ {0} /\ Head(current) = p - 1 /\ p - 1 \in Nat \ {0}
        /\ \A h \in heads : h \in Nat \ {0} /\ h < p - 1
        /\ \A k \in DOMAIN rows : Opens(k) \in Nat /\ Opens(k) < p - 1
    <2>1. 1 \in DOMAIN current /\ current[1] \in Nat \ {0}
      BY <1>0, <1>1, Typed
    <2> QED BY <1>0, <1>1, <2>1, Settled
  <1>3. heads' = heads \cup {p - 1, p}
    BY <1>0, <1>1, <1>2
  <1>4. p - 1 \in HeaderNames'
    BY <1>0, <1>1, <1>2, <1>3 DEF HeaderNames
  <1>5. ASSUME NEW g \in HeaderNames'
        PROVE  g \in Nat /\ (g = p - 1 \/ g = p - 2 \/ g \in HeaderNames) /\ g =< p - 1
    <2>1. g \in heads' /\ g + 1 \in heads' /\ IsBareDuration(text[g + 1])
      BY <1>0, <1>1, <1>5 DEF HeaderNames
    <2>2. g \in Nat /\ (g = p - 1 \/ g = p - 2 \/ (g \in heads /\ g + 1 \in heads))
      BY <1>0, <1>2, <1>3, <2>1
    <2> QED BY <1>0, <1>2, <2>1, <2>2 DEF HeaderNames
  <1>6. LastBelow(p - 1, at)'
    BY <1>0, <1>1, <1>2, <1>4, <1>5 DEF LastBelow
  <1>7. Undisturbed(p - 1, Len(rows))'
    <2>1. \A j \in 1 .. Len(rows) : ~(Opens(j) > p - 1)
      BY <1>0, <1>2, Typed
    <2>2. Undisturbed(p - 1, Len(rows))
      BY <2>1 DEF Undisturbed
    <2> QED BY <1>0, <1>1, <2>2 DEF Undisturbed, Opens
  <1>8. PlaceUnder(p - 1)' = None
    <2>1. \A l \in heads' : ~(l > p)
      BY <1>0, <1>2, <1>3
    <2>2. {l \in heads' : /\ l > (p - 1) + 1
                          /\ \A m \in ((p - 1) + 2) .. l :
                                LooksLikeLocation(text'[m])} = {}
      BY <1>0, <1>2, <2>1
    <2> QED BY <2>2 DEF PlaceUnder
  <1>9. Mark' = p
    BY <1>0, <1>1, <1>2 DEF Mark
  <1>10. ASSUME NEW g \in HeaderNames', g # p - 1
         PROVE  Interrupted(g + 2, Mark)'
    <2>1. CASE g = p - 2
      <3>1. ~LooksLikeLocation(text[p])
        BY <1>0, <1>1 DEF IsBareDuration, LooksLikeLocation
      <3>2. p \in (g + 2) .. p
        BY <1>0, <1>2, <2>1
      <3> QED BY <1>0, <1>1, <1>9, <3>1, <3>2 DEF Interrupted
    <2>2. CASE g \in HeaderNames
      <3>1. ~IsHeaderPlace
        BY <1>1 DEF RunInv, IsHeaderPlace
      <3>2. Interrupted(g + 2, p - 1)
        BY <1>0, <1>1, <2>2, <3>1, CutOff
      <3>3. Interrupted(g + 2, p)'
        BY <1>0, <1>1, <1>2, <1>5, <1>10, <3>2, StaysInterrupted
      <3> QED BY <1>9, <3>3 DEF Interrupted
    <2> QED BY <1>5, <1>10, <2>1, <2>2
  <1>11. HeadedBy(p - 1)'
    <2>1. group' = p - 1 /\ groupLoc' = None /\ afterHead' = TRUE
      BY <1>0, <1>1, <1>2
    <2>2. \A m \in ((p - 1) + 2) .. (at' - 1) : FALSE
      BY <1>0, <1>1, <1>2
    <2>3. LastBelow(p - 1, at)' /\ \A g \in HeaderNames' : g # p - 1 => Interrupted(g + 2, Mark)'
      BY <1>6, <1>10
    <2> QED BY <1>7, <1>8, <2>1, <2>2, <2>3 DEF HeadedBy
  <1> QED BY <1>4, <1>11 DEF GroupInv

\* A place under a header is found before a row opens.
LEMMA HeaderPlaceGroup ==
    ASSUME TypeOK, OneRow, RunInv, LoopInv, GroupInv, HeaderPlace
    PROVE  GroupInv'
PROOF
  <1>0. PICK p \in Nat \ {0} : p = at
    BY Typed
  <1>1. /\ AtLine /\ afterHead /\ afterHead' = afterHead
        /\ LooksLikeLocation(text[at]) /\ current = <<>>
        /\ text' = text /\ rows' = rows /\ current' = <<>> /\ at' = at + 1
        /\ group' = group /\ groupLoc' = at /\ heads' = heads \cup {at}
    BY DEF HeaderPlace, IsHeaderPlace, RunInv
  <1>2. /\ at \in Nat \ {0} /\ Mark = at - 1 /\ Mark' = p
        /\ \A h \in heads : h \in Nat \ {0} /\ h < at
    BY <1>0, <1>1, NextLineIsNew, Typed DEF Mark
  <1>3. HeaderNames' = HeaderNames
    <2>1. ~IsBareDuration(text[at])
      BY <1>1 DEF IsBareDuration, LooksLikeLocation
    <2>2. ASSUME NEW g \in HeaderNames' PROVE g \in HeaderNames
      <3>1. g \in heads' /\ g + 1 \in heads' /\ IsBareDuration(text[g + 1])
        BY <1>0, <1>1, <2>2 DEF HeaderNames
      <3>2. g + 1 # at /\ g \in Nat
        BY <1>0, <1>1, <1>2, <2>1, <3>1
      <3>3. g + 1 \in heads /\ g \in heads
        BY <1>0, <1>1, <1>2, <3>1, <3>2
      <3> QED BY <3>1, <3>3 DEF HeaderNames
    <2>3. ASSUME NEW g \in HeaderNames PROVE g \in HeaderNames'
      BY <1>0, <1>1, <2>3 DEF HeaderNames
    <2> QED BY <2>2, <2>3
  <1>4. PICK h \in HeaderNames : HeadedBy(h)
    BY <1>1 DEF GroupInv
  <1>5. h \in heads /\ h + 1 \in heads /\ h \in Nat \ {0} /\ h + 1 < at
    BY <1>2 DEF HeaderNames
  <1>6. Undisturbed(h, Len(rows)) /\ group = h /\ Undisturbed(h, Len(rows))'
    <2>1. group # None
      BY <1>1 DEF LoopInv
    <2>2. Undisturbed(h, Len(rows)) /\ group = h
      BY <1>4, <2>1 DEF HeadedBy
    <2> QED BY <1>0, <1>1, <2>2 DEF Undisturbed, Opens
  <1>7. \A m \in (h + 2) .. p : m \in heads' /\ LooksLikeLocation(text[m])
    <2>1. \A m \in (h + 2) .. (at - 1) : m \in heads /\ LooksLikeLocation(text[m])
      BY <1>0, <1>1, <1>4 DEF HeadedBy
    <2> QED BY <1>0, <1>1, <1>2, <1>5, <2>1
  <1>8. PlaceUnder(h)' = p
    <2> DEFINE run == {l \in heads' : /\ l > h + 1
                                      /\ \A m \in (h + 2) .. l :
                                            LooksLikeLocation(text'[m])}
    <2>1. p \in run
      BY <1>0, <1>1, <1>5, <1>7
    <2>2. run \subseteq Int /\ \A l \in run : l =< p
      BY <1>0, <1>1, <1>2
    <2>3. run # {} /\ Max(run) = p
      <3> HIDE DEF run
      <3> QED BY <2>1, <2>2, MaxIs
    <2> QED BY <2>3 DEF PlaceUnder
  <1>9. LastBelow(h, at)'
    <2>1. \A g \in HeaderNames : g \in heads /\ g < at
      BY <1>2 DEF HeaderNames
    <2>2. LastBelow(h, at)
      BY <1>4 DEF HeadedBy
    <2>3. h \in HeaderNames' /\ h < at' /\ \A g \in HeaderNames' : g =< h
      <3>1. \A g \in HeaderNames : g =< h
        BY <2>1, <2>2 DEF LastBelow
      <3>2. h < at'
        BY <1>1, <1>2, <1>5
      <3> QED BY <1>3, <3>1, <3>2
    <2> QED BY <2>3 DEF LastBelow
  <1>10. ASSUME NEW g \in HeaderNames', g # h
         PROVE  Interrupted(g + 2, Mark)'
    <2>1. Interrupted(g + 2, Mark) /\ g \in Nat
      BY <1>0, <1>2, <1>3, <1>4, <1>10 DEF HeadedBy, HeaderNames
    <2>2. Interrupted(g + 2, p)'
      BY <1>0, <1>1, <1>2, <2>1, StaysInterrupted
    <2> QED BY <1>0, <1>2, <2>2 DEF Interrupted
  <1>11. HeadedBy(h)'
    <2>1. \A m \in (h + 2) .. (at' - 1) : m \in heads' /\ LooksLikeLocation(text'[m])
      BY <1>0, <1>1, <1>2, <1>7
    <2>2. group' = h /\ groupLoc' = PlaceUnder(h)' /\ afterHead'
      BY <1>0, <1>1, <1>6, <1>8
    <2> QED BY <1>6, <1>9, <1>10, <2>1, <2>2 DEF HeadedBy
  <1> QED BY <1>3, <1>4, <1>11 DEF GroupInv

\* A line that goes on with a row leaves the group as it is.
LEMMA ExtendGroup ==
    ASSUME TypeOK, OneRow, RunInv, LoopInv, GroupInv, Extend
    PROVE  GroupInv'
PROOF
  <1>0. PICK p \in Nat \ {0} : p = at
    BY Typed
  <1>1. /\ AtLine /\ ~IsHeaderPlace /\ heads' = heads /\ text' = text
        /\ rows' = rows /\ group' = group /\ groupLoc' = groupLoc
        /\ afterHead' = FALSE /\ at' = at + 1 /\ current' = Append(current, at)
    BY DEF Extend
  <1>2. PICK n \in Nat : n = Len(current)
    BY Typed
  <1>3. Mark' = p - n
    <2>1. Append(current, at) # <<>> /\ Len(Append(current, at)) = n + 1
      BY <1>2, Typed, AppendIs
    <2> QED BY <1>0, <1>1, <1>2, <2>1 DEF Mark
  <1>4. /\ HeaderNames' = HeaderNames
        /\ \A h : PlaceUnder(h)' = PlaceUnder(h)
        /\ \A h, l : LastBelow(h, l)' <=> LastBelow(h, l)
        /\ \A h, k : Undisturbed(h, k)' <=> Undisturbed(h, k)
    BY <1>1, SameNames, SameRows
  <1>5. \A g \in HeaderNames : Interrupted(g + 2, Mark)'
    <2>1. \A g \in HeaderNames : Interrupted(g + 2, p - n)
      BY <1>0, <1>1, <1>2, CutOff
    <2> QED BY <1>1, <1>3, <2>1 DEF Interrupted
  <1>6. CASE HeaderNames = {} /\ group = None /\ groupLoc = None
    BY <1>1, <1>4, <1>6 DEF GroupInv
  <1>7. CASE \E h \in HeaderNames : HeadedBy(h)
    <2>1. PICK h \in HeaderNames : HeadedBy(h)
      BY <1>7
    <2>2. LastBelow(h, at)'
      <3>1. \A g \in HeaderNames : g =< h /\ g < at'
        BY <1>0, <1>1, <2>1, NamesBefore DEF HeadedBy, LastBelow
      <3> QED BY <1>4, <3>1 DEF LastBelow
    <2>3. /\ group' = IF Undisturbed(h, Len(rows))' THEN h ELSE None
          /\ groupLoc' = IF Undisturbed(h, Len(rows))' THEN PlaceUnder(h)' ELSE None
      <3>1. Undisturbed(h, Len(rows))' <=> Undisturbed(h, Len(rows))
        BY <1>1 DEF Undisturbed, Opens
      <3>2. /\ group = IF Undisturbed(h, Len(rows)) THEN h ELSE None
            /\ groupLoc = IF Undisturbed(h, Len(rows)) THEN PlaceUnder(h) ELSE None
        BY <2>1 DEF HeadedBy
      <3> QED BY <1>1, <1>4, <3>1, <3>2
    <2>4. HeadedBy(h)'
      BY <1>1, <1>4, <1>5, <2>2, <2>3 DEF HeadedBy
    <2> QED BY <1>4, <2>4 DEF GroupInv
  <1> QED BY <1>6, <1>7 DEF GroupInv

\* The row that is closed begins with the first line of the open row and is
\* in the group it left the first loop in.
LEMMA CloseIs ==
    ASSUME TypeOK, OneRow, RunInv, Close
    PROVE  /\ rows' = Append(rows, Row(Append(current, at), group', groupLoc'))
           /\ Append(current, at) # <<>>
           /\ Head(Append(current, at)) = at - Len(current)
PROOF
  <1>1. rows' = Append(rows, Row(Append(current, at), group', groupLoc')) /\ AtLine
    BY DEF Close
  <1>2. /\ current \in Seq(Nat) /\ at \in Nat /\ Len(current) \in Nat
        /\ DOMAIN current = 1 .. Len(current)
    BY Typed
  <1> DEFINE L == Append(current, at)
  <1>3. /\ L \in Seq(Nat) /\ L # <<>> /\ L[Len(current) + 1] = at
        /\ \A a \in DOMAIN current : L[a] = current[a]
    <2>1. current \in Seq(Nat) /\ at \in Nat
      BY <1>2
    <2> QED BY <2>1
  <1>4. Head(L) = L[1]
    <2> HIDE DEF L
    <2> QED BY <1>3, TailIs
  <1> HIDE DEF L
  <1>5. L[1] = at - Len(current)
    <2>1. CASE current = <<>>
      BY <1>2, <1>3, <2>1
    <2>2. CASE current # <<>>
      <3>1. current[1] = at - Len(current) /\ 1 \in DOMAIN current
        BY <1>1, <1>2, <2>2, Settled
      <3> QED BY <1>3, <3>1
    <2> QED BY <2>1, <2>2
  <1> QED BY <1>1, <1>3, <1>4, <1>5 DEF L

\* Closing a row asks whether it leaves the group.
LEMMA CloseGroup ==
    ASSUME TypeOK, OneRow, RunInv, LoopInv, GroupInv, Close
    PROVE  GroupInv'
PROOF
  <1> DEFINE L == Append(current, at)
             own == NamesItsOwnEmployer(L, text)
             leaves == group # None /\ own
  <1>0. PICK p \in Nat \ {0} : p = at
    BY Typed
  <1>1. /\ AtLine /\ ~IsHeaderPlace /\ heads' = heads /\ text' = text
        /\ group' = IF leaves THEN None ELSE group
        /\ groupLoc' = IF leaves THEN None ELSE groupLoc
        /\ afterHead' = FALSE /\ at' = at + 1 /\ current' = <<>>
    BY DEF Close
  <1>2. PICK n \in Nat : n = Len(current)
    BY Typed
  <1>3. Mark' = p
    BY <1>0, <1>1 DEF Mark
  <1>4. /\ HeaderNames' = HeaderNames
        /\ \A h : PlaceUnder(h)' = PlaceUnder(h)
    BY <1>1, SameNames
  <1>5. \A g \in HeaderNames : Interrupted(g + 2, Mark)'
    <2> SUFFICES ASSUME NEW g \in HeaderNames PROVE Interrupted(g + 2, Mark)'
      OBVIOUS
    <2>1. Interrupted(g + 2, p - n) /\ g \in Nat
      BY <1>0, <1>1, <1>2, CutOff, NamesBefore
    <2>2. Interrupted(g + 2, p)'
      BY <1>0, <1>1, <1>2, <2>1, StaysInterrupted
    <2> QED BY <1>3, <2>2 DEF Interrupted
  <1>6. /\ rows' = Append(rows, Row(L, group', groupLoc')) /\ Head(L) = p - n
    BY <1>0, <1>2, CloseIs
  <1>7. PICK m \in Nat : m = Len(rows)
    BY Typed
  <1> HIDE DEF L
  <1>8. /\ Len(rows') = m + 1 /\ rows'[m + 1].lines = L
        /\ \A j \in 1 .. m : rows'[j] = rows[j]
    BY <1>6, <1>7, Typed DEF Row
  <1>9. ASSUME NEW h \in HeaderNames
        PROVE  Undisturbed(h, Len(rows))' <=> Undisturbed(h, Len(rows)) /\ ~own
    <2>1. h \in Nat /\ h < p - n
      BY <1>0, <1>1, <1>2, NamesBefore
    <2>2. /\ \A j \in 1 .. m : Opens(j)' = Opens(j) /\ rows'[j].lines = rows[j].lines
          /\ Opens(m + 1)' = p - n
      BY <1>6, <1>8 DEF Opens
    <2>3. \A j \in 1 .. m + 1 : j = m + 1 \/ j \in 1 .. m
      OBVIOUS
    <2>4. Undisturbed(h, Len(rows))' <=>
             /\ \A j \in 1 .. m : Opens(j)' > h => ~NamesItsOwnEmployer(rows'[j].lines, text)
             /\ Opens(m + 1)' > h => ~NamesItsOwnEmployer(rows'[m + 1].lines, text)
      <3>1. Undisturbed(h, Len(rows))' <=>
                \A j \in 1 .. m + 1 :
                   Opens(j)' > h => ~NamesItsOwnEmployer(rows'[j].lines, text)
        BY <1>1, <1>8 DEF Undisturbed
      <3> QED BY <2>3, <3>1
    <2>5. (Opens(m + 1)' > h => ~NamesItsOwnEmployer(rows'[m + 1].lines, text)) <=> ~own
      BY <1>8, <2>1, <2>2
    <2> QED BY <1>7, <2>2, <2>4, <2>5 DEF Undisturbed
  <1>10. CASE HeaderNames = {} /\ group = None /\ groupLoc = None
    BY <1>1, <1>4, <1>10 DEF GroupInv
  <1>11. CASE \E h \in HeaderNames : HeadedBy(h)
    <2>1. PICK h \in HeaderNames : HeadedBy(h)
      BY <1>11
    <2>2. LastBelow(h, at)'
      <3>1. \A g \in HeaderNames : g =< h /\ g < at'
        BY <1>0, <1>1, <2>1, NamesBefore DEF HeadedBy, LastBelow
      <3> QED BY <1>4, <3>1 DEF LastBelow
    <2>3. /\ group' = IF Undisturbed(h, Len(rows))' THEN h ELSE None
          /\ groupLoc' = IF Undisturbed(h, Len(rows))' THEN PlaceUnder(h)' ELSE None
      <3>1. h # None
        BY <1>1, NamesBefore
      <3>2. /\ group = IF Undisturbed(h, Len(rows)) THEN h ELSE None
            /\ groupLoc = IF Undisturbed(h, Len(rows)) THEN PlaceUnder(h) ELSE None
        BY <2>1 DEF HeadedBy
      <3> HIDE DEF own
      <3> QED BY <1>1, <1>4, <1>9, <3>1, <3>2
    <2>4. HeadedBy(h)'
      BY <1>1, <1>4, <1>5, <2>2, <2>3 DEF HeadedBy
    <2> QED BY <1>4, <2>4 DEF GroupInv
  <1> QED BY <1>10, <1>11 DEF GroupInv

\* Closed rows stay in their groups.
LEMMA ClosedRowsStay ==
    ASSUME TypeOK, TypeOK', OneRow, RunInv, RowsInv,
           Header \/ HeaderPlace \/ Extend \/ Close,
           NEW k \in DOMAIN rows
    PROVE  Above(k)' /\ RightGroup(k)'
PROOF
  <1>1. AtLine /\ text' = text
    BY DEF Header, HeaderPlace, Extend, Close
  <1>2. PICK l \in Nat \ {0} : l = Opens(k)
    BY <1>1, Settled
  <1>3. k \in Nat \ {0} /\ DOMAIN rows = 1 .. Len(rows) /\ rows \in Seq(RowType)
        /\ Len(rows) \in Nat
    BY Typed
  <1>4. at \in Nat /\ Len(current) \in Nat /\ l < at - Len(current)
    BY <1>1, <1>2, Settled
  <1>5. \A j \in 1 .. k : rows'[j] = rows[j]
    <2>1. CASE Close
      BY <1>3, <2>1 DEF Close
    <2>2. CASE Header \/ HeaderPlace \/ Extend
      BY <2>2 DEF Header, HeaderPlace, Extend
    <2> QED BY <2>1, <2>2
  <1>6. NewBeyond(l)
    <2>1. CASE Extend \/ Close
      BY <1>1, <2>1 DEF NewBeyond, Extend, Close
    <2>2. CASE HeaderPlace
      BY <1>1, <1>4, <2>2 DEF NewBeyond, HeaderPlace
    <2>3. CASE Header
      <3>1. Len(current) = 1 /\ current # <<>> /\ heads' = heads \cup {Head(current), at}
        <4>1. Len(current) = 1 /\ heads' = heads \cup {Head(current), at}
          BY <2>3 DEF Header, IsHeader
        <4>2. current # <<>>
          BY <4>1
        <4> QED BY <4>1, <4>2
      <3>2. Head(current) = at - 1
        BY <1>1, <3>1, Settled
      <3> QED BY <1>1, <1>4, <3>1, <3>2 DEF NewBeyond
    <2> QED BY <2>1, <2>2, <2>3
  <1>7. Above(k) /\ RightGroup(k)
    BY DEF RowsInv
  <1> QED BY <1>2, <1>3, <1>5, <1>6, <1>7, RowStays

\* The row that is closed is in the right group.
LEMMA ClosedRowIs ==
    ASSUME TypeOK, TypeOK', OneRow, RunInv, LoopInv, GroupInv, Close,
           NEW k \in Nat, k = Len(rows) + 1
    PROVE  Above(k)' /\ RightGroup(k)'
PROOF
  <1>0. PICK l \in Int : l = at - Len(current)
    BY Typed
  <1>1. /\ AtLine /\ ~IsHeaderPlace /\ heads' = heads /\ text' = text
    BY DEF Close
  <1>2. /\ rows'[k] = Row(Append(current, at), group', groupLoc')
        /\ rows'[k].company = group' /\ rows'[k].location = groupLoc'
        /\ Opens(k)' = l /\ Len(rows') = k
    BY <1>0, CloseIs, Typed DEF Row, Opens
  <1>3. /\ HeaderNames' = HeaderNames
        /\ \A h : PlaceUnder(h)' = PlaceUnder(h)
        /\ \A h, i : LastBelow(h, i)' <=> LastBelow(h, i)
    BY <1>1, SameNames
  <1>4. l \in Nat /\ \A g \in HeaderNames : g \in Nat \ {0} /\ g < l /\ g < at
    <2>1. at \in Nat /\ Len(current) \in 0 .. at - 1
      BY <1>1, Settled
    <2> QED BY <1>0, <1>1, <2>1, NamesBefore
  <1>5. \A g \in HeaderNames : Interrupted(g + 2, l)'
    BY <1>0, <1>1, CutOff DEF Interrupted
  <1>6. GroupInv'
    BY CloseGroup
  <1>7. HeaderAbove(l)' = HeaderAbove(l)
    BY <1>3 DEF HeaderAbove
  <1>8. CASE HeaderNames' = {} /\ group' = None /\ groupLoc' = None
    <2>1. HeaderAbove(l) = None
      BY <1>3, <1>4, <1>8, HeaderAboveIs
    <2>2. HeaderAbove(Opens(k))' = None
      BY <1>2, <1>7, <2>1 DEF HeaderAbove
    <2>3. RightGroup(k)'
      BY <1>2, <1>8, <2>2 DEF RightGroup
    <2>4. Above(k)'
      BY <1>8 DEF Above
    <2> QED BY <2>3, <2>4
  <1>9. CASE \E h \in HeaderNames' : HeadedBy(h)'
    <2>1. PICK h \in HeaderNames' : HeadedBy(h)'
      BY <1>9
    <2>2. \A g \in HeaderNames : g =< h
      <3>1. \A g \in HeaderNames' : g < at' => g =< h
        BY <2>1 DEF HeadedBy, LastBelow
      <3>2. at' = at + 1 /\ at \in Nat
        BY Typed DEF Close
      <3> QED BY <1>3, <1>4, <3>1, <3>2
    <2>3. LastBelow(h, l) /\ LastBelow(h, l)'
      BY <1>3, <1>4, <2>1, <2>2 DEF LastBelow
    <2>4. HeaderAbove(l) = h /\ h # None
      BY <1>3, <1>4, <2>1, <2>3, HeaderAboveIs
    <2>5. HeaderAbove(Opens(k))' = h
      BY <1>2, <1>7, <2>4 DEF HeaderAbove
    <2>6. /\ group' = IF Undisturbed(h, k)' THEN h ELSE None
          /\ groupLoc' = IF Undisturbed(h, k)' THEN PlaceUnder(h)' ELSE None
      <3>1. /\ group' = IF Undisturbed(h, Len(rows))' THEN h ELSE None
            /\ groupLoc' = IF Undisturbed(h, Len(rows))' THEN PlaceUnder(h)' ELSE None
        BY <2>1 DEF HeadedBy
      <3>2. Undisturbed(h, Len(rows))' <=> Undisturbed(h, k)'
        BY <1>2 DEF Undisturbed
      <3> QED BY <3>1, <3>2
    <2>7. /\ Undisturbed(HeaderAbove(Opens(k)), k)' <=> Undisturbed(h, k)'
          /\ PlaceUnder(HeaderAbove(Opens(k)))' = PlaceUnder(h)'
      BY <2>5 DEF Undisturbed, PlaceUnder
    <2>8. RightGroup(k)'
      BY <1>2, <2>4, <2>5, <2>6, <2>7 DEF RightGroup
    <2>9. Above(k)'
      <3>1. \E g \in HeaderNames' : LastBelow(g, Opens(k))'
        BY <1>2, <2>1, <2>3 DEF LastBelow
      <3>2. \A g \in HeaderNames' : Interrupted(g + 2, Opens(k))'
        BY <1>2, <1>3, <1>5 DEF Interrupted
      <3> QED BY <3>1, <3>2 DEF Above
    <2> QED BY <2>8, <2>9
  <1> QED BY <1>6, <1>8, <1>9 DEF GroupInv

\* Every step of the first loop keeps the rows in their groups.
LEMMA RowsStep ==
    ASSUME TypeOK, TypeOK', OneRow, RunInv, LoopInv, GroupInv, RowsInv,
           Header \/ HeaderPlace \/ Extend \/ Close
    PROVE  RowsInv'
PROOF
  <1> SUFFICES ASSUME NEW k \in DOMAIN rows' PROVE Above(k)' /\ RightGroup(k)'
    BY DEF RowsInv
  <1>1. CASE k \in DOMAIN rows
    BY <1>1, ClosedRowsStay
  <1>2. CASE k \notin DOMAIN rows
    <2>1. CASE Header \/ HeaderPlace \/ Extend
      BY <1>2, <2>1 DEF Header, HeaderPlace, Extend
    <2>2. CASE Close
      <3>1. /\ rows' = Append(rows, Row(Append(current, at), group', groupLoc'))
            /\ rows \in Seq(RowType) /\ DOMAIN rows = 1 .. Len(rows) /\ Len(rows) \in Nat
        BY <2>2, Typed DEF Close
      <3>2. k \in Nat /\ k = Len(rows) + 1
        BY <1>2, <3>1
      <3> QED BY <2>2, <3>2, ClosedRowIs
    <2> QED BY <2>1, <2>2
  <1> QED BY <1>1, <1>2

-----------------------------------------------------------------------------
(* The theorems.                                                           *)

LEMMA FlatInvInit == Init => FlatInv
PROOF
  <1> SUFFICES ASSUME Init PROVE FlatInv
    OBVIOUS
  <1>1. text \in Seq(Kinds) /\ Len(text) \in Nat /\ DOMAIN text = 1 .. Len(text)
    BY DEF Init
  <1>2. TypeOK
    <2>1. \A S : <<>> \in Seq(S)
      OBVIOUS
    <2>2. afterHead \in BOOLEAN
      BY Zenon DEF Init
    <2>3. /\ rows \in Seq([lines : Seq(DOMAIN text), company : Lines, location : Lines])
          /\ current \in Seq(DOMAIN text) /\ out \in Seq(Entities(text))
      BY <2>1, Zenon DEF Init
    <2>4. /\ text \in Texts /\ stage = "split" /\ at = 1 /\ heads = {}
          /\ group = None /\ groupLoc = None /\ None \in Lines
      BY <1>1 DEF Init, Lines
    <2> QED BY <2>2, <2>3, <2>4 DEF TypeOK
  <1>3. LoopInv
    BY <1>1 DEF Init, LoopInv
  <1>4. EveryLineInOneRow
    <2>1. rows = <<>> /\ current = <<>> /\ heads = {} /\ stage = "split" /\ at = 1
      BY DEF Init
    <2>2. /\ pieces \in Lists(Len(rows) + 1) /\ DOMAIN pieces = 1 .. Len(rows) + 1
          /\ pieces[Len(rows) + 1] = current
      BY <1>2, PiecesAre
    <2>3. DOMAIN pieces = {1} /\ pieces[1] = <<>> /\ DOMAIN pieces[1] = {}
      BY <2>1, <2>2
    <2>4. OneRow
      BY <2>1, <2>3 DEF OneRow, Tiled, In, Read
    <2> QED BY <1>2, <2>4, OneRowIs
  <1>5. RunInv /\ RowsInv
    BY DEF Init, RunInv, RowsInv
  <1>6. GroupInv
    BY DEF Init, GroupInv, HeaderNames
  <1> QED BY <1>2, <1>3, <1>4, <1>5, <1>6 DEF FlatInv

LEMMA FlatInvStep == FlatInv /\ [Next]_vars => FlatInv'
PROOF
  <1> SUFFICES ASSUME FlatInv, [Next]_vars PROVE FlatInv'
    OBVIOUS
  <1>1. TypeOK /\ LoopInv /\ EveryLineInOneRow /\ OneRow
    BY OneRowIs DEF FlatInv
  <1>2. TypeOK' /\ LoopInv'
    BY <1>1, TypeStep, LoopStep
  <1>3. EveryLineInOneRow'
    BY <1>1, <1>2, LinesStep
  <1>4. ASSUME stage' = "split" PROVE RunInv' /\ GroupInv' /\ RowsInv'
    <2>1. CASE UNCHANGED vars
      <3>1. RunInv /\ GroupInv /\ RowsInv
        BY <1>4, <2>1 DEF FlatInv, vars
      <3>2. RunInv'
        BY <2>1, <3>1 DEF RunInv, vars
      <3>3. heads' = heads /\ text' = text /\ rows' = rows /\ at' = at
            /\ current' = current /\ group' = group /\ groupLoc' = groupLoc
            /\ afterHead' = afterHead
        BY <2>1 DEF vars
      <3>4. GroupInv'
        BY <3>1, <3>3 DEF GroupInv, HeadedBy, HeaderNames, LastBelow, Undisturbed, Opens,
              PlaceUnder, Interrupted, Mark
      <3>5. RowsInv'
        BY <3>1, <3>3 DEF RowsInv, Above, RightGroup, HeaderAbove, HeaderNames, LastBelow,
              Undisturbed, Opens, PlaceUnder, Interrupted
      <3> QED BY <3>2, <3>4, <3>5
    <2>2. CASE Header \/ HeaderPlace \/ Extend \/ Close
      <3>1. RunInv /\ GroupInv /\ RowsInv
        BY <2>2 DEF FlatInv, Header, HeaderPlace, Extend, Close, AtLine
      <3>2. RunInv'
        BY <1>1, <2>2, <3>1, RunStep
      <3>3. RowsInv'
        BY <1>1, <1>2, <2>2, <3>1, RowsStep
      <3>4. GroupInv'
        BY <1>1, <2>2, <3>1, HeaderGroup, HeaderPlaceGroup, ExtendGroup, CloseGroup
      <3> QED BY <3>2, <3>3, <3>4
    <2>3. CASE EndOfText \/ HandBack \/ NextRow \/ RowsRead
      BY <1>4, <2>3 DEF EndOfText, HandBack, NextRow, RowsRead
    <2>4. CASE DropRow \/ KeepRow \/ RowsKept \/ MapRow
      BY <1>4, <2>4 DEF DropRow, KeepRow, RowsKept, MapRow
    <2> QED BY <2>1, <2>2, <2>3, <2>4 DEF Next
  <1> QED BY <1>2, <1>3, <1>4 DEF FlatInv

\* The inductive invariant holds of every card.
THEOREM FlatInvariant == Spec => []FlatInv
PROOF
  <1> QED BY FlatInvInit, FlatInvStep, PTL DEF Spec

\* Whatever the card, the four loops keep their state in its types: no row,
\* header or place is a line that the card does not have.
THEOREM FlatTypeCorrect == Spec => []TypeOK
PROOF
  <1>1. FlatInv => TypeOK
    BY DEF FlatInv
  <1> QED BY <1>1, FlatInvariant, PTL

\* Whatever the card, no loop of parseFlatEntities loses a line, keeps it twice
\* or moves it past another one.
THEOREM LinesAreKept == Spec => []EveryLineInOneRow
PROOF
  <1>1. FlatInv => EveryLineInOneRow
    BY DEF FlatInv
  <1> QED BY <1>1, FlatInvariant, PTL

\* Whatever the card, a header's employer and place reach the rows from the
\* header to the first one that names its own employer, and no others.
THEOREM GroupsEndAtOwnEmployer == Spec => []GroupEndsAtOwnEmployer
PROOF
  <1>1. FlatInv => GroupEndsAtOwnEmployer
    <2> SUFFICES ASSUME FlatInv, stage = "split", NEW k \in DOMAIN rows
                 PROVE  LET h == HeaderAbove(Head(rows[k].lines))
                            within == /\ h # None
                                      /\ \A j \in 1 .. k :
                                            Head(rows[j].lines) > h
                                            => ~NamesItsOwnEmployer(rows[j].lines, text)
                        IN  /\ rows[k].company = IF within THEN h ELSE None
                            /\ rows[k].location = IF within THEN PlaceUnder(h) ELSE None
      BY DEF GroupEndsAtOwnEmployer
    <2>1. RightGroup(k)
      BY DEF FlatInv, RowsInv
    <2> QED BY <2>1 DEF RightGroup, Undisturbed, Opens
  <1> QED BY <1>1, FlatInvariant, PTL

-----------------------------------------------------------------------------
(* What is inherited comes from a header.                                  *)

FromHeader(l) == l \in heads \cup {None}

SourceInv ==
    /\ FromHeader(group) /\ FromHeader(groupLoc)
    /\ \A k \in DOMAIN rows : FromHeader(rows[k].company) /\ FromHeader(rows[k].location)

LEMMA RowAdded ==
    ASSUME rows \in Seq(RowType), NEW L, NEW c, NEW p,
           NEW k \in DOMAIN Append(rows, Row(L, c, p))
    PROVE  LET r == Append(rows, Row(L, c, p))[k]
           IN  (k \in DOMAIN rows /\ r = rows[k]) \/ (r.company = c /\ r.location = p)
PROOF
  <1> DEFINE new == Row(L, c, p)
             S == RowType \cup {new}
  <1>1. rows \in Seq(S)
    OBVIOUS
  <1>2. new \in S /\ new.company = c /\ new.location = p
    BY DEF Row
  <1> HIDE DEF new, S
  <1>3. \A a \in DOMAIN Append(rows, new) :
           \/ a \in DOMAIN rows /\ Append(rows, new)[a] = rows[a]
           \/ Append(rows, new)[a] = new
    BY <1>1, <1>2
  <1> QED BY <1>2, <1>3 DEF new

LEMMA SourceStep ==
    ASSUME FlatInv, TypeOK', SourceInv, [Next]_vars
    PROVE  SourceInv'
PROOF
  <1> USE DEF SourceInv, FromHeader
  <1>0. TypeOK /\ LoopInv
    BY DEF FlatInv
  <1>1. CASE Header
    <2>1. heads' = heads \cup {Head(current), at} /\ group' = Head(current)
          /\ groupLoc' = None /\ rows' = rows
      BY <1>1 DEF Header
    <2> QED BY <2>1
  <1>2. CASE HeaderPlace
    <2>1. heads' = heads \cup {at} /\ group' = group /\ groupLoc' = at /\ rows' = rows
      BY <1>2 DEF HeaderPlace
    <2> QED BY <2>1
  <1>3. CASE Close
    <2>1. /\ heads' = heads
          /\ group' = group \/ group' = None
          /\ groupLoc' = groupLoc \/ groupLoc' = None
      BY <1>3 DEF Close
    <2>2. rows' = Append(rows, Row(Append(current, at), group', groupLoc'))
      BY <1>3 DEF Close
    <2>3. \A k \in DOMAIN rows' :
             \/ k \in DOMAIN rows /\ rows'[k] = rows[k]
             \/ rows'[k].company = group' /\ rows'[k].location = groupLoc'
      BY <1>0, <2>2, RowAdded, Typed
    <2> QED BY <2>1, <2>3
  <1>4. CASE EndOfText
    <2>1. heads' = heads /\ group' = group /\ groupLoc' = groupLoc
      BY <1>4 DEF EndOfText
    <2>2. rows' = rows \/ rows' = Append(rows, Row(current, group', groupLoc'))
      BY <1>4 DEF EndOfText
    <2>3. \A k \in DOMAIN rows' :
             \/ k \in DOMAIN rows /\ rows'[k] = rows[k]
             \/ rows'[k].company = group' /\ rows'[k].location = groupLoc'
      BY <1>0, <2>2, RowAdded, Typed
    <2> QED BY <2>1, <2>3
  <1>5. CASE HandBack
    <2>1. heads' = heads /\ group' = group /\ groupLoc' = groupLoc
      BY <1>5 DEF HandBack
    <2>2. /\ rows' \in Seq(RowType) /\ Len(rows') = Len(rows)
          /\ \A k \in DOMAIN rows : /\ rows'[k].company = rows[k].company
                                    /\ rows'[k].location = rows[k].location
      BY <1>0, <1>5, HandBackIs
    <2>3. DOMAIN rows' = DOMAIN rows
      BY <1>0, <2>2, Typed
    <2> QED BY <2>1, <2>2, <2>3
  <1>6. CASE DropRow
    <2>1. heads' = heads /\ group' = group /\ groupLoc' = groupLoc
      BY <1>6 DEF DropRow
    <2>2. \A k \in DOMAIN rows' : \E j \in DOMAIN rows : rows'[k] = rows[j]
      <3>1. /\ at \in 1 .. Len(rows) /\ Len(rows) \in Nat
            /\ DOMAIN rows = 1 .. Len(rows) /\ DOMAIN rows' = 1 .. Len(rows) - 1
            /\ \A k \in 1 .. Len(rows) - 1 :
                  rows'[k] = IF k < at THEN rows[k] ELSE rows[k + 1]
        BY <1>0, <1>6, DropRowIs, Typed
      <3> QED BY <3>1
    <2> QED BY <2>1, <2>2
  <1>7. CASE Extend \/ NextRow \/ RowsRead \/ KeepRow \/ RowsKept \/ MapRow \/ UNCHANGED vars
    <2>1. heads' = heads /\ group' = group /\ groupLoc' = groupLoc /\ rows' = rows
      BY <1>7 DEF Extend, NextRow, RowsRead, KeepRow, RowsKept, MapRow, vars
    <2> QED BY <2>1
  <1> QED BY <1>1, <1>2, <1>3, <1>4, <1>5, <1>6, <1>7 DEF Next

\* The lines of a row are lines of the card, in their order, and none of a
\* header.
LEMMA RowLines ==
    ASSUME FlatInv, NEW k \in DOMAIN rows
    PROVE  /\ rows[k].lines \in Seq(DOMAIN text)
           /\ Apart(rows[k].lines)
           /\ Members(rows[k].lines) \cap heads = {}
PROOF
  <1>1. TypeOK /\ EveryLineInOneRow
    BY DEF FlatInv
  <1>2. rows[k].lines \in Seq(DOMAIN text) /\ text \in Seq(Kinds) /\ k \in Pieces
        /\ Piece(k) = rows[k].lines
    BY <1>1, Typed DEF Pieces, Piece
  <1>3. Apart(rows[k].lines)
    <2> DEFINE s == rows[k].lines
    <2>1. \A a, b \in DOMAIN s : a < b => s[a] < s[b]
      BY <1>1, <1>2 DEF EveryLineInOneRow
    <2>2. DOMAIN s \subseteq Nat /\ \A a \in DOMAIN s : s[a] \in Nat
      BY <1>2
    <2> HIDE DEF s
    <2>3. Apart(s)
      BY <2>1, <2>2 DEF Apart
    <2> QED BY <2>3 DEF s
  <1>4. Members(rows[k].lines) \subseteq InRows
    BY <1>2 DEF InRows, ToSet, Members
  <1> QED BY <1>1, <1>2, <1>3, <1>4 DEF EveryLineInOneRow

\* The lines of the row of e are shared out among the fields of e.
Shared(e) ==
    \A l \in ToSet(e.raw) : Cardinality({f \in Fields : Holds(e, f, l)}) = 1

LEMMA AllShared == FieldsShareOutTheRow <=> \A k \in DOMAIN out : Shared(out[k])
PROOF
  BY DEF FieldsShareOutTheRow, Fields, Holds, Shared

LEMMA FieldsStep ==
    ASSUME FlatInv, SourceInv, FieldsShareOutTheRow, [Next]_vars
    PROVE  FieldsShareOutTheRow'
PROOF
  <1>0. out \in Seq(Entities(text)) /\ TypeOK
    BY DEF FlatInv, TypeOK
  <1>1. /\ \A k \in DOMAIN out : Shared(out[k])
        /\ FieldsShareOutTheRow' <=> \A k \in DOMAIN out' : Shared(out'[k])
    <2>1. \A k \in DOMAIN out : Shared(out[k])
      BY AllShared
    <2>2. FieldsShareOutTheRow' <=> (\A k \in DOMAIN out : Shared(out[k]))'
      BY AllShared, PTL
    <2> QED BY <2>1, <2>2
  <1>2. CASE out' = out
    BY <1>1, <1>2
  <1>3. ASSUME MapRow, out' # out PROVE FieldsShareOutTheRow'
    <2> DEFINE R == rows[at].lines
               e == Inherit(ParseEntity(R, text), rows[at])
    <2>1. at \in DOMAIN rows /\ text \in Seq(Kinds) /\ DOMAIN text = 1 .. Len(text)
      BY <1>0, <1>3, Typed DEF MapRow
    <2>2. R \in Seq(DOMAIN text) /\ Apart(R) /\ Members(R) \cap heads = {}
      BY <2>1, RowLines
    <2>3. None \notin Members(R)
      BY <2>1, <2>2 DEF Members
    <2>4. rows[at].company \notin Members(R) /\ rows[at].location \notin Members(R)
      BY <2>1, <2>2, <2>3 DEF SourceInv, FromHeader
    <2> DEFINE p == ParseEntity(R, text)
    <2>5. out' = Append(out, e)
      BY <1>3 DEF MapRow
    <2> HIDE DEF R
    <2>6. e.raw = R /\ \A l \in Members(R) : InOneField(e, l)
      BY <2>1, <2>2, <2>4, InheritShares
    <2>7. e \in Entities(text)
      BY <1>0, <2>5, OutStep, <1>3
    <2> HIDE DEF e
    <2>8. DOMAIN out' = 1 .. Len(out) + 1 /\ DOMAIN out = 1 .. Len(out) /\ Len(out) \in Nat
          /\ out'[Len(out) + 1] = e /\ \A k \in DOMAIN out : out'[k] = out[k]
      BY <1>0, <2>5, <2>7, AppendIs
    <2>9. Shared(e)
      BY <2>6, OneFieldCounts DEF Shared, ToSet, Members
    <2> QED BY <1>1, <2>8, <2>9
  <1>4. CASE \/ Header \/ HeaderPlace \/ Extend \/ Close \/ EndOfText
             \/ HandBack \/ NextRow \/ RowsRead \/ DropRow \/ KeepRow \/ RowsKept
             \/ UNCHANGED vars
    BY <1>2, <1>4 DEF Header, HeaderPlace, Extend, Close, EndOfText, HandBack, NextRow,
          RowsRead, DropRow, KeepRow, RowsKept, vars
  <1> QED BY <1>2, <1>3, <1>4 DEF Next

\* Whatever the card, ParseEntity and the patch after it drop no line of a row
\* and put none into two fields of the entity.
THEOREM FieldsAreShared == Spec => []FieldsShareOutTheRow
PROOF
  <1> DEFINE Inv == SourceInv /\ FieldsShareOutTheRow
  <1>1. Init => Inv
    BY DEF Init, SourceInv, FromHeader, FieldsShareOutTheRow
  <1>2. FlatInv /\ FlatInv' /\ Inv /\ [Next]_vars => Inv'
    <2> SUFFICES ASSUME FlatInv, FlatInv', SourceInv, FieldsShareOutTheRow, [Next]_vars
                 PROVE  SourceInv' /\ FieldsShareOutTheRow'
      OBVIOUS
    <2>1. TypeOK'
      BY DEF FlatInv
    <2> QED BY <2>1, SourceStep, FieldsStep
  <1> HIDE DEF Inv
  <1>3. Spec => []Inv
    BY <1>1, <1>2, FlatInvariant, PTL DEF Spec
  <1>4. Inv => FieldsShareOutTheRow
    BY DEF Inv
  <1> QED BY <1>3, <1>4, PTL
=============================================================================
