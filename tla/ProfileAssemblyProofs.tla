------------------------ MODULE ProfileAssemblyProofs ------------------------
(***************************************************************************)
(* Proofs about ProfileAssembly for any cards and any answers.             *)
(***************************************************************************)
EXTENDS ProfileAssembly, ListsProofs

-----------------------------------------------------------------------------
(* The cards.                                                              *)

Cards == {Shell} \cup ToSet(CardOrder)

\* The cards that have been parsed, well or not.
Done == DOMAIN fetched.cards \ Members(names)

Good(set) == {c \in set : fetched.cards[c].ok}

\* Each card is still to be parsed, or it has an outline or is reported.
CardsInv ==
    /\ fetched \in Fetches
    /\ stage \in {"parse", "merge", "parsed", "done"}
    /\ names \in Seq(Cards) /\ Apart(names)
    /\ Members(names) \subseteq DOMAIN fetched.cards
    /\ stage # "parse" => names = <<>>
    /\ cardsFailed \in Seq(Cards) /\ Apart(cardsFailed)
    /\ Members(cardsFailed) =
          (Done \ Good(Done)) \cup (IF stage = "done" THEN fetched.failed ELSE {})
    /\ cardsFailed # <<>> => warnings # {}
    /\ DOMAIN outlines = 1 .. Len(outlines)
    /\ IsFiniteSet(Good(Done)) /\ Len(outlines) = Cardinality(Good(Done))

LEMMA FetchIs ==
    ASSUME fetched \in Fetches
    PROVE  /\ Shell \in DOMAIN fetched.cards /\ DOMAIN fetched.cards \subseteq Cards
           /\ fetched.failed \subseteq Cards \ DOMAIN fetched.cards
           /\ CardOrder \in Seq(Cards) /\ Apart(CardOrder)
           /\ Shell \notin Members(CardOrder)
           /\ Cards = {Shell} \cup Members(CardOrder)
PROOF
  <1>1. ToSet(CardOrder) = Members(CardOrder)
    BY DEF ToSet, Members
  <1>2. \A S, T : S \subseteq T => Seq(S) \subseteq Seq(T)
    OBVIOUS
  <1>3. CardOrder \in Seq(Cards)
    BY <1>2, CardOrderAssumption DEF Cards
  <1>4. Apart(CardOrder)
    BY CardOrderAssumption DEF Apart, IsInjective
  <1>5. /\ Shell \notin ToSet(CardOrder) /\ Shell \in DOMAIN fetched.cards
        /\ DOMAIN fetched.cards \subseteq {Shell} \cup ToSet(CardOrder)
        /\ fetched.failed \subseteq ToSet(CardOrder) \ DOMAIN fetched.cards
    BY CardOrderAssumption, FetchesAssumption
  <1> QED BY <1>1, <1>3, <1>4, <1>5 DEF Cards

LEMMA OrderIs ==
    ASSUME fetched \in Fetches
    PROVE  LET order == InOrder(DOMAIN fetched.cards)
           IN  /\ order \in Seq(Cards) /\ Apart(order)
               /\ Members(order) = DOMAIN fetched.cards
PROOF
  <1> DEFINE D == DOMAIN fetched.cards
             rest == Only(CardOrder, D)
  <1>1. /\ Shell \in D /\ D \subseteq Cards /\ CardOrder \in Seq(Cards) /\ Apart(CardOrder)
        /\ Shell \notin Members(CardOrder) /\ Cards = {Shell} \cup Members(CardOrder)
    BY FetchIs
  <1> HIDE DEF D
  <1>2. rest \in Seq(Cards) /\ Members(rest) = Members(CardOrder) \cap D /\ Apart(rest)
    BY <1>1, OnlyMembers
  <1> DEFINE first == <<Shell>>
  <1>3. first \in Seq(Cards) /\ Members(first) = {Shell} /\ Apart(first)
    <2>1. DOMAIN first = {1} /\ first[1] = Shell
      OBVIOUS
    <2>2. first \in Seq(Cards)
      BY <1>1
    <2> HIDE DEF first
    <2> QED BY <2>1, <2>2 DEF Members, Apart
  <1> HIDE DEF rest, first
  <1>4. /\ first \o rest \in Seq(Cards)
        /\ Members(first \o rest) = Members(first) \cup Members(rest)
        /\ Apart(first \o rest)
    <2>1. Members(first) \cap Members(rest) = {}
      BY <1>1, <1>2, <1>3
    <2> QED BY <1>2, <1>3, <2>1, ConcatMembers
  <1>5. Members(first \o rest) = D
    BY <1>1, <1>2, <1>3, <1>4
  <1>6. InOrder(D) = first \o rest
    BY DEF InOrder, first, rest
  <1> QED BY <1>4, <1>5, <1>6 DEF D

LEMMA CardsInit == Init => CardsInv
PROOF
  <1> SUFFICES ASSUME Init PROVE CardsInv
    OBVIOUS
  <1>1. /\ fetched \in Fetches /\ stage = "parse" /\ names = InOrder(DOMAIN fetched.cards)
        /\ outlines = <<>> /\ cardsFailed = <<>>
    BY DEF Init
  <1>2. /\ names \in Seq(Cards) /\ Apart(names) /\ Members(names) = DOMAIN fetched.cards
    BY <1>1, OrderIs
  <1>3. Done = {} /\ Good(Done) = {}
    BY <1>2 DEF Done, Good
  <1>4. cardsFailed \in Seq(Cards) /\ Apart(cardsFailed) /\ Members(cardsFailed) = {}
    BY <1>1 DEF Apart, Members
  <1>5. IsFiniteSet(Good(Done)) /\ Cardinality(Good(Done)) = 0
    BY <1>3, FS_EmptySet
  <1>6. DOMAIN outlines = 1 .. Len(outlines) /\ Len(outlines) = 0
    BY <1>1
  <1> QED BY <1>1, <1>2, <1>3, <1>4, <1>5, <1>6 DEF CardsInv

LEMMA CardParsed ==
    ASSUME CardsInv, ParseCard
    PROVE  CardsInv'
PROOF
  <1> DEFINE c == Head(names)
             D == DOMAIN fetched.cards
  <1>1. /\ stage = "parse" /\ names # <<>> /\ names' = Tail(names)
        /\ fetched' = fetched /\ stage' = stage
    BY DEF ParseCard
  <1>2. /\ c \in Cards /\ Tail(names) \in Seq(Cards)
        /\ Members(names) = {c} \cup Members(Tail(names))
        /\ Apart(Tail(names)) /\ c \notin Members(Tail(names))
    BY <1>1, TailMembers DEF CardsInv
  <1>3. /\ names' \in Seq(Cards) /\ Apart(names)'
        /\ Members(names)' = Members(Tail(names))
    BY <1>1, <1>2 DEF Apart, Members
  <1> HIDE DEF c, D
  <1>4. c \in D /\ c \notin Done /\ Done' = Done \cup {c} /\ Members(names)' \subseteq D
    BY <1>1, <1>2, <1>3 DEF CardsInv, Done, D
  <1>5. CASE fetched.cards[c].ok
    <2>1. /\ outlines' = Append(outlines, fetched.cards[c].blocks)
          /\ UNCHANGED <<cardsFailed, warnings>>
      BY <1>5 DEF ParseCard, c
    <2>2. Good(Done)' = Good(Done) \cup {c} /\ c \notin Good(Done)
      BY <1>1, <1>4, <1>5 DEF Good
    <2>3. IsFiniteSet(Good(Done)') /\ Cardinality(Good(Done)') = Cardinality(Good(Done)) + 1
      BY <2>2, FS_AddElement DEF CardsInv
    <2>4. DOMAIN outlines' = 1 .. Len(outlines') /\ Len(outlines') = Len(outlines) + 1
      BY <2>1 DEF CardsInv
    <2>5. Done' \ Good(Done)' = Done \ Good(Done)
      BY <1>4, <2>2
    <2>6. Apart(cardsFailed)' /\ Members(cardsFailed)' = Members(cardsFailed)
      BY <2>1 DEF CardsInv, Apart, Members
    <2> QED BY <1>1, <1>3, <1>4, <2>1, <2>3, <2>4, <2>5, <2>6 DEF CardsInv, D
  <1>6. CASE ~fetched.cards[c].ok
    <2>1. /\ cardsFailed' = Append(cardsFailed, c) /\ warnings' = warnings \cup {"unparseable"}
          /\ outlines' = outlines
      BY <1>6 DEF ParseCard, c
    <2>2. Good(Done)' = Good(Done)
      BY <1>1, <1>4, <1>6 DEF Good
    <2>3. c \notin Members(cardsFailed)
      BY <1>1, <1>4 DEF CardsInv
    <2>4. /\ cardsFailed' \in Seq(Cards) /\ Apart(cardsFailed)'
          /\ Members(cardsFailed)' = Members(cardsFailed) \cup {c}
      <3>1. /\ Append(cardsFailed, c) \in Seq(Cards) /\ Apart(Append(cardsFailed, c))
            /\ Members(Append(cardsFailed, c)) = Members(cardsFailed) \cup {c}
        BY <1>2, <2>3, AppendMembers DEF CardsInv, c
      <3> QED BY <2>1, <3>1 DEF Apart, Members
    <2>5. Done' \ Good(Done)' = (Done \ Good(Done)) \cup {c}
      BY <1>4, <1>6, <2>2 DEF Good
    <2>6. warnings' # {}
      BY <2>1
    <2>7. /\ DOMAIN outlines' = 1 .. Len(outlines')
          /\ IsFiniteSet(Good(Done)') /\ Len(outlines') = Cardinality(Good(Done)')
      BY <2>1, <2>2 DEF CardsInv
    <2>8. Members(cardsFailed) = Done \ Good(Done)
      BY <1>1 DEF CardsInv
    <2> QED BY <1>1, <1>3, <1>4, <2>4, <2>5, <2>6, <2>7, <2>8 DEF CardsInv, D
  <1> QED BY <1>5, <1>6

\* A step that touches neither the cards nor what is reported of them.
LEMMA CardsLeft ==
    ASSUME CardsInv, stage' \in {"merge", "parsed"}, names = <<>>,
           stage \in {"parse", "merge"}, warnings \subseteq warnings',
           UNCHANGED <<fetched, names, outlines, cardsFailed>>
    PROVE  CardsInv'
PROOF
  <1>1. Done' = Done /\ Good(Done)' = Good(Done)
    BY DEF Done, Good, Members
  <1>2. /\ Apart(names)' /\ Members(names)' = Members(names)
        /\ Apart(cardsFailed)' /\ Members(cardsFailed)' = Members(cardsFailed)
    BY DEF CardsInv, Apart, Members
  <1>3. cardsFailed' # <<>> => warnings' # {}
    BY DEF CardsInv
  <1> QED BY <1>1, <1>2, <1>3 DEF CardsInv

\* The walk over the blocks starts when every card is parsed.
LEMMA BlocksLeaveCards ==
    ASSUME CardsInv,
           \/ SkipBlock \/ About
           \/ \E key \in {"skills", "languages"} : Named(key)
           \/ \E key \in EntitySections \cup {"interests"} : Merged(key)
           \/ \E key \in PassthroughSections : Passthrough(key)
    PROVE  CardsInv'
PROOF
  <1>1. /\ stage = "merge" /\ stage' = stage
        /\ UNCHANGED <<fetched, names, outlines, cardsFailed, warnings>>
    BY DEF SkipBlock, About, Named, Merged, Passthrough, Applied, AtBlock
  <1>2. names = <<>>
    BY <1>1 DEF CardsInv
  <1> QED BY <1>1, <1>2, CardsLeft

LEMMA FailedAdded ==
    ASSUME CardsInv, AddFailed
    PROVE  CardsInv'
PROOF
  <1> DEFINE more == Only(CardOrder, fetched.failed)
  <1>1. /\ stage = "parsed" /\ stage' = "done" /\ cardsFailed' = cardsFailed \o more
        /\ UNCHANGED <<fetched, names, outlines>>
        /\ warnings' = IF fetched.failed # {} THEN warnings \cup {"notFetched"}
                                             ELSE warnings
    BY DEF AddFailed
  <1>2. /\ DOMAIN fetched.cards \subseteq Cards
        /\ fetched.failed \subseteq Cards \ DOMAIN fetched.cards
        /\ CardOrder \in Seq(Cards) /\ Apart(CardOrder)
        /\ fetched.failed \subseteq ToSet(CardOrder)
    BY FetchIs, FetchesAssumption DEF CardsInv
  <1>3. Members(CardOrder) \cap fetched.failed = fetched.failed
    BY <1>2 DEF ToSet, Members
  <1>4. more \in Seq(Cards) /\ Members(more) = fetched.failed /\ Apart(more)
    BY <1>2, <1>3, OnlyMembers
  <1> HIDE DEF more
  <1>5. /\ Members(cardsFailed) = Done \ Good(Done) /\ cardsFailed \in Seq(Cards)
        /\ Apart(cardsFailed)
    BY <1>1 DEF CardsInv
  <1>6. Members(cardsFailed) \cap Members(more) = {}
    BY <1>2, <1>4, <1>5 DEF Done
  <1>7. /\ cardsFailed \o more \in Seq(Cards) /\ Apart(cardsFailed \o more)
        /\ Members(cardsFailed \o more) = Members(cardsFailed) \cup Members(more)
    BY <1>4, <1>5, <1>6, ConcatMembers
  <1>8. /\ cardsFailed' \in Seq(Cards) /\ Apart(cardsFailed)'
        /\ Members(cardsFailed)' = (Done \ Good(Done)) \cup fetched.failed
    BY <1>1, <1>4, <1>5, <1>7 DEF Apart, Members
  <1>9. Done' = Done /\ Good(Done)' = Good(Done) /\ Apart(names)' = Apart(names)
        /\ Members(names)' = Members(names)
    BY <1>1 DEF Done, Good, Members, Apart
  <1>10. cardsFailed' # <<>> => warnings' # {}
    <2>1. CASE fetched.failed # {}
      BY <1>1, <2>1
    <2>2. CASE fetched.failed = {}
      <3>1. warnings' = warnings /\ Members(cardsFailed)' = Members(cardsFailed)
        BY <1>1, <1>5, <1>8, <2>2
      <3>2. cardsFailed = <<>> => Members(cardsFailed) = {}
        BY DEF Members
      <3>3. cardsFailed' # <<>> => Members(cardsFailed)' # {}
        BY <1>8 DEF Members
      <3> QED BY <3>1, <3>2, <3>3 DEF CardsInv
    <2> QED BY <2>1, <2>2
  <1>11. stage # "parse" /\ names = <<>>
    BY <1>1 DEF CardsInv
  <1> QED BY <1>1, <1>8, <1>9, <1>10, <1>11 DEF CardsInv

LEMMA CardsNext == CardsInv /\ [Next]_vars => CardsInv'
PROOF
  <1> SUFFICES ASSUME CardsInv, [Next]_vars PROVE CardsInv'
    OBVIOUS
  <1>1. CASE ParseCard
    BY <1>1, CardParsed
  <1>2. CASE AllParsed
    BY <1>2, CardsLeft DEF AllParsed
  <1>3. CASE \/ SkipBlock \/ About
             \/ \E key \in {"skills", "languages"} : Named(key)
             \/ \E key \in EntitySections \cup {"interests"} : Merged(key)
             \/ \E key \in PassthroughSections : Passthrough(key)
    BY <1>3, BlocksLeaveCards
  <1>4. CASE Finish
    <2>1. names = <<>>
      BY <1>4 DEF Finish, CardsInv
    <2> QED BY <1>4, <2>1, CardsLeft DEF Finish
  <1>5. CASE AddFailed
    BY <1>5, FailedAdded
  <1>6. CASE UNCHANGED vars
    BY <1>6 DEF vars, CardsInv, Done, Good, Members, Apart
  <1> QED BY <1>1, <1>2, <1>3, <1>4, <1>5, <1>6 DEF Next

\* When the answer is made no card is left to parse.
LEMMA CardsAreAccounted == CardsInv => EveryCardAccountedFor
PROOF
  <1> SUFFICES ASSUME CardsInv, stage = "done" PROVE EveryCardAccountedFor
    BY DEF EveryCardAccountedFor
  <1> DEFINE D == DOMAIN fetched.cards
             parsed == {c \in D : fetched.cards[c].ok}
  <1>1. names = <<>> /\ D \cap fetched.failed = {}
    BY FetchIs DEF CardsInv
  <1>2. Done = D /\ Good(Done) = parsed
    BY <1>1 DEF Done, Good, Members
  <1>3. ToSet(cardsFailed) = Members(cardsFailed)
    BY DEF ToSet, Members
  <1>4. Members(cardsFailed) = (D \ parsed) \cup fetched.failed
    BY <1>2 DEF CardsInv
  <1>5. (D \cup fetched.failed) \ parsed = (D \ parsed) \cup fetched.failed
    BY <1>1
  <1>6. IsInjective(cardsFailed)
    BY DEF CardsInv, Apart, IsInjective
  <1>7. Len(outlines) = Cardinality(parsed) /\ (cardsFailed # <<>> => warnings # {})
    BY <1>2 DEF CardsInv
  <1> QED BY <1>3, <1>4, <1>5, <1>6, <1>7 DEF EveryCardAccountedFor

\* Whatever the cards hold and whichever of them could not be fetched or parsed:
\* a card asked for is part of the profile or named once in meta.cards_failed,
\* with a warning.
THEOREM CardsAccountedFor == Spec => []EveryCardAccountedFor
PROOF
  <1>1. Spec => []CardsInv
    BY CardsInit, CardsNext, PTL DEF Spec
  <1> QED BY <1>1, CardsAreAccounted, PTL

-----------------------------------------------------------------------------
(* Trees: the lines of a block and the rows that CollectRows finds.        *)

LEMMA LinesAre ==
    ASSUME NEW o, IsOutline(o), NEW i \in DOMAIN o
    PROVE  /\ LinesOf(o, i) \in Seq(OutlineLines(o))
           /\ Members(LinesOf(o, i)) =
                 (UNION {Members(o[j].texts) : j \in Subtree(o, i)}) \ NoiseLines
PROOF
  <1>1. Subtree(o, i) \cap DOMAIN o = Subtree(o, i)
    BY OutlineIs DEF Subtree
  <1>2. LinesOf(o, i) = AllBut(TextsOf(o, Subtree(o, i)), NoiseLines)
    BY DEF LinesOf, CleanLines, AllTexts
  <1>3. TextsOf(o, Subtree(o, i)) \in Seq(OutlineLines(o))
    BY TextsAre
  <1>4. Members(TextsOf(o, Subtree(o, i))) = UNION {Members(o[j].texts) : j \in Subtree(o, i)}
    BY <1>1, TextsAre
  <1> QED BY <1>2, <1>3, <1>4, AllButMembers

\* Children stand behind their parent.
LEMMA ChildrenBelow ==
    ASSUME NEW o, IsOutline(o), NEW i \in DOMAIN o, NEW c \in TextChildren(o, i)
    PROVE  c \in DOMAIN o /\ c > i /\ c \in Subtree(o, i) /\ LinesOf(o, c) # <<>>
PROOF
  <1>1. /\ c \in Subtree(o, i) /\ o[c].level = o[i].level + 1 /\ LinesOf(o, c) # <<>>
    BY DEF TextChildren, ChildSet
  <1>2. c \in i .. Len(o)
    BY <1>1 DEF Subtree
  <1>3. Len(o) \in Nat /\ DOMAIN o = 1 .. Len(o) /\ o[i].level \in Nat
    BY OutlineIs
  <1>4. c # i
    BY <1>1, <1>3
  <1> QED BY <1>1, <1>2, <1>3, <1>4

\* What each child of block i contributes to its rows, and the rows.
RowsFrom(o, rows, i) ==
    [c \in DOMAIN o |->
        IF c \notin TextChildren(o, i) THEN <<>>
        ELSE IF Len(rows[c]) > 1 THEN rows[c] ELSE <<c>>]

RowsStep(o, rows, i) == FlattenSeq(RowsFrom(o, rows, i))

LEMMA RowsLookDown ==
    ASSUME NEW o, IsOutline(o), NEW i \in DOMAIN o, NEW r, NEW q,
           \A c \in DOMAIN o : c > i => r[c] = q[c]
    PROVE  RowsStep(o, r, i) = RowsStep(o, q, i)
PROOF
  <1>1. ASSUME NEW c \in DOMAIN o, c \in TextChildren(o, i) PROVE r[c] = q[c]
    BY <1>1, ChildrenBelow
  <1>2. RowsFrom(o, r, i) = RowsFrom(o, q, i)
    BY <1>1 DEF RowsFrom
  <1> QED BY <1>2 DEF RowsStep

\* CollectRows is what its equation says.
LEMMA CollectRowsIs ==
    ASSUME NEW o, IsOutline(o), NEW i \in DOMAIN o
    PROVE  CollectRows(o)[i] = RowsStep(o, CollectRows(o), i)
PROOF
  <1> DEFINE D == DOMAIN o
             m == Len(o)
             Right(rows, n) == \A k \in D : k > m - n => rows[k] = RowsStep(o, rows, k)
             T == {n \in 0 .. m : \E rows : DOMAIN rows = D /\ Right(rows, n)}
  <1>1. m \in Nat /\ D = 1 .. m
    BY OutlineIs
  <1> HIDE DEF m
  <1>2. 0 \in T
    <2> DEFINE none == [k \in D |-> <<>>]
    <2>1. DOMAIN none = D /\ Right(none, 0)
      BY <1>1
    <2> QED BY <1>1, <2>1
  <1>3. ASSUME NEW n \in 0 .. m, n < m, n \in T PROVE n + 1 \in T
    <2>1. PICK rows : DOMAIN rows = D /\ Right(rows, n)
      BY <1>3
    <2> DEFINE next == [k \in D |-> IF k = m - n THEN RowsStep(o, rows, m - n)
                                                 ELSE rows[k]]
    <2>2. DOMAIN next = D /\ \A k \in D : k # m - n => next[k] = rows[k]
      OBVIOUS
    <2>3. m - n \in D /\ next[m - n] = RowsStep(o, rows, m - n)
      BY <1>1, <1>3
    <2> HIDE DEF next
    <2>4. ASSUME NEW k \in D, k > m - (n + 1) PROVE next[k] = RowsStep(o, next, k)
      <3>1. \A c \in D : c > k => rows[c] = next[c]
        BY <1>1, <1>3, <2>2, <2>4
      <3>2. RowsStep(o, rows, k) = RowsStep(o, next, k)
        <4> HIDE DEF Right
        <4> QED BY <3>1, RowsLookDown
      <3>3. CASE k = m - n
        BY <2>3, <3>2, <3>3
      <3>4. CASE k # m - n
        <4>1. k > m - n
          BY <1>1, <1>3, <2>4, <3>4
        <4> QED BY <2>1, <2>2, <3>2, <3>4, <4>1
      <3> QED BY <3>3, <3>4
    <2>5. n + 1 \in 0 .. m
      BY <1>1, <1>3
    <2> QED BY <2>2, <2>4, <2>5
  <1>4. m \in T
    <2>1. m \in 0 .. m
      BY <1>1
    <2> HIDE DEF T
    <2>2. 0 .. m \subseteq T
      BY <1>1, <1>2, <1>3, BoundedInduction
    <2> QED BY <2>1, <2>2
  <1>5. PICK rows : DOMAIN rows = D /\ Right(rows, m)
    BY <1>4
  <1>6. \A k \in D : k > m - m
    BY <1>1
  <1>7. \A k \in D : rows[k] = RowsStep(o, rows, k)
    BY <1>5, <1>6
  <1> DEFINE Right2(f) == f = [k \in D |-> RowsStep(o, f, k)]
             steps == [k \in D |-> RowsStep(o, rows, k)]
  <1>8. Right2(steps)
    <2>1. \A k \in D : steps[k] = rows[k]
      BY <1>7
    <2>2. ASSUME NEW k \in D PROVE RowsStep(o, rows, k) = RowsStep(o, steps, k)
      <3>1. \A c \in D : c > k => rows[c] = steps[c]
        BY <2>1
      <3> HIDE DEF steps
      <3> QED BY <3>1, RowsLookDown
    <2>3. steps = [k \in D |-> RowsStep(o, steps, k)]
      BY <2>2
    <2> QED BY <2>3
  <1>9. CollectRows(o) = CHOOSE f : Right2(f)
    BY DEF CollectRows, RowsStep, RowsFrom
  <1>10. Right2(CollectRows(o))
    <2> HIDE DEF Right2
    <2> QED BY <1>8, <1>9
  <1> QED BY <1>10

\* The blocks that may be rows: they hold text, and not several rows.
RowBlocks(o) ==
    {c \in DOMAIN o : LinesOf(o, c) # <<>> /\ ~(Len(CollectRows(o)[c]) > 1)}

LEMMA RowsFromIs ==
    ASSUME NEW o, IsOutline(o), NEW i \in DOMAIN o,
           \A c \in DOMAIN o : c > i => CollectRows(o)[c] \in Seq(RowBlocks(o))
    PROVE  RowsFrom(o, CollectRows(o), i) \in Seq(Seq(RowBlocks(o)))
PROOF
  <1> DEFINE R == CollectRows(o)
             S == RowBlocks(o)
             parts == RowsFrom(o, R, i)
  <1>1. Len(o) \in Nat /\ DOMAIN o = 1 .. Len(o)
    BY OutlineIs
  <1>2. DOMAIN parts = DOMAIN o
    BY DEF RowsFrom
  <1>3. ASSUME NEW c \in DOMAIN o PROVE parts[c] \in Seq(S)
    <2>1. parts[c] = IF c \notin TextChildren(o, i) THEN <<>>
                     ELSE IF Len(R[c]) > 1 THEN R[c] ELSE <<c>>
      BY DEF RowsFrom
    <2>2. <<>> \in Seq(S)
      OBVIOUS
    <2>3. ASSUME c \in TextChildren(o, i) PROVE c > i /\ LinesOf(o, c) # <<>>
      BY <2>3, ChildrenBelow
    <2>4. CASE c \in TextChildren(o, i) /\ Len(R[c]) > 1
      BY <2>1, <2>3, <2>4
    <2>5. CASE c \in TextChildren(o, i) /\ ~(Len(R[c]) > 1)
      <3>1. c \in S
        BY <2>3, <2>5 DEF RowBlocks
      <3> HIDE DEF S
      <3>2. <<c>> \in Seq(S)
        BY <3>1
      <3> QED BY <2>1, <2>5, <3>2
    <2>6. CASE c \notin TextChildren(o, i)
      BY <2>1, <2>2, <2>6
    <2> QED BY <2>4, <2>5, <2>6
  <1> HIDE DEF parts, S
  <1>4. parts = [c \in DOMAIN o |-> parts[c]]
    BY <1>2 DEF parts, RowsFrom
  <1>5. parts \in [1 .. Len(o) -> Seq(S)]
    BY <1>1, <1>3, <1>4
  <1>6. parts \in Seq(Seq(S))
    BY <1>1, <1>5
  <1> QED BY <1>6 DEF parts, S

\* The rows of a block are a list of such blocks.
LEMMA CollectedAre ==
    ASSUME NEW o, IsOutline(o), NEW i \in DOMAIN o
    PROVE  CollectRows(o)[i] \in Seq(RowBlocks(o))
PROOF
  <1> DEFINE D == DOMAIN o
             m == Len(o)
             R == CollectRows(o)
             S == RowBlocks(o)
             T == {n \in 0 .. m : \A k \in D : k > m - n => R[k] \in Seq(S)}
  <1>1. m \in Nat /\ D = 1 .. m
    BY OutlineIs
  <1> HIDE DEF m, R, S
  <1>2. 0 \in T
    BY <1>1
  <1>3. ASSUME NEW n \in 0 .. m, n < m, n \in T PROVE n + 1 \in T
    <2>1. m - n \in D /\ \A c \in D : c > m - n => R[c] \in Seq(S)
      BY <1>1, <1>3
    <2>2. R[m - n] \in Seq(S)
      <3> DEFINE k == m - n
      <3>1. k \in D /\ \A c \in D : c > k => R[c] \in Seq(S)
        BY <2>1
      <3> HIDE DEF k
      <3>2. RowsFrom(o, R, k) \in Seq(Seq(S))
        BY <3>1, RowsFromIs DEF R, S
      <3>3. FlattenSeq(RowsFrom(o, R, k)) \in Seq(S)
        BY <3>2, FlattenMembers
      <3>4. R[k] = FlattenSeq(RowsFrom(o, R, k))
        BY <3>1, CollectRowsIs DEF R, RowsStep
      <3> QED BY <3>3, <3>4 DEF k
    <2>3. \A k \in D : k > m - (n + 1) => k > m - n \/ k = m - n
      BY <1>1, <1>3
    <2>4. n + 1 \in 0 .. m
      BY <1>1, <1>3
    <2> QED BY <2>1, <2>2, <2>3, <2>4
  <1>4. m \in T
    <2>1. m \in 0 .. m
      BY <1>1
    <2> HIDE DEF T
    <2>2. 0 .. m \subseteq T
      BY <1>1, <1>2, <1>3, BoundedInduction
    <2> QED BY <2>1, <2>2
  <1>5. i > m - m
    BY <1>1
  <1> QED BY <1>4, <1>5 DEF R, S

-----------------------------------------------------------------------------
(* Runs of lines.                                                          *)

\* needle stands in haystack after off lines.
RunAt(haystack, needle, off) ==
    /\ off \in Nat /\ off + Len(needle) =< Len(haystack)
    /\ \A a \in 1 .. Len(needle) : needle[a] = haystack[off + a]

LEMMA RunIs ==
    ASSUME NEW S, NEW h \in Seq(S), NEW n \in Seq(S), n # <<>>
    PROVE  ContainsRun(h, n) <=> \E off : RunAt(h, n, off)
PROOF
  <1>0. /\ Len(h) \in Nat /\ Len(n) \in Nat \ {0}
        /\ DOMAIN n = 1 .. Len(n) /\ DOMAIN h = 1 .. Len(h)
    OBVIOUS
  <1>1. ASSUME ContainsRun(h, n) PROVE \E off : RunAt(h, n, off)
    <2>1. PICK i \in 0 .. Len(h), j \in 0 .. Len(h) : n = SubSeq(h, i + 1, j)
      BY <1>1 DEF ContainsRun, SubSeqs
    <2>2. CASE i + 1 > j
      <3>1. SubSeq(h, i + 1, j) = <<>>
        BY <2>2, SubSeqProperties
      <3> QED BY <2>1, <3>1
    <2>3. CASE i + 1 =< j
      <3>1. Len(n) = j - i /\ \A a \in 1 .. Len(n) : n[a] = h[i + a]
        <4>1. /\ i + 1 \in 1 .. Len(h) + 1 /\ j \in 0 .. Len(h) /\ i + 1 =< j + 1
          BY <1>0, <2>1, <2>3
        <4>2. Len(SubSeq(h, i + 1, j)) = j - i
          BY <1>0, <2>1, <2>3
        <4>3. \A a \in 1 .. j - i : SubSeq(h, i + 1, j)[a] = h[i + a]
          BY <1>0, <2>1, <2>3
        <4> QED BY <2>1, <4>2, <4>3
      <3>2. RunAt(h, n, i)
        BY <1>0, <2>1, <2>3, <3>1 DEF RunAt
      <3> QED BY <3>2
    <2> QED BY <1>0, <2>1, <2>2, <2>3
  <1>2. ASSUME NEW off, RunAt(h, n, off) PROVE ContainsRun(h, n)
    <2> DEFINE j == off + Len(n)
               q == SubSeq(h, off + 1, j)
    <2>1. /\ off \in 0 .. Len(h) /\ j \in 0 .. Len(h) /\ off + 1 =< j
          /\ \A a \in 1 .. Len(n) : n[a] = h[off + a]
      BY <1>0, <1>2 DEF RunAt
    <2>2. /\ q \in Seq(S) /\ Len(q) = Len(n)
          /\ \A a \in 1 .. Len(n) : q[a] = h[off + a]
      <3>1. off \in Nat /\ j - off = Len(n)
        BY <1>0, <2>1
      <3> HIDE DEF j
      <3>2. q \in Seq(S)
        BY <1>0, <2>1
      <3>3. Len(q) = j - off
        BY <1>0, <2>1
      <3>4. \A a \in 1 .. j - off : q[a] = h[off + a]
        BY <1>0, <2>1
      <3> QED BY <3>1, <3>2, <3>3, <3>4
    <2> HIDE DEF q, j
    <2>3. q = n
      <3>1. \A a \in 1 .. Len(n) : q[a] = n[a]
        BY <2>1, <2>2
      <3> QED BY <2>2, <3>1
    <2> QED BY <2>1, <2>3 DEF ContainsRun, SubSeqs, q
  <1> QED BY <1>1, <1>2

\* A run in a run is a run; a run is no longer than what it is in, and all of it
\* when it is as long.
LEMMA RunsNest ==
    ASSUME NEW S, NEW h \in Seq(S), NEW n \in Seq(S), NEW l \in Seq(S)
    PROVE  /\ h # <<>> => ContainsRun(h, h)
           /\ ContainsRun(h, n) => n # <<>> /\ Len(n) =< Len(h)
           /\ ContainsRun(h, n) /\ Len(n) = Len(h) => n = h
           /\ ContainsRun(h, n) /\ ContainsRun(n, l) => ContainsRun(h, l)
PROOF
  <1>0. Len(h) \in Nat /\ Len(n) \in Nat /\ Len(l) \in Nat
    OBVIOUS
  <1>1. ASSUME h # <<>> PROVE ContainsRun(h, h)
    <2>1. RunAt(h, h, 0)
      BY <1>0 DEF RunAt
    <2> QED BY <1>1, <2>1, RunIs
  <1>2. ASSUME ContainsRun(h, n)
        PROVE  n # <<>> /\ Len(n) =< Len(h) /\ (Len(n) = Len(h) => n = h)
    <2>1. n # <<>>
      BY <1>2 DEF ContainsRun
    <2>2. PICK off : RunAt(h, n, off)
      BY <1>2, <2>1, RunIs
    <2>3. off \in Nat /\ off + Len(n) =< Len(h)
      BY <2>2 DEF RunAt
    <2>4. ASSUME Len(n) = Len(h) PROVE n = h
      <3>1. off = 0
        BY <1>0, <2>3, <2>4
      <3>2. \A a \in 1 .. Len(n) : n[a] = h[a]
        BY <1>0, <2>2, <3>1 DEF RunAt
      <3> QED BY <2>4, <3>2
    <2> QED BY <1>0, <2>1, <2>3, <2>4
  <1>3. ASSUME ContainsRun(h, n), ContainsRun(n, l) PROVE ContainsRun(h, l)
    <2>1. n # <<>> /\ l # <<>>
      BY <1>3 DEF ContainsRun
    <2>2. PICK x : RunAt(h, n, x)
      BY <1>3, <2>1, RunIs
    <2>3. PICK y : RunAt(n, l, y)
      BY <1>3, <2>1, RunIs
    <2>4. RunAt(h, l, x + y)
      <3>1. x \in Nat /\ y \in Nat /\ x + Len(n) =< Len(h) /\ y + Len(l) =< Len(n)
        BY <2>2, <2>3 DEF RunAt
      <3>2. ASSUME NEW a \in 1 .. Len(l) PROVE l[a] = h[x + y + a]
        <4>1. l[a] = n[y + a]
          BY <2>3 DEF RunAt
        <4>2. y + a \in 1 .. Len(n)
          BY <1>0, <3>1
        <4>3. n[y + a] = h[x + (y + a)]
          BY <2>2, <4>2 DEF RunAt
        <4>4. x + (y + a) = x + y + a
          BY <3>1
        <4> QED BY <4>1, <4>3, <4>4
      <3> QED BY <1>0, <3>1, <3>2 DEF RunAt
    <2> QED BY <2>1, <2>4, RunIs
  <1> QED BY <1>1, <1>2, <1>3

-----------------------------------------------------------------------------
(* The rows that EntityBlocks leaves.                                      *)

\* The candidate c is dropped.
Dropped(o, i, c) ==
    \E d \in Members(CollectRows(o)[i]) : Repeats(o, c, d) \/ Wraps(o, c, d)

LEMMA EntityBlocksAre ==
    ASSUME NEW o, IsOutline(o), NEW i \in DOMAIN o
    PROVE  /\ EntityBlocks(o, i) \in Seq(RowBlocks(o))
           /\ \A c : c \in Members(EntityBlocks(o, i)) <=>
                        c \in Members(CollectRows(o)[i]) /\ ~Dropped(o, i, c)
PROOF
  <1> DEFINE candidates == CollectRows(o)[i]
             S == RowBlocks(o)
             gone == {c \in Members(candidates) : Dropped(o, i, c)}
  <1>1. candidates \in Seq(S)
    BY CollectedAre
  <1>2. EntityBlocks(o, i) = AllBut(candidates, gone)
    BY ToSetIs DEF EntityBlocks, Dropped
  <1> HIDE DEF candidates, S, gone
  <1>3. /\ AllBut(candidates, gone) \in Seq(S)
        /\ Members(AllBut(candidates, gone)) = Members(candidates) \ gone
    BY <1>1, AllButMembers
  <1> QED BY <1>2, <1>3 DEF candidates, S, gone

LEMMA RowBlockHolds ==
    ASSUME NEW o, IsOutline(o), NEW i \in DOMAIN o, NEW c \in Members(CollectRows(o)[i])
    PROVE  /\ c \in DOMAIN o /\ c \in Nat /\ ~(Len(CollectRows(o)[c]) > 1)
           /\ LinesOf(o, c) \in Seq(OutlineLines(o)) /\ LinesOf(o, c) # <<>>
           /\ Len(LinesOf(o, c)) \in Nat
PROOF
  <1>1. CollectRows(o)[i] \in Seq(RowBlocks(o))
    BY CollectedAre
  <1>2. c \in RowBlocks(o)
    BY <1>1 DEF Members
  <1>3. c \in DOMAIN o /\ LinesOf(o, c) # <<>> /\ ~(Len(CollectRows(o)[c]) > 1)
    BY <1>2 DEF RowBlocks
  <1>4. c \in Nat
    BY <1>3, OutlineIs
  <1>5. LinesOf(o, c) \in Seq(OutlineLines(o))
    BY <1>3, LinesAre
  <1> QED BY <1>3, <1>4, <1>5

\* No row holds the lines of another.
LEMMA RowsDiffer ==
    ASSUME NEW o, IsOutline(o), NEW i \in DOMAIN o,
           NEW r \in Members(EntityBlocks(o, i)), NEW q \in Members(EntityBlocks(o, i)),
           r # q, ContainsRun(LinesOf(o, r), LinesOf(o, q))
    PROVE  FALSE
PROOF
  <1> DEFINE C == Members(CollectRows(o)[i])
             L(c) == LinesOf(o, c)
  <1>1. /\ r \in C /\ ~Dropped(o, i, r)
        /\ q \in C /\ ~Dropped(o, i, q)
    BY EntityBlocksAre
  <1>2. /\ L(r) \in Seq(OutlineLines(o)) /\ L(q) \in Seq(OutlineLines(o))
        /\ Len(L(r)) \in Nat /\ Len(L(q)) \in Nat /\ r \in Nat /\ q \in Nat
    BY <1>1, RowBlockHolds
  <1>3. Len(L(q)) =< Len(L(r)) /\ (Len(L(q)) = Len(L(r)) => L(q) = L(r))
    <2> HIDE DEF L
    <2>1. ContainsRun(L(r), L(q))
      BY DEF L
    <2> QED BY <1>2, <2>1, RunsNest
  <1>4. CASE Len(L(q)) < Len(L(r))
    <2>1. Wraps(o, r, q)
      BY <1>4 DEF Wraps
    <2> QED BY <1>1, <2>1 DEF Dropped
  <1>5. CASE Len(L(q)) = Len(L(r))
    <2>1. r < q \/ q < r
      BY <1>2
    <2>2. Repeats(o, r, q) \/ Repeats(o, q, r)
      BY <1>3, <1>5, <2>1 DEF Repeats
    <2> QED BY <1>1, <2>2 DEF Dropped
  <1> QED BY <1>2, <1>3, <1>4, <1>5

\* Every candidate holds the lines of a row that is left.
LEMMA SomeRowIsLeft ==
    ASSUME NEW o, IsOutline(o), NEW i \in DOMAIN o, NEW c \in Members(CollectRows(o)[i])
    PROVE  \E r \in Members(EntityBlocks(o, i)) : ContainsRun(LinesOf(o, c), LinesOf(o, r))
PROOF
  <1> DEFINE C == Members(CollectRows(o)[i])
             L(d) == LinesOf(o, d)
             S == OutlineLines(o)
             inside == {d \in C : ContainsRun(L(c), L(d))}
             lengths == {Len(L(d)) : d \in inside}
  <1>1. \A d \in C : /\ d \in Nat /\ L(d) \in Seq(S) /\ L(d) # <<>> /\ Len(L(d)) \in Nat
    BY RowBlockHolds
  <1> HIDE DEF L, S
  <1>2. c \in inside
    BY <1>1, RunsNest
  <1>3. PICK l \in lengths : \A k \in lengths : l =< k
    <2>1. lengths \subseteq Nat /\ lengths # {}
      BY <1>1, <1>2
    <2> HIDE DEF lengths
    <2> QED BY <2>1, LeastNatural
  <1> DEFINE shortest == {d \in inside : Len(L(d)) = l}
  <1>4. PICK r \in shortest : \A d \in shortest : r =< d
    <2>1. shortest \subseteq Nat /\ shortest # {}
      BY <1>1, <1>3
    <2> HIDE DEF shortest
    <2> QED BY <2>1, LeastNatural
  <1>5. /\ r \in C /\ ContainsRun(L(c), L(r)) /\ Len(L(r)) = l /\ r \in Nat
    BY <1>1, <1>4
  <1>6. ASSUME NEW d \in C, Repeats(o, r, d) PROVE FALSE
    <2>1. d < r /\ L(d) = L(r)
      BY <1>6 DEF Repeats, L
    <2>2. d \in shortest
      BY <1>5, <2>1
    <2>3. r =< d
      BY <1>4, <2>2
    <2>4. d \in Nat /\ r \in Nat /\ d < r
      BY <1>1, <1>5, <2>1
    <2> HIDE DEF shortest, inside, lengths, C
    <2> QED BY <2>3, <2>4
  <1>7. ASSUME NEW d \in C, Wraps(o, r, d) PROVE FALSE
    <2>1. Len(L(d)) < Len(L(r)) /\ ContainsRun(L(r), L(d))
      BY <1>7 DEF Wraps, L
    <2>2. ContainsRun(L(c), L(d))
      BY <1>1, <1>5, <2>1, RunsNest
    <2>3. Len(L(d)) \in lengths
      BY <2>2
    <2> QED BY <1>1, <1>3, <1>5, <2>1, <2>3
  <1>8. ~Dropped(o, i, r)
    BY <1>6, <1>7 DEF Dropped
  <1>9. r \in Members(EntityBlocks(o, i))
    BY <1>5, <1>8, EntityBlocksAre
  <1> QED BY <1>5, <1>9 DEF L

-----------------------------------------------------------------------------
(* Nothing is glued together.                                              *)

\* No chrome between block r and block i inside it.
Unchromed(o, r, i) ==
    \A c \in Subtree(o, r) \ {r} : i \in Subtree(o, c) => ~o[c].chrome

\* The rows of a block are at least as many as those any of its children holds,
\* if there are several, and as its children with text.
LEMMA RowsAddUp ==
    ASSUME NEW o, IsOutline(o), NEW i \in DOMAIN o
    PROVE  /\ \A c \in TextChildren(o, i) :
                 Len(CollectRows(o)[c]) > 1 => Len(CollectRows(o)[i]) > 1
           /\ \A c, d \in TextChildren(o, i) : c # d => Len(CollectRows(o)[i]) > 1
           /\ Len(CollectRows(o)[i]) > 1 => TextChildren(o, i) # {}
PROOF
  <1> DEFINE R == CollectRows(o)
             S == RowBlocks(o)
             parts == RowsFrom(o, R, i)
  <1>1. /\ Len(o) \in Nat /\ DOMAIN o = 1 .. Len(o) /\ R[i] = FlattenSeq(parts)
        /\ R[i] \in Seq(S) /\ \A c \in DOMAIN o : R[c] \in Seq(S)
    BY OutlineIs, CollectRowsIs, CollectedAre DEF RowsStep
  <1>2. parts \in Seq(Seq(S))
    BY <1>1, RowsFromIs
  <1>3. /\ DOMAIN parts = DOMAIN o
        /\ \A c \in DOMAIN o : parts[c] = IF c \notin TextChildren(o, i) THEN <<>>
                                          ELSE IF Len(R[c]) > 1 THEN R[c] ELSE <<c>>
    BY DEF RowsFrom
  <1> HIDE DEF parts, R, S
  <1>4. /\ Members(R[i]) = UNION {Members(parts[k]) : k \in DOMAIN parts}
        /\ \A k \in DOMAIN parts : Len(R[i]) >= Len(parts[k])
        /\ \A j, k \in DOMAIN parts : j < k => Len(R[i]) >= Len(parts[j]) + Len(parts[k])
    BY <1>1, <1>2, FlattenMembers
  <1>5. Len(R[i]) \in Nat /\ \A k \in DOMAIN parts : Len(parts[k]) \in Nat
    BY <1>1, <1>2
  <1>6. \A c \in TextChildren(o, i) : c \in DOMAIN o /\ c \in Nat
    BY <1>1, ChildrenBelow
  <1>7. ASSUME NEW c \in TextChildren(o, i)
        PROVE  Len(parts[c]) >= 1 /\ (Len(R[c]) > 1 => parts[c] = R[c])
    <2>1. parts[c] = IF Len(R[c]) > 1 THEN R[c] ELSE <<c>>
      BY <1>3, <1>6
    <2>2. Len(<<c>>) = 1
      OBVIOUS
    <2>3. Len(R[c]) \in Nat
      BY <1>1, <1>6
    <2> QED BY <2>1, <2>2, <2>3
  <1>8. ASSUME NEW c \in TextChildren(o, i), Len(R[c]) > 1 PROVE Len(R[i]) > 1
    <2>1. Len(R[i]) >= Len(R[c])
      BY <1>3, <1>4, <1>6, <1>7, <1>8
    <2>2. Len(R[c]) \in Nat
      BY <1>1, <1>6
    <2> QED BY <1>5, <1>8, <2>1, <2>2
  <1>9. ASSUME NEW c \in TextChildren(o, i), NEW d \in TextChildren(o, i), c # d
        PROVE  Len(R[i]) > 1
    <2>1. Len(R[i]) >= Len(parts[c]) + Len(parts[d])
      <3>1. c < d \/ d < c
        BY <1>6, <1>9
      <3>2. c \in DOMAIN parts /\ d \in DOMAIN parts
        BY <1>3, <1>6
      <3> QED BY <1>4, <1>5, <3>1, <3>2
    <2>2. Len(parts[c]) >= 1 /\ Len(parts[d]) >= 1
      BY <1>7
    <2>3. Len(parts[c]) \in Nat /\ Len(parts[d]) \in Nat
      BY <1>3, <1>5, <1>6
    <2>4. \A x, y, z \in Nat : x >= y + z /\ y >= 1 /\ z >= 1 => x > 1
      OBVIOUS
    <2> QED BY <1>5, <2>1, <2>2, <2>3, <2>4
  <1>10. ASSUME Len(R[i]) > 1, TextChildren(o, i) = {} PROVE FALSE
    <2>1. \A k \in DOMAIN parts : parts[k] = <<>>
      BY <1>3, <1>10
    <2>2. Members(<<>>) = {}
      BY DEF Members
    <2>3. Members(R[i]) = {}
      BY <1>4, <2>1, <2>2
    <2>4. DOMAIN R[i] = 1 .. Len(R[i]) /\ 1 \in 1 .. Len(R[i])
      BY <1>1, <1>5, <1>10
    <2> QED BY <2>3, <2>4 DEF Members
  <1> QED BY <1>8, <1>9, <1>10 DEF R

\* Text inside a block is text of it.
LEMMA TextReachesUp ==
    ASSUME NEW o, IsOutline(o), NEW i \in DOMAIN o, TextChildren(o, i) # {}
    PROVE  LinesOf(o, i) # <<>>
PROOF
  <1>1. PICK c \in TextChildren(o, i) : TRUE
    OBVIOUS
  <1>2. c \in DOMAIN o /\ c \in Subtree(o, i) /\ LinesOf(o, c) # <<>>
    BY ChildrenBelow
  <1>3. \A j \in Subtree(o, c) : j \in Subtree(o, i)
    BY <1>2, SubtreeNests
  <1>4. Members(LinesOf(o, c)) \subseteq Members(LinesOf(o, i))
    <2>1. /\ Members(LinesOf(o, c)) =
                (UNION {Members(o[j].texts) : j \in Subtree(o, c)}) \ NoiseLines
          /\ Members(LinesOf(o, i)) =
                (UNION {Members(o[j].texts) : j \in Subtree(o, i)}) \ NoiseLines
      BY <1>2, LinesAre
    <2> QED BY <1>3, <2>1
  <1>5. Members(LinesOf(o, c)) # {}
    <2>1. LinesOf(o, c) \in Seq(OutlineLines(o))
      BY <1>2, LinesAre
    <2>2. Len(LinesOf(o, c)) \in Nat \ {0} /\ DOMAIN LinesOf(o, c) = 1 .. Len(LinesOf(o, c))
      BY <1>2, <2>1
    <2>3. 1 \in DOMAIN LinesOf(o, c)
      BY <2>2
    <2> QED BY <2>3 DEF Members
  <1>6. Members(<<>>) = {}
    BY DEF Members
  <1> QED BY <1>4, <1>5, <1>6

\* Several rows anywhere inside a block, but for chrome, are several of its own.
LEMMA RowsComeUp ==
    ASSUME NEW o, IsOutline(o), NEW r \in DOMAIN o,
           NEW i \in Subtree(o, r), Unchromed(o, r, i), Len(CollectRows(o)[i]) > 1
    PROVE  Len(CollectRows(o)[r]) > 1
PROOF
  <1> DEFINE R == CollectRows(o)
             several == {k \in Subtree(o, r) : Unchromed(o, r, k) /\ Len(R[k]) > 1}
  <1>1. Len(o) \in Nat /\ DOMAIN o = 1 .. Len(o)
    BY OutlineIs
  <1>2. \A k \in Subtree(o, r) : k \in DOMAIN o
    BY InSubtree
  <1>3. PICK k \in several : \A l \in several : k =< l
    <2>1. several \subseteq Nat /\ several # {}
      BY <1>1, <1>2
    <2> HIDE DEF several
    <2> QED BY <2>1, LeastNatural
  <1> HIDE DEF R
  <1>4. k \in Subtree(o, r) /\ k \in DOMAIN o /\ Unchromed(o, r, k) /\ Len(R[k]) > 1
    BY <1>2, <1>3
  <1>5. CASE k = r
    BY <1>4, <1>5 DEF R
  <1>6. CASE k # r
    <2>1. PICK p \in Subtree(o, r) : /\ p < k /\ k \in ChildSet(o, p)
                                     /\ Subtree(o, k) \subseteq Subtree(o, p)
      BY <1>4, <1>6, ParentIs
    <2>2. p \in DOMAIN o /\ k \in Subtree(o, p)
      BY <1>2, <2>1 DEF ChildSet
    <2>3. Unchromed(o, r, p)
      <3> SUFFICES ASSUME NEW c \in Subtree(o, r) \ {r}, p \in Subtree(o, c)
                   PROVE  ~o[c].chrome
        BY DEF Unchromed
      <3>1. c \in DOMAIN o
        BY <1>2
      <3>2. k \in Subtree(o, c)
        BY <2>2, <3>1, SubtreeNests
      <3> QED BY <1>4, <3>2 DEF Unchromed
    <2>4. ~o[k].chrome
      <3>1. k \in Subtree(o, k)
        <4>1. \A l \in DOMAIN o : ~(k < l /\ l =< k)
          BY <1>1, <1>4
        <4>2. k =< k
          BY <1>1, <1>4
        <4> QED BY <1>4, <4>1, <4>2, InSubtree
      <3> QED BY <1>4, <1>6, <3>1 DEF Unchromed
    <2>5. LinesOf(o, k) # <<>>
      BY <1>4, RowsAddUp, TextReachesUp DEF R
    <2>6. k \in TextChildren(o, p)
      BY <2>1, <2>4, <2>5 DEF TextChildren
    <2>7. Len(R[p]) > 1
      BY <1>4, <2>2, <2>6, RowsAddUp DEF R
    <2>8. p \in several
      BY <2>1, <2>3, <2>7
    <2> QED BY <1>1, <1>3, <1>4, <2>1, <2>2, <2>8
  <1> QED BY <1>5, <1>6

-----------------------------------------------------------------------------
(* The walk.                                                               *)

\* The blocks of all cards.
PageBlocks == UNION {ToSet(fetched.cards[c].blocks) : c \in DOMAIN fetched.cards}

\* What is walked over is an outline, and the walk starts with the first block.
WalkInv ==
    /\ CardsInv
    /\ outlines \in Seq(Seq(PageBlocks)) /\ IsOutline(walk)
    /\ at \in 1 .. Len(walk) + 1
    /\ stage = "parse" => at = 1

LEMMA OutlinesJoin ==
    ASSUME NEW s, IsOutline(s), NEW t, IsOutline(t)
    PROVE  IsOutline(s \o t)
PROOF
  <1> DEFINE q == s \o t
             m == Len(s)
             n == Len(t)
             S == Members(s) \cup Members(t)
  <1>1. s \in Seq(S) /\ t \in Seq(S)
    <2>1. \A A, B : A \subseteq B => Seq(A) \subseteq Seq(B)
      OBVIOUS
    <2>2. s \in Seq(Members(s)) /\ t \in Seq(Members(t))
      BY ToSetIs DEF IsOutline
    <2> QED BY <2>1, <2>2
  <1>2. /\ m \in Nat /\ n \in Nat /\ DOMAIN s = 1 .. m /\ DOMAIN t = 1 .. n
        /\ q \in Seq(S) /\ Len(q) = m + n /\ DOMAIN q = 1 .. m + n
        /\ \A a \in 1 .. m + n : q[a] = IF a =< m THEN s[a] ELSE t[a - m]
    <2> HIDE DEF S
    <2> QED BY <1>1, ConcatProperties
  <1>3. ToSet(q) = S
    <2> HIDE DEF S
    <2>1. Members(q) = Members(s) \cup Members(t)
      BY <1>1, ConcatMembers
    <2> QED BY <2>1, ToSetIs DEF S
  <1>4. /\ \A i \in DOMAIN s : s[i].level \in Nat
        /\ \A i \in DOMAIN t : t[i].level \in Nat
    BY OutlineIs
  <1> HIDE DEF q, m, n, S
  <1>5. ASSUME NEW i \in 1 .. m + n
        PROVE  /\ q[i].texts \in Seq(ToSet(q[i].texts))
               /\ q[i].level \in 0 .. (IF i = 1 THEN 0 ELSE q[i - 1].level + 1)
    <2>1. CASE i =< m
      <3>1. i \in DOMAIN s /\ q[i] = s[i]
        BY <1>2, <2>1
      <3>2. /\ s[i].texts \in Seq(ToSet(s[i].texts))
            /\ s[i].level \in 0 .. (IF i = 1 THEN 0 ELSE s[i - 1].level + 1)
        BY <3>1 DEF IsOutline
      <3>3. i # 1 => q[i - 1] = s[i - 1]
        <4>1. i # 1 => i - 1 \in 1 .. m + n /\ i - 1 =< m
          BY <1>2, <2>1
        <4> QED BY <1>2, <4>1
      <3> QED BY <3>1, <3>2, <3>3
    <2>2. CASE ~(i =< m)
      <3> DEFINE j == i - m
      <3>2. j \in DOMAIN t /\ q[i] = t[j]
        BY <1>2, <2>2
      <3>3. /\ t[j].texts \in Seq(ToSet(t[j].texts))
            /\ t[j].level \in 0 .. (IF j = 1 THEN 0 ELSE t[j - 1].level + 1)
        <4> HIDE DEF j
        <4> QED BY <3>2 DEF IsOutline
      <3>4. CASE j = 1
        <4>1. q[i].level = 0
          <5> HIDE DEF j
          <5>1. t[j].level \in 0 .. 0
            BY <3>3, <3>4
          <5> QED BY <3>2, <5>1
        <4>2. CASE i = 1
          BY <3>2, <3>3, <4>1, <4>2
        <4>3. CASE i # 1
          <5>1. i - 1 \in DOMAIN s /\ q[i - 1] = s[i - 1]
            <6>1. i - 1 \in 1 .. m + n /\ i - 1 =< m
              BY <1>2, <3>4, <4>3
            <6> QED BY <1>2, <6>1
          <5>2. q[i - 1].level \in Nat
            BY <1>4, <5>1
          <5>3. 0 \in 0 .. q[i - 1].level + 1
            BY <5>2
          <5> QED BY <3>2, <3>3, <4>1, <4>3, <5>3
        <4> QED BY <4>2, <4>3
      <3>5. CASE j # 1
        <4>1. i # 1 /\ q[i - 1] = t[j - 1]
          <5>1. i # 1 /\ i - 1 \in 1 .. m + n /\ ~(i - 1 =< m) /\ i - 1 - m = j - 1
            BY <1>2, <2>2, <3>5
          <5> HIDE DEF j
          <5> QED BY <1>2, <5>1
        <4> HIDE DEF j
        <4> QED BY <3>2, <3>3, <3>5, <4>1
      <3> QED BY <3>4, <3>5
    <2> QED BY <2>1, <2>2
  <1> QED BY <1>2, <1>3, <1>5 DEF IsOutline, q

\* What a card adds to the walk.
LEMMA CardIs ==
    ASSUME WalkInv, names # <<>>
    PROVE  LET o == fetched.cards[Head(names)].blocks
           IN  /\ o \in Seq(PageBlocks) /\ IsOutline(o)
               /\ FlattenSeq(Append(outlines, o)) = walk \o o
PROOF
  <1> DEFINE c == Head(names)
             o == fetched.cards[c].blocks
  <1>1. c \in Members(names)
    BY TailMembers DEF WalkInv, CardsInv
  <1>2. c \in DOMAIN fetched.cards /\ fetched \in Fetches
    BY <1>1 DEF WalkInv, CardsInv
  <1> HIDE DEF c
  <1>3. IsOutline(o)
    BY <1>2, FetchesAssumption
  <1>4. o \in Seq(ToSet(o)) /\ ToSet(o) \subseteq PageBlocks
    BY <1>2, <1>3 DEF IsOutline, PageBlocks
  <1>5. \A A, B : A \subseteq B => Seq(A) \subseteq Seq(B)
    OBVIOUS
  <1>6. o \in Seq(PageBlocks)
    BY <1>4, <1>5
  <1>7. FlattenSeq(Append(outlines, o)) = FlattenSeq(outlines) \o o
    <2> HIDE DEF o
    <2> QED BY <1>6, FlattenAppend DEF WalkInv
  <1> QED BY <1>3, <1>6, <1>7 DEF walk, c

LEMMA WalkInit == Init => WalkInv
PROOF
  <1> SUFFICES ASSUME Init PROVE WalkInv
    OBVIOUS
  <1>1. outlines = <<>> /\ at = 1 /\ CardsInv
    BY CardsInit DEF Init
  <1>2. walk = <<>>
    BY <1>1 DEF walk, FlattenSeq
  <1>3. IsOutline(walk)
    BY <1>2 DEF IsOutline, ToSet
  <1>4. outlines \in Seq(Seq(PageBlocks))
    BY <1>1
  <1>5. Len(walk) = 0
    BY <1>2
  <1> QED BY <1>1, <1>3, <1>4, <1>5 DEF WalkInv

LEMMA WalkNext == WalkInv /\ [Next]_vars => WalkInv'
PROOF
  <1> SUFFICES ASSUME WalkInv, [Next]_vars PROVE WalkInv'
    OBVIOUS
  <1>1. CardsInv'
    BY CardsNext DEF WalkInv
  <1>2. Len(walk) \in Nat /\ DOMAIN walk = 1 .. Len(walk)
    BY OutlineIs DEF WalkInv
  <1>3. ASSUME UNCHANGED <<fetched, outlines>>
        PROVE  /\ (outlines \in Seq(Seq(PageBlocks)))' /\ IsOutline(walk)'
               /\ walk' = walk
    <2>1. walk' = walk /\ PageBlocks' = PageBlocks
      BY <1>3 DEF walk, PageBlocks
    <2>2. IsOutline(walk)'
      BY <2>1 DEF WalkInv, IsOutline
    <2> QED BY <1>3, <2>1, <2>2 DEF WalkInv
  <1>4. CASE ParseCard
    <2> DEFINE o == fetched.cards[Head(names)].blocks
    <2>1. stage = "parse" /\ names # <<>> /\ UNCHANGED <<fetched, stage, at>>
      BY <1>4 DEF ParseCard
    <2>2. outlines' = outlines \/ outlines' = Append(outlines, o)
      BY <1>4 DEF ParseCard
    <2>3. CASE outlines' = outlines
      BY <1>1, <1>3, <2>1, <2>3 DEF WalkInv
    <2>4. CASE outlines' = Append(outlines, o)
      <3>1. o \in Seq(PageBlocks) /\ IsOutline(o) /\ walk' = walk \o o
        BY <2>1, <2>4, CardIs DEF walk
      <3>2. PageBlocks' = PageBlocks
        BY <2>1 DEF PageBlocks
      <3> HIDE DEF o
      <3>3. IsOutline(walk \o o)
        BY <3>1, OutlinesJoin DEF WalkInv
      <3>4. IsOutline(walk)'
        BY <3>1, <3>3 DEF IsOutline
      <3>5. (outlines \in Seq(Seq(PageBlocks)))'
        <4>1. Append(outlines, o) \in Seq(Seq(PageBlocks))
          BY <3>1, AppendIs DEF WalkInv
        <4> QED BY <2>4, <3>2, <4>1
      <3>6. at' \in 1 .. Len(walk') + 1 /\ at' = 1
        <4>1. Len(walk') \in Nat
          BY <3>4 DEF IsOutline
        <4> QED BY <2>1, <4>1 DEF WalkInv
      <3> QED BY <1>1, <3>4, <3>5, <3>6 DEF WalkInv
    <2> QED BY <2>2, <2>3, <2>4
  <1>5. CASE AllParsed \/ Finish \/ AddFailed
    <2>1. UNCHANGED <<fetched, outlines, at>> /\ stage' # "parse"
      BY <1>5 DEF AllParsed, Finish, AddFailed
    <2> QED BY <1>1, <1>3, <2>1 DEF WalkInv
  <1>6. CASE \/ SkipBlock \/ About
             \/ \E key \in {"skills", "languages"} : Named(key)
             \/ \E key \in EntitySections \cup {"interests"} : Merged(key)
             \/ \E key \in PassthroughSections : Passthrough(key)
    <2>1. AtBlock /\ at' = at + 1 /\ UNCHANGED <<fetched, outlines, stage>>
      BY <1>6 DEF SkipBlock, About, Named, Merged, Passthrough, Applied
    <2>2. stage' # "parse" /\ at =< Len(walk)
      BY <2>1 DEF AtBlock
    <2>3. at' \in 1 .. Len(walk) + 1
      BY <1>2, <2>1, <2>2 DEF WalkInv
    <2>4. walk' = walk /\ IsOutline(walk)' /\ (outlines \in Seq(Seq(PageBlocks)))'
      BY <1>3, <2>1
    <2> QED BY <1>1, <2>2, <2>3, <2>4 DEF WalkInv
  <1>7. CASE UNCHANGED vars
    <2>1. UNCHANGED <<fetched, outlines, at, stage>>
      BY <1>7 DEF vars
    <2> QED BY <1>1, <1>3, <2>1 DEF WalkInv
  <1> QED BY <1>4, <1>5, <1>6, <1>7 DEF Next

LEMMA HereIs ==
    ASSUME WalkInv, AtBlock
    PROVE  at \in DOMAIN walk /\ IsOutline(walk)
PROOF
  <1>1. Len(walk) \in Nat /\ DOMAIN walk = 1 .. Len(walk)
    BY OutlineIs DEF WalkInv
  <1> QED BY <1>1 DEF WalkInv, AtBlock

LEMMA WalkKeepsRowsApart == WalkInv => NoGluedRows /\ RowsStandApart
PROOF
  <1> SUFFICES ASSUME WalkInv PROVE NoGluedRows /\ RowsStandApart
    OBVIOUS
  <1>1. CASE ~(AtBlock /\ block.key # NoKey)
    <2>1. ToSet(RowsHere) = {}
      BY <1>1 DEF RowsHere, ToSet
    <2> QED BY <1>1, <2>1 DEF NoGluedRows, RowsStandApart
  <1>2. CASE AtBlock /\ block.key # NoKey
    <2>1. at \in DOMAIN walk /\ IsOutline(walk)
      BY <1>2, HereIs
    <2>2. ToSet(RowsHere) = Members(EntityBlocks(walk, at))
      BY <1>2, ToSetIs DEF RowsHere
    <2>3. ToSet(CollectRows(walk)[at]) = Members(CollectRows(walk)[at])
      BY ToSetIs
    <2>4. NoGluedRows
      <3> SUFFICES ASSUME NEW r \in ToSet(RowsHere), NEW i \in Subtree(walk, r),
                          Unchromed(walk, r, i),
                          NEW c \in TextChildren(walk, i), NEW d \in TextChildren(walk, i),
                          c # d
                   PROVE  FALSE
        BY DEF NoGluedRows, Unchromed
      <3>1. r \in Members(CollectRows(walk)[at])
        BY <2>1, <2>2, EntityBlocksAre
      <3>2. r \in DOMAIN walk /\ ~(Len(CollectRows(walk)[r]) > 1)
        BY <2>1, <3>1, RowBlockHolds
      <3>3. i \in DOMAIN walk
        BY <2>1, <3>2, InSubtree
      <3>4. Len(CollectRows(walk)[i]) > 1
        BY <2>1, <3>3, RowsAddUp
      <3> QED BY <2>1, <3>2, <3>4, RowsComeUp
    <2>5. RowsStandApart
      <3>1. \A r, q \in ToSet(RowsHere) :
               r # q => ~ContainsRun(LinesOf(walk, r), LinesOf(walk, q))
        BY <2>1, <2>2, RowsDiffer
      <3>2. \A c \in ToSet(CollectRows(walk)[at]) :
               \E r \in ToSet(RowsHere) : ContainsRun(LinesOf(walk, c), LinesOf(walk, r))
        BY <2>1, <2>2, <2>3, SomeRowIsLeft
      <3> QED BY <3>1, <3>2 DEF RowsStandApart
    <2> QED BY <2>4, <2>5
  <1> QED BY <1>1, <1>2

THEOREM WalkInvariant == Spec => []WalkInv
PROOF
  BY WalkInit, WalkNext, PTL DEF Spec

\* For every tree of blocks, however deep the wrappers in it go and wherever
\* chrome hangs: no two rows are read as one.
THEOREM RowsAreNotGlued == Spec => []NoGluedRows
PROOF
  BY WalkInvariant, WalkKeepsRowsApart, PTL

\* For every tree of blocks: no row is kept twice or inside another, and what is
\* dropped holds the lines of a row that is kept.
THEOREM RowsAreApart == Spec => []RowsStandApart
PROOF
  BY WalkInvariant, WalkKeepsRowsApart, PTL

-----------------------------------------------------------------------------
(* Rows in page order.                                                     *)

\* A parser that reads one thing off each row returns a list of them.
LEMMA MappedIsList ==
    ASSUME NEW S, NEW s \in Seq(S), NEW f, f = [k \in DOMAIN s |-> f[k]]
    PROVE  IsList(f)
PROOF
  <1>1. Len(s) \in Nat /\ DOMAIN s = 1 .. Len(s)
    BY SeqIsList
  <1> QED BY <1>1, ListIs

MergedKeys == EntitySections \cup {"interests"}

LEMMA ItemsAreLists ==
    ASSUME WalkInv, NEW i \in DOMAIN walk, NEW key \in MergedKeys
    PROVE  IsList(Items(key, i))
PROOF
  <1> DEFINE o == walk
  <1>1. IsOutline(o) /\ i \in DOMAIN o
    BY DEF WalkInv
  <1> HIDE DEF o
  <1>2. EntityBlocks(o, i) \in Seq(RowBlocks(o)) /\ IsList(EntityBlocks(o, i))
    BY <1>1, EntityBlocksAre, SeqIsList
  <1>3. IsList(ParseEntities(o, i))
    <2>1. CASE EntityBlocks(o, i) = <<>>
      <3> DEFINE lines == WithoutHeadings(CleanLines(ContentTexts(o, i)))
      <3>1. ParseEntities(o, i) = IF lines = <<>> THEN <<>> ELSE <<lines>>
        BY <2>1 DEF ParseEntities, FlatEntities
      <3> HIDE DEF lines
      <3>2. <<>> \in Seq({lines}) /\ <<lines>> \in Seq({lines})
        OBVIOUS
      <3>3. ParseEntities(o, i) \in Seq({lines})
        BY <3>1, <3>2
      <3> QED BY <3>3, SeqIsList
    <2>2. CASE EntityBlocks(o, i) # <<>>
      <3>1. ParseEntities(o, i) = [k \in DOMAIN EntityBlocks(o, i) |->
                                      LinesOf(o, EntityBlocks(o, i)[k])]
        BY <2>2 DEF ParseEntities
      <3>2. ParseEntities(o, i) = [k \in DOMAIN EntityBlocks(o, i) |-> ParseEntities(o, i)[k]]
        BY <3>1
      <3> QED BY <1>2, <3>2, MappedIsList
    <2> QED BY <2>1, <2>2
  <1>4. IsList(ParseInterests(o, i))
    <2> DEFINE rows == EntityBlocksOrSelf(o, i)
               lines == RowLines(o, i)
               first == FirstLines(o, i)
               bare == [k \in DOMAIN first |-> BareName[first[k]]]
    <2>1. IsList(rows)
      <3>1. <<i>> \in Seq({i})
        OBVIOUS
      <3>2. IsList(<<i>>)
        BY <3>1, SeqIsList
      <3> QED BY <1>2, <3>2 DEF EntityBlocksOrSelf
    <2>2. IsList(lines)
      <3>1. lines = [k \in DOMAIN rows |-> lines[k]]
        BY DEF RowLines
      <3> HIDE DEF rows, lines
      <3> QED BY <2>1, <3>1, MappedIsList DEF IsList
    <2>3. IsList(first)
      <3> DEFINE Start(k) == IF lines[k] = <<>> THEN <<>> ELSE <<Head(lines[k])>>
                 parts == [k \in DOMAIN lines |-> Start(k)]
                 A == {Head(lines[k]) : k \in DOMAIN lines}
      <3>1. first = FlattenSeq(parts)
        BY DEF FirstLines
      <3>2. \A k \in DOMAIN lines : Start(k) \in Seq(A)
        <4>1. \A x \in A : <<x>> \in Seq(A)
          OBVIOUS
        <4>2. <<>> \in Seq(A)
          OBVIOUS
        <4>3. \A k \in DOMAIN lines : Head(lines[k]) \in A
          OBVIOUS
        <4> HIDE DEF A, lines
        <4> QED BY <4>1, <4>2, <4>3
      <3> HIDE DEF Start, A
      <3>3. DOMAIN lines = 1 .. Len(lines) /\ Len(lines) \in Nat
        BY <2>2, SeqIsList DEF IsList
      <3> HIDE DEF lines, first
      <3>4. parts \in Seq(Seq(A))
        BY <3>2, <3>3
      <3> HIDE DEF parts
      <3>5. first \in Seq(A)
        BY <3>1, <3>4, FlattenMembers
      <3> QED BY <3>5, SeqIsList
    <2>4. IsList(bare)
      <3>1. bare = [k \in DOMAIN first |-> bare[k]]
        OBVIOUS
      <3> HIDE DEF first, bare
      <3> QED BY <2>3, <3>1, MappedIsList DEF IsList
    <2>5. ParseInterests(o, i) = FirstOfEach(bare)
      BY DEF ParseInterests
    <2> HIDE DEF bare
    <2>6. FirstOfEach(bare) \in Seq(Members(bare))
      BY <2>4, FirstOfEachIs DEF IsList
    <2> QED BY <2>5, <2>6, SeqIsList
  <1> QED BY <1>3, <1>4 DEF Items, o

\* The position at which something is new is the first one that holds it.
LEMMA FirstAtNew ==
    ASSUME NEW seq, IsList(seq), NEW p, IsNew(seq, p)
    PROVE  FirstAt(seq, seq[p]) = p
PROOF
  <1> DEFINE I == {i \in 1 .. Len(seq) : seq[i] = seq[p]}
  <1>1. Len(seq) \in Nat /\ DOMAIN seq = 1 .. Len(seq)
    BY SeqIsList DEF IsList
  <1>2. p \in I /\ \A i \in I : p =< i
    BY <1>1 DEF IsNew
  <1>3. FirstAt(seq, seq[p]) = IF I # {} THEN Min(I) ELSE 0
    BY DEF FirstAt, SelectInSeq
  <1>4. I \subseteq Nat
    BY <1>1
  <1> HIDE DEF I
  <1>5. \A x \in I : (\A y \in I : x =< y) => x = p
    BY <1>2, <1>4
  <1>6. Min(I) = p
    BY <1>2, <1>5 DEF Min
  <1> QED BY <1>2, <1>3, <1>6

\* Each member of a list is new at one of its positions.
LEMMA FirstAtIs ==
    ASSUME NEW seq, IsList(seq), NEW x \in Members(seq)
    PROVE  /\ FirstAt(seq, x) \in DOMAIN seq /\ seq[FirstAt(seq, x)] = x
           /\ IsNew(seq, FirstAt(seq, x))
PROOF
  <1>1. PICK i \in DOMAIN seq : IsNew(seq, i) /\ seq[i] = x
    BY NewSomewhere DEF IsList
  <1>2. FirstAt(seq, x) = i
    BY <1>1, FirstAtNew
  <1> QED BY <1>1, <1>2

\* What stands where in two lists one after the other.
LEMMA FirstAtConcat ==
    ASSUME NEW s, IsList(s), NEW t, IsList(t)
    PROVE  /\ IsList(s \o t) /\ Members(s \o t) = Members(s) \cup Members(t)
           /\ \A x \in Members(s) : FirstAt(s \o t, x) = FirstAt(s, x)
           /\ \A x \in Members(t) \ Members(s) :
                 FirstAt(s \o t, x) = Len(s) + FirstAt(t, x)
PROOF
  <1> DEFINE q == s \o t
             m == Len(s)
             n == Len(t)
             S == Members(s) \cup Members(t)
  <1>1. s \in Seq(S) /\ t \in Seq(S)
    <2>1. \A A, B : A \subseteq B => Seq(A) \subseteq Seq(B)
      OBVIOUS
    <2> QED BY <2>1 DEF IsList
  <1>2. /\ m \in Nat /\ n \in Nat /\ DOMAIN s = 1 .. m /\ DOMAIN t = 1 .. n
        /\ q \in Seq(S) /\ Len(q) = m + n /\ DOMAIN q = 1 .. m + n
        /\ \A a \in 1 .. m + n : q[a] = IF a =< m THEN s[a] ELSE t[a - m]
    <2> HIDE DEF S
    <2> QED BY <1>1, ConcatProperties
  <1>3. IsList(q)
    <2> HIDE DEF S, q
    <2> QED BY <1>2, SeqIsList
  <1>4. Members(q) = Members(s) \cup Members(t)
    <2> HIDE DEF S
    <2> QED BY <1>1, ConcatMembers
  <1> HIDE DEF q, m, n, S
  <1>5. ASSUME NEW x \in Members(s) PROVE FirstAt(q, x) = FirstAt(s, x)
    <2>1. PICK p \in DOMAIN s : IsNew(s, p) /\ s[p] = x /\ FirstAt(s, x) = p
      BY FirstAtIs
    <2>2. q[p] = x /\ p \in DOMAIN q /\ \A a \in 1 .. (p - 1) : q[a] = s[a]
      BY <1>2, <2>1
    <2>3. IsNew(q, p)
      BY <2>1, <2>2 DEF IsNew
    <2> QED BY <1>3, <2>1, <2>2, <2>3, FirstAtNew
  <1>6. ASSUME NEW x \in Members(t), x \notin Members(s)
        PROVE  FirstAt(q, x) = m + FirstAt(t, x)
    <2>1. PICK p \in DOMAIN t : IsNew(t, p) /\ t[p] = x /\ FirstAt(t, x) = p
      BY FirstAtIs
    <2> DEFINE r == m + p
    <2>2. r \in DOMAIN q /\ q[r] = x
      <3>1. r \in 1 .. m + n /\ ~(r =< m) /\ r - m = p
        BY <1>2, <2>1
      <3> HIDE DEF r
      <3> QED BY <1>2, <2>1, <3>1
    <2>3. ASSUME NEW a \in 1 .. (r - 1) PROVE q[a] # x
      <3>1. a \in 1 .. m + n /\ p \in Nat
        BY <1>2, <2>1
      <3>2. CASE a =< m
        <4>1. q[a] = s[a] /\ a \in DOMAIN s
          BY <1>2, <3>1, <3>2
        <4> QED BY <1>6, <4>1 DEF Members
      <3>3. CASE ~(a =< m)
        <4>1. a - m \in 1 .. (p - 1)
          BY <1>2, <2>3, <3>1, <3>3
        <4>2. q[a] = t[a - m]
          BY <1>2, <3>1, <3>3
        <4>3. t[a - m] # t[p]
          BY <2>1, <4>1 DEF IsNew
        <4> QED BY <2>1, <4>2, <4>3
      <3> QED BY <3>2, <3>3
    <2> HIDE DEF r
    <2>4. IsNew(q, r)
      BY <2>2, <2>3 DEF IsNew
    <2>5. FirstAt(q, x) = r
      BY <1>3, <2>2, <2>4, FirstAtNew
    <2> QED BY <2>1, <2>5 DEF r
  <1> QED BY <1>3, <1>4, <1>5, <1>6 DEF q, m

\* l holds what all holds, once and in the order of all.
InPageOrder(l, all) ==
    /\ ToSet(l) = ToSet(all)
    /\ \A i, j \in DOMAIN l : i < j => FirstAt(all, l[i]) < FirstAt(all, l[j])

\* What Unseen returns.
LEMMA UnseenIs ==
    ASSUME NEW old, NEW new, IsList(new)
    PROVE  LET u == Unseen(old, new)
           IN  /\ IsList(u) /\ Members(u) = Members(new) \ Members(old)
               /\ \A a, b \in DOMAIN u : a < b => FirstAt(new, u[a]) < FirstAt(new, u[b])
PROOF
  <1> DEFINE d == FirstOfEach(new)
             u == Unseen(old, new)
  <1>1. /\ d \in Seq(Members(new)) /\ Members(d) = Members(new)
        /\ \A a, b \in DOMAIN d :
              a < b => \E i, j \in DOMAIN new : /\ i < j
                                                /\ IsNew(new, i) /\ d[a] = new[i]
                                                /\ IsNew(new, j) /\ d[b] = new[j]
    BY FirstOfEachIs DEF IsList
  <1>2. u = AllBut(d, Members(old))
    BY ToSetIs DEF Unseen
  <1> HIDE DEF d, u
  <1>3. /\ u \in Seq(Members(new)) /\ Members(u) = Members(d) \ Members(old)
        /\ \A a, b \in DOMAIN u :
              a < b => \E i, j \in DOMAIN d : i < j /\ u[a] = d[i] /\ u[b] = d[j]
    BY <1>1, <1>2, AllButMembers
  <1>4. IsList(u)
    BY <1>3, SeqIsList
  <1>5. ASSUME NEW a \in DOMAIN u, NEW b \in DOMAIN u, a < b
        PROVE  FirstAt(new, u[a]) < FirstAt(new, u[b])
    <2>1. PICK i \in DOMAIN d, j \in DOMAIN d : i < j /\ u[a] = d[i] /\ u[b] = d[j]
      BY <1>3, <1>5
    <2>2. PICK p \in DOMAIN new, r \in DOMAIN new :
             p < r /\ IsNew(new, p) /\ d[i] = new[p] /\ IsNew(new, r) /\ d[j] = new[r]
      BY <1>1, <2>1
    <2>3. FirstAt(new, u[a]) = p /\ FirstAt(new, u[b]) = r
      BY <2>1, <2>2, FirstAtNew
    <2> QED BY <2>2, <2>3
  <1> QED BY <1>1, <1>3, <1>4, <1>5 DEF u

LEMMA MergeKeepsOrder ==
    ASSUME NEW l, IsList(l), NEW all, IsList(all), NEW new, IsList(new),
           InPageOrder(l, all)
    PROVE  /\ IsList(l \o Unseen(l, new)) /\ IsList(all \o new)
           /\ InPageOrder(l \o Unseen(l, new), all \o new)
PROOF
  <1> DEFINE u == Unseen(l, new)
             q == l \o u
             page == all \o new
             At(x) == FirstAt(page, x)
  <1>1. /\ IsList(u) /\ Members(u) = Members(new) \ Members(l)
        /\ \A a, b \in DOMAIN u : a < b => FirstAt(new, u[a]) < FirstAt(new, u[b])
    BY UnseenIs
  <1>2. /\ Members(l) = Members(all)
        /\ \A i, j \in DOMAIN l : i < j => FirstAt(all, l[i]) < FirstAt(all, l[j])
    BY ToSetIs DEF InPageOrder
  <1> HIDE DEF u
  <1>3. IsList(q) /\ Members(q) = Members(l) \cup Members(u)
    BY <1>1, FirstAtConcat
  <1>4. /\ IsList(page) /\ Members(page) = Members(all) \cup Members(new)
        /\ \A x \in Members(all) : At(x) = FirstAt(all, x)
        /\ \A x \in Members(new) \ Members(all) : At(x) = Len(all) + FirstAt(new, x)
    BY FirstAtConcat
  <1>5. /\ DOMAIN l = 1 .. Len(l) /\ Len(l) \in Nat /\ DOMAIN u = 1 .. Len(u) /\ Len(u) \in Nat
        /\ DOMAIN all = 1 .. Len(all) /\ Len(all) \in Nat
        /\ DOMAIN new = 1 .. Len(new) /\ Len(new) \in Nat
    BY <1>1, SeqIsList DEF IsList
  <1>6. /\ DOMAIN q = 1 .. Len(l) + Len(u)
        /\ \A a \in 1 .. Len(l) + Len(u) : q[a] = IF a =< Len(l) THEN l[a] ELSE u[a - Len(l)]
    <2> DEFINE S == Members(l) \cup Members(u)
    <2>1. \A A, B : A \subseteq B => Seq(A) \subseteq Seq(B)
      OBVIOUS
    <2>2. l \in Seq(S) /\ u \in Seq(S)
      BY <1>1, <2>1 DEF IsList
    <2> HIDE DEF S
    <2> QED BY <2>2, ConcatProperties
  <1> HIDE DEF q, page, At
  <1>7. ASSUME NEW x \in Members(all)
        PROVE  At(x) = FirstAt(all, x) /\ At(x) \in 1 .. Len(all)
    BY <1>4, <1>5, <1>7, FirstAtIs
  <1>8. ASSUME NEW x \in Members(u)
        PROVE  At(x) = Len(all) + FirstAt(new, x) /\ FirstAt(new, x) \in Nat \ {0}
    <2>1. x \in Members(new) /\ x \notin Members(all)
      BY <1>1, <1>2, <1>8
    <2>2. FirstAt(new, x) \in 1 .. Len(new)
      BY <1>5, <2>1, FirstAtIs
    <2> QED BY <1>4, <1>5, <2>1, <2>2
  <1>9. ASSUME NEW a \in DOMAIN q, NEW b \in DOMAIN q, a < b
        PROVE  At(q[a]) < At(q[b])
    <2>1. CASE b =< Len(l)
      <3>1. a \in DOMAIN l /\ b \in DOMAIN l /\ q[a] = l[a] /\ q[b] = l[b]
        BY <1>5, <1>6, <1>9, <2>1
      <3>2. l[a] \in Members(all) /\ l[b] \in Members(all)
        BY <1>2, <3>1 DEF Members
      <3> QED BY <1>2, <1>7, <1>9, <3>1, <3>2
    <2>2. CASE ~(b =< Len(l))
      <3> DEFINE d == b - Len(l)
      <3>1. d \in DOMAIN u /\ q[b] = u[d]
        BY <1>5, <1>6, <2>2
      <3>2. u[d] \in Members(u)
        BY <3>1 DEF Members
      <3>3. CASE a =< Len(l)
        <4>1. a \in DOMAIN l /\ q[a] = l[a]
          BY <1>5, <1>6, <3>3
        <4>2. l[a] \in Members(all)
          BY <1>2, <4>1 DEF Members
        <4>3. At(q[a]) \in 1 .. Len(all)
          BY <1>7, <4>1, <4>2
        <4>4. At(q[b]) = Len(all) + FirstAt(new, u[d]) /\ FirstAt(new, u[d]) \in Nat \ {0}
          BY <1>8, <3>1, <3>2
        <4> HIDE DEF d
        <4> QED BY <1>5, <4>3, <4>4
      <3>4. CASE ~(a =< Len(l))
        <4> DEFINE c == a - Len(l)
        <4>1. c \in DOMAIN u /\ q[a] = u[c] /\ c < d
          BY <1>5, <1>6, <1>9, <2>2, <3>4
        <4>2. u[c] \in Members(u)
          BY <4>1 DEF Members
        <4> HIDE DEF c, d
        <4>3. FirstAt(new, u[c]) < FirstAt(new, u[d])
          BY <1>1, <3>1, <4>1
        <4>4. /\ At(q[a]) = Len(all) + FirstAt(new, u[c]) /\ FirstAt(new, u[c]) \in Nat
              /\ At(q[b]) = Len(all) + FirstAt(new, u[d]) /\ FirstAt(new, u[d]) \in Nat
          BY <1>8, <3>1, <3>2, <4>1, <4>2
        <4> QED BY <1>5, <4>3, <4>4
      <3> QED BY <3>3, <3>4
    <2> QED BY <2>1, <2>2
  <1>10. ToSet(q) = ToSet(page)
    BY <1>1, <1>2, <1>3, <1>4, ToSetIs
  <1> QED BY <1>3, <1>4, <1>9, <1>10 DEF InPageOrder, q, page, u, At

-----------------------------------------------------------------------------
(* The rows that the walk has met.                                         *)

\* What Rendered joins.
Part(key, k) == IF walk[k].key = key THEN Items(key, k) ELSE <<>>
Parts(key, n) == [k \in 1 .. n |-> Part(key, k)]

\* Each merged list holds what its section's blocks have shown so far.
RowsInv ==
    /\ WalkInv
    /\ DOMAIN lists = ListSections
    /\ \A key \in MergedKeys :
          IsList(lists[key]) /\ IsList(Rendered(key)) /\ InPageOrder(lists[key], Rendered(key))

LEMMA RenderedIs ==
    ASSUME NEW key
    PROVE  Rendered(key) = FlattenSeq(Parts(key, at - 1))
PROOF
  BY DEF Rendered, Parts, Part

\* The block that the walk is at adds its part.
LEMMA OneMoreBlock ==
    ASSUME WalkInv, AtBlock, NEW key \in MergedKeys
    PROVE  FlattenSeq(Parts(key, at)) = Rendered(key) \o Part(key, at)
PROOF
  <1> DEFINE A == UNION {Members(Part(key, k)) : k \in DOMAIN walk}
  <1>1. at \in DOMAIN walk /\ DOMAIN walk = 1 .. Len(walk) /\ Len(walk) \in Nat /\ at \in Nat \ {0}
    BY OutlineIs DEF WalkInv, AtBlock
  <1>2. ASSUME NEW k \in DOMAIN walk PROVE Part(key, k) \in Seq(A)
    <2>1. IsList(Items(key, k))
      BY <1>2, ItemsAreLists
    <2>2. IsList(<<>>)
      <3>1. <<>> \in Seq({})
        OBVIOUS
      <3> QED BY <3>1, SeqIsList
    <2>3. IsList(Part(key, k))
      BY <2>1, <2>2 DEF Part
    <2>4. Members(Part(key, k)) \subseteq A
      BY <1>2
    <2>5. \A S, T : S \subseteq T => Seq(S) \subseteq Seq(T)
      OBVIOUS
    <2> HIDE DEF A
    <2> QED BY <2>3, <2>4, <2>5 DEF IsList
  <1> HIDE DEF A
  <1>3. \A k \in 1 .. at : Part(key, k) \in Seq(A)
    BY <1>1, <1>2
  <1>4. Parts(key, at - 1) \in Seq(Seq(A))
    <2>1. at - 1 \in Nat /\ 1 .. (at - 1) \subseteq 1 .. at
      BY <1>1
    <2> QED BY <1>3, <2>1 DEF Parts
  <1>5. Parts(key, at) = Append(Parts(key, at - 1), Part(key, at))
    <2>1. Append(Parts(key, at - 1), Part(key, at))
             = [k \in 1 .. at |-> IF k = at THEN Part(key, at) ELSE Part(key, k)]
      <3> DEFINE P == Parts(key, at - 1)
      <3>1. Len(P) = at - 1 /\ P \in Seq(Seq(A)) /\ \A k \in 1 .. (at - 1) : P[k] = Part(key, k)
        BY <1>1, <1>4 DEF Parts
      <3> HIDE DEF P
      <3>2. Append(P, Part(key, at)) = [k \in 1 .. Len(P) + 1 |->
                                           IF k = Len(P) + 1 THEN Part(key, at) ELSE P[k]]
        <4> DEFINE x == Part(key, at)
                   q == Append(P, x)
        <4>1. x \in Seq(A)
          BY <1>1, <1>2
        <4> HIDE DEF x
        <4>2. /\ q \in Seq(Seq(A)) /\ Len(q) = Len(P) + 1 /\ q[Len(P) + 1] = x
              /\ DOMAIN P = 1 .. Len(P) /\ \A k \in DOMAIN P : q[k] = P[k]
          BY <3>1, <4>1, AppendIs
        <4> HIDE DEF q
        <4>3. q = [k \in 1 .. Len(P) + 1 |-> q[k]] /\ Len(P) \in Nat
          BY <3>1, <4>2
        <4>4. \A k \in 1 .. Len(P) + 1 : k # Len(P) + 1 => k \in DOMAIN P
          BY <4>2, <4>3
        <4> QED BY <4>2, <4>3, <4>4 DEF q, x
      <3>3. Len(P) + 1 = at
        BY <1>1, <3>1
      <3>4. \A k \in 1 .. at : k # at => k \in 1 .. (at - 1)
        BY <1>1
      <3> QED BY <3>1, <3>2, <3>3, <3>4 DEF P
    <2>2. \A k \in 1 .. at : Part(key, k) = IF k = at THEN Part(key, at) ELSE Part(key, k)
      OBVIOUS
    <2> QED BY <2>1, <2>2 DEF Parts
  <1>6. Part(key, at) \in Seq(A)
    BY <1>1, <1>2
  <1>7. FlattenSeq(Parts(key, at)) = FlattenSeq(Parts(key, at - 1)) \o Part(key, at)
    BY <1>4, <1>5, <1>6, FlattenAppend
  <1> QED BY <1>7, RenderedIs

\* A step of the walk.
LEMMA RenderedNext ==
    ASSUME WalkInv, AtBlock, at' = at + 1, outlines' = outlines, NEW key \in MergedKeys
    PROVE  Rendered(key)' = Rendered(key) \o Part(key, at)
PROOF
  <1>1. walk' = walk
    BY DEF walk
  <1>2. \A k : (Part(key, k))' = Part(key, k)
    BY <1>1 DEF Part, Items
  <1>3. at \in Nat
    BY OutlineIs DEF WalkInv
  <1>4. Rendered(key)' = FlattenSeq([k \in 1 .. (at' - 1) |-> Part(key, k)'])
    BY DEF Rendered, Part
  <1>5. at' - 1 = at
    BY <1>3
  <1>6. Rendered(key)' = FlattenSeq(Parts(key, at))
    BY <1>2, <1>4, <1>5 DEF Parts
  <1> QED BY <1>6, OneMoreBlock

\* A section with a merged list takes repeats: none of its blocks is passed over.
LEMMA MergedTakesRepeats ==
    ASSUME NEW key \in MergedKeys
    PROVE  /\ key \in ListSections /\ AcceptsRepeats(key) /\ key # NoKey
           /\ key # "about" /\ key # "skills" /\ key # "languages"
           /\ key \notin PassthroughSections
PROOF
  BY DEF MergedKeys, ListSections, AcceptsRepeats, NoKey, EntitySections, PassthroughSections

LEMMA NothingAdded ==
    ASSUME NEW s, IsList(s)
    PROVE  s \o <<>> = s
PROOF
  <1>1. \A q \in Seq(Members(s)) : q \o <<>> = q
    OBVIOUS
  <1> QED BY <1>1 DEF IsList

\* What a step of the walk does to the list of one section.
LEMMA OneSection ==
    ASSUME RowsInv, AtBlock, at' = at + 1, outlines' = outlines,
           NEW key \in MergedKeys,
           block.key = key => lists'[key] = lists[key] \o Unseen(lists[key], Items(key, at)),
           block.key # key => lists'[key] = lists[key]
    PROVE  /\ IsList(lists'[key]) /\ IsList(Rendered(key)')
           /\ InPageOrder(lists'[key], Rendered(key)')
PROOF
  <1>1. Rendered(key)' = Rendered(key) \o Part(key, at)
    BY RenderedNext DEF RowsInv
  <1>2. IsList(lists[key]) /\ IsList(Rendered(key)) /\ InPageOrder(lists[key], Rendered(key))
    BY DEF RowsInv
  <1>3. CASE block.key = key
    <2>1. at \in DOMAIN walk /\ Part(key, at) = Items(key, at)
      BY <1>3, OutlineIs DEF RowsInv, WalkInv, AtBlock, Part, block
    <2>2. IsList(Items(key, at))
      BY <2>1, ItemsAreLists DEF RowsInv
    <2> QED BY <1>1, <1>2, <1>3, <2>1, <2>2, MergeKeepsOrder
  <1>4. CASE block.key # key
    <2>1. Part(key, at) = <<>>
      BY <1>4 DEF Part, block
    <2>2. Rendered(key)' = Rendered(key)
      BY <1>1, <1>2, <2>1, NothingAdded
    <2> QED BY <1>2, <1>4, <2>2
  <1> QED BY <1>3, <1>4

\* Before the walk starts no row has been met.
LEMMA NothingRendered == at = 1 => \A key : Rendered(key) = <<>>
PROOF
  <1> SUFFICES ASSUME at = 1, NEW key PROVE Rendered(key) = <<>>
    OBVIOUS
  <1>1. at - 1 = 0 /\ 1 .. 0 = {}
    BY SMT
  <1>2. Parts(key, at - 1) = <<>>
    BY <1>1 DEF Parts
  <1>3. FlattenSeq(<<>>) = <<>>
    BY DEF FlattenSeq
  <1> QED BY <1>2, <1>3, RenderedIs

LEMMA EmptyIsInOrder == IsList(<<>>) /\ InPageOrder(<<>>, <<>>)
PROOF
  <1>1. <<>> \in Seq({}) /\ DOMAIN <<>> = {}
    OBVIOUS
  <1>2. IsList(<<>>)
    BY <1>1, SeqIsList
  <1> QED BY <1>1, <1>2 DEF InPageOrder

LEMMA RowsInit == Init => RowsInv
PROOF
  <1> SUFFICES ASSUME Init PROVE RowsInv
    OBVIOUS
  <1>1. WalkInv /\ at = 1 /\ lists = [key \in ListSections |-> <<>>]
    BY WalkInit DEF Init
  <1>2. ASSUME NEW key \in MergedKeys
        PROVE  lists[key] = <<>> /\ Rendered(key) = <<>>
    BY <1>1, <1>2, MergedTakesRepeats, NothingRendered
  <1> QED BY <1>1, <1>2, EmptyIsInOrder DEF RowsInv

\* A step that meets no row.
LEMMA RowsLeft ==
    ASSUME RowsInv, WalkInv', UNCHANGED <<at, lists>>,
           NEW key \in MergedKeys, Rendered(key)' = Rendered(key)
    PROVE  /\ IsList(lists'[key]) /\ IsList(Rendered(key)')
           /\ InPageOrder(lists'[key], Rendered(key)')
PROOF
  BY DEF RowsInv

\* What each step of the walk does to the lists of the merged sections.
LEMMA ListsNext ==
    ASSUME RowsInv,
           \/ SkipBlock \/ About
           \/ \E key \in {"skills", "languages"} : Named(key)
           \/ \E key \in EntitySections \cup {"interests"} : Merged(key)
           \/ \E key \in PassthroughSections : Passthrough(key)
    PROVE  /\ DOMAIN lists' = ListSections
           /\ \A key \in MergedKeys :
                 lists'[key] = IF block.key = key
                               THEN lists[key] \o Unseen(lists[key], Items(key, at))
                               ELSE lists[key]
PROOF
  <1>1. DOMAIN lists = ListSections
    BY DEF RowsInv
  <1>2. CASE SkipBlock
    <2>1. lists' = lists /\ (block.key = NoKey \/ ~AcceptsRepeats(block.key))
      BY <1>2 DEF SkipBlock, IsSkipped
    <2>2. \A key \in MergedKeys : block.key # key
      BY <2>1, MergedTakesRepeats
    <2> QED BY <1>1, <2>1, <2>2
  <1>3. CASE About \/ \E key \in PassthroughSections : Passthrough(key)
    <2>1. lists' = lists /\ (block.key = "about" \/ block.key \in PassthroughSections)
      BY <1>3 DEF About, Passthrough, Applied
    <2>2. \A key \in MergedKeys : block.key # key
      BY <2>1, MergedTakesRepeats
    <2> QED BY <1>1, <2>1, <2>2
  <1>4. ASSUME NEW named \in {"skills", "languages"}, Named(named)
        PROVE  /\ DOMAIN lists' = ListSections
               /\ \A key \in MergedKeys : block.key # key /\ lists'[key] = lists[key]
    <2>1. \E more : lists' = [lists EXCEPT ![named] = more]
      BY <1>4 DEF Named
    <2>3. block.key = named
      BY <1>4 DEF Named, Applied
    <2>2. \A key \in MergedKeys : named # key /\ key \in ListSections
      BY MergedTakesRepeats
    <2> QED BY <1>1, <2>1, <2>2, <2>3
  <1>5. ASSUME NEW merged \in EntitySections \cup {"interests"}, Merged(merged)
        PROVE  /\ DOMAIN lists' = ListSections
               /\ \A key \in MergedKeys :
                     lists'[key] = IF block.key = key
                                   THEN lists[key] \o Unseen(lists[key], Items(key, at))
                                   ELSE lists[key]
    <2>1. /\ lists' = [lists EXCEPT ![merged] = lists[merged]
                                       \o Unseen(lists[merged], Items(merged, at))]
          /\ block.key = merged
      BY <1>5 DEF Merged, Applied
    <2>2. \A key \in MergedKeys : key \in ListSections
      BY MergedTakesRepeats
    <2> QED BY <1>1, <2>1, <2>2
  <1> QED BY <1>2, <1>3, <1>4, <1>5

LEMMA RowsNext == RowsInv /\ [Next]_vars => RowsInv'
PROOF
  <1> SUFFICES ASSUME RowsInv, [Next]_vars PROVE RowsInv'
    OBVIOUS
  <1>1. WalkInv /\ WalkInv'
    BY WalkNext DEF RowsInv
  <1>2. CASE ParseCard
    <2>1. stage = "parse" /\ UNCHANGED <<stage, at, lists>>
      BY <1>2 DEF ParseCard
    <2>2. at = 1 /\ at' = 1
      BY <1>1, <2>1 DEF WalkInv
    <2>3. \A key : Rendered(key) = <<>>
      BY <2>2, NothingRendered
    <2>4. \A key : Rendered(key)' = <<>>
      <3>1. (at = 1 => \A key : Rendered(key) = <<>>)'
        BY NothingRendered, PTL
      <3> QED BY <2>2, <3>1
    <2>5. ASSUME NEW key \in MergedKeys
          PROVE  /\ IsList(lists'[key]) /\ IsList(Rendered(key)')
                 /\ InPageOrder(lists'[key], Rendered(key)')
      BY <1>1, <2>1, <2>3, <2>4, RowsLeft
    <2> QED BY <1>1, <2>1, <2>5 DEF RowsInv
  <1>3. CASE AllParsed \/ Finish \/ AddFailed \/ UNCHANGED vars
    <2>1. UNCHANGED <<outlines, at, lists>>
      BY <1>3 DEF AllParsed, Finish, AddFailed, vars
    <2>2. walk' = walk
      BY <2>1 DEF walk
    <2>3. \A key : Rendered(key)' = Rendered(key)
      BY <2>1, <2>2 DEF Rendered, Items
    <2>4. ASSUME NEW key \in MergedKeys
          PROVE  /\ IsList(lists'[key]) /\ IsList(Rendered(key)')
                 /\ InPageOrder(lists'[key], Rendered(key)')
      BY <1>1, <2>1, <2>3, RowsLeft
    <2> QED BY <1>1, <2>1, <2>4 DEF RowsInv
  <1>4. CASE \/ SkipBlock \/ About
             \/ \E key \in {"skills", "languages"} : Named(key)
             \/ \E key \in EntitySections \cup {"interests"} : Merged(key)
             \/ \E key \in PassthroughSections : Passthrough(key)
    <2>1. AtBlock /\ at' = at + 1 /\ outlines' = outlines
      BY <1>4 DEF SkipBlock, About, Named, Merged, Passthrough, Applied
    <2>2. /\ DOMAIN lists' = ListSections
          /\ \A key \in MergedKeys :
                lists'[key] = IF block.key = key
                              THEN lists[key] \o Unseen(lists[key], Items(key, at))
                              ELSE lists[key]
      BY <1>4, ListsNext
    <2>3. ASSUME NEW key \in MergedKeys
          PROVE  /\ IsList(lists'[key]) /\ IsList(Rendered(key)')
                 /\ InPageOrder(lists'[key], Rendered(key)')
      BY <2>1, <2>2, OneSection
    <2> QED BY <1>1, <2>2, <2>3 DEF RowsInv
  <1> QED BY <1>2, <1>3, <1>4 DEF Next

LEMMA RowsAreInOrder == RowsInv => RowsOnceInPageOrder
PROOF
  <1>1. MergedKeys = ListSections \ {"skills", "languages"}
    BY DEF MergedKeys, ListSections, EntitySections
  <1> QED BY <1>1 DEF RowsInv, RowsOnceInPageOrder, InPageOrder

THEOREM RowsInvariant == Spec => []RowsInv
PROOF
  BY RowsInit, RowsNext, PTL DEF Spec

\* However many cards and nested blocks a section is split over: each of its rows
\* is in the profile once, where the page shows it first.
THEOREM RowsAreMerged == Spec => []RowsOnceInPageOrder
PROOF
  BY RowsInvariant, RowsAreInOrder, PTL
=============================================================================
