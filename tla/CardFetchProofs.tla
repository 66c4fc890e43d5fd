-------------------------- MODULE CardFetchProofs ---------------------------
(***************************************************************************)
(* Proofs about CardFetch for every list of wanted cards, every shell,     *)
(* every set of answers and every number of slots.                         *)
(***************************************************************************)
EXTENDS CardFetch, FiniteSetTheorems, TLAPS

USE StatusesAssumption, ConcurrencyAssumption, WantedAssumption

-----------------------------------------------------------------------------
(* The inductive invariant.                                                *)

Recorded(c) == job[c] \in {"recorded", "released", "finished"}
Answered(c) == job[c] = "answered" \/ Recorded(c)
Owning == {c \in Cards : job[c] \in OwnsSlot}
Counted == {c \in Cards : job[c] \notin {"idle", "finished"}}
ListedCards == [kind |-> "cards", set |-> Listed(shell.rows, activity)]

\* What the rows read so far advertise.
ReadSoFar ==
    {c \in Wanted(activity) :
        \E r \in DOMAIN shell.rows \ unread : Offers(shell.rows[r], c) # {}}

\* What each stage of FetchProfile has done.
StageInv ==
    /\ stage = "navigate" => shell = Waiting /\ found = <<>>
    /\ stage # "navigate" => shell.kind = "shell"
    /\ stage \in {"navigate", "discover"} => cards = Waiting
    /\ stage \in {"launch", "wait"} => cards # Waiting
    /\ cards # Waiting => cards = ListedCards /\ DOMAIN found = cards.set
    /\ stage # "done" => outcome = Waiting

\* DiscoverCards has found what the rows it read advertise.
DiscoveryInv ==
    stage = "discover" =>
        /\ unread \subseteq DOMAIN shell.rows
        /\ DOMAIN found = ReadSoFar

\* Which goroutines there are, and that none is left when the call returns.
JobInv ==
    /\ \A c \in Cards : job[c] # "idle" => cards # Waiting /\ c \in cards.set
    /\ stage \in {"wait", "done"} /\ cards # Waiting =>
          \A c \in cards.set : job[c] # "idle"
    /\ stage = "done" => \A c \in Cards : job[c] \in {"idle", "finished"}

\* The channel and the WaitGroup count what they are meant to count.
CountInv ==
    /\ slots = Cardinality(Owning)
    /\ pending = Cardinality(Counted)

\* Where the answer of each card went.
RecordInv ==
    /\ DOMAIN reply = {c \in Cards : Answered(c)}
    /\ results = {c \in Cards : Recorded(c) /\ Code(reply[c]) = "ok"}
    /\ failed \subseteq {c \in Cards : Recorded(c) /\ Code(reply[c]) # "ok"}
    /\ fatal <=> \E c \in Cards : Recorded(c) /\ Code(reply[c]) = "session_expired"
    /\ ~fatal => failed = {c \in Cards : Recorded(c) /\ Code(reply[c]) # "ok"}

FetchInv ==
    /\ FetchTypeOK /\ StageInv /\ DiscoveryInv /\ JobInv /\ CountInv /\ RecordInv
    /\ EveryCardAccountedFor

-----------------------------------------------------------------------------
(* The sets that are counted.                                              *)

\* There are finitely many cards: they are listed.
LEMMA CardsFinite == IsFiniteSet(Cards)
PROOF
  <1> DEFINE all == {WantedCards[k] : k \in DOMAIN WantedCards} \cup {ActivityCard}
  <1>1. WantedCards \in Seq(all) /\ ActivityCard \in all
    OBVIOUS
  <1>2. PageOrder \in Seq(all) /\ Len(PageOrder) \in Nat
    BY <1>1 DEF PageOrder
  <1>3. DOMAIN PageOrder = 1 .. Len(PageOrder)
    BY <1>2
  <1>4. PageOrder \in Surjection(1 .. Len(PageOrder), Cards)
    BY <1>2, <1>3 DEF Surjection, Cards
  <1> QED BY <1>2, <1>4, FS_Interval, FS_Surjection

\* One goroutine enters or leaves a set of goroutines that is counted.
LEMMA CountOne ==
    ASSUME NEW S \in SUBSET Cards, NEW c \in Cards
    PROVE  /\ Cardinality(S) \in Nat
           /\ c \notin S => Cardinality(S \cup {c}) = Cardinality(S) + 1
           /\ c \in S => /\ Cardinality(S \ {c}) = Cardinality(S) - 1
                         /\ Cardinality(S) > 0
           /\ Cardinality(S) = 0 => S = {}
PROOF
  <1>1. IsFiniteSet(S) /\ IsFiniteSet(S \ {c})
    BY CardsFinite, FS_Subset
  <1>2. Cardinality(S) \in Nat /\ Cardinality(S \ {c}) \in Nat
    BY <1>1, FS_CardinalityType
  <1>3. c \notin S => Cardinality(S \cup {c}) = Cardinality(S) + 1
    BY <1>1, FS_AddElement
  <1>4. c \in S => Cardinality(S \ {c}) = Cardinality(S) - 1
    BY <1>1, FS_RemoveElement
  <1>5. Cardinality(S) = 0 => S = {}
    BY <1>1, FS_EmptySet
  <1> QED BY <1>2, <1>3, <1>4, <1>5

\* Reading a row adds the cards it advertises to those found, whichever row
\* comes first.
LEMMA ReadingAdds ==
    ASSUME NEW f, NEW row
    PROVE  DOMAIN Collected(f, row, activity)
             = DOMAIN f \cup {c \in Wanted(activity) : Offers(row, c) # {}}
PROOF
  BY DEF Collected

\* When every row has been read, what was found is what the shell lists.
LEMMA AllRead ==
    ASSUME unread = {}
    PROVE  ReadSoFar = Listed(shell.rows, activity)
PROOF
  BY DEF ReadSoFar, Listed

-----------------------------------------------------------------------------
LEMMA FetchInitial == FetchInit => FetchInv
PROOF
  <1> SUFFICES ASSUME FetchInit PROVE FetchInv
    OBVIOUS
  <1> USE DEF FetchInit
  <1>1. FetchTypeOK
    <2>1. DOMAIN found = {} /\ DOMAIN reply = {}
      OBVIOUS
    <2>2. 0 \in 0 .. Concurrency /\ 0 \in Nat
      OBVIOUS
    <2> QED BY <2>1, <2>2 DEF FetchTypeOK, Stages, JobPhases
  <1>2. StageInv /\ DiscoveryInv /\ JobInv
    BY DEF StageInv, DiscoveryInv, JobInv
  <1>3. Owning = {} /\ Counted = {}
    BY DEF Owning, Counted, OwnsSlot
  <1>4. CountInv
    BY <1>3, FS_EmptySet DEF CountInv
  <1>5. RecordInv
    BY DEF RecordInv, Answered, Recorded
  <1>6. EveryCardAccountedFor
    BY DEF EveryCardAccountedFor, Waiting
  <1> QED BY <1>1, <1>2, <1>4, <1>5, <1>6 DEF FetchInv

-----------------------------------------------------------------------------
(* Each part of the invariant is kept, action by action.                   *)

\* The channel and the WaitGroup are only taken from when something is in them.
LEMMA TypeStep ==
    ASSUME FetchInv, [FetchNext]_fetchVars
    PROVE  FetchTypeOK'
PROOF
  <1> USE DEF FetchInv, FetchTypeOK, Stages, JobPhases, GoOn
  <1>1. ASSUME NEW s \in Statuses, NEW rows \in Shells, Navigate(s, rows) PROVE FetchTypeOK'
    BY <1>1 DEF Navigate, discoveryVars
  <1>2. CASE Unparseable
    BY <1>2 DEF Unparseable, discoveryVars
  <1>3. ASSUME NEW r \in unread, ReadRow(r) PROVE FetchTypeOK'
    <2>1. DOMAIN found' \subseteq Wanted(activity)
      BY <1>3, ReadingAdds DEF ReadRow
    <2>2. unread' \subseteq DOMAIN shell.rows /\ stage' = "discover"
      BY <1>3 DEF ReadRow
    <2> QED BY <1>3, <2>1, <2>2 DEF ReadRow, StageInv
  <1>4. CASE Discovered
    BY <1>4 DEF Discovered, discoveryVars
  <1>5. ASSUME NEW c \in Cards, Launch(c) PROVE FetchTypeOK'
    BY <1>5 DEF Launch, discoveryVars
  <1>6. CASE Collect
    BY <1>6 DEF Collect, discoveryVars
  <1>7. ASSUME NEW c \in Cards, Acquire(c) PROVE FetchTypeOK'
    BY <1>7 DEF Acquire, discoveryVars
  <1>8. ASSUME NEW c \in Cards, NEW s \in Statuses, Answer(c, s) PROVE FetchTypeOK'
    BY <1>8 DEF Answer, discoveryVars
  <1>9. ASSUME NEW c \in Cards, Record(c) PROVE FetchTypeOK'
    BY <1>9 DEF Record, discoveryVars
  <1>10. ASSUME NEW c \in Cards, Release(c) PROVE FetchTypeOK'
    <2>1. c \in Owning
      BY <1>10 DEF Release, Owning, OwnsSlot
    <2>2. slots > 0
      BY <2>1, CountOne DEF CountInv, Owning
    <2>3. slots - 1 \in 0 .. Concurrency
      BY <2>2
    <2> QED BY <1>10, <2>3 DEF Release, discoveryVars
  <1>11. ASSUME NEW c \in Cards, Done(c) PROVE FetchTypeOK'
    <2>1. c \in Counted
      BY <1>11 DEF Done, Counted
    <2>2. pending > 0
      BY <2>1, CountOne DEF CountInv, Counted
    <2>3. pending - 1 \in Nat
      BY <2>2
    <2> QED BY <1>11, <2>3 DEF Done, discoveryVars
  <1>12. CASE Cancel
    BY <1>12 DEF Cancel, discoveryVars
  <1>13. CASE UNCHANGED fetchVars
    BY <1>13 DEF fetchVars, discoveryVars
  <1> QED BY <1>1, <1>2, <1>3, <1>4, <1>5, <1>6, <1>7, <1>8, <1>9, <1>10,
             <1>11, <1>12, <1>13
          DEF FetchNext, MainStep, JobStep

LEMMA StageStep ==
    ASSUME FetchInv, [FetchNext]_fetchVars
    PROVE  StageInv'
PROOF
  <1> USE DEF FetchInv, StageInv, FetchTypeOK, Stages, ListedCards, discoveryVars,
              Waiting
  <1>1. ASSUME NEW s \in Statuses, NEW rows \in Shells, Navigate(s, rows) PROVE StageInv'
    BY <1>1 DEF Navigate
  <1>2. CASE Unparseable
    BY <1>2 DEF Unparseable
  <1>3. ASSUME NEW r \in unread, ReadRow(r) PROVE StageInv'
    BY <1>3 DEF ReadRow
  <1>4. CASE Discovered
    <2>1. DOMAIN found = Listed(shell.rows, activity)
      BY <1>4, AllRead DEF Discovered, DiscoveryInv
    <2> QED BY <1>4, <2>1 DEF Discovered
  <1>5. ASSUME NEW c \in Cards, Launch(c) PROVE StageInv'
    BY <1>5 DEF Launch
  <1>6. CASE Collect
    BY <1>6 DEF Collect
  <1>7. ASSUME NEW c \in Cards, Acquire(c) PROVE StageInv'
    BY <1>7 DEF Acquire
  <1>8. ASSUME NEW c \in Cards, NEW s \in Statuses, Answer(c, s) PROVE StageInv'
    BY <1>8 DEF Answer
  <1>9. ASSUME NEW c \in Cards, Record(c) PROVE StageInv'
    BY <1>9 DEF Record
  <1>10. ASSUME NEW c \in Cards, Release(c) PROVE StageInv'
    BY <1>10 DEF Release
  <1>11. ASSUME NEW c \in Cards, Done(c) PROVE StageInv'
    BY <1>11 DEF Done
  <1>12. CASE Cancel
    BY <1>12 DEF Cancel
  <1>13. CASE UNCHANGED fetchVars
    BY <1>13 DEF fetchVars, discoveryVars
  <1> QED BY <1>1, <1>2, <1>3, <1>4, <1>5, <1>6, <1>7, <1>8, <1>9, <1>10,
             <1>11, <1>12, <1>13
          DEF FetchNext, MainStep, JobStep

\* In whatever order the rows are read.
LEMMA DiscoveryStep ==
    ASSUME FetchInv, [FetchNext]_fetchVars
    PROVE  DiscoveryInv'
PROOF
  <1> USE DEF FetchInv, DiscoveryInv, ReadSoFar, discoveryVars
  <1>1. ASSUME NEW s \in Statuses, NEW rows \in Shells, Navigate(s, rows) PROVE DiscoveryInv'
    BY <1>1 DEF Navigate, StageInv
  <1>2. CASE Unparseable
    BY <1>2 DEF Unparseable
  <1>3. ASSUME NEW r \in unread, ReadRow(r) PROVE DiscoveryInv'
    <2>1. DOMAIN found' = ReadSoFar
                            \cup {c \in Wanted(activity) : Offers(shell.rows[r], c) # {}}
      BY <1>3, ReadingAdds DEF ReadRow
    <2>2. /\ UNCHANGED <<shell, activity, stage>>
          /\ unread' = unread \ {r} /\ r \in DOMAIN shell.rows
      BY <1>3 DEF ReadRow
    <2> QED BY <2>1, <2>2
  <1>4. CASE Discovered
    BY <1>4 DEF Discovered
  <1>5. ASSUME NEW c \in Cards, Launch(c) PROVE DiscoveryInv'
    BY <1>5 DEF Launch
  <1>6. CASE Collect
    BY <1>6 DEF Collect
  <1>7. ASSUME NEW c \in Cards, Acquire(c) PROVE DiscoveryInv'
    BY <1>7 DEF Acquire
  <1>8. ASSUME NEW c \in Cards, NEW s \in Statuses, Answer(c, s) PROVE DiscoveryInv'
    BY <1>8 DEF Answer
  <1>9. ASSUME NEW c \in Cards, Record(c) PROVE DiscoveryInv'
    BY <1>9 DEF Record
  <1>10. ASSUME NEW c \in Cards, Release(c) PROVE DiscoveryInv'
    BY <1>10 DEF Release
  <1>11. ASSUME NEW c \in Cards, Done(c) PROVE DiscoveryInv'
    BY <1>11 DEF Done
  <1>12. CASE Cancel
    BY <1>12 DEF Cancel
  <1>13. CASE UNCHANGED fetchVars
    BY <1>13 DEF fetchVars, discoveryVars
  <1> QED BY <1>1, <1>2, <1>3, <1>4, <1>5, <1>6, <1>7, <1>8, <1>9, <1>10,
             <1>11, <1>12, <1>13
          DEF FetchNext, MainStep, JobStep

\* A count of zero means that there is none.
LEMMA NoneCounted ==
    ASSUME CountInv, pending = 0
    PROVE  Counted = {}
PROOF
  <1>1. Counted \subseteq Cards /\ IsFiniteSet(Counted)
    BY CardsFinite, FS_Subset DEF Counted
  <1> QED BY <1>1, FS_EmptySet DEF CountInv

\* wg.Wait returns only when no goroutine is left.
LEMMA JobInvStep ==
    ASSUME FetchInv, [FetchNext]_fetchVars
    PROVE  JobInv'
PROOF
  <1> USE DEF FetchInv, JobInv, StageInv, FetchTypeOK, GoOn, discoveryVars
  <1>1. ASSUME NEW s \in Statuses, NEW rows \in Shells, Navigate(s, rows) PROVE JobInv'
    BY <1>1 DEF Navigate
  <1>2. CASE Unparseable
    BY <1>2 DEF Unparseable
  <1>3. ASSUME NEW r \in unread, ReadRow(r) PROVE JobInv'
    BY <1>3 DEF ReadRow
  <1>4. CASE Discovered
    BY <1>4 DEF Discovered
  <1>5. ASSUME NEW c \in Cards, Launch(c) PROVE JobInv'
    BY <1>5 DEF Launch
  <1>6. CASE Collect
    <2>1. Counted = {}
      BY <1>6, NoneCounted DEF Collect
    <2>2. \A c \in Cards : job[c] \in {"idle", "finished"}
      BY <2>1 DEF Counted
    <2> QED BY <1>6, <2>2 DEF Collect
  <1>7. ASSUME NEW c \in Cards, Acquire(c) PROVE JobInv'
    BY <1>7 DEF Acquire
  <1>8. ASSUME NEW c \in Cards, NEW s \in Statuses, Answer(c, s) PROVE JobInv'
    BY <1>8 DEF Answer
  <1>9. ASSUME NEW c \in Cards, Record(c) PROVE JobInv'
    BY <1>9 DEF Record
  <1>10. ASSUME NEW c \in Cards, Release(c) PROVE JobInv'
    BY <1>10 DEF Release
  <1>11. ASSUME NEW c \in Cards, Done(c) PROVE JobInv'
    BY <1>11 DEF Done
  <1>12. CASE Cancel
    BY <1>12 DEF Cancel
  <1>13. CASE UNCHANGED fetchVars
    BY <1>13 DEF fetchVars, discoveryVars
  <1> QED BY <1>1, <1>2, <1>3, <1>4, <1>5, <1>6, <1>7, <1>8, <1>9, <1>10,
             <1>11, <1>12, <1>13
          DEF FetchNext, MainStep, JobStep

\* Every path of a goroutine gives back what it took.
LEMMA CountStep ==
    ASSUME FetchInv, [FetchNext]_fetchVars
    PROVE  CountInv'
PROOF
  <1> USE DEF FetchInv, FetchTypeOK, CountInv, JobPhases, OwnsSlot, GoOn
  <1>0. Owning \subseteq Cards /\ Counted \subseteq Cards
    BY DEF Owning, Counted
  <1>1. ASSUME NEW s \in Statuses, NEW rows \in Shells, Navigate(s, rows) PROVE CountInv'
    <2>1. Owning' = Owning /\ Counted' = Counted
      BY <1>1 DEF Navigate, Owning, Counted
    <2> QED BY <1>1, <2>1 DEF Navigate
  <1>2. CASE Unparseable
    <2>1. Owning' = Owning /\ Counted' = Counted
      BY <1>2 DEF Unparseable, Owning, Counted
    <2> QED BY <1>2, <2>1 DEF Unparseable
  <1>3. ASSUME NEW r \in unread, ReadRow(r) PROVE CountInv'
    <2>1. Owning' = Owning /\ Counted' = Counted
      BY <1>3 DEF ReadRow, Owning, Counted
    <2> QED BY <1>3, <2>1 DEF ReadRow
  <1>4. CASE Discovered
    <2>1. Owning' = Owning /\ Counted' = Counted
      BY <1>4 DEF Discovered, Owning, Counted
    <2> QED BY <1>4, <2>1 DEF Discovered
  <1>5. ASSUME NEW c \in Cards, Launch(c) PROVE CountInv'
    <2>1. Owning' = Owning /\ c \notin Counted /\ Counted' = Counted \cup {c}
      BY <1>5 DEF Launch, Owning, Counted
    <2>2. Cardinality(Counted') = Cardinality(Counted) + 1
      BY <1>0, <2>1, CountOne
    <2> QED BY <1>5, <2>1, <2>2 DEF Launch
  <1>6. CASE Collect
    <2>1. Owning' = Owning /\ Counted' = Counted
      BY <1>6 DEF Collect, Owning, Counted
    <2> QED BY <1>6, <2>1 DEF Collect
  <1>7. ASSUME NEW c \in Cards, Acquire(c) PROVE CountInv'
    <2>1. Counted' = Counted /\ c \notin Owning /\ Owning' = Owning \cup {c}
      BY <1>7 DEF Acquire, Owning, Counted
    <2>2. Cardinality(Owning') = Cardinality(Owning) + 1
      BY <1>0, <2>1, CountOne
    <2> QED BY <1>7, <2>1, <2>2 DEF Acquire
  <1>8. ASSUME NEW c \in Cards, NEW s \in Statuses, Answer(c, s) PROVE CountInv'
    <2>1. Owning' = Owning /\ Counted' = Counted
      BY <1>8 DEF Answer, Owning, Counted
    <2> QED BY <1>8, <2>1 DEF Answer
  <1>9. ASSUME NEW c \in Cards, Record(c) PROVE CountInv'
    <2>1. Owning' = Owning /\ Counted' = Counted
      BY <1>9 DEF Record, Owning, Counted
    <2> QED BY <1>9, <2>1 DEF Record
  <1>10. ASSUME NEW c \in Cards, Release(c) PROVE CountInv'
    <2>1. Counted' = Counted /\ c \in Owning /\ Owning' = Owning \ {c}
      BY <1>10 DEF Release, Owning, Counted
    <2>2. Cardinality(Owning') = Cardinality(Owning) - 1
      BY <1>0, <2>1, CountOne
    <2> QED BY <1>10, <2>1, <2>2 DEF Release
  <1>11. ASSUME NEW c \in Cards, Done(c) PROVE CountInv'
    <2>1. Owning' = Owning /\ c \in Counted /\ Counted' = Counted \ {c}
      BY <1>11 DEF Done, Owning, Counted
    <2>2. Cardinality(Counted') = Cardinality(Counted) - 1
      BY <1>0, <2>1, CountOne
    <2> QED BY <1>11, <2>1, <2>2 DEF Done
  <1>12. CASE Cancel
    <2>1. Owning' = Owning /\ Counted' = Counted
      BY <1>12 DEF Cancel, Owning, Counted
    <2> QED BY <1>12, <2>1 DEF Cancel
  <1>13. CASE UNCHANGED fetchVars
    <2>1. Owning' = Owning /\ Counted' = Counted
      BY <1>13 DEF fetchVars, Owning, Counted
    <2> QED BY <1>13, <2>1 DEF fetchVars
  <1> QED BY <1>1, <1>2, <1>3, <1>4, <1>5, <1>6, <1>7, <1>8, <1>9, <1>10,
             <1>11, <1>12, <1>13
          DEF FetchNext, MainStep, JobStep

\* An answer goes to one place, and only the first rejection to neither list.
LEMMA RecordStep ==
    ASSUME FetchInv, [FetchNext]_fetchVars
    PROVE  RecordInv'
PROOF
  <1> USE DEF FetchInv, FetchTypeOK, RecordInv, JobPhases, Recorded, Answered, GoOn,
              discoveryVars
  <1>1. ASSUME NEW s \in Statuses, NEW rows \in Shells, Navigate(s, rows) PROVE RecordInv'
    BY <1>1 DEF Navigate
  <1>2. CASE Unparseable
    BY <1>2 DEF Unparseable
  <1>3. ASSUME NEW r \in unread, ReadRow(r) PROVE RecordInv'
    BY <1>3 DEF ReadRow
  <1>4. CASE Discovered
    BY <1>4 DEF Discovered
  <1>5. ASSUME NEW c \in Cards, Launch(c) PROVE RecordInv'
    BY <1>5 DEF Launch
  <1>6. CASE Collect
    BY <1>6 DEF Collect
  <1>7. ASSUME NEW c \in Cards, Acquire(c) PROVE RecordInv'
    BY <1>7 DEF Acquire
  <1>8. ASSUME NEW c \in Cards, NEW s \in Statuses, Answer(c, s) PROVE RecordInv'
    BY <1>8 DEF Answer
  <1>9. ASSUME NEW c \in Cards, Record(c) PROVE RecordInv'
    BY <1>9 DEF Record
  <1>10. ASSUME NEW c \in Cards, Release(c) PROVE RecordInv'
    BY <1>10 DEF Release
  <1>11. ASSUME NEW c \in Cards, Done(c) PROVE RecordInv'
    BY <1>11 DEF Done
  <1>12. CASE Cancel
    BY <1>12 DEF Cancel
  <1>13. CASE UNCHANGED fetchVars
    BY <1>13 DEF fetchVars, discoveryVars
  <1> QED BY <1>1, <1>2, <1>3, <1>4, <1>5, <1>6, <1>7, <1>8, <1>9, <1>10,
             <1>11, <1>12, <1>13
          DEF FetchNext, MainStep, JobStep

LEMMA AccountStep ==
    ASSUME FetchInv, [FetchNext]_fetchVars
    PROVE  EveryCardAccountedFor'
PROOF
  <1> USE DEF FetchInv, EveryCardAccountedFor, FetchTypeOK, StageInv, Waiting, GoOn,
              discoveryVars
  <1>1. ASSUME NEW s \in Statuses, NEW rows \in Shells, Navigate(s, rows) PROVE EveryCardAccountedFor'
    BY <1>1 DEF Navigate, Error
  <1>2. CASE Unparseable
    BY <1>2 DEF Unparseable, Error
  <1>3. ASSUME NEW r \in unread, ReadRow(r) PROVE EveryCardAccountedFor'
    BY <1>3 DEF ReadRow
  <1>4. CASE Discovered
    <2>1. DOMAIN found = Listed(shell.rows, activity)
      BY <1>4, AllRead DEF Discovered, DiscoveryInv
    <2> QED BY <1>4, <2>1 DEF Discovered, Result
  <1>5. ASSUME NEW c \in Cards, Launch(c) PROVE EveryCardAccountedFor'
    BY <1>5 DEF Launch
  <1>6. CASE Collect
    <2>1. cards.set = Listed(shell.rows, activity)
      BY <1>6 DEF Collect, ListedCards
    <2>2. Counted = {}
      BY <1>6, NoneCounted DEF Collect
    <2>3. cards.set = {c \in Cards : Recorded(c)}
      <3>1. \A c \in cards.set : c \in Cards
        BY <2>1 DEF Listed, Wanted
      <3>2. \A c \in Cards : job[c] \in {"idle", "finished"}
        BY <2>2 DEF Counted
      <3>3. \A c \in cards.set : job[c] # "idle"
        BY <1>6 DEF Collect, JobInv
      <3>4. \A c \in Cards : Recorded(c) => c \in cards.set
        BY DEF JobInv, Recorded
      <3> QED BY <3>1, <3>2, <3>3, <3>4 DEF Recorded
    <2>4. CASE ~fatal
      <3>1. outcome' = Result(results, failed)
        BY <1>6, <2>4 DEF Collect
      <3>2. /\ results \cap failed = {}
            /\ results \cup failed = cards.set
            /\ \A c \in results : Code(reply[c]) = "ok"
        BY <2>3, <2>4 DEF RecordInv
      <3>3. UNCHANGED <<shell, activity, reply>>
        BY <1>6 DEF Collect
      <3> QED BY <2>1, <3>1, <3>2, <3>3 DEF Result
    <2>5. CASE fatal
      BY <1>6, <2>5 DEF Collect, Error
    <2> QED BY <2>4, <2>5
  <1>7. ASSUME NEW c \in Cards, Acquire(c) PROVE EveryCardAccountedFor'
    BY <1>7 DEF Acquire
  <1>8. ASSUME NEW c \in Cards, NEW s \in Statuses, Answer(c, s) PROVE EveryCardAccountedFor'
    BY <1>8 DEF Answer, JobInv
  <1>9. ASSUME NEW c \in Cards, Record(c) PROVE EveryCardAccountedFor'
    BY <1>9 DEF Record
  <1>10. ASSUME NEW c \in Cards, Release(c) PROVE EveryCardAccountedFor'
    BY <1>10 DEF Release
  <1>11. ASSUME NEW c \in Cards, Done(c) PROVE EveryCardAccountedFor'
    BY <1>11 DEF Done
  <1>12. CASE Cancel
    BY <1>12 DEF Cancel
  <1>13. CASE UNCHANGED fetchVars
    BY <1>13 DEF fetchVars, discoveryVars
  <1> QED BY <1>1, <1>2, <1>3, <1>4, <1>5, <1>6, <1>7, <1>8, <1>9, <1>10,
             <1>11, <1>12, <1>13
          DEF FetchNext, MainStep, JobStep

LEMMA FetchInvStep == FetchInv /\ [FetchNext]_fetchVars => FetchInv'
PROOF
  BY TypeStep, StageStep, DiscoveryStep, JobInvStep, CountStep, RecordStep,
     AccountStep DEF FetchInv

-----------------------------------------------------------------------------
(* The theorems.                                                           *)

\* The inductive invariant holds in every reachable state of FetchProfile.
THEOREM FetchInvariant == FetchSpec => []FetchInv
PROOF
  <1>1. FetchInit => FetchInv
    BY FetchInitial
  <1>2. FetchInv /\ [FetchNext]_fetchVars => FetchInv'
    BY FetchInvStep
  <1> QED BY <1>1, <1>2, PTL DEF FetchSpec

\* Type correctness: the slots stay within the channel, the WaitGroup's counter
\* does not become negative, and no card is found that was not wanted.
THEOREM FetchTypeCorrect == FetchSpec => []FetchTypeOK
PROOF
  <1>1. FetchInv => FetchTypeOK
    BY DEF FetchInv
  <1> QED BY <1>1, FetchInvariant, PTL

\* Never more than Concurrency requests of one profile are at LinkedIn.
THEOREM FanOutIsBounded == FetchSpec => []BoundedFanOut
PROOF
  <1>1. FetchInv => BoundedFanOut
    BY DEF FetchInv, CountInv, Owning, FetchTypeOK, BoundedFanOut
  <1> QED BY <1>1, FetchInvariant, PTL

\* Fetched and failed are disjoint and are together what the shell lists.
THEOREM NoCardIsLost == FetchSpec => []EveryCardAccountedFor
PROOF
  <1>1. FetchInv => EveryCardAccountedFor
    BY DEF FetchInv
  <1> QED BY <1>1, FetchInvariant, PTL

\* When FetchProfile returns, all its goroutines have ended.
THEOREM NoGoroutineIsLeft == FetchSpec => []NoStraggler
PROOF
  <1>1. ASSUME FetchInv PROVE NoStraggler
    <2> SUFFICES ASSUME stage = "done" PROVE NoStraggler
      BY DEF NoStraggler
    <2>1. \A c \in Cards : job[c] \in {"idle", "finished"}
      BY <1>1 DEF FetchInv, JobInv
    <2>2. Owning = {} /\ Counted = {}
      BY <2>1 DEF Owning, Counted, OwnsSlot
    <2>3. slots = 0 /\ pending = 0
      BY <1>1, <2>2, FS_EmptySet DEF FetchInv, CountInv
    <2> QED BY <2>1, <2>3 DEF NoStraggler
  <1> QED BY <1>1, FetchInvariant, PTL

-----------------------------------------------------------------------------
(* The result is the verdict on the answers.                               *)

\* Both modules read LinkedIn's answers and the shell alike.
LEMMA SameWords ==
    /\ \A s : Promise!Code(s) = Code(s)
    /\ \A rows, a : Promise!Listed(rows, a) = Listed(rows, a)
    /\ Promise!Cards = Cards
    /\ Promise!Waiting = Waiting
    /\ \A code : Promise!Error(code) = Error(code)
PROOF
  <1>1. \A s : Promise!Code(s) = Code(s)
    BY DEF Promise!Code, Code, Promise!NoResponse, NoResponse, Promise!BadBody,
           BadBody
  <1>2. Promise!Cards = Cards
    BY DEF Promise!Cards, Cards, Promise!PageOrder, PageOrder
  <1>3. \A rows, a : Promise!Listed(rows, a) = Listed(rows, a)
    BY <1>2 DEF Promise!Listed, Listed, Promise!Wanted, Wanted, Promise!Offers,
                Offers
  <1> QED BY <1>1, <1>2, <1>3 DEF Promise!Waiting, Waiting, Promise!Error, Error

\* The verdict that FetchVerdict computes is the one that is collected.
LEMMA CollectIsVerdict ==
    ASSUME FetchInv, Collect
    PROVE  /\ DOMAIN reply = cards.set
           /\ outcome' = Promise!Verdict
PROOF
  <1> USE DEF FetchInv
  <1>1. Counted = {}
    BY NoneCounted DEF Collect
  <1>2. \A c \in Cards : job[c] \in {"idle", "finished"}
    BY <1>1 DEF Counted
  <1>3. \A c \in Cards : Answered(c) <=> Recorded(c)
    BY <1>2 DEF Answered, Recorded
  <1>4. \A c \in cards.set : c \in Cards /\ job[c] # "idle"
    BY DEF Collect, JobInv, StageInv, ListedCards, Listed, Wanted
  <1>5. cards.set = {c \in Cards : Recorded(c)}
    BY <1>2, <1>4 DEF JobInv, Recorded
  <1>6. DOMAIN reply = cards.set
    BY <1>3, <1>5 DEF RecordInv
  <1>7. fatal <=> Promise!Answered("session_expired") # {}
    BY <1>5, <1>6, SameWords DEF RecordInv, Promise!Answered
  <1>8. results = Promise!Answered("ok")
    BY <1>5, <1>6, SameWords DEF RecordInv, Promise!Answered
  <1>9. ~fatal => failed = DOMAIN reply \ Promise!Answered("ok")
    BY <1>5, <1>6, SameWords DEF RecordInv, Promise!Answered
  <1> QED BY <1>6, <1>7, <1>8, <1>9, SameWords
          DEF Collect, Promise!Verdict, Error, Result

LEMMA StepIsVerdictStep ==
    ASSUME FetchInv, [FetchNext]_fetchVars
    PROVE  [Promise!VerdictNext]_(Promise!verdictVars)
PROOF
  <1> USE DEF FetchInv, StageInv, Promise!verdictVars, discoveryVars, Waiting,
              Promise!Waiting
  <1>1. ASSUME NEW s \in Statuses, NEW rows \in Shells, Navigate(s, rows)
        PROVE  Promise!ShellArrives(s, rows)
    BY <1>1, SameWords DEF Navigate, Promise!ShellArrives
  <1>2. ASSUME Unparseable PROVE Promise!ShellUnparseable
    BY <1>2, SameWords DEF Unparseable, Promise!ShellUnparseable
  <1>3. ASSUME NEW r \in unread, ReadRow(r) PROVE UNCHANGED Promise!verdictVars
    BY <1>3 DEF ReadRow
  <1>4. ASSUME Discovered PROVE Promise!CardsFound
    <2>1. DOMAIN found = Listed(shell.rows, activity)
      BY <1>4, AllRead DEF Discovered, DiscoveryInv
    <2>2. DOMAIN reply = {}
      BY <1>4 DEF Discovered, RecordInv, JobInv, Answered, Recorded
    <2>3. Promise!Verdict = Result({}, {})
      BY <2>2 DEF Promise!Verdict, Promise!Answered, Result
    <2>4. cards' = [kind |-> "cards", set |-> Promise!Listed(shell.rows, activity)]
      BY <1>4, <2>1, SameWords DEF Discovered
    <2>5. outcome' = IF cards'.set = {} THEN Promise!Verdict ELSE outcome
      BY <1>4, <2>1, <2>3, <2>4, SameWords DEF Discovered
    <2>6. /\ shell # Waiting /\ outcome = Waiting /\ cards = Waiting
          /\ shell.rows # <<>>
          /\ UNCHANGED <<activity, shell, reply>>
      BY <1>4 DEF Discovered
    <2> QED BY <2>4, <2>5, <2>6 DEF Promise!CardsFound
  <1>5. ASSUME NEW c \in Cards, Launch(c) PROVE UNCHANGED Promise!verdictVars
    BY <1>5 DEF Launch
  <1>6. ASSUME Collect PROVE Promise!Return
    BY <1>6, CollectIsVerdict DEF Collect, Promise!Return
  <1>7. ASSUME NEW c \in Cards, Acquire(c) PROVE UNCHANGED Promise!verdictVars
    BY <1>7 DEF Acquire
  <1>8. ASSUME NEW c \in Cards, NEW s \in Statuses, Answer(c, s)
        PROVE  Promise!CardAnswers(c, s)
    <2>1. cards # Waiting /\ c \in cards.set /\ outcome = Waiting
      BY <1>8 DEF Answer, JobInv
    <2>2. c \notin DOMAIN reply
      BY <1>8 DEF Answer, RecordInv, Answered, Recorded
    <2> QED BY <1>8, <2>1, <2>2 DEF Answer, Promise!CardAnswers
  <1>9. ASSUME NEW c \in Cards, Record(c) PROVE UNCHANGED Promise!verdictVars
    BY <1>9 DEF Record
  <1>10. ASSUME NEW c \in Cards, Release(c) PROVE UNCHANGED Promise!verdictVars
    BY <1>10 DEF Release
  <1>11. ASSUME NEW c \in Cards, Done(c) PROVE UNCHANGED Promise!verdictVars
    BY <1>11 DEF Done
  <1>12. ASSUME Cancel PROVE UNCHANGED Promise!verdictVars
    BY <1>12 DEF Cancel
  <1>13. ASSUME UNCHANGED fetchVars PROVE UNCHANGED Promise!verdictVars
    BY <1>13 DEF fetchVars
  <1> HIDE DEF FetchInv, StageInv, Promise!verdictVars, discoveryVars, Waiting,
               Promise!Waiting
  <1> QED BY <1>1, <1>2, <1>3, <1>4, <1>5, <1>6, <1>7, <1>8, <1>9, <1>10,
             <1>11, <1>12, <1>13, SameWords
          DEF FetchNext, MainStep, JobStep, Promise!VerdictNext

\* Without its liveness, which TLC checks: the goroutines, their slots and the
\* order of rows and answers do not show in what FetchProfile returns.
THEOREM FetchImplementsVerdict == FetchSpec => Promise!VerdictSafety
PROOF
  <1>1. FetchInit => Promise!VerdictInit
    BY DEF FetchInit, Promise!VerdictInit, Waiting, Promise!Waiting
  <1>2. FetchInv /\ [FetchNext]_fetchVars
          => [Promise!VerdictNext]_(Promise!verdictVars)
    BY StepIsVerdictStep
  <1> QED BY <1>1, <1>2, FetchInvariant, PTL DEF FetchSpec, Promise!VerdictSafety
=============================================================================
