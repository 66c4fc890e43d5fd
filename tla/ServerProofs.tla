---------------------------- MODULE ServerProofs ----------------------------
(***************************************************************************)
(* What the gate and the handlers promise, for any requests, addresses,    *)
(* limits, windows and times. First the gate, which is a module of its     *)
(* own: its budgets, its floor, and that it implements MeteredUpstream.    *)
(* Then that the whole server keeps these promises, and what the checks of *)
(* a handler do: the limiter of an address holds in every rolling window,  *)
(* and an answer given early has cost nothing. Then what a client may rely *)
(* on in an answer: the wait a 429 of a limiter announces is long enough,  *)
(* the anonymous allowance is charged at most AnonLimit times in any       *)
(* window, and a profile from the cache is the right one, not too old, and *)
(* there for as long as the cache has room. Last what restarts cost, for   *)
(* every number of stops and every way a stop cuts into the requests: a    *)
(* process is a FetchGate that started late, and the processes that share  *)
(* a window are those that started in it and one.                          *)
(***************************************************************************)
EXTENDS Lifecycle, ListsProofs, TTLStoreProofs, FunctionTheorems

-----------------------------------------------------------------------------
(* What the helpers of RollingWindow return, for every set of hits, every  *)
(* stamping and every window.                                              *)

\* The oldest of some hits is one of them and no other was recorded before it,
\* which is what lets the code read hits[0] (Budget.Available).
LEMMA OldestIsFirst ==
    ASSUME NEW list, NEW when, list # {}, \A h \in list : when[h] \in Nat
    PROVE  /\ Oldest(list, when) \in list
           /\ \A g \in list : when[Oldest(list, when)] =< when[g]
PROOF
  <1> DEFINE times == {when[h] : h \in list}
  <1>1. times \subseteq Nat /\ times # {}
    OBVIOUS
  <1>2. PICK x \in times : \A y \in times : x =< y
    <2> HIDE DEF times
    <2> QED BY <1>1, LeastNatural
  <1>3. \E h \in list : \A g \in list : when[h] =< when[g]
    BY <1>2
  <1> QED BY <1>3 DEF Oldest

\* The announced wait is positive, the oldest live hit is gone when it is over
\* and every live hit still counts one tick earlier.
LEMMA ResetInIsExact ==
    ASSUME NEW list, NEW when, NEW t \in Nat, NEW w \in Nat,
           list # {}, \A h \in list : when[h] \in Nat /\ when[h] > t - w
    PROVE  LET r == ResetIn(list, when, t, w) IN
           /\ r \in Int /\ r > 0
           /\ ~(when[Oldest(list, when)] > (t + r) - w)
           /\ \A h \in list : when[h] > (t + r - 1) - w
PROOF
  <1>1. /\ Oldest(list, when) \in list
        /\ \A g \in list : when[Oldest(list, when)] =< when[g]
    BY OldestIsFirst
  <1>2. /\ when[Oldest(list, when)] \in Nat
        /\ when[Oldest(list, when)] > t - w
    BY <1>1
  <1> QED BY <1>1, <1>2 DEF ResetIn

\* Pruning keeps exactly the recorded hits of the window that ends now, when
\* nothing of that window is missing from the list and nothing in the list is
\* unrecorded or stamped in the future.
LEMMA PruneIsExact ==
    ASSUME NEW S, NEW when \in [S -> Nat \cup {-1}], NEW list \in SUBSET S,
           NEW t \in Nat, NEW w \in Nat,
           Recorded(when, t, w) \subseteq list,
           \A h \in list : when[h] # -1 /\ when[h] =< t
    PROVE  Live(list, when, t, w) = Recorded(when, t, w)
PROOF
  BY DEF Live, Recorded

-----------------------------------------------------------------------------
USE CallersAssumption, LimitAssumption, WindowAssumption, ClockAssumption,
    FlakyAssumption
USE DEF Never

-----------------------------------------------------------------------------
(* The budgets.                                                            *)

\* Windows are finite sets, so counting them makes sense.
LEMMA UnitsFinite ==
    ASSUME GateTypeOK, NEW b \in Budgets, NEW t
    PROVE  /\ UnitsIn(b, t) \subseteq Callers
           /\ IsFiniteSet(UnitsIn(b, t))
           /\ Cardinality(UnitsIn(b, t)) \in Nat
PROOF
  <1>1. UnitsIn(b, t) \subseteq Callers
    BY DEF UnitsIn, Recorded, GateTypeOK
  <1>2. IsFiniteSet(UnitsIn(b, t))
    BY <1>1, FS_Subset
  <1> QED BY <1>1, <1>2, FS_CardinalityType

\* What a budget counts after pruning is the window of the history that ends
\* now: no unit of the last Window[b] ticks was ever dropped.
LEMMA KeptIsWindow ==
    ASSUME GateInv, NEW b \in Budgets
    PROVE  Kept(b) = UnitsIn(b, now)
PROOF
  <1>1. stamp[b] \in [Callers -> Nat \cup {-1}] /\ hits[b] \in SUBSET Callers
    BY DEF GateInv, GateTypeOK, Times
  <1>2. now \in Nat /\ Window[b] \in Nat
    BY DEF GateInv, GateTypeOK
  <1>3. Recorded(stamp[b], now, Window[b]) \subseteq hits[b]
    BY DEF GateInv, BudgetInv, UnitsIn
  <1>4. \A h \in hits[b] : stamp[b][h] # -1 /\ stamp[b][h] =< now
    BY <1>1 DEF GateInv, BudgetInv, ClockInv
  <1> QED BY <1>1, <1>2, <1>3, <1>4, PruneIsExact DEF Kept, UnitsIn

\* A budget that refuses has a positive limit and a full window.
LEMMA RefusalIsFull ==
    ASSUME GateInv, NEW b \in Budgets, ~HasUnit(b)
    PROVE  /\ Limit[b] > 0
           /\ Cardinality(UnitsIn(b, now)) >= Limit[b]
           /\ UnitsIn(b, now) # {}
PROOF
  <1>1. Limit[b] \in Nat /\ Limit[b] # 0
        /\ ~(Cardinality(UnitsIn(b, now)) < Limit[b])
    BY KeptIsWindow DEF HasUnit
  <1>2. Cardinality(UnitsIn(b, now)) \in Nat
    BY UnitsFinite DEF GateInv
  <1>3. UnitsIn(b, now) # {}
    BY <1>1, <1>2, FS_EmptySet
  <1> QED BY <1>1, <1>2, <1>3

\* The wait it announces is a number of ticks.
LEMMA RefusalWait ==
    ASSUME GateInv, NEW b \in Budgets, ~HasUnit(b)
    PROVE  LET r == ResetIn(Kept(b), stamp[b], now, Window[b])
               units == UnitsIn(b, now)
           IN  /\ r \in Int /\ r > 0
               /\ \E c \in units : ~(stamp[b][c] > (now + r) - Window[b])
               /\ \A c \in units : stamp[b][c] > (now + r - 1) - Window[b]
PROOF
  <1>1. UnitsIn(b, now) # {} /\ Kept(b) = UnitsIn(b, now)
    BY RefusalIsFull, KeptIsWindow
  <1>2. \A c \in UnitsIn(b, now) :
           stamp[b][c] \in Nat /\ stamp[b][c] > now - Window[b]
    BY DEF UnitsIn, Recorded, GateInv, GateTypeOK, Times
  <1>3. now \in Nat /\ Window[b] \in Nat
    BY DEF GateInv, GateTypeOK
  <1>4. Oldest(UnitsIn(b, now), stamp[b]) \in UnitsIn(b, now)
    BY <1>1, <1>2, OldestIsFirst
  <1> QED BY <1>1, <1>2, <1>3, <1>4, ResetInIsExact

-----------------------------------------------------------------------------
(* One lemma per conjunct of GateInv: every step preserves it.             *)

LEMMA TypeStep == GateInv /\ [GateNext]_gateVars => GateTypeOK'
PROOF
  <1> SUFFICES ASSUME GateInv, [GateNext]_gateVars PROVE GateTypeOK'
    OBVIOUS
  <1>0. GateTypeOK
    BY DEF GateInv
  <1>1. ASSUME NEW c \in Callers, Call(c) PROVE GateTypeOK'
    BY <1>0, <1>1 DEF GateTypeOK, Call, GoTo, Phases
  <1>2. ASSUME NEW c \in Callers, Lock(c) PROVE GateTypeOK'
    BY <1>0, <1>2 DEF GateTypeOK, Lock, GoTo, Phases, InGate
  <1>3. ASSUME NEW c \in Callers, NEW b \in Budgets, Available(c, b)
        PROVE  GateTypeOK'
    BY <1>0, <1>3 DEF GateTypeOK, Available, GoTo, Phases, InGate, AfterCheck,
                      Kept, Live
  <1>4. ASSUME NEW c \in Callers, NEW b \in Budgets, Refuse(c, b)
        PROVE  GateTypeOK'
    <2>1. ResetIn(Kept(b), stamp[b], now, Window[b]) \in Nat
      BY <1>4, RefusalWait DEF Refuse
    <2>2. outcome' \in [Callers -> Outcomes]
      BY <1>0, <1>4, <2>1 DEF GateTypeOK, Refuse, Outcomes
    <2> QED BY <1>0, <1>4, <2>2 DEF GateTypeOK, Refuse, GoTo, Phases, Kept, Live
  <1>5. ASSUME NEW c \in Callers, NEW b \in Budgets, Spend(c, b)
        PROVE  GateTypeOK'
    <2>1. hits' \in [Budgets -> SUBSET Callers]
      BY <1>0, <1>5 DEF GateTypeOK, Spend, Kept, Live
    <2>2. stamp' \in [Budgets -> [Callers -> Times]]
      <3>1. now \in Times
        BY <1>0 DEF GateTypeOK, Times
      <3> QED BY <1>0, <1>5, <3>1 DEF GateTypeOK, Spend
    <2>3. phase' \in [Callers -> Phases]
      BY <1>0, <1>5 DEF GateTypeOK, Spend, GoTo, Phases, InGate, AfterSpend
    <2> QED BY <1>0, <1>5, <2>1, <2>2, <2>3 DEF GateTypeOK, Spend
  <1>6. ASSUME NEW c \in Callers, Sleep(c) PROVE GateTypeOK'
    BY <1>0, <1>6 DEF GateTypeOK, Sleep, GoTo, Phases, InGate
  <1>7. ASSUME NEW c \in Callers, Begin(c) PROVE GateTypeOK'
    BY <1>0, <1>7 DEF GateTypeOK, Begin, GoTo, Phases, InGate, Times
  <1>8. ASSUME NEW c \in Callers, NEW how \in {"fetched", "failed"},
               EndFetch(c, how)
        PROVE  GateTypeOK'
    <2>1. outcome' \in [Callers -> Outcomes]
      BY <1>0, <1>8 DEF GateTypeOK, EndFetch, Outcomes, Pending, Budgets
    <2> QED BY <1>0, <1>8, <2>1 DEF GateTypeOK, EndFetch, GoTo, Phases, Times
  <1>9. ASSUME NEW c \in Callers, Cancel(c) PROVE GateTypeOK'
    BY <1>0, <1>9 DEF GateTypeOK, Cancel
  <1>10. ASSUME NEW b \in Budgets, Remaining(b) PROVE GateTypeOK'
    BY <1>0, <1>10 DEF GateTypeOK, Remaining, Kept, Live
  <1>11. CASE Tick
    BY <1>0, <1>11 DEF GateTypeOK, Tick
  <1>12. CASE UNCHANGED gateVars
    BY <1>0, <1>12 DEF GateTypeOK, gateVars
  <1> QED BY <1>1, <1>2, <1>3, <1>4, <1>5, <1>6, <1>7, <1>8, <1>9, <1>10,
             <1>11, <1>12 DEF GateNext, HolderStep

\* A step either leaves every unit where it is or records one, now, for a
\* caller that is in the phase where this budget is spent.
LEMMA StampStep ==
    ASSUME GateInv, [GateNext]_gateVars
    PROVE  \/ UNCHANGED stamp
           \/ \E c \in Callers, b \in Budgets : Spend(c, b) /\ Limit[b] > 0
PROOF
  <1>1. ASSUME NEW c \in Callers, NEW b \in Budgets, Spend(c, b)
        PROVE  UNCHANGED stamp \/ (Spend(c, b) /\ Limit[b] > 0)
    BY <1>1 DEF Spend
  <1> QED BY <1>1 DEF GateNext, HolderStep, gateVars, Call, Lock, Available,
                      Refuse, Sleep, Begin, EndFetch, Cancel, Remaining, Tick

\* What spending does to the two budgets, one field at a time.
LEMMA SpendEffect ==
    ASSUME GateInv, NEW c \in Callers, NEW b \in Budgets, Spend(c, b),
           Limit[b] > 0
    PROVE  /\ stamp'[b] = [stamp[b] EXCEPT ![c] = now]
           /\ hits'[b] = Kept(b) \cup {c}
           /\ \A d \in Budgets : d # b => /\ stamp'[d] = stamp[d]
                                          /\ hits'[d] = hits[d]
           /\ now' = now
           /\ phase' = [phase EXCEPT ![c] = AfterSpend(b)]
PROOF
  <1>0. /\ stamp \in [Budgets -> [Callers -> Times]]
        /\ hits \in [Budgets -> SUBSET Callers]
    BY DEF GateInv, GateTypeOK
  <1>1. stamp' = [stamp EXCEPT ![b][c] = now]
    BY DEF Spend
  <1>2. hits' = [hits EXCEPT ![b] = Kept(b) \cup {c}]
    BY DEF Spend
  <1>3. now' = now /\ phase' = [phase EXCEPT ![c] = AfterSpend(b)]
    BY DEF Spend, GoTo
  <1> QED BY <1>0, <1>1, <1>2, <1>3

\* The only way a window can change is by the unit a Spend adds to the one
\* that ends now, or by the clock, which can only empty it.
LEMMA WindowStep ==
    ASSUME GateInv, [GateNext]_gateVars, NEW d \in Budgets
    PROVE  \/ /\ stamp'[d] = stamp[d] 
              /\ now' = now
              /\ \A t : UnitsIn(d, t)' = UnitsIn(d, t)
           \/ /\ Tick 
              /\ stamp'[d] = stamp[d] 
              /\ now' = now + 1
              /\ UnitsIn(d, now)' \subseteq UnitsIn(d, now)
              /\ \A t : UnitsIn(d, t)' = UnitsIn(d, t)
           \/ \E c \in Callers :
                 /\ Spend(c, d) /\ Limit[d] > 0
                 /\ now' = now
                 /\ UnitsIn(d, now)' = UnitsIn(d, now) \cup {c}
                 /\ \A t \in Nat : t < now => UnitsIn(d, t)' = UnitsIn(d, t)
PROOF
  <1>1. CASE UNCHANGED stamp
    <2>1. \A t : UnitsIn(d, t)' = UnitsIn(d, t)
      BY <1>1 DEF UnitsIn
    <2>2. CASE Tick
      <3>1. now' = now + 1 /\ now \in Nat
        BY <2>2 DEF Tick, GateInv, GateTypeOK
      <3>2. \A c \in Callers : stamp[d][c] =< now /\ stamp[d][c] \in Int
        BY DEF GateInv, ClockInv, GateTypeOK, Times
      <3>3. DOMAIN stamp[d] = Callers
        BY DEF GateInv, GateTypeOK
      <3>4. UnitsIn(d, now)' \subseteq UnitsIn(d, now)
        BY <1>1, <3>1, <3>2, <3>3 DEF UnitsIn, Recorded
      <3> QED BY <1>1, <2>1, <2>2, <3>1, <3>4
    <2>3. CASE ~Tick
      <3>1. now' = now
        BY <2>3 DEF GateNext, HolderStep, gateVars, Call, Lock, Available,
           Refuse, Spend, Sleep, Begin, EndFetch, Cancel, Remaining
      <3> QED BY <1>1, <2>1, <3>1
    <2> QED BY <2>2, <2>3
  <1>2. ASSUME NEW c \in Callers, NEW b \in Budgets, Spend(c, b), Limit[b] > 0
        PROVE  \/ /\ stamp'[d] = stamp[d]
                  /\ now' = now
                  /\ \A t : UnitsIn(d, t)' = UnitsIn(d, t)
               \/ /\ Spend(c, d) /\ Limit[d] > 0
                  /\ now' = now
                  /\ UnitsIn(d, now)' = UnitsIn(d, now) \cup {c}
                  /\ \A t \in Nat :
                        t < now => UnitsIn(d, t)' = UnitsIn(d, t)
    <2>1. CASE d # b
      BY <1>2, <2>1, SpendEffect DEF UnitsIn
    <2>2. CASE d = b
      <3>1. stamp'[d] = [stamp[d] EXCEPT ![c] = now] /\ now' = now
        BY <1>2, <2>2, SpendEffect
      <3>2. /\ stamp[d] \in [Callers -> Nat \cup {-1}]
            /\ now \in Nat /\ Window[d] \in Nat /\ Window[d] > 0
        BY DEF GateInv, GateTypeOK, Times
      <3> stamp[d][c] = Never
        BY <1>2, <2>2 DEF GateInv, ChargeInv, Spend, SpendPhase, Unspent
      <3>3. UnitsIn(d, now)' = UnitsIn(d, now) \cup {c}
        BY <3>1, <3>2 DEF UnitsIn, Recorded
      <3>4. \A t \in Nat : t < now => UnitsIn(d, t)' = UnitsIn(d, t)
        <4>1. TAKE t \in Nat
        <4> QED BY <3>1, <3>2 DEF UnitsIn, Recorded
      <3> QED BY <1>2, <2>2, <3>1, <3>3, <3>4
    <2> QED BY <2>1, <2>2
  <1> QED BY <1>1, <1>2, StampStep

LEMMA MutexStep == GateInv /\ [GateNext]_gateVars => MutexInv'
PROOF
  <1> SUFFICES ASSUME GateInv, [GateNext]_gateVars PROVE MutexInv'
    OBVIOUS
  <1>0. MutexInv /\ phase \in [Callers -> Phases] /\ holder \in Callers \cup {NoCaller}
    BY DEF GateInv, GateTypeOK
  <1> USE <1>0 DEF MutexInv, GoTo, InGate
  <1>1. ASSUME NEW c \in Callers, Call(c) PROVE MutexInv'
    BY <1>1 DEF Call
  <1>2. ASSUME NEW c \in Callers, Lock(c) PROVE MutexInv'
    BY <1>2 DEF Lock
  <1>3. ASSUME NEW c \in Callers, NEW b \in Budgets, Available(c, b)
        PROVE  MutexInv'
    BY <1>3 DEF Available, CheckPhase, AfterCheck
  <1>4. ASSUME NEW c \in Callers, NEW b \in Budgets, Refuse(c, b)
        PROVE  MutexInv'
    BY <1>4 DEF Refuse, CheckPhase
  <1>5. ASSUME NEW c \in Callers, NEW b \in Budgets, Spend(c, b)
        PROVE  MutexInv'
    BY <1>5 DEF Spend, SpendPhase, AfterSpend
  <1>6. ASSUME NEW c \in Callers, Sleep(c) PROVE MutexInv'
    BY <1>6 DEF Sleep
  <1>7. ASSUME NEW c \in Callers, Begin(c) PROVE MutexInv'
    BY <1>7 DEF Begin
  <1>8. ASSUME NEW c \in Callers, NEW how, EndFetch(c, how) PROVE MutexInv'
    BY <1>8 DEF EndFetch
  <1>9. CASE UNCHANGED <<phase, holder>>
    BY <1>9
  <1> QED BY <1>1, <1>2, <1>3, <1>4, <1>5, <1>6, <1>7, <1>8, <1>9
          DEF GateNext, HolderStep, gateVars, Cancel, Remaining, Tick

LEMMA ClockStep == GateInv /\ [GateNext]_gateVars => ClockInv'
PROOF
  <1> SUFFICES ASSUME GateInv, [GateNext]_gateVars PROVE ClockInv'
    OBVIOUS
  <1>0. GateTypeOK /\ ClockInv
    BY DEF GateInv
  <1>1. now' \in Nat /\ now' >= now
    BY <1>0 DEF GateTypeOK, GateNext, HolderStep, gateVars, Call, Lock,
       Available, Refuse, Spend, Sleep, Begin, EndFetch, Cancel, Remaining, Tick
  <1>2. \A b \in Budgets, c \in Callers : stamp'[b][c] =< now'
    <2>1. CASE UNCHANGED stamp
      BY <1>0, <1>1, <2>1 DEF ClockInv, GateTypeOK, Times
    <2>2. ASSUME NEW d \in Callers, NEW e \in Budgets, Spend(d, e), Limit[e] > 0
          PROVE  \A b \in Budgets, c \in Callers : stamp'[b][c] =< now'
      <3>1. TAKE b \in Budgets, c \in Callers
      <3>2. stamp'[b] = stamp[b] \/ stamp'[b] = [stamp[b] EXCEPT ![d] = now]
        BY <2>2, SpendEffect
      <3> QED BY <1>0, <1>1, <3>2 DEF ClockInv, GateTypeOK, Times
    <2> QED BY <2>1, <2>2, StampStep
  <1>3. /\ \A c \in Callers : startedAt'[c] =< now'
        /\ \A c \in Callers : endedAt'[c] =< lastFetch'
        /\ lastFetch' =< now'
    <2>0. /\ \A c \in Callers : startedAt[c] =< now /\ endedAt[c] =< lastFetch
          /\ lastFetch =< now /\ now \in Nat /\ lastFetch \in Times
          /\ startedAt \in [Callers -> Times] /\ endedAt \in [Callers -> Times]
      BY <1>0 DEF ClockInv, GateTypeOK
    <2>1. ASSUME NEW c \in Callers, Begin(c) PROVE <1>3!:
      <3>1. /\ UNCHANGED <<now, endedAt, lastFetch>>
            /\ startedAt' = startedAt \/ startedAt' = [startedAt EXCEPT ![c] = now]
        BY <2>1 DEF Begin
      <3> QED BY <2>0, <3>1
    <2>2. ASSUME NEW c \in Callers, NEW how, EndFetch(c, how) PROVE <1>3!:
      <3>1. /\ UNCHANGED <<now, startedAt>> /\ lastFetch' = now
            /\ endedAt' = endedAt \/ endedAt' = [endedAt EXCEPT ![c] = now]
        BY <2>2 DEF EndFetch
      <3> QED BY <2>0, <3>1 DEF Times
    <2>3. CASE UNCHANGED <<startedAt, endedAt, lastFetch>>
      BY <1>1, <2>0, <2>3 DEF Times
    <2> QED BY <2>1, <2>2, <2>3 DEF GateNext, HolderStep, gateVars, Call, Lock,
       Available, Refuse, Spend, Sleep, Cancel, Remaining, Tick
  <1>4. \A c \in Callers : outcome'[c].at =< now'
    <2>1. ASSUME NEW c \in Callers, NEW b \in Budgets, Refuse(c, b) PROVE <1>4!:
      BY <1>0, <2>1 DEF Refuse, ClockInv, GateTypeOK
    <2>2. ASSUME NEW c \in Callers, NEW how, EndFetch(c, how) PROVE <1>4!:
      BY <1>0, <2>2 DEF EndFetch, Pending, ClockInv, GateTypeOK
    <2>3. CASE UNCHANGED outcome
      BY <1>0, <1>1, <2>3 DEF ClockInv, GateTypeOK, Outcomes
    <2> QED BY <2>1, <2>2, <2>3 DEF GateNext, HolderStep, gateVars, Call, Lock,
       Available, Spend, Sleep, Begin, Cancel, Remaining, Tick
  <1> QED BY <1>2, <1>3, <1>4 DEF ClockInv

\* The lists of the budgets: pruned, grown by a spent unit, or left alone.
LEMMA BudgetStep == GateInv /\ [GateNext]_gateVars => BudgetInv'
PROOF
  <1> SUFFICES ASSUME GateInv, [GateNext]_gateVars, NEW d \in Budgets
               PROVE  /\ UnitsIn(d, now)' \subseteq hits'[d]
                      /\ \A c \in hits'[d] : stamp'[d][c] # Never
    BY DEF BudgetInv
  <1>0. /\ UnitsIn(d, now) \subseteq hits[d] /\ hits[d] \in SUBSET Callers
        /\ \A c \in hits[d] : stamp[d][c] # Never
        /\ stamp[d] \in [Callers -> Times] /\ now \in Nat
        /\ Kept(d) = UnitsIn(d, now)
    BY KeptIsWindow DEF GateInv, BudgetInv, GateTypeOK
  <1>1. Kept(d) \subseteq hits[d]
    BY DEF Kept, Live
  <1>2. hits'[d] = hits[d] \/ hits'[d] = Kept(d)
        \/ \E c \in Callers : Spend(c, d) /\ Limit[d] > 0
    <2>1. ASSUME NEW b \in Budgets, hits' = [hits EXCEPT ![b] = Kept(b)]
          PROVE  hits'[d] = hits[d] \/ hits'[d] = Kept(d)
      BY <2>1 DEF GateInv, GateTypeOK
    <2>2. ASSUME NEW c \in Callers, NEW b \in Budgets, Spend(c, b)
          PROVE  hits'[d] = hits[d] \/ (Spend(c, d) /\ Limit[d] > 0)
      <3>1. CASE Limit[b] > 0
        BY <2>2, <3>1, SpendEffect
      <3>2. CASE ~(Limit[b] > 0)
        BY <2>2, <3>2 DEF Spend
      <3> QED BY <3>1, <3>2
    <2> QED BY <2>1, <2>2 DEF GateNext, HolderStep, gateVars, Call, Lock,
       Available, Refuse, Sleep, Begin, EndFetch, Cancel, Remaining, Tick
  <1>3. CASE \E c \in Callers : Spend(c, d) /\ Limit[d] > 0
    <2>1. PICK c \in Callers : Spend(c, d) /\ Limit[d] > 0
      BY <1>3
    <2>2. /\ stamp'[d] = [stamp[d] EXCEPT ![c] = now]
          /\ hits'[d] = UnitsIn(d, now) \cup {c}
          /\ now' = now
      BY <1>0, <2>1, SpendEffect
    <2>3. UnitsIn(d, now)' \subseteq UnitsIn(d, now) \cup {c}
      BY <1>0, <2>2 DEF UnitsIn, Recorded, Times
    <2> QED BY <1>0, <2>2, <2>3
  <1>4. CASE ~\E c \in Callers : Spend(c, d) /\ Limit[d] > 0
    <2>1. stamp'[d] = stamp[d] /\ UnitsIn(d, now)' \subseteq UnitsIn(d, now)
      BY <1>4, WindowStep DEF UnitsIn
    <2> QED BY <1>0, <1>1, <1>2, <1>4, <2>1
  <1> QED BY <1>3, <1>4

\* Between a budget's yes and the unit being spent nobody else can spend: the
\* holder alone is in those phases, and the clock only empties the window.
LEMMA ReservedStep == GateInv /\ [GateNext]_gateVars => ReservedInv'
PROOF
  <1> SUFFICES ASSUME GateInv, [GateNext]_gateVars,
                      NEW c \in Callers, NEW d \in Budgets, Limit[d] > 0,
                      phase'[c] \in Checked(d)
               PROVE  Cardinality(UnitsIn(d, now)') < Limit[d]
    BY DEF ReservedInv
  <1>0. /\ GateTypeOK /\ MutexInv
        /\ phase \in [Callers -> Phases]
        /\ Limit[d] \in Nat
    BY DEF GateInv, GateTypeOK
  <1>1. /\ IsFiniteSet(UnitsIn(d, now))
        /\ Cardinality(UnitsIn(d, now)) \in Nat
    BY <1>0, UnitsFinite
  <1>2. Cardinality(UnitsIn(d, now)) < Limit[d]
    <2>1. CASE phase[c] \in Checked(d)
      BY <2>1 DEF GateInv, ReservedInv
    <2>2. ASSUME Available(c, d) PROVE <1>2!:
      BY <1>0, <2>2, KeptIsWindow DEF Available, HasUnit
    <2>3. phase[c] \in Checked(d) \/ Available(c, d)
      <3> USE <1>0 DEF GoTo, Checked, Budgets
      <3>1. ASSUME NEW e \in Callers, Call(e) \/ Lock(e) \/ Sleep(e) \/ Begin(e)
            PROVE  phase[c] \in Checked(d)
        BY <3>1 DEF Call, Lock, Sleep, Begin
      <3>2. ASSUME NEW e \in Callers, NEW b \in Budgets,
                   Refuse(e, b) \/ Spend(e, b)
            PROVE  phase[c] \in Checked(d)
        BY <3>2 DEF Refuse, Spend, SpendPhase, AfterSpend
      <3>3. ASSUME NEW e \in Callers, NEW b \in Budgets, Available(e, b)
            PROVE  phase[c] \in Checked(d) \/ Available(c, d)
        BY <3>3 DEF Available, CheckPhase, AfterCheck
      <3>4. ASSUME NEW e \in Callers, NEW how, EndFetch(e, how)
            PROVE  phase[c] \in Checked(d)
        BY <3>4 DEF EndFetch
      <3> QED BY <3>1, <3>2, <3>3, <3>4 DEF GateNext, HolderStep, gateVars,
         Cancel, Remaining, Tick
    <2> QED BY <2>1, <2>2, <2>3
  <1>3. ~\E e \in Callers : Spend(e, d)
    <2> SUFFICES ASSUME NEW e \in Callers, Spend(e, d) PROVE FALSE
      OBVIOUS
    <2>1. phase[e] = SpendPhase(d) /\ phase' = [phase EXCEPT ![e] = AfterSpend(d)]
      BY DEF Spend, GoTo
    <2>2. holder = e
      BY <1>0, <2>1 DEF MutexInv, InGate, SpendPhase
    <2>3. CASE c = e
      BY <1>0, <2>1, <2>3 DEF AfterSpend, Checked, Budgets
    <2>4. CASE c # e
      BY <1>0, <2>1, <2>2, <2>4 DEF MutexInv, InGate, Checked
    <2> QED BY <2>3, <2>4
  <1>4. UnitsIn(d, now)' \subseteq UnitsIn(d, now)
    BY <1>3, WindowStep DEF UnitsIn
  <1>5. /\ Cardinality(UnitsIn(d, now)') =< Cardinality(UnitsIn(d, now))
        /\ Cardinality(UnitsIn(d, now)') \in Nat
    BY <1>1, <1>4, FS_Subset, FS_CardinalityType
  <1> QED BY <1>0, <1>1, <1>2, <1>5

LEMMA ChargeStep == GateInv /\ [GateNext]_gateVars => ChargeInv'
PROOF
  <1> DEFINE Charged(p, s, c, d) ==
               /\ p \in Unspent(d) => s = Never
               /\ (Limit[d] > 0 /\ p \in Paid(d)) => s # Never
  <1> SUFFICES ASSUME GateInv, [GateNext]_gateVars,
                      NEW c \in Callers, NEW d \in Budgets
               PROVE  Charged(phase'[c], stamp'[d][c], c, d)
    BY DEF ChargeInv
  <1>0. /\ phase \in [Callers -> Phases] /\ now \in Nat
        /\ stamp[d] \in [Callers -> Times]
        /\ Charged(phase[c], stamp[d][c], c, d)
    BY DEF GateInv, GateTypeOK, ChargeInv
  <1> USE <1>0 DEF GoTo, Unspent, Paid, Budgets
  <1>1. ASSUME NEW e \in Callers, Call(e) \/ Lock(e) \/ Sleep(e) \/ Begin(e)
        PROVE  Charged(phase'[c], stamp'[d][c], c, d)
    BY <1>1 DEF Call, Lock, Sleep, Begin
  <1>2. ASSUME NEW e \in Callers, NEW b \in Budgets,
               Available(e, b) \/ Refuse(e, b)
        PROVE  Charged(phase'[c], stamp'[d][c], c, d)
    BY <1>2 DEF Available, Refuse, CheckPhase, AfterCheck
  <1>3. ASSUME NEW e \in Callers, NEW b \in Budgets, Spend(e, b)
        PROVE  Charged(phase'[c], stamp'[d][c], c, d)
    <2>1. phase[e] = SpendPhase(b) /\ phase' = [phase EXCEPT ![e] = AfterSpend(b)]
      BY <1>3 DEF Spend
    <2>2. CASE Limit[b] > 0 /\ b = d
      <3>1. stamp'[d] = [stamp[d] EXCEPT ![e] = now]
        BY <1>3, <2>2, SpendEffect
      <3> QED BY <2>1, <2>2, <3>1 DEF SpendPhase, AfterSpend
    <2>3. CASE ~(Limit[b] > 0 /\ b = d)
      <3>1. stamp'[d] = stamp[d]
        <4>1. CASE Limit[b] > 0
          BY <1>3, <2>3, <4>1, SpendEffect
        <4>2. CASE ~(Limit[b] > 0)
          BY <1>3, <4>2 DEF Spend
        <4> QED BY <4>1, <4>2
      <3> QED BY <2>1, <2>3, <3>1 DEF SpendPhase, AfterSpend
    <2> QED BY <2>2, <2>3
  <1>4. ASSUME NEW e \in Callers, NEW how, EndFetch(e, how)
        PROVE  Charged(phase'[c], stamp'[d][c], c, d)
    BY <1>4 DEF EndFetch
  <1>5. CASE UNCHANGED <<phase, stamp>>
    BY <1>5
  <1> QED BY <1>1, <1>2, <1>3, <1>4, <1>5 DEF GateNext, HolderStep, gateVars,
             Cancel, Remaining, Tick

LEMMA FlightStep == GateInv /\ [GateNext]_gateVars => FlightInv'
PROOF
  <1> SUFFICES ASSUME GateInv, [GateNext]_gateVars PROVE FlightInv'
    OBVIOUS
  <1>0. /\ FlightInv /\ phase \in [Callers -> Phases] /\ now \in Nat
        /\ startedAt \in [Callers -> Times] /\ endedAt \in [Callers -> Times]
        /\ outcome \in [Callers -> Outcomes]
    BY DEF GateInv, GateTypeOK
  <1> USE <1>0 DEF FlightInv, GoTo, Times
  <1>1. ASSUME NEW c \in Callers, Call(c) \/ Lock(c) \/ Sleep(c)
        PROVE  FlightInv'
    BY <1>1 DEF Call, Lock, Sleep
  <1>2. ASSUME NEW c \in Callers, NEW b \in Budgets,
               Available(c, b) \/ Spend(c, b)
        PROVE  FlightInv'
    BY <1>2 DEF Available, Spend, CheckPhase, AfterCheck, SpendPhase, AfterSpend
  <1>3. ASSUME NEW c \in Callers, NEW b \in Budgets, Refuse(c, b)
        PROVE  FlightInv'
    BY <1>3 DEF Refuse, CheckPhase
  <1>4. ASSUME NEW c \in Callers, Begin(c) PROVE FlightInv'
    BY <1>4 DEF Begin
  <1>5. ASSUME NEW c \in Callers, NEW how, EndFetch(c, how) PROVE FlightInv'
    BY <1>5 DEF EndFetch
  <1>6. CASE UNCHANGED <<phase, startedAt, endedAt, outcome>>
    BY <1>6
  <1> QED BY <1>1, <1>2, <1>3, <1>4, <1>5, <1>6 DEF GateNext, HolderStep,
             gateVars, Cancel, Remaining, Tick

-----------------------------------------------------------------------------
(* The four promises.                                                      *)

LEMMA BudgetWindowStep == GateInv /\ [GateNext]_gateVars => BudgetWindow'
PROOF
  <1> SUFFICES ASSUME GateInv, [GateNext]_gateVars, NEW d \in Budgets,
                      Limit[d] > 0, NEW t \in 0 .. now'
               PROVE  Cardinality(UnitsIn(d, t)') =< Limit[d]
    BY DEF BudgetWindow
  <1>0. /\ now \in Nat /\ Limit[d] \in Nat /\ GateTypeOK
        /\ \A s \in 0 .. now : Cardinality(UnitsIn(d, s)) =< Limit[d]
    BY DEF GateInv, GateTypeOK, BudgetWindow
  <1>1. CASE now' = now /\ UnitsIn(d, t)' = UnitsIn(d, t)
    BY <1>0, <1>1
  <1>2. CASE /\ now' = now + 1
             /\ UnitsIn(d, now)' \subseteq UnitsIn(d, now)
             /\ UnitsIn(d, t)' = UnitsIn(d, t)
    <2>1. CASE t = now'
      <3>1. UnitsIn(d, t)' \subseteq UnitsIn(d, now)
        BY <1>2, <2>1 DEF UnitsIn
      <3>2. /\ Cardinality(UnitsIn(d, t)') =< Cardinality(UnitsIn(d, now))
            /\ Cardinality(UnitsIn(d, t)') \in Nat
            /\ Cardinality(UnitsIn(d, now)) \in Nat
        BY <1>0, <3>1, UnitsFinite, FS_Subset, FS_CardinalityType
      <3> QED BY <1>0, <3>2
    <2>2. CASE t # now'
      BY <1>0, <1>2, <2>2
    <2> QED BY <2>1, <2>2
  <1>3. ASSUME NEW c \in Callers, Spend(c, d), now' = now,
               UnitsIn(d, now)' = UnitsIn(d, now) \cup {c},
               \A s \in Nat : s < now => UnitsIn(d, s)' = UnitsIn(d, s)
        PROVE  Cardinality(UnitsIn(d, t)') =< Limit[d]
    <2>1. CASE t = now
      <3>1. phase[c] \in Checked(d)
        BY <1>3 DEF Spend, SpendPhase, Checked, Budgets
      <3>2. Cardinality(UnitsIn(d, now)) < Limit[d]
        BY <3>1 DEF GateInv, ReservedInv
      <3>3. /\ Cardinality(UnitsIn(d, t)') =< Cardinality(UnitsIn(d, now)) + 1
            /\ Cardinality(UnitsIn(d, t)') \in Nat
            /\ Cardinality(UnitsIn(d, now)) \in Nat
        <4>1. UnitsIn(d, t)' = UnitsIn(d, now) \cup {c}
          BY <1>3, <2>1 DEF UnitsIn
        <4>2. IsFiniteSet(UnitsIn(d, now)) /\ Cardinality(UnitsIn(d, now)) \in Nat
          BY <1>0, UnitsFinite
        <4>3. Cardinality(UnitsIn(d, now) \cup {c})
                 = IF c \in UnitsIn(d, now) THEN Cardinality(UnitsIn(d, now))
                   ELSE Cardinality(UnitsIn(d, now)) + 1
          BY <4>2, FS_AddElement
        <4> HIDE DEF UnitsIn
        <4> QED BY <4>1, <4>2, <4>3
      <3> QED BY <1>0, <3>2, <3>3
    <2>2. CASE t # now
      <3>1. t \in Nat /\ t < now
        BY <1>0, <1>3, <2>2
      <3> QED BY <1>0, <1>3, <3>1
    <2> QED BY <2>1, <2>2
  <1> QED BY <1>1, <1>2, <1>3, WindowStep

LEMMA FloorStep == GateInv /\ [GateNext]_gateVars => FloorBetweenFetches'
PROOF
  <1> SUFFICES ASSUME GateInv, [GateNext]_gateVars PROVE FloorBetweenFetches'
    OBVIOUS
  <1>0. /\ FloorBetweenFetches /\ FlightInv /\ MutexInv /\ ClockInv
        /\ now \in Nat /\ lastFetch \in Times
        /\ startedAt \in [Callers -> Times] /\ endedAt \in [Callers -> Times]
    BY DEF GateInv, GateTypeOK
  <1>1. ASSUME NEW c \in Callers, Begin(c) PROVE FloorBetweenFetches'
    <2>1. \A d \in Callers : (d # c /\ startedAt[d] # Never) =>
             endedAt[d] # Never /\ endedAt[d] + MinGap =< now
      <3> SUFFICES ASSUME NEW d \in Callers, d # c, startedAt[d] # Never
                   PROVE  endedAt[d] # Never /\ endedAt[d] + MinGap =< now
        OBVIOUS
      <3>1. holder = c /\ phase[d] # "fetching"
        BY <1>0, <1>1 DEF MutexInv, Begin, InGate
      <3>2. endedAt[d] # Never
        BY <1>0, <3>1 DEF FlightInv
      <3>3. endedAt[d] =< lastFetch /\ now - lastFetch >= MinGap
        BY <1>0, <1>1, <3>2 DEF ClockInv, Begin, TooSoon, Times
      <3> QED BY <1>0, <3>2, <3>3 DEF Times
    <2>2. /\ endedAt' = endedAt
          /\ startedAt' = startedAt \/ startedAt' = [startedAt EXCEPT ![c] = now]
      BY <1>1 DEF Begin
    <2>3. \A d \in Callers : startedAt[d] =< now
      BY <1>0 DEF ClockInv
    <2>4. endedAt[c] = Never
      BY <1>0, <1>1 DEF FlightInv, Begin
    <2> QED BY <1>0, <2>1, <2>2, <2>3, <2>4 DEF FloorBetweenFetches, Times
  <1>2. ASSUME NEW c \in Callers, NEW how, EndFetch(c, how)
        PROVE  FloorBetweenFetches'
    <2>1. endedAt[c] = Never /\ startedAt' = startedAt
      BY <1>0, <1>2 DEF FlightInv, EndFetch
    <2>2. \A d \in Callers : endedAt[d] # Never => endedAt'[d] = endedAt[d]
      BY <1>0, <1>2, <2>1 DEF EndFetch
    <2> QED BY <1>0, <2>1, <2>2 DEF FloorBetweenFetches
  <1>3. CASE UNCHANGED <<startedAt, endedAt>>
    BY <1>0, <1>3 DEF FloorBetweenFetches
  <1> QED BY <1>1, <1>2, <1>3 DEF GateNext, HolderStep, gateVars, Call, Lock,
     Available, Refuse, Spend, Sleep, Cancel, Remaining, Tick

\* A unit of b recorded for c is never taken back nor moved: once c has one,
\* no step changes it.
LEMMA UnitIsKept ==
    ASSUME GateInv, [GateNext]_gateVars, NEW c \in Callers, NEW d \in Budgets
    PROVE  \/ stamp'[d][c] = stamp[d][c]
           \/ /\ Spend(c, d) /\ Limit[d] > 0
              /\ stamp[d][c] = Never /\ stamp'[d][c] = now
PROOF
  <1>1. ASSUME NEW e \in Callers, NEW b \in Budgets, Spend(e, b), Limit[b] > 0
        PROVE  \/ stamp'[d][c] = stamp[d][c]
               \/ /\ Spend(c, d) /\ Limit[d] > 0
                  /\ stamp[d][c] = Never /\ stamp'[d][c] = now
    <2>1. CASE b # d
      BY <1>1, <2>1, SpendEffect
    <2>2. CASE b = d
      <3>1. /\ stamp'[d] = [stamp[d] EXCEPT ![e] = now]
            /\ stamp[d] \in [Callers -> Times]
        BY <1>1, <2>2, SpendEffect DEF GateInv, GateTypeOK
      <3>2. stamp[d][e] = Never
        BY <1>1, <2>2 DEF GateInv, ChargeInv, Spend, SpendPhase, Unspent
      <3> QED BY <1>1, <2>2, <3>1, <3>2
    <2> QED BY <2>1, <2>2
  <1> QED BY <1>1, StampStep

LEMMA ChargedStep ==
    GateInv /\ [GateNext]_gateVars => ChargedExactlyWhenAdmitted'
PROOF
  <1> SUFFICES ASSUME GateInv, [GateNext]_gateVars,
                      NEW c \in Callers, NEW d \in Budgets
               PROVE  /\ (startedAt'[c] # Never /\ Limit[d] > 0) =>
                            /\ stamp'[d][c] # Never
                            /\ stamp'[d][c] =< startedAt'[c]
                      /\ outcome'[c].kind = "refused" => stamp'[d][c] = Never
    BY DEF ChargedExactlyWhenAdmitted
  <1>0. /\ (startedAt[c] # Never /\ Limit[d] > 0)
              => (stamp[d][c] # Never /\ stamp[d][c] =< startedAt[c])
        /\ outcome[c].kind = "refused" => stamp[d][c] = Never
        /\ FlightInv /\ ChargeInv
        /\ outcome \in [Callers -> Outcomes] /\ now \in Nat
        /\ startedAt \in [Callers -> Times]
    BY DEF GateInv, GateTypeOK, ChargedExactlyWhenAdmitted
  <1>1. ASSUME Spend(c, d), Limit[d] > 0, stamp'[d][c] = now
        PROVE  startedAt'[c] = Never /\ outcome'[c].kind # "refused"
    <2>1. phase[c] \notin {"fetching", "returned"}
      BY <1>1 DEF Spend, SpendPhase
    <2> QED BY <1>0, <1>1, <2>1 DEF FlightInv, Spend
  <1>2. CASE stamp'[d][c] = stamp[d][c]
    <2>1. (startedAt'[c] # Never /\ Limit[d] > 0)
             => (stamp[d][c] # Never /\ stamp[d][c] =< startedAt'[c])
      <3>1. ASSUME NEW e \in Callers, Begin(e) PROVE <2>1!:
        <4>1. CASE e = c
          <5>1. phase[c] \in Paid(d) /\ stamp[d][c] =< now
            BY <3>1, <4>1 DEF Begin, Paid, GateInv, ClockInv
          <5>2. startedAt'[c] = startedAt[c] \/ startedAt'[c] = now
            BY <1>0, <3>1, <4>1 DEF Begin
          <5> QED BY <1>0, <5>1, <5>2 DEF ChargeInv
        <4>2. CASE e # c
          BY <1>0, <3>1, <4>2 DEF Begin
        <4> QED BY <4>1, <4>2
      <3>2. CASE UNCHANGED startedAt
        BY <1>0, <3>2
      <3> QED BY <3>1, <3>2 DEF GateNext, HolderStep, gateVars, Call, Lock,
         Available, Refuse, Spend, Sleep, EndFetch, Cancel, Remaining, Tick
    <2>2. outcome'[c].kind = "refused" => stamp[d][c] = Never
      <3>1. ASSUME NEW e \in Callers, NEW b \in Budgets, Refuse(e, b) PROVE <2>2!:
        <4>1. CASE e = c
          <5>1. phase[c] \in Unspent(d)
            BY <3>1, <4>1 DEF Refuse, CheckPhase, Unspent
          <5> QED BY <1>0, <5>1 DEF ChargeInv
        <4>2. CASE e # c
          BY <1>0, <3>1, <4>2 DEF Refuse
        <4> QED BY <4>1, <4>2
      <3>2. ASSUME NEW e \in Callers, NEW how \in {"fetched", "failed"},
                   EndFetch(e, how)
            PROVE  <2>2!:
        BY <1>0, <3>2 DEF EndFetch, Pending
      <3>3. CASE UNCHANGED outcome
        BY <1>0, <3>3
      <3> QED BY <3>1, <3>2, <3>3 DEF GateNext, HolderStep, gateVars, Call,
         Lock, Available, Spend, Sleep, Begin, Cancel, Remaining, Tick
    <2> QED BY <1>2, <2>1, <2>2
  <1> QED BY <1>1, <1>2, UnitIsKept

\* Waiting resetIn frees the budget that refused, one tick less does not: the
\* full window held Limit[b] units, and resetIn is how long its oldest lasts.
LEMMA RefusalIsExact ==
    ASSUME GateInv, NEW b \in Budgets, ~HasUnit(b)
    PROVE  LET r == ResetIn(Kept(b), stamp[b], now, Window[b]) IN
           /\ r > 0
           /\ Cardinality(StillCounted(b, now, now + r)) < Limit[b]
           /\ Cardinality(StillCounted(b, now, now + r - 1)) >= Limit[b]
PROOF
  <1> DEFINE r == ResetIn(Kept(b), stamp[b], now, Window[b])
             units == UnitsIn(b, now)
  <1>0. now \in Nat /\ GateTypeOK
    BY DEF GateInv, GateTypeOK
  <1>1. /\ Limit[b] > 0 /\ Limit[b] \in Nat
        /\ Cardinality(units) >= Limit[b]
    BY RefusalIsFull
  <1>2. Cardinality(units) =< Limit[b]
    BY <1>0, <1>1 DEF GateInv, BudgetWindow
  <1>3. /\ r \in Int /\ r > 0
        /\ \E c \in units : ~(stamp[b][c] > (now + r) - Window[b])
        /\ \A c \in units : stamp[b][c] > (now + r - 1) - Window[b]
    BY RefusalWait
  <1>4. IsFiniteSet(units) /\ Cardinality(units) \in Nat
    BY <1>0, UnitsFinite
  <1> HIDE DEF r, units
  <1>5. Cardinality(StillCounted(b, now, now + r)) < Limit[b]
    <2>1. PICK c \in units : ~(stamp[b][c] > (now + r) - Window[b])
      BY <1>3
    <2>2. StillCounted(b, now, now + r) \subseteq units \ {c}
      BY <2>1 DEF StillCounted, units
    <2>3. /\ IsFiniteSet(units \ {c})
          /\ Cardinality(units \ {c}) = Cardinality(units) - 1
      BY <1>4, <2>1, FS_RemoveElement
    <2>4. /\ Cardinality(StillCounted(b, now, now + r)) =< Cardinality(units \ {c})
          /\ Cardinality(StillCounted(b, now, now + r)) \in Nat
      BY <2>2, <2>3, FS_Subset, FS_CardinalityType
    <2> QED BY <1>1, <1>2, <1>4, <2>3, <2>4
  <1>6. StillCounted(b, now, now + r - 1) = units
    BY <1>3 DEF StillCounted, units
  <1> QED BY <1>1, <1>3, <1>5, <1>6 DEF r

LEMMA RetryAfterStep == GateInv /\ [GateNext]_gateVars => RetryAfterExact'
PROOF
  <1> DEFINE Exact(o) ==
        o.kind = "refused" =>
            /\ o.resetIn > 0
            /\ Cardinality(StillCounted(o.budget, o.at, o.at + o.resetIn))
                  < Limit[o.budget]
            /\ Cardinality(StillCounted(o.budget, o.at, o.at + o.resetIn - 1))
                  >= Limit[o.budget]
  <1> SUFFICES ASSUME GateInv, [GateNext]_gateVars, NEW c \in Callers
               PROVE  Exact(outcome[c])'
    BY DEF RetryAfterExact
  <1>0. /\ GateTypeOK /\ outcome \in [Callers -> Outcomes] /\ now \in Nat
        /\ \A d \in Callers : Exact(outcome[d])
    BY DEF GateInv, GateTypeOK, RetryAfterExact
  <1>1. ASSUME NEW b \in Budgets, NEW t \in Nat, NEW s, t =< now,
               \/ t < now
               \/ ~\E e \in Callers : Spend(e, b) /\ Limit[b] > 0
        PROVE  StillCounted(b, t, s)' = StillCounted(b, t, s)
    <2>1. UnitsIn(b, t)' = UnitsIn(b, t)
      BY <1>0, <1>1, WindowStep
    <2>2. \A e \in UnitsIn(b, t) : stamp'[b][e] = stamp[b][e]
      <3>1. \A e \in UnitsIn(b, t) : e \in Callers /\ stamp[b][e] # Never
        BY <1>0 DEF UnitsIn, Recorded, GateTypeOK
      <3> QED BY <3>1, UnitIsKept
    <2> QED BY <2>1, <2>2 DEF StillCounted
  <1>2. ASSUME NEW b \in Budgets, NEW e \in Callers, Refuse(e, b)
        PROVE  Exact(outcome[c])'
    <2>1. /\ ~HasUnit(b) /\ stamp' = stamp /\ now' = now
          /\ outcome' = [outcome EXCEPT ![e] =
                [kind |-> "refused", budget |-> b, at |-> now,
                 resetIn |-> ResetIn(Kept(b), stamp[b], now, Window[b])]]
      BY <1>2 DEF Refuse
    <2>2. \A d, t, s : StillCounted(d, t, s)' = StillCounted(d, t, s)
      BY <2>1 DEF StillCounted, UnitsIn
    <2>3. CASE e = c
      <3>1. outcome'[c] = 
                [kind |-> "refused", budget |-> b, at |-> now,
                 resetIn |-> ResetIn(Kept(b), stamp[b], now, Window[b])]
        BY <1>0, <2>1, <2>3
      <3> QED BY <2>1, <2>2, <3>1, RefusalIsExact
    <2>4. CASE e # c
      BY <1>0, <2>1, <2>2, <2>4
    <2> QED BY <2>3, <2>4
  <1>3. ASSUME NEW e \in Callers, NEW how \in {"fetched", "failed"},
               EndFetch(e, how)
        PROVE  Exact(outcome[c])'
    <2>1. /\ stamp' = stamp
          /\ outcome' = [outcome EXCEPT ![e] = [Pending EXCEPT !.kind = how]]
      BY <1>3 DEF EndFetch
    <2>2. \A d, t, s : StillCounted(d, t, s)' = StillCounted(d, t, s)
      BY <2>1 DEF StillCounted, UnitsIn
    <2>3. outcome'[c] = outcome[c] \/ outcome'[c].kind # "refused"
      BY <1>0, <2>1 DEF Pending
    <2> QED BY <1>0, <2>2, <2>3
  <1>4. CASE outcome' = outcome
    <2> SUFFICES ASSUME outcome[c].kind = "refused"
                 PROVE  Exact(outcome[c])'
      BY <1>4
    <2> DEFINE o == outcome[c]
    <2>1. /\ o.budget \in Budgets /\ o.at \in Nat /\ o.at =< now
          /\ o.resetIn \in Int
      BY <1>0 DEF Outcomes, GateInv, ClockInv
    <2>2. \/ o.at < now
          \/ ~\E e \in Callers : Spend(e, o.budget) /\ Limit[o.budget] > 0
      <3> SUFFICES ASSUME o.at = now, NEW e \in Callers, Spend(e, o.budget),
                          Limit[o.budget] > 0
                   PROVE  FALSE
        BY <1>0, <2>1
      <3>1. Cardinality(UnitsIn(o.budget, now)) < Limit[o.budget]
        BY <2>1 DEF GateInv, ReservedInv, Spend, SpendPhase, Checked
      <3>2. StillCounted(o.budget, o.at, o.at + o.resetIn - 1)
               \subseteq UnitsIn(o.budget, now)
        BY DEF StillCounted
      <3>3. /\ IsFiniteSet(UnitsIn(o.budget, now))
            /\ Cardinality(UnitsIn(o.budget, now)) \in Nat
        BY <1>0, <2>1, UnitsFinite
      <3>4. /\ Cardinality(StillCounted(o.budget, o.at, o.at + o.resetIn - 1))
                  =< Cardinality(UnitsIn(o.budget, now))
            /\ Cardinality(StillCounted(o.budget, o.at, o.at + o.resetIn - 1))
                  \in Nat
        BY <3>2, <3>3, FS_Subset, FS_CardinalityType
      <3>5. Limit[o.budget] \in Nat
        BY <2>1
      <3> QED BY <1>0, <3>1, <3>3, <3>4, <3>5
    <2>3. /\ StillCounted(o.budget, o.at, o.at + o.resetIn)'
               = StillCounted(o.budget, o.at, o.at + o.resetIn)
          /\ StillCounted(o.budget, o.at, o.at + o.resetIn - 1)'
               = StillCounted(o.budget, o.at, o.at + o.resetIn - 1)
      <3>1. \A s : StillCounted(o.budget, o.at, s)' = StillCounted(o.budget, o.at, s)
        BY <1>1, <1>4, <2>1, <2>2
      <3> QED BY <1>4, <3>1
    <2> QED BY <1>0, <1>4, <2>3
  <1> QED BY <1>2, <1>3, <1>4 DEF GateNext, HolderStep, gateVars, Call, Lock,
     Available, Spend, Sleep, Begin, Cancel, Remaining, Tick

-----------------------------------------------------------------------------
(* The invariant and what follows from it.                                 *)

\* GateInv is inductive.
LEMMA GateInvStep == GateInv /\ [GateNext]_gateVars => GateInv'
PROOF
  BY TypeStep, MutexStep, ClockStep, BudgetStep, ReservedStep, ChargeStep,
     FlightStep, BudgetWindowStep, FloorStep, ChargedStep, RetryAfterStep
     DEF GateInv

\* Before the first call nothing was spent, fetched or promised, whenever the
\* process started.
LEMMA FreshEstablishes == now \in Nat /\ FreshGate => GateInv
PROOF
  <1> SUFFICES ASSUME now \in Nat, FreshGate PROVE GateInv
    OBVIOUS
  <1>1. GateTypeOK
    <2>1. outcome \in [Callers -> Outcomes]
      BY DEF FreshGate, Outcomes, Pending, Budgets
    <2> QED BY <2>1 DEF FreshGate, GateTypeOK, Phases, Times
  <1>2. \A b \in Budgets : \A t : UnitsIn(b, t) = {}
    BY DEF FreshGate, UnitsIn, Recorded
  <1>3. MutexInv
    BY DEF FreshGate, MutexInv, InGate
  <1>4. ClockInv /\ BudgetInv /\ ReservedInv /\ ChargeInv /\ FlightInv
    BY <1>2 DEF FreshGate, ClockInv, BudgetInv, ReservedInv, Checked, ChargeInv,
                Paid, FlightInv, Pending
  <1>5. BudgetWindow
    BY <1>2, FS_EmptySet DEF BudgetWindow
  <1>6. FloorBetweenFetches /\ ChargedExactlyWhenAdmitted /\ RetryAfterExact
    BY DEF FreshGate, FloorBetweenFetches, ChargedExactlyWhenAdmitted,
           RetryAfterExact, Pending
  <1> QED BY <1>1, <1>3, <1>4, <1>5, <1>6 DEF GateInv

\* GateInv is inductive, hence holds in every reachable state of fetchCards,
\* for every number of callers, every pair of budgets and every gap.
THEOREM GateInvariant == GateSafety => []GateInv
PROOF
  <1>1. GateInit => GateInv
    BY FreshEstablishes DEF GateInit
  <1> QED BY <1>1, GateInvStep, PTL DEF GateSafety

\* Type correctness of fetchCards' state.
THEOREM GateTypeCorrect == GateSafety => []GateTypeOK
PROOF
  <1>1. GateInv => GateTypeOK
    BY DEF GateInv
  <1> QED BY <1>1, GateInvariant, PTL

\* No rolling window of a budget ever holds more units than its limit: the
\* check-then-spend of fetchCards cannot race.
THEOREM BudgetIsNeverOverspent == GateSafety => []BudgetWindow
PROOF
  <1>1. GateInv => BudgetWindow
    BY DEF GateInv
  <1> QED BY <1>1, GateInvariant, PTL

\* Profile fetches are serialised and MinBetweenProfiles apart.
THEOREM FetchesAreSpacedOut == GateSafety => []FloorBetweenFetches
PROOF
  <1>1. GateInv => FloorBetweenFetches
    BY DEF GateInv
  <1> QED BY <1>1, GateInvariant, PTL

\* A fetch reaches LinkedIn only after every enabled budget was charged for
\* it, and a refused request costs nothing.
THEOREM NoUnpaidFetch == GateSafety => []ChargedExactlyWhenAdmitted
PROOF
  <1>1. GateInv => ChargedExactlyWhenAdmitted
    BY DEF GateInv
  <1> QED BY <1>1, GateInvariant, PTL

\* The wait a refusal announces is exact for the budget that refused.
THEOREM AnnouncedWaitIsExact == GateSafety => []RetryAfterExact
PROOF
  <1>1. GateInv => RetryAfterExact
    BY DEF GateInv
  <1> QED BY <1>1, GateInvariant, PTL

-----------------------------------------------------------------------------
(* FetchGate implements MeteredUpstream: every step is one of its steps or *)
(* changes nothing LinkedIn or the account could tell.                     *)

LEMMA UpstreamStep ==
    GateInv /\ [GateNext]_gateVars
        => [Upstream!UpstreamNext]_(Upstream!upstreamVars)
PROOF
  <1> SUFFICES ASSUME GateInv, [GateNext]_gateVars
               PROVE  [Upstream!UpstreamNext]_(Upstream!upstreamVars)
    OBVIOUS
  <1> USE DEF Upstream!UpstreamNext, Upstream!upstreamVars
  <1>0. /\ startedAt \in [Callers -> Times] /\ endedAt \in [Callers -> Times]
        /\ now \in Nat /\ lastFetch \in Times
        /\ MutexInv /\ ClockInv /\ ChargeInv /\ FlightInv
    BY DEF GateInv, GateTypeOK
  <1>1. ASSUME NEW c \in Callers, NEW b \in Budgets, Spend(c, b)
        PROVE  [Upstream!UpstreamNext]_(Upstream!upstreamVars)
    <2>1. CASE Limit[b] = 0
      BY <1>1, <2>1 DEF Spend
    <2>2. CASE Limit[b] # 0
      <3>1. Limit[b] > 0
        BY <2>2
      <3>2. stamp[b][c] = Never
        BY <1>0, <1>1 DEF ChargeInv, Spend, SpendPhase, Unspent
      <3>3. Cardinality(Recorded(stamp[b], now, Window[b])) < Limit[b]
        <4>1. phase[c] \in Checked(b)
          BY <1>1 DEF Spend, SpendPhase, Checked, Budgets
        <4> QED BY <3>1, <4>1 DEF GateInv, ReservedInv, UnitsIn
      <3>4. Upstream!Charge(c, b)
        <4>1. stamp' = [stamp EXCEPT ![b][c] = now]
          BY <1>1, <2>2 DEF Spend
        <4>2. UNCHANGED <<now, startedAt, endedAt>>
          BY <1>1 DEF Spend
        <4>3. Upstream!Cardinality(Upstream!Recorded(stamp[b], now, Window[b]))
                 = Cardinality(Recorded(stamp[b], now, Window[b]))
          BY DEF Upstream!Cardinality, Cardinality, Upstream!Recorded, Recorded
        <4> QED BY <3>1, <3>2, <3>3, <4>1, <4>2, <4>3 DEF Upstream!Charge
      <3> QED BY <3>4
    <2> QED BY <2>1, <2>2
  <1>2. ASSUME NEW c \in Callers, Begin(c)
        PROVE  [Upstream!UpstreamNext]_(Upstream!upstreamVars)
    <2>1. CASE c \in cancelled
      BY <1>2, <2>1 DEF Begin
    <2>2. CASE c \notin cancelled
      <3>1. startedAt[c] = Never
        BY <1>0, <1>2 DEF FlightInv, Begin
      <3>2. \A b \in Budgets : Limit[b] > 0 => stamp[b][c] # Never
        BY <1>0, <1>2 DEF ChargeInv, Begin, Paid
      <3>3. ASSUME NEW d \in Callers, startedAt[d] # Never
            PROVE  endedAt[d] # Never /\ endedAt[d] + MinGap =< now
        <4>1. holder = c /\ phase[d] # "fetching"
          BY <1>0, <1>2 DEF MutexInv, Begin, InGate
        <4>2. endedAt[d] # Never
          BY <1>0, <3>3, <4>1 DEF FlightInv
        <4>3. endedAt[d] =< lastFetch /\ now - lastFetch >= MinGap
          BY <1>0, <1>2, <4>2 DEF ClockInv, Begin, TooSoon, Times
        <4> QED BY <1>0, <4>2, <4>3 DEF Times
      <3>4. Upstream!Reach(c)
        BY <1>2, <2>2, <3>1, <3>2, <3>3 DEF Begin, Upstream!Reach
      <3> QED BY <3>4
    <2> QED BY <2>1, <2>2
  <1>3. ASSUME NEW c \in Callers, NEW how, EndFetch(c, how)
        PROVE  [Upstream!UpstreamNext]_(Upstream!upstreamVars)
    <2>1. CASE startedAt[c] = Never
      BY <1>3, <2>1 DEF EndFetch
    <2>2. CASE startedAt[c] # Never
      <3>1. endedAt[c] = Never
        BY <1>0, <1>3 DEF FlightInv, EndFetch
      <3>2. Upstream!Return(c)
        BY <1>3, <2>2, <3>1 DEF EndFetch, Upstream!Return
      <3> QED BY <3>2
    <2> QED BY <2>1, <2>2
  <1>4. CASE Tick
    BY <1>4 DEF Tick, Upstream!Pass
  <1>5. CASE UNCHANGED <<now, stamp, startedAt, endedAt>>
    BY <1>5
  <1> QED BY <1>1, <1>2, <1>3, <1>4, <1>5 DEF GateNext, HolderStep, gateVars,
     Call, Lock, Available, Refuse, Sleep, Cancel, Remaining

\* Whatever the callers do, LinkedIn sees only what MeteredUpstream allows.
THEOREM GateImplementsUpstream == GateSafety => ImplementsUpstream
PROOF
  <1>1. GateInit => Upstream!UpstreamInit
    BY DEF GateInit, FreshGate, Upstream!UpstreamInit
  <1> QED BY <1>1, UpstreamStep, GateInvariant, PTL
          DEF GateSafety, ImplementsUpstream, Upstream!UpstreamSpec

-----------------------------------------------------------------------------
USE KindsAssumption, SwitchAssumption, RateAssumption, TtlAssumption

-----------------------------------------------------------------------------
(* The promises of fetchCards hold of the whole server: whatever requests  *)
(* arrive, and however the handlers interleave around the gate, a step of  *)
(* the server is a step of FetchGate or leaves its state alone.            *)

LEMMA ServerStepIsGateStep ==
    [ServerNext]_serverVars => [GateNext]_gateVars
PROOF
  <1> SUFFICES ASSUME [ServerNext]_serverVars PROVE [GateNext]_gateVars
    OBVIOUS
  <1>1. ASSUME NEW r \in Callers, CallFetch(r) PROVE [GateNext]_gateVars
    BY <1>1 DEF CallFetch, GateNext
  <1>2. ASSUME NEW r \in Callers, Arrive(r) PROVE UNCHANGED gateVars
    BY <1>2 DEF Arrive
  <1>3. ASSUME NEW r \in Callers, Throttle(r) PROVE UNCHANGED gateVars
    BY <1>3 DEF Throttle
  <1>4. ASSUME NEW r \in Callers, Lookup(r) PROVE UNCHANGED gateVars
    BY <1>4 DEF Lookup
  <1>5. ASSUME NEW r \in Callers, Admit(r) PROVE UNCHANGED gateVars
    BY <1>5 DEF Admit
  <1>6. ASSUME NEW r \in Callers, Charge(r) PROVE UNCHANGED gateVars
    BY <1>6 DEF Charge
  <1>7. ASSUME NEW r \in Callers, Finish(r) PROVE UNCHANGED gateVars
    BY <1>7 DEF Finish
  <1>8. CASE GateStep
    BY <1>8 DEF GateStep, GateNext
  <1>9. CASE UNCHANGED serverVars
    BY <1>9 DEF serverVars
  <1> QED BY <1>1, <1>2, <1>3, <1>4, <1>5, <1>6, <1>7, <1>8, <1>9
          DEF ServerNext, HandlerStep

\* The handlers use fetchCards as FetchGate describes it.
THEOREM ServerImplementsGate == ServerSpec => UsesGate
PROOF
  <1>1. ServerInit => GateInit
    BY DEF ServerInit
  <1> QED BY <1>1, ServerStepIsGateStep, PTL DEF ServerSpec, UsesGate, GateSafety

\* So no budget is overspent by the server as a whole, ...
THEOREM ServerRespectsBudgets == ServerSpec => []BudgetWindow
PROOF
  BY ServerImplementsGate, BudgetIsNeverOverspent, PTL DEF UsesGate

\* ... its fetches are serialised and spaced out, ...
THEOREM ServerSpacesFetches == ServerSpec => []FloorBetweenFetches
PROOF
  BY ServerImplementsGate, FetchesAreSpacedOut, PTL DEF UsesGate

\* ... and none is made that was not charged to every budget.
THEOREM ServerChargesFetches == ServerSpec => []ChargedExactlyWhenAdmitted
PROOF
  BY ServerImplementsGate, NoUnpaidFetch, PTL DEF UsesGate

-----------------------------------------------------------------------------
(* The inductive invariant, besides that of the gate.                      *)

\* The requests of client c that the limiter let through in the window to t.
Through(c, t) == {r \in Recorded(rateAt, t, RateWindow) : Client(r) = c}

\* The types of what the handlers keep.
HandlerTypeInv ==
    /\ stage \in [Callers -> Stages]
    /\ session \in BOOLEAN
    /\ kind \in [Callers -> Kinds]
    /\ rateHits \in [Clients -> SUBSET Callers]
    /\ anonHits \in [Clients -> SUBSET Callers]
    /\ rateAt \in [Callers -> Times] /\ anonAt \in [Callers -> Times]
    /\ lookedUpAt \in [Callers -> Times] /\ storedAt \in [Callers -> Times]
    /\ answer = [r \in Callers |-> answer[r]]
    /\ \A r \in Callers : stage[r] = "answered" <=> answer[r] # Unanswered

\* The limiter remembers every request of the current window, and only
\* requests of that address that it let through.
LimiterInv ==
    /\ \A r \in Callers : rateAt[r] =< now
    /\ \A r \in Callers : stage[r] \in {"absent", "throttle"} => rateAt[r] = Never
    /\ \A c \in Clients :
          /\ Through(c, now) \subseteq rateHits[c]
          /\ \A h \in rateHits[c] : Client(h) = c /\ rateAt[h] # Never

\* What a request has passed when it is at some stage.
HasKey(r) == KeysRequired => kind[r].key # "bad"
HasPassed(r) == kind[r].target # BadUrl /\ (RateLimit > 0 => rateAt[r] # Never)

PassedInv ==
    \A r \in Callers :
        /\ stage[r] \notin {"absent", "answered"} => HasKey(r)
        /\ stage[r] \notin {"absent", "throttle", "answered"} => HasPassed(r)
        /\ stage[r] \in {"call", "fetch", "finish"} => session
        /\ phase[r] # "out" => stage[r] \in {"fetch", "finish", "answered"}
        /\ stage[r] \in {"finish", "answered"} => phase[r] \in {"out", "returned"}
        /\ stage[r] = "finish" => phase[r] = "returned"

HandlerInv ==
    /\ GateInv
    /\ HandlerTypeInv
    /\ LimiterInv
    /\ PassedInv
    /\ RateWindowHolds
    /\ OnlyFetchesReachLinkedIn

-----------------------------------------------------------------------------
(* What the gate's steps leave alone.                                      *)

\* Outside the gate a request is not charged and does not fetch, and what has
\* returned from the gate stays out of it.
LEMMA OutsideGate ==
    ASSUME GateInv, [GateNext]_gateVars, NEW r \in Callers,
           phase[r] \in {"out", "returned"}
    PROVE  /\ startedAt'[r] = startedAt[r]
           /\ \A b \in Budgets : stamp'[b][r] = stamp[b][r]
           /\ phase[r] = "returned" => phase'[r] = "returned"
PROOF
  <1>0. /\ startedAt \in [Callers -> Times] /\ phase \in [Callers -> Phases]
        /\ stamp \in [Budgets -> [Callers -> Times]]
    BY DEF GateInv, GateTypeOK
  <1>1. startedAt'[r] = startedAt[r]
    BY <1>0 DEF GateNext, HolderStep, gateVars, Call, Lock, Available, Refuse, Spend,
           Sleep, Begin, EndFetch, Cancel, Remaining, Tick
  <1>2. \A b \in Budgets : stamp'[b][r] = stamp[b][r]
    <2>1. ASSUME NEW c \in Callers, NEW d \in Budgets, Spend(c, d), Limit[d] > 0
          PROVE  \A b \in Budgets : stamp'[b][r] = stamp[b][r]
      <3>1. c # r
        BY <2>1 DEF Spend, SpendPhase
      <3>2. /\ stamp'[d] = [stamp[d] EXCEPT ![c] = now]
            /\ \A b \in Budgets : b # d => stamp'[b] = stamp[b]
        BY <2>1, SpendEffect
      <3> QED BY <1>0, <3>1, <3>2
    <2> QED BY <2>1, StampStep
  <1>3. phase[r] = "returned" => phase'[r] = "returned"
    BY <1>0 DEF GateNext, HolderStep, gateVars, Call, Lock, Available, Refuse, Spend,
           Sleep, Begin, EndFetch, Cancel, Remaining, Tick, GoTo, CheckPhase,
           SpendPhase
  <1> QED BY <1>1, <1>2, <1>3

\* Only the handler makes a request enter the gate, and only a request that is
\* inside starts a fetch.
LEMMA InsideGate ==
    ASSUME GateInv, GateStep, NEW r \in Callers
    PROVE  /\ phase'[r] = "out" <=> phase[r] = "out"
           /\ startedAt'[r] # startedAt[r] => phase[r] \in {"pace", "sleeping"}
PROOF
  <1> USE DEF GateInv, GateTypeOK, GateStep, HolderStep
  <1>1. phase'[r] = "out" <=> phase[r] = "out"
    BY DEF Lock, Available, Refuse, Spend, Sleep, Begin, EndFetch, Cancel,
           Remaining, Tick, GoTo, CheckPhase, SpendPhase, AfterCheck, AfterSpend
  <1>2. startedAt'[r] # startedAt[r] => phase[r] \in {"pace", "sleeping"}
    BY DEF Lock, Available, Refuse, Spend, Sleep, Begin, EndFetch, Cancel,
           Remaining, Tick
  <1> QED BY <1>1, <1>2

\* A request that a budget refused was charged to none and did not fetch.
LEMMA RefusedIsFree ==
    ASSUME GateInv, NEW r \in Callers, outcome[r].kind = "refused"
    PROVE  startedAt[r] = Never /\ \A b \in Budgets : stamp[b][r] = Never
PROOF
  <1> DEFINE b == outcome[r].budget
             t == outcome[r].at
             later == StillCounted(b, t, t + outcome[r].resetIn)
  <1>1. b \in Budgets
    BY DEF GateInv, GateTypeOK, Outcomes
  <1>2. Cardinality(later) < Limit[b]
    BY DEF GateInv, RetryAfterExact
  <1>3. Cardinality(later) \in Nat
    <2>1. later \subseteq UnitsIn(b, t)
      BY DEF StillCounted
    <2>2. IsFiniteSet(UnitsIn(b, t))
      BY <1>1, UnitsFinite DEF GateInv
    <2> HIDE DEF later
    <2> QED BY <2>1, <2>2, FS_Subset, FS_CardinalityType
  <1>4. Limit[b] > 0
    <2> HIDE DEF later
    <2>1. Limit[b] \in Nat
      BY <1>1
    <2> QED BY <1>2, <1>3, <2>1
  <1> QED BY <1>1, <1>4 DEF GateInv, ChargedExactlyWhenAdmitted

-----------------------------------------------------------------------------
LEMMA HandlerInitial == ServerInit => HandlerInv
PROOF
  <1> SUFFICES ASSUME ServerInit PROVE HandlerInv
    OBVIOUS
  <1>1. GateInit /\ GateInv
    BY FreshEstablishes DEF ServerInit, GateInit
  <1>2. HandlerTypeInv
    BY DEF ServerInit, HandlerTypeInv, Stages, Times
  <1>3. now = 0 /\ \A r \in Callers : phase[r] = "out" /\ startedAt[r] = Never
    BY <1>1 DEF GateInit, FreshGate
  <1>4. \A c \in Clients, t \in Int : Through(c, t) = {}
    BY DEF ServerInit, Through, Recorded
  <1>5. LimiterInv
    BY <1>3, <1>4 DEF ServerInit, LimiterInv
  <1>6. PassedInv
    BY <1>3 DEF ServerInit, PassedInv
  <1>7. RateWindowHolds
    <2> SUFFICES ASSUME NEW c \in Clients, NEW t \in 0 .. now
                 PROVE  Cardinality(Through(c, t)) =< RateLimit
      BY DEF RateWindowHolds, Through
    <2> QED BY <1>4, <1>3, FS_EmptySet
  <1>8. OnlyFetchesReachLinkedIn
    BY <1>3 DEF ServerInit, OnlyFetchesReachLinkedIn
  <1> QED BY <1>1, <1>2, <1>5, <1>6, <1>7, <1>8 DEF HandlerInv

\* An answer is never taken for no answer.
LEMMA AnswersAreAnswers ==
    /\ \A s, c, w : s # 0 => Refusal(s, c, w) # Unanswered
    /\ \A of, by, cached : Success(of, by, cached) # Unanswered
PROOF
  BY DEF Refusal, Success, Unanswered

\* A step of a handler moves that one request on, and answers it or does not.
LEMMA StageStep ==
    ASSUME HandlerTypeInv, NEW r \in Callers, Arrive(r) \/ HandlerStep(r)
    PROVE  /\ stage[r] # "answered"
           /\ UNCHANGED <<session, kind>>
           /\ \/ \E a : a # Unanswered /\ Answer(r, a)
              \/ /\ \E s \in Stages \ {"answered"} : MoveTo(r, s)
                 /\ UNCHANGED answer
PROOF
  <1> USE AnswersAreAnswers DEF Stages, fixed
  <1>1. CASE Arrive(r)
    BY <1>1 DEF Arrive
  <1>2. CASE Throttle(r)
    BY <1>2 DEF Throttle
  <1>3. CASE Lookup(r)
    BY <1>3 DEF Lookup
  <1>4. CASE Admit(r)
    BY <1>4 DEF Admit
  <1>5. CASE CallFetch(r)
    BY <1>5 DEF CallFetch
  <1>6. CASE Charge(r)
    BY <1>6 DEF Charge
  <1>7. CASE Finish(r)
    <2>1. /\ stage[r] = "finish" /\ UNCHANGED <<session, kind>>
          /\ \/ Answer(r, Success(Asked(r), r, FALSE))
             \/ Answer(r, Refusal(429, "budget_exhausted", outcome[r].resetIn))
             \/ Answer(r, Refusal(502, "upstream_error", 0))
      BY <1>7 DEF Finish
    <2>2. /\ Success(Asked(r), r, FALSE) # Unanswered
          /\ Refusal(429, "budget_exhausted", outcome[r].resetIn) # Unanswered
          /\ Refusal(502, "upstream_error", 0) # Unanswered
      BY DEF Success, Refusal, Unanswered
    <2>3. stage[r] # "answered"
      BY <2>1
    <2> QED BY <2>1, <2>2, <2>3, Zenon
  <1> QED BY <1>1, <1>2, <1>3, <1>4, <1>5, <1>6, <1>7 DEF HandlerStep

LEMMA HandlerTypeStep ==
    ASSUME HandlerInv, [ServerNext]_serverVars
    PROVE  HandlerTypeInv'
PROOF
  <1>0. now \in Times /\ HandlerTypeInv
    BY DEF HandlerInv, GateInv, GateTypeOK, Times
  <1>1. CASE UNCHANGED handlerVars
    BY <1>0, <1>1 DEF handlerVars, fixed, HandlerTypeInv, Clients
  <1>2. ASSUME NEW r \in Callers, Arrive(r) \/ HandlerStep(r)
        PROVE  HandlerTypeInv'
    <2>1. /\ stage' \in [Callers -> Stages]
          /\ session' = session /\ kind' = kind
          /\ answer' = [q \in Callers |-> answer'[q]]
          /\ \A q \in Callers : stage'[q] = "answered" <=> answer'[q] # Unanswered
      <3>1. ASSUME NEW a, a # Unanswered, Answer(r, a)
            PROVE  /\ stage' \in [Callers -> Stages]
                   /\ answer' = [q \in Callers |-> answer'[q]]
                   /\ \A q \in Callers :
                         stage'[q] = "answered" <=> answer'[q] # Unanswered
        BY <1>0, <3>1 DEF Answer, MoveTo, HandlerTypeInv, Stages
      <3>2. ASSUME NEW s \in Stages \ {"answered"}, MoveTo(r, s), UNCHANGED answer
            PROVE  /\ stage' \in [Callers -> Stages]
                   /\ answer' = [q \in Callers |-> answer'[q]]
                   /\ \A q \in Callers :
                         stage'[q] = "answered" <=> answer'[q] # Unanswered
        BY <1>0, <1>2, <3>2, StageStep DEF MoveTo, HandlerTypeInv
      <3> QED BY <1>0, <1>2, <3>1, <3>2, StageStep
    <2>2. /\ rateHits' \in [Clients -> SUBSET Callers]
          /\ rateAt' \in [Callers -> Times]
      <3>1. CASE Throttle(r)
        BY <1>0, <3>1 DEF Throttle, HandlerTypeInv, LiveRate, Live
      <3>2. CASE ~Throttle(r)
        <4>1. UNCHANGED <<rateHits, rateAt>>
          BY <1>2, <3>2 DEF Arrive, HandlerStep, Lookup, Admit, CallFetch, Charge,
             Finish
        <4> QED BY <1>0, <4>1 DEF HandlerTypeInv
      <3> QED BY <3>1, <3>2
    <2>3. /\ anonHits' \in [Clients -> SUBSET Callers]
          /\ anonAt' \in [Callers -> Times]
      <3>1. CASE Admit(r)
        BY <1>0, <3>1 DEF Admit, HandlerTypeInv, LiveAnon, Live
      <3>2. CASE Charge(r)
        BY <1>0, <3>2 DEF Charge, HandlerTypeInv, LiveAnon, Live
      <3>3. CASE ~Admit(r) /\ ~Charge(r)
        <4>1. UNCHANGED <<anonHits, anonAt>>
          BY <1>2, <3>3 DEF Arrive, HandlerStep, Throttle, Lookup, CallFetch, Finish
        <4> QED BY <1>0, <4>1 DEF HandlerTypeInv
      <3> QED BY <3>1, <3>2, <3>3
    <2>4. lookedUpAt' \in [Callers -> Times] /\ storedAt' \in [Callers -> Times]
      <3>1. CASE Lookup(r)
        BY <1>0, <3>1 DEF Lookup, HandlerTypeInv
      <3>2. CASE Finish(r)
        BY <1>0, <3>2 DEF Finish, HandlerTypeInv
      <3>3. CASE ~Lookup(r) /\ ~Finish(r)
        <4>1. UNCHANGED <<lookedUpAt, storedAt>>
          BY <1>2, <3>3 DEF Arrive, HandlerStep, Throttle, Admit, CallFetch, Charge
        <4> QED BY <1>0, <4>1 DEF HandlerTypeInv
      <3> QED BY <3>1, <3>2, <3>3
    <2> QED BY <1>0, <2>1, <2>2, <2>3, <2>4 DEF HandlerTypeInv, Clients
  <1> QED BY <1>1, <1>2 DEF ServerNext, GateStep, serverVars, handlerVars, fixed

\* A handler goes through its checks in order and the gate keeps to itself.
LEMMA PassedStep ==
    ASSUME HandlerInv, [ServerNext]_serverVars
    PROVE  PassedInv'
PROOF
  <1> USE DEF PassedInv, HasKey, HasPassed, MoveTo, Answer, fixed
  <1>0. /\ phase \in [Callers -> Phases] /\ stage \in [Callers -> Stages]
        /\ now \in Nat /\ rateAt \in [Callers -> Times]
        /\ PassedInv
    BY DEF HandlerInv, HandlerTypeInv, GateInv, GateTypeOK
  <1>1. ASSUME NEW r \in Callers, Arrive(r) PROVE PassedInv'
    BY <1>0, <1>1 DEF Arrive, gateVars
  <1>2. ASSUME NEW r \in Callers, Throttle(r) PROVE PassedInv'
    BY <1>0, <1>2 DEF Throttle, gateVars
  <1>3. ASSUME NEW r \in Callers, Lookup(r) PROVE PassedInv'
    BY <1>0, <1>3 DEF Lookup, gateVars
  <1>4. ASSUME NEW r \in Callers, Admit(r) PROVE PassedInv'
    BY <1>0, <1>4 DEF Admit, gateVars
  <1>5. ASSUME NEW r \in Callers, CallFetch(r) PROVE PassedInv'
    BY <1>0, <1>5 DEF CallFetch, Call, GoTo
  <1>6. ASSUME NEW r \in Callers, Charge(r) PROVE PassedInv'
    BY <1>0, <1>6 DEF Charge, gateVars
  <1>7. ASSUME NEW r \in Callers, Finish(r) PROVE PassedInv'
    <2>1. /\ stage[r] = "finish" /\ stage' = [stage EXCEPT ![r] = "answered"]
          /\ UNCHANGED <<phase, session, kind, rateAt>>
      BY <1>7 DEF Finish, gateVars
    <2> QED BY <1>0, <2>1
  <1>8. CASE GateStep
    <2>1. [GateNext]_gateVars /\ GateInv
      BY ServerStepIsGateStep DEF HandlerInv
    <2>2. \A r \in Callers : /\ phase'[r] = "out" <=> phase[r] = "out"
                             /\ phase[r] = "returned" => phase'[r] = "returned"
      BY <1>8, <2>1, InsideGate, OutsideGate
    <2> QED BY <1>0, <1>8, <2>2 DEF GateStep, handlerVars
  <1>9. CASE UNCHANGED serverVars
    BY <1>0, <1>9 DEF serverVars, handlerVars, gateVars
  <1> QED BY <1>1, <1>2, <1>3, <1>4, <1>5, <1>6, <1>7, <1>8, <1>9
          DEF ServerNext, HandlerStep

-----------------------------------------------------------------------------
(* The limiter.                                                            *)

\* Only Throttle touches the limiter, and it lets a request in once.
LEMMA RateStep ==
    ASSUME HandlerInv, [ServerNext]_serverVars
    PROVE  /\ UNCHANGED <<session, kind>>
           /\ \/ /\ UNCHANGED <<rateHits, rateAt>>
                 /\ now' = now \/ now' = now + 1
                 /\ \A r \in Callers : stage'[r] \in {"absent", "throttle"}
                                       => stage[r] \in {"absent", "throttle"}
              \/ /\ \E r \in Callers : Throttle(r)
                 /\ now' = now
PROOF
  <1>0. HandlerTypeInv
    BY DEF HandlerInv
  <1>1. CASE UNCHANGED handlerVars /\ [GateNext]_gateVars
    <2>1. now' = now \/ now' = now + 1
      BY <1>1 DEF GateNext, HolderStep, gateVars, Call, Lock, Available, Refuse,
         Spend, Sleep, Begin, EndFetch, Cancel, Remaining, Tick
    <2> QED BY <1>1, <2>1 DEF handlerVars, fixed
  <1>2. ASSUME NEW r \in Callers, Arrive(r) \/ HandlerStep(r), ~Throttle(r)
        PROVE  /\ UNCHANGED <<session, kind, rateHits, rateAt, now>>
               /\ \A q \in Callers : stage'[q] \in {"absent", "throttle"}
                                     => stage[q] \in {"absent", "throttle"}
    <2>1. UNCHANGED <<session, kind, rateHits, rateAt, now>>
      BY <1>2 DEF Arrive, HandlerStep, Lookup, Admit, CallFetch, Call, Charge,
         Finish, fixed, gateVars
    <2>2. \A q \in Callers : stage'[q] \in {"absent", "throttle"}
                             => stage[q] \in {"absent", "throttle"}
      <3>1. CASE Arrive(r)
        BY <1>0, <3>1 DEF Arrive, MoveTo, Answer, HandlerTypeInv
      <3>2. stage[r] # "absent" => Lookup(r) \/ Admit(r) \/ CallFetch(r)
                                      \/ Charge(r) \/ Finish(r)
        BY <1>2 DEF Arrive, HandlerStep
      <3>3. CASE stage[r] # "absent"
        <4>1. \E s \in Stages \ {"absent", "throttle"} : MoveTo(r, s)
          <5> USE DEF Stages, Answer
          <5>1. CASE Lookup(r)
            BY <5>1 DEF Lookup
          <5>2. CASE Admit(r)
            BY <5>2 DEF Admit
          <5>3. CASE CallFetch(r)
            BY <5>3 DEF CallFetch
          <5>4. CASE Charge(r)
            BY <5>4 DEF Charge
          <5>5. CASE Finish(r)
            BY <5>5 DEF Finish
          <5> QED BY <3>2, <3>3, <5>1, <5>2, <5>3, <5>4, <5>5
        <4> QED BY <1>0, <4>1 DEF MoveTo, HandlerTypeInv
      <3>4. stage[r] = "absent" => Arrive(r)
        BY <1>2 DEF HandlerStep, Lookup, Admit, CallFetch, Charge, Finish
      <3> QED BY <3>1, <3>3, <3>4
    <2> QED BY <2>1, <2>2
  <1>3. ASSUME NEW r \in Callers, Throttle(r)
        PROVE  UNCHANGED <<session, kind, now>>
    BY <1>3 DEF Throttle, fixed, gateVars
  <1> QED BY <1>1, <1>2, <1>3, ServerStepIsGateStep
          DEF HandlerInv, ServerNext, HandlerStep, GateStep, serverVars

\* What the limiter counts for an address is the window of its history.
LEMMA LiveRateIsWindow ==
    ASSUME HandlerInv, NEW c \in Clients
    PROVE  /\ LiveRate(c) = Through(c, now)
           /\ LiveRate(c) \subseteq Callers
           /\ IsFiniteSet(LiveRate(c))
           /\ Cardinality(LiveRate(c)) \in Nat
PROOF
  <1>1. /\ rateAt \in [Callers -> Nat \cup {-1}]
        /\ rateHits[c] \subseteq Callers
        /\ now \in Nat
    BY DEF HandlerInv, HandlerTypeInv, GateInv, GateTypeOK, Times
  <1>2. /\ Through(c, now) \subseteq rateHits[c]
        /\ \A h \in rateHits[c] : Client(h) = c /\ rateAt[h] # -1
        /\ \A r \in Callers : rateAt[r] =< now
    BY DEF HandlerInv, LimiterInv
  <1>3. LiveRate(c) = Through(c, now)
    BY <1>1, <1>2 DEF LiveRate, Live, Through, Recorded
  <1>4. LiveRate(c) \subseteq Callers
    BY <1>1 DEF LiveRate, Live
  <1>5. IsFiniteSet(LiveRate(c))
    BY <1>4, FS_Subset
  <1> QED BY <1>3, <1>4, <1>5, FS_CardinalityType

\* A request that Throttle counts was not counted before, found room, and
\* joins the window of its address that ends now; no other window changes.
LEMMA ThrottleEffect ==
    ASSUME HandlerInv, NEW r \in Callers, Throttle(r)
    PROVE  \/ /\ rateAt' = rateAt
              /\ \A c \in Clients : rateHits'[c] \in {rateHits[c], LiveRate(c)}
           \/ /\ rateAt[r] = Never /\ RateLimit > 0
              /\ Cardinality(LiveRate(Client(r))) < RateLimit
              /\ rateAt' = [rateAt EXCEPT ![r] = now]
              /\ rateHits' = [rateHits EXCEPT
                                 ![Client(r)] = LiveRate(Client(r)) \cup {r}]
PROOF
  <1>0. /\ rateHits \in [Clients -> SUBSET Callers]
        /\ Client(r) \in Clients
        /\ rateAt[r] = Never
    BY DEF HandlerInv, HandlerTypeInv, LimiterInv, Throttle, Client, Clients
  <1>1. CASE RateAllows(Client(r)) /\ RateLimit = 0
    BY <1>1 DEF Throttle
  <1>2. CASE RateAllows(Client(r)) /\ RateLimit # 0
    BY <1>0, <1>2 DEF Throttle, RateAllows
  <1>3. CASE ~RateAllows(Client(r))
    BY <1>0, <1>3 DEF Throttle
  <1> QED BY <1>1, <1>2, <1>3

LEMMA LimiterStep ==
    ASSUME HandlerInv, [ServerNext]_serverVars
    PROVE  LimiterInv'
PROOF
  <1>0. /\ rateAt \in [Callers -> Nat \cup {-1}]
        /\ rateHits \in [Clients -> SUBSET Callers]
        /\ stage \in [Callers -> Stages]
        /\ now \in Nat /\ LimiterInv
    BY DEF HandlerInv, HandlerTypeInv, GateInv, GateTypeOK, Times
  <1>1. CASE /\ UNCHANGED <<session, kind, rateHits, rateAt>>
             /\ now' = now \/ now' = now + 1
             /\ \A r \in Callers : stage'[r] \in {"absent", "throttle"}
                                   => stage[r] \in {"absent", "throttle"}
    <2>1. \A c \in Clients : Through(c, now)' \subseteq Through(c, now)
      BY <1>0, <1>1 DEF Through, Recorded, Client, LimiterInv
    <2> QED BY <1>0, <1>1, <2>1 DEF LimiterInv, Client, Clients
  <1>2. ASSUME NEW r \in Callers, Throttle(r), now' = now,
               UNCHANGED <<session, kind>>
        PROVE  LimiterInv'
    <2>1. \A q \in Callers : stage'[q] \in {"absent", "throttle"}
                             => stage[q] \in {"absent", "throttle"} /\ q # r
      BY <1>0, <1>2 DEF Throttle, MoveTo, Answer
    <2>2. CASE /\ rateAt' = rateAt
               /\ \A c \in Clients : rateHits'[c] \in {rateHits[c], LiveRate(c)}
      <3>1. \A c \in Clients : Through(c, now)' = Through(c, now)
        BY <1>2, <2>2 DEF Through, Client
      <3>2. \A c \in Clients : /\ Through(c, now) \subseteq rateHits'[c]
                               /\ rateHits'[c] \subseteq rateHits[c]
        <4>1. \A c \in Clients : /\ Through(c, now) \subseteq rateHits[c]
                                 /\ LiveRate(c) \subseteq rateHits[c]
          BY <1>0 DEF LimiterInv, LiveRate, Live
        <4>2. \A c \in Clients : LiveRate(c) = Through(c, now)
          BY LiveRateIsWindow
        <4> QED BY <2>2, <4>1, <4>2
      <3> QED BY <1>0, <1>2, <2>1, <2>2, <3>1, <3>2 DEF LimiterInv, Client, Clients
    <2>3. CASE /\ rateAt' = [rateAt EXCEPT ![r] = now]
               /\ rateHits' = [rateHits EXCEPT
                                  ![Client(r)] = LiveRate(Client(r)) \cup {r}]
      <3>1. \A c \in Clients :
               Through(c, now)' \subseteq
                  Through(c, now) \cup (IF c = Client(r) THEN {r} ELSE {})
        BY <1>0, <1>2, <2>3 DEF Through, Recorded, Client
      <3>2. \A c \in Clients :
               rateHits'[c] = IF c = Client(r) THEN Through(c, now) \cup {r}
                                               ELSE rateHits[c]
        BY <1>0, <2>3, LiveRateIsWindow
      <3>3. \A c \in Clients : Through(c, now)' \subseteq rateHits'[c]
        <4> SUFFICES ASSUME NEW c \in Clients
                     PROVE  Through(c, now)' \subseteq rateHits'[c]
          OBVIOUS
        <4>1. Through(c, now) \subseteq rateHits[c]
          BY <1>0 DEF LimiterInv
        <4>2. CASE c = Client(r)
          BY <3>1, <3>2, <4>2
        <4>3. CASE c # Client(r)
          BY <3>1, <3>2, <4>1, <4>3
        <4> QED BY <4>2, <4>3
      <3>4. \A c \in Clients : \A h \in rateHits'[c] :
               Client(h)' = c /\ rateAt'[h] # -1
        <4> SUFFICES ASSUME NEW c \in Clients, NEW h \in rateHits'[c]
                     PROVE  Client(h)' = c /\ rateAt'[h] # -1
          OBVIOUS
        <4>1. Client(h)' = Client(h)
          BY <1>2 DEF Client
        <4>2. h # r => rateAt'[h] = rateAt[h]
          BY <1>0, <2>3
        <4>3. rateAt'[r] # -1
          BY <1>0, <2>3
        <4>4. CASE c = Client(r)
          <5>1. h \in Through(c, now) \/ h = r
            BY <3>2, <4>4
          <5>2. h \in Through(c, now) => Client(h) = c /\ rateAt[h] # -1
            BY <1>0 DEF Through, Recorded
          <5> QED BY <4>1, <4>2, <4>3, <4>4, <5>1, <5>2
        <4>5. CASE c # Client(r)
          BY <1>0, <3>2, <4>1, <4>2, <4>3, <4>5 DEF LimiterInv
        <4> QED BY <4>4, <4>5
      <3> QED BY <1>0, <1>2, <2>1, <2>3, <3>3, <3>4 DEF LimiterInv, Clients
    <2> QED BY <1>2, <2>2, <2>3, ThrottleEffect
  <1> QED BY <1>1, <1>2, RateStep

LEMMA RateWindowStep ==
    ASSUME HandlerInv, [ServerNext]_serverVars
    PROVE  RateWindowHolds'
PROOF
  <1> SUFFICES ASSUME RateLimit > 0, NEW c \in Clients, NEW t \in 0 .. now'
               PROVE  Cardinality(Through(c, t)') =< RateLimit
    BY RateStep DEF RateWindowHolds, Through, Clients
  <1>0. /\ rateAt \in [Callers -> Nat \cup {-1}]
        /\ now \in Nat
        /\ \A s \in 0 .. now : Cardinality(Through(c, s)) =< RateLimit
        /\ \A r \in Callers : rateAt[r] =< now
    <2>1. \A s \in 0 .. now : Cardinality(Through(c, s)) =< RateLimit
      BY DEF HandlerInv, RateWindowHolds, Through
    <2> QED BY <2>1 DEF HandlerInv, HandlerTypeInv, GateInv, GateTypeOK, Times,
               LimiterInv
  <1>1. CASE /\ UNCHANGED <<kind, rateAt>>
             /\ now' = now \/ now' = now + 1
    <2>0. \A s : Through(c, s)' = Through(c, s)
      BY <1>1 DEF Through, Client
    <2>1. CASE t \in 0 .. now
      BY <1>0, <2>0, <2>1
    <2>2. CASE t = now + 1
      <3>1. Through(c, t)' \subseteq LiveRate(c)
        <4>1. Through(c, now + 1) \subseteq Through(c, now)
          BY <1>0 DEF Through, Recorded
        <4> QED BY <2>0, <2>2, <4>1, LiveRateIsWindow
      <3>2. /\ Cardinality(Through(c, t)') =< Cardinality(LiveRate(c))
            /\ Cardinality(Through(c, t)') \in Nat
        BY <3>1, LiveRateIsWindow, FS_Subset, FS_CardinalityType
      <3> QED BY <1>0, <3>2, LiveRateIsWindow
    <2> QED BY <1>0, <1>1, <2>1, <2>2
  <1>2. ASSUME NEW r \in Callers, now' = now, kind' = kind, rateAt[r] = Never,
               Cardinality(LiveRate(Client(r))) < RateLimit,
               rateAt' = [rateAt EXCEPT ![r] = now]
        PROVE  Cardinality(Through(c, t)') =< RateLimit
    <2>1. CASE t # now \/ c # Client(r)
      <3>1. Through(c, t)' = Through(c, t)
        BY <1>0, <1>2, <2>1 DEF Through, Recorded, Client
      <3> QED BY <1>0, <1>2, <3>1
    <2>2. CASE t = now /\ c = Client(r)
      <3>1. Through(c, t)' = LiveRate(c) \cup {r}
        BY <1>0, <1>2, <2>2, LiveRateIsWindow DEF Through, Recorded, Client
      <3>2. Cardinality(LiveRate(c) \cup {r})
               = IF r \in LiveRate(c) THEN Cardinality(LiveRate(c))
                                      ELSE Cardinality(LiveRate(c)) + 1
        BY LiveRateIsWindow, FS_AddElement
      <3> QED BY <1>2, <2>2, <3>1, <3>2, LiveRateIsWindow
    <2> QED BY <2>1, <2>2
  <1> QED BY <1>1, <1>2, RateStep, ThrottleEffect

-----------------------------------------------------------------------------
(* What reaches LinkedIn.                                                  *)

\* A request is answered early when it is not given a profile just fetched.
Early(a) == a # Unanswered /\ (a.status # 200 \/ a.cached)

\* It was charged to no budget and did not reach LinkedIn.
Free(r) == startedAt[r] = Never /\ \A b \in Budgets : stamp[b][r] = Never

\* OnlyFetchesReachLinkedIn, for one request.
LEMMA EarlyForm ==
    OnlyFetchesReachLinkedIn <=>
        \A r \in Callers :
            /\ startedAt[r] # Never => session /\ HasKey(r) /\ HasPassed(r)
            /\ Early(answer[r]) => Free(r) \/ answer[r].code = "upstream_error"
PROOF
  BY DEF OnlyFetchesReachLinkedIn, HasKey, HasPassed, Early, Free, Budgets

\* A request that has not entered the gate is free.
LEMMA OutsideIsFree ==
    ASSUME GateInv, NEW r \in Callers, phase[r] = "out"
    PROVE  Free(r)
PROOF
  BY DEF GateInv, ChargeInv, Unspent, FlightInv, Free

\* What a request has passed it does not lose.
LEMMA PassedStays ==
    ASSUME HandlerInv, [ServerNext]_serverVars, NEW r \in Callers,
           session, HasKey(r), HasPassed(r)
    PROVE  (session /\ HasKey(r) /\ HasPassed(r))'
PROOF
  <1>0. rateAt \in [Callers -> Times] /\ now \in Nat
    BY DEF HandlerInv, HandlerTypeInv, GateInv, GateTypeOK
  <1>1. UNCHANGED <<session, kind>>
    BY RateStep
  <1>2. rateAt[r] # Never => rateAt'[r] # Never
    <2>1. ASSUME NEW q \in Callers, Throttle(q)
          PROVE  rateAt[r] # Never => rateAt'[r] # Never
      BY <1>0, <2>1, ThrottleEffect
    <2> QED BY <2>1, RateStep
  <1> QED BY <1>1, <1>2 DEF HasKey, HasPassed

\* A fetch starts only for a request that has passed every check.
LEMMA StartStep ==
    ASSUME HandlerInv, [ServerNext]_serverVars, NEW r \in Callers,
           startedAt'[r] # startedAt[r]
    PROVE  session /\ HasKey(r) /\ HasPassed(r)
PROOF
  <1>1. GateStep
    <2>1. ASSUME NEW q \in Callers, Arrive(q) \/ HandlerStep(q)
          PROVE  startedAt' = startedAt
      BY <2>1 DEF Arrive, HandlerStep, Throttle, Lookup, Admit, CallFetch, Call,
         Charge, Finish, gateVars
    <2> QED BY <2>1 DEF ServerNext, serverVars, gateVars
  <1>2. phase[r] \in {"pace", "sleeping"}
    BY <1>1, InsideGate DEF HandlerInv
  <1>3. stage[r] = "fetch"
    BY <1>2 DEF HandlerInv, PassedInv
  <1> QED BY <1>3 DEF HandlerInv, PassedInv

\* What a request is newly answered without a profile it got for free, unless
\* LinkedIn itself failed.
LEMMA AnswerStep ==
    ASSUME HandlerInv, [ServerNext]_serverVars, NEW r \in Callers,
           answer'[r] # answer[r], Early(answer'[r])
    PROVE  Free(r)' \/ answer'[r].code = "upstream_error"
PROOF
  <1>0. answer = [q \in Callers |-> answer[q]]
    BY DEF HandlerInv, HandlerTypeInv
  <1>1. PICK q \in Callers : Arrive(q) \/ HandlerStep(q)
    BY DEF ServerNext, GateStep, serverVars, handlerVars
  <1>2. q = r
    BY <1>0, <1>1, StageStep DEF Answer, HandlerInv
  <1>3. ~CallFetch(r) /\ ~Charge(r)
    BY <1>0 DEF CallFetch, Charge
  <1>4. UNCHANGED gateVars
    BY <1>1, <1>2, <1>3 DEF Arrive, HandlerStep, Throttle, Lookup, Admit, Finish
  <1>5. Free(r) => Free(r)'
    BY <1>4 DEF Free, gateVars
  <1>6. CASE ~Finish(r)
    <2>1. stage[r] \in {"absent", "throttle", "lookup", "admit"}
      BY <1>1, <1>2, <1>3, <1>6 DEF Arrive, HandlerStep, Throttle, Lookup, Admit
    <2>2. phase[r] = "out"
      BY <2>1 DEF HandlerInv, PassedInv
    <2> QED BY <1>5, <2>2, OutsideIsFree DEF HandlerInv
  <1>7. CASE Finish(r)
    <2>1. CASE outcome[r].kind = "fetched"
      <3>1. answer'[r] = Success(Asked(r), r, FALSE)
        BY <1>0, <1>7, <2>1 DEF Finish, Answer
      <3>2. answer'[r].status = 200 /\ answer'[r].cached = FALSE
        BY <3>1 DEF Success
      <3> QED BY <3>2 DEF Early
    <2>2. CASE outcome[r].kind = "refused"
      BY <1>5, <2>2, RefusedIsFree DEF HandlerInv, Free
    <2>3. CASE outcome[r].kind \notin {"fetched", "refused"}
      <3>1. answer'[r] = Refusal(502, "upstream_error", 0)
        BY <1>0, <1>7, <2>3 DEF Finish, Answer
      <3>2. answer'[r].code = "upstream_error"
        BY <3>1 DEF Refusal
      <3> QED BY <3>2
    <2> QED BY <2>1, <2>2, <2>3
  <1> QED BY <1>6, <1>7

LEMMA EarlyStep ==
    ASSUME HandlerInv, [ServerNext]_serverVars
    PROVE  OnlyFetchesReachLinkedIn'
PROOF
  <1>0. \A r \in Callers :
           /\ startedAt[r] # Never => session /\ HasKey(r) /\ HasPassed(r)
           /\ Early(answer[r]) => Free(r) \/ answer[r].code = "upstream_error"
    BY EarlyForm DEF HandlerInv
  <1>1. ASSUME NEW r \in Callers, startedAt'[r] # Never
        PROVE  (session /\ HasKey(r) /\ HasPassed(r))'
    BY <1>0, <1>1, StartStep, PassedStays
  <1>2. ASSUME NEW r \in Callers, Early(answer'[r])
        PROVE  Free(r)' \/ answer'[r].code = "upstream_error"
    <2>1. CASE answer'[r] = answer[r]
      <3>1. phase[r] \in {"out", "returned"}
        <4>1. stage[r] = "answered"
          BY <1>2, <2>1 DEF HandlerInv, HandlerTypeInv, Early
        <4> QED BY <4>1 DEF HandlerInv, PassedInv
      <3>2. /\ startedAt'[r] = startedAt[r]
            /\ \A b \in Budgets : stamp'[b][r] = stamp[b][r]
        BY <3>1, ServerStepIsGateStep, OutsideGate DEF HandlerInv
      <3>3. Free(r) => Free(r)'
        BY <3>2 DEF Free
      <3> QED BY <1>0, <1>2, <2>1, <3>3
    <2>2. CASE answer'[r] # answer[r]
      BY <1>2, <2>2, AnswerStep
    <2> QED BY <2>1, <2>2
  <1> QED BY <1>1, <1>2
          DEF OnlyFetchesReachLinkedIn, HasKey, HasPassed, Early, Free, Budgets

-----------------------------------------------------------------------------
(* The invariant and what follows from it.                                 *)

\* Every step of the handlers and of the gate preserves HandlerInv.
LEMMA HandlerInvStep == HandlerInv /\ [ServerNext]_serverVars => HandlerInv'
PROOF
  BY GateInvStep, ServerStepIsGateStep, HandlerTypeStep, LimiterStep, PassedStep,
     RateWindowStep, EarlyStep DEF HandlerInv

\* HandlerInv holds in every reachable state of the server, for any requests,
\* addresses, limits, windows and order of the handlers' steps.
THEOREM HandlerInvariant == ServerSpec => []HandlerInv
PROOF
  BY HandlerInvStep, HandlerInitial, PTL DEF ServerSpec

\* Type correctness of everything the handlers keep and of the gate.
THEOREM ServerTypeCorrect == ServerSpec => []ServerTypeOK
PROOF
  <1>1. HandlerInv => ServerTypeOK
    BY DEF HandlerInv, GateInv, HandlerTypeInv, ServerTypeOK
  <1> QED BY <1>1, HandlerInvariant, PTL

\* One address is let through at most RateLimit times in any rolling window:
\* RateLimiter.Check forgets no request that still counts.
THEOREM RateLimitHolds == ServerSpec => []RateWindowHolds
PROOF
  <1>1. HandlerInv => RateWindowHolds
    BY DEF HandlerInv
  <1> QED BY <1>1, HandlerInvariant, PTL

\* A request answered with a refusal or from the cache has cost no unit of a
\* budget and not reached LinkedIn, and what reaches it has passed the checks
\* of handleProfile.
THEOREM EarlyAnswersAreFree == ServerSpec => []OnlyFetchesReachLinkedIn
PROOF
  <1>1. HandlerInv => OnlyFetchesReachLinkedIn
    BY DEF HandlerInv
  <1> QED BY <1>1, HandlerInvariant, PTL

-----------------------------------------------------------------------------
(* The inductive invariant of the answers, besides HandlerInv.             *)

\* The requests of client c counted by a history of stamps in the window of
\* length w that ends at t.
CountedFor(at, w, c, t) == {r \in Recorded(at, t, w) : Client(r) = c}

\* Those that were charged to the allowance of c.
ChargedIn(c, t) == CountedFor(anonAt, AnonWindow, c, t)

\* The allowance remembers every charge of the current window, charges a
\* request once, and never more of them than its limit.
AllowanceInv ==
    /\ \A r \in Callers : anonAt[r] =< now
    /\ \A r \in Callers : stage[r] \notin {"finish", "answered"} => anonAt[r] = Never
    /\ \A c \in Clients :
          /\ ChargedIn(c, now) \subseteq anonHits[c]
          /\ \A h \in anonHits[c] : Client(h) = c /\ anonAt[h] # Never
    /\ AnonLimit > 0 =>
          \A c \in Clients : \A t \in 0 .. now :
              Cardinality(ChargedIn(c, t)) =< AnonLimit

\* The refusals of the two limiters, and that the window was full when they
\* were given: no request can be counted at that time any more.
Limited(a) == /\ a # Unanswered /\ a.status = 429
              /\ a.code = "rate_limited"
Exhausted(a) == /\ a # Unanswered /\ a.status = 429
                /\ a.code = "anonymous_quota_exhausted"

FullInv ==
    \A r \in Callers :
        /\ Limited(answer[r]) =>
              /\ answer[r].at \in 0 .. now
              /\ Cardinality(Through(Client(r), answer[r].at)) >= RateLimit
        /\ Exhausted(answer[r]) =>
              /\ answer[r].at \in 0 .. now
              /\ Cardinality(ChargedIn(Client(r), answer[r].at)) >= AnonLimit

\* The keys the requests use, and what may be stored under them.
CacheKeys == {Asked(r) : r \in Callers}
Responses == [of : CacheKeys, by : Callers]

\* Only a profile request without refresh asks the cache; each asks and is
\* stored at most once, at its stage.
AskingInv ==
    \A r \in Callers :
        /\ lookedUpAt[r] =< now /\ storedAt[r] =< now
        /\ stage[r] # "answered" => storedAt[r] = Never
        /\ stage[r] \in {"absent", "throttle", "lookup"} => lookedUpAt[r] = Never
        /\ stage[r] = "lookup" => kind[r].route = "profile" /\ ~kind[r].refresh

\* An entry that is the response of a request that fetched what its key says,
\* and expires Ttl after it was stored.
RightEntry(k, entry) ==
    LET q == entry.value.by IN
    /\ entry.value.of = k
    /\ entry.expiresAt = storedAt[q] + Ttl
    /\ stage[q] = "answered" /\ outcome[q].kind = "fetched"

StoreInv ==
    /\ WellFormed(cache, CacheKeys, Responses)
    /\ \A k \in Listed(cache.order) : RightEntry(k, cache.items[k])

\* Every profile that was answered is of a request that is over.
ServedInv ==
    \A r \in Callers :
        (answer[r] # Unanswered /\ answer[r].status = 200)
        => answer[r].by \in Callers /\ stage[answer[r].by] = "answered"

\* The cache has room for every key there is.
RoomForAll == Cardinality(CacheKeys) =< Capacity

\* Then what was stored is there until it expires.
KeptInv ==
    RoomForAll =>
        \A q \in Callers :
            (storedAt[q] # Never /\ Ttl > 0 /\ now =< storedAt[q] + Ttl) =>
               /\ Asked(q) \in Listed(cache.order)
               /\ cache.items[Asked(q)].expiresAt >= storedAt[q] + Ttl

AnswerInv ==
    /\ HandlerInv
    /\ AllowanceInv
    /\ FullInv
    /\ RetryAfterHeaderSuffices
    /\ AskingInv
    /\ StoreInv
    /\ ServedInv
    /\ CachedAnswerIsRight
    /\ KeptInv
    /\ RoomForAll => RepeatsAreServedFromCache

-----------------------------------------------------------------------------
(* What a limiter can count.                                               *)

\* One step of a limiter: nobody is counted, or one request that was not
\* counted before, now, and only if its client has room.
CountStep(at, after, w, limit) ==
    \/ after = at
    \/ \E r \in Callers :
          /\ at[r] = Never
          /\ after = [at EXCEPT ![r] = now]
          /\ Cardinality(CountedFor(at, w, Client(r), now)) < limit

\* A window that is full at some time stays as it is: no request of that
\* client is counted up to that time any more.
LEMMA FullWindowIsFrozen ==
    ASSUME now \in Nat,
           NEW at \in [Callers -> Times], NEW after,
           NEW w \in Nat, NEW limit \in Nat, CountStep(at, after, w, limit),
           NEW c, NEW s \in 0 .. now,
           Cardinality(CountedFor(at, w, c, s)) >= limit
    PROVE  \A q \in Callers :
              Client(q) = c => \/ after[q] = at[q]
                               \/ after[q] \notin 0 .. s /\ at[q] \notin 0 .. s
PROOF
  <1>1. CASE after = at
    BY <1>1
  <1>2. ASSUME NEW r \in Callers, at[r] = Never, after = [at EXCEPT ![r] = now],
               Cardinality(CountedFor(at, w, Client(r), now)) < limit
        PROVE  \A q \in Callers :
                  Client(q) = c => \/ after[q] = at[q]
                                   \/ after[q] \notin 0 .. s /\ at[q] \notin 0 .. s
    <2>1. IsFiniteSet(CountedFor(at, w, c, s))
      <3>1. CountedFor(at, w, c, s) \subseteq Callers
        BY DEF CountedFor, Recorded
      <3> QED BY <3>1, FS_Subset
    <2>2. Cardinality(CountedFor(at, w, c, s)) \in Nat
      BY <2>1, FS_CardinalityType
    <2>3. Client(r) = c => s # now
      <3>1. ASSUME Client(r) = c, s = now PROVE FALSE
        <4>1. Cardinality(CountedFor(at, w, c, s)) < limit
          BY <1>2, <3>1
        <4> QED BY <2>2, <4>1
      <3> QED BY <3>1
    <2>4. \A q \in Callers : q # r => after[q] = at[q]
      BY <1>2
    <2>5. after[r] = now /\ at[r] \notin 0 .. s
      BY <1>2
    <2> QED BY <2>3, <2>4, <2>5
  <1> QED BY <1>1, <1>2 DEF CountStep

\* The requests of client c counted up to s that still count at until.
StillThere(at, w, c, s, until) ==
    {q \in Callers : /\ Client(q) = c
                     /\ at[q] \in 0 .. s
                     /\ at[q] > until - w}

\* The wait of the header is longer than the one the limiter computed, so the
\* oldest request of a window that is not empty has left it.
LEMMA HeaderWaitSuffices ==
    ASSUME now \in Nat,
           NEW at \in [Callers -> Times], NEW w \in Nat, NEW c,
           CountedFor(at, w, c, now) # {}
    PROVE  LET counted == CountedFor(at, w, c, now)
               wait == ResetIn(counted, at, now, w)
           IN  /\ wait > 0
               /\ Cardinality(StillThere(at, w, c, now,
                                 now + RetryAfterHeader(wait, Second) * Second))
                     < Cardinality(counted)
PROOF
  <1> DEFINE counted == CountedFor(at, w, c, now)
             wait == ResetIn(counted, at, now, w)
             oldest == Oldest(counted, at)
             until == now + RetryAfterHeader(wait, Second) * Second
             there == StillThere(at, w, c, now, until)
  <1>1. /\ counted # {}
        /\ \A h \in counted : at[h] \in Nat /\ at[h] > now - w
    BY DEF CountedFor, Recorded, Times
  <1>2. wait \in Int /\ wait > 0 /\ ~(at[oldest] > (now + wait) - w)
    <2> HIDE DEF counted
    <2> QED BY <1>1, ResetInIsExact
  <1>3. oldest \in counted /\ at[oldest] \in Nat
    <2> HIDE DEF counted
    <2> QED BY <1>1, OldestIsFirst
  <1> HIDE DEF wait, oldest
  <1>4. until \in Int /\ until > now + wait
    <2>1. (wait \div Second) * Second + Second > wait
      BY <1>2
    <2>2. wait \div Second \in Int
      BY <1>2
    <2>3. RetryAfterHeader(wait, Second) * Second = (wait \div Second) * Second + Second
      BY <2>2 DEF RetryAfterHeader
    <2> QED BY <1>2, <2>1, <2>2, <2>3
  <1> HIDE DEF until
  <1>5. there \subseteq counted \ {oldest}
    <2>1. \A q \in there : /\ q \in Callers /\ Client(q) = c
                           /\ at[q] \in 0 .. now /\ at[q] > until - w
      BY DEF StillThere
    <2>2. \A q \in there : q \in counted
      BY <1>2, <1>4, <2>1 DEF CountedFor, Recorded
    <2>3. oldest \notin there
      BY <1>2, <1>3, <1>4, <2>1
    <2> QED BY <2>2, <2>3
  <1>6. IsFiniteSet(counted)
    <2>1. counted \subseteq Callers
      BY DEF CountedFor, Recorded
    <2> QED BY <2>1, FS_Subset
  <1> HIDE DEF there, counted
  <1>7. /\ IsFiniteSet(counted \ {oldest})
        /\ Cardinality(counted \ {oldest}) = Cardinality(counted) - 1
    BY <1>3, <1>6, FS_RemoveElement
  <1>8. Cardinality(there) =< Cardinality(counted \ {oldest})
        /\ Cardinality(there) \in Nat
    BY <1>5, <1>7, FS_Subset, FS_CardinalityType
  <1>9. Cardinality(counted) \in Nat
    BY <1>6, FS_CardinalityType
  <1>10. Cardinality(there) < Cardinality(counted)
    BY <1>7, <1>8, <1>9
  <1> QED BY <1>2, <1>10 DEF there, counted, until, wait
-----------------------------------------------------------------------------
(* What has been answered stays as it is.                                  *)

\* The types of what the proofs below talk about.
LEMMA AnswerTypes ==
    ASSUME HandlerInv
    PROVE  /\ now \in Nat
           /\ stage \in [Callers -> Stages]
           /\ kind \in [Callers -> Kinds]
           /\ phase \in [Callers -> Phases]
           /\ rateAt \in [Callers -> Times] /\ anonAt \in [Callers -> Times]
           /\ anonHits \in [Clients -> SUBSET Callers]
           /\ lookedUpAt \in [Callers -> Times] /\ storedAt \in [Callers -> Times]
           /\ answer = [r \in Callers |-> answer[r]]
           /\ outcome \in [Callers -> Outcomes]
           /\ \A r \in Callers : stage[r] = "answered" <=> answer[r] # Unanswered
PROOF
  BY DEF HandlerInv, HandlerTypeInv, GateInv, GateTypeOK

\* Nobody changes a request that is over.
LEMMA AnsweredStays ==
    ASSUME HandlerInv, [ServerNext]_serverVars,
           NEW q \in Callers, stage[q] = "answered"
    PROVE  /\ stage'[q] = "answered" /\ answer'[q] = answer[q]
           /\ outcome'[q] = outcome[q]
           /\ storedAt'[q] = storedAt[q] /\ lookedUpAt'[q] = lookedUpAt[q]
PROOF
  <1>0. /\ stage \in [Callers -> Stages]
        /\ answer = [r \in Callers |-> answer[r]]
        /\ outcome \in [Callers -> Outcomes]
        /\ lookedUpAt \in [Callers -> Times] /\ storedAt \in [Callers -> Times]
        /\ phase[q] \in {"out", "returned"}
    BY AnswerTypes DEF HandlerInv, PassedInv
  <1>1. CASE GateStep
    <2>1. outcome'[q] = outcome[q]
      BY <1>0, <1>1 DEF GateStep, Lock, HolderStep, Available, Refuse, Spend, Sleep,
         Begin, EndFetch, Cancel, Remaining, Tick, CheckPhase
    <2> QED BY <1>1, <2>1 DEF GateStep, handlerVars
  <1>2. CASE UNCHANGED serverVars
    BY <1>2 DEF serverVars, handlerVars, gateVars
  <1>3. ASSUME NEW r \in Callers, Arrive(r) \/ HandlerStep(r)
        PROVE  /\ stage'[q] = "answered" /\ answer'[q] = answer[q]
               /\ outcome'[q] = outcome[q]
               /\ storedAt'[q] = storedAt[q] /\ lookedUpAt'[q] = lookedUpAt[q]
    <2>1. r # q
      BY <1>3, StageStep DEF HandlerInv
    <2>2. outcome' = outcome
      BY <1>3 DEF Arrive, HandlerStep, Throttle, Lookup, Admit, CallFetch, Call,
         Charge, Finish, gateVars
    <2>3. stage'[q] = "answered" /\ answer'[q] = answer[q]
      BY <1>0, <1>3, <2>1, StageStep DEF HandlerInv, Answer, MoveTo
    <2>4. lookedUpAt'[q] = lookedUpAt[q]
      <3>1. CASE Lookup(r)
        BY <1>0, <2>1, <3>1 DEF Lookup
      <3>2. ~Lookup(r) => lookedUpAt' = lookedUpAt
        BY <1>3 DEF Arrive, HandlerStep, Throttle, Admit, CallFetch, Charge, Finish
      <3> QED BY <3>1, <3>2
    <2>5. storedAt'[q] = storedAt[q]
      <3>1. CASE Finish(r)
        BY <1>0, <2>1, <3>1 DEF Finish
      <3>2. ~Finish(r) => storedAt' = storedAt
        BY <1>3 DEF Arrive, HandlerStep, Throttle, Admit, CallFetch, Charge, Lookup
      <3> QED BY <3>1, <3>2
    <2> QED BY <2>2, <2>3, <2>4, <2>5
  <1> QED BY <1>1, <1>2, <1>3 DEF ServerNext

\* A request that is newly answered took a step of its handler.
LEMMA WhoAnswers ==
    ASSUME HandlerInv, [ServerNext]_serverVars,
           NEW r \in Callers, answer'[r] # answer[r]
    PROVE  Arrive(r) \/ Throttle(r) \/ Lookup(r) \/ Admit(r) \/ Finish(r)
PROOF
  <1>0. answer = [q \in Callers |-> answer[q]]
    BY AnswerTypes
  <1>1. PICK q \in Callers : Arrive(q) \/ HandlerStep(q)
    BY DEF ServerNext, GateStep, serverVars, handlerVars
  <1>2. q = r
    BY <1>0, <1>1, StageStep DEF Answer, HandlerInv
  <1>3. ~CallFetch(r) /\ ~Charge(r)
    BY DEF CallFetch, Charge
  <1> QED BY <1>1, <1>2, <1>3 DEF HandlerStep

-----------------------------------------------------------------------------
(* The anonymous allowance.                                                *)

\* Admit looks at it, Charge spends it, and nothing else touches it.
LEMMA AnonStep ==
    ASSUME HandlerInv, [ServerNext]_serverVars
    PROVE  \/ /\ UNCHANGED <<anonHits, anonAt>>
              /\ now' = now \/ now' = now + 1
              /\ \A r \in Callers : stage[r] \in {"finish", "answered"}
                                    => stage'[r] \in {"finish", "answered"}
           \/ /\ \E r \in Callers : Admit(r) \/ Charge(r)
              /\ now' = now
PROOF
  <1>0. stage \in [Callers -> Stages]
    BY AnswerTypes
  <1>1. CASE UNCHANGED handlerVars
    BY <1>1, RateStep DEF handlerVars, Throttle, gateVars
  <1>2. ASSUME NEW r \in Callers, Arrive(r) \/ HandlerStep(r),
               ~Admit(r), ~Charge(r)
        PROVE  /\ UNCHANGED <<anonHits, anonAt, now>>
               /\ \A q \in Callers : stage[q] \in {"finish", "answered"}
                                     => stage'[q] \in {"finish", "answered"}
    <2>1. UNCHANGED <<anonHits, anonAt, now>>
      BY <1>2 DEF Arrive, HandlerStep, Throttle, Lookup, CallFetch, Call, Finish,
         gateVars
    <2>2. \A q \in Callers : q # r => stage'[q] = stage[q]
      BY <1>0, <1>2, StageStep DEF HandlerInv, Answer, MoveTo
    <2>3. stage[r] \in {"finish", "answered"} => stage'[r] \in {"finish", "answered"}
      <3>1. stage[r] # "answered"
        BY <1>2, StageStep DEF HandlerInv
      <3>2. stage[r] = "finish" => Finish(r)
        BY <1>2 DEF Arrive, HandlerStep, Throttle, Lookup, CallFetch
      <3>3. Finish(r) => stage'[r] = "answered"
        BY <1>0 DEF Finish, Answer, MoveTo
      <3> QED BY <3>1, <3>2, <3>3
    <2> QED BY <2>1, <2>2, <2>3
  <1>3. ASSUME NEW r \in Callers, Admit(r) \/ Charge(r) PROVE now' = now
    BY <1>3 DEF Admit, Charge, gateVars
  <1> QED BY <1>1, <1>2, <1>3 DEF ServerNext, HandlerStep, GateStep, serverVars

\* What the allowance counts for a client is the window of its history.
LEMMA LiveAnonIsWindow ==
    ASSUME HandlerInv, AllowanceInv, NEW c \in Clients
    PROVE  /\ LiveAnon(c) = ChargedIn(c, now)
           /\ LiveAnon(c) \subseteq Callers
           /\ IsFiniteSet(LiveAnon(c))
           /\ Cardinality(LiveAnon(c)) \in Nat
PROOF
  <1>1. /\ anonAt \in [Callers -> Nat \cup {-1}]
        /\ anonHits[c] \subseteq Callers
        /\ now \in Nat
    BY AnswerTypes DEF Times
  <1>2. /\ ChargedIn(c, now) \subseteq anonHits[c]
        /\ \A h \in anonHits[c] : Client(h) = c /\ anonAt[h] # -1
        /\ \A r \in Callers : anonAt[r] =< now
    BY DEF AllowanceInv
  <1>3. LiveAnon(c) = ChargedIn(c, now)
    BY <1>1, <1>2 DEF LiveAnon, Live, ChargedIn, CountedFor, Recorded
  <1>4. LiveAnon(c) \subseteq Callers
    BY <1>1 DEF LiveAnon, Live
  <1>5. IsFiniteSet(LiveAnon(c))
    BY <1>4, FS_Subset
  <1> QED BY <1>3, <1>4, <1>5, FS_CardinalityType

\* A request that is charged was not charged before, found room, and joins the
\* window of its client that ends now; a look at the allowance only prunes.
LEMMA AnonEffect ==
    ASSUME HandlerInv, AllowanceInv, NEW r \in Callers, Admit(r) \/ Charge(r)
    PROVE  /\ \A q \in Callers : stage[q] \in {"finish", "answered"}
                                 => stage'[q] \in {"finish", "answered"}
           /\ \/ /\ anonAt' = anonAt
                 /\ \A c \in Clients : anonHits'[c] \in {anonHits[c], LiveAnon(c)}
              \/ /\ anonAt[r] = Never /\ AnonLimit > 0
                 /\ stage'[r] = "finish"
                 /\ Cardinality(LiveAnon(Client(r))) < AnonLimit
                 /\ anonAt' = [anonAt EXCEPT ![r] = now]
                 /\ anonHits' = [anonHits EXCEPT
                                    ![Client(r)] = LiveAnon(Client(r)) \cup {r}]
PROOF
  <1>0. /\ anonHits \in [Clients -> SUBSET Callers]
        /\ stage \in [Callers -> Stages]
        /\ Client(r) \in Clients
    BY AnswerTypes DEF Client, Clients
  <1>1. \A q \in Callers : stage[q] \in {"finish", "answered"}
                           => stage'[q] \in {"finish", "answered"}
    <2>1. stage[r] \notin {"finish", "answered"}
      BY DEF Admit, Charge
    <2>2. \A q \in Callers : q # r => stage'[q] = stage[q]
      <3>1. HandlerStep(r)
        BY DEF HandlerStep
      <3> QED BY <1>0, <3>1, StageStep DEF HandlerInv, Answer, MoveTo
    <2> QED BY <2>1, <2>2
  <1>2. CASE Admit(r)
    BY <1>0, <1>1, <1>2 DEF Admit
  <1>3. CASE Charge(r)
    <2>1. anonAt[r] = Never
      BY <1>3 DEF Charge, AllowanceInv
    <2>2. stage'[r] = "finish"
      BY <1>0, <1>3 DEF Charge, MoveTo
    <2>3. CASE ~Authenticated(kind[r]) /\ AnonLimit > 0 /\ AnonAllows(Client(r))
      BY <1>1, <1>3, <2>1, <2>2, <2>3 DEF Charge, AnonAllows
    <2>4. CASE ~(~Authenticated(kind[r]) /\ AnonLimit > 0 /\ AnonAllows(Client(r)))
      BY <1>0, <1>1, <1>3, <2>4 DEF Charge
    <2> QED BY <2>3, <2>4
  <1> QED BY <1>2, <1>3
\* The two limiters count as CountStep says.
LEMMA LimitersCount ==
    ASSUME HandlerInv, AllowanceInv, [ServerNext]_serverVars
    PROVE  /\ UNCHANGED <<session, kind>>
           /\ now' = now \/ now' = now + 1
           /\ CountStep(rateAt, rateAt', RateWindow, RateLimit)
           /\ CountStep(anonAt, anonAt', AnonWindow, AnonLimit)
PROOF
  <1>1. UNCHANGED <<session, kind>> /\ (now' = now \/ now' = now + 1)
    BY RateStep
  <1>2. \A r \in Callers : Client(r) \in Clients
    BY AnswerTypes DEF Client, Clients
  <1>3. CountStep(rateAt, rateAt', RateWindow, RateLimit)
    <2>1. ASSUME NEW r \in Callers, Throttle(r)
          PROVE  CountStep(rateAt, rateAt', RateWindow, RateLimit)
      <3>1. LiveRate(Client(r)) = CountedFor(rateAt, RateWindow, Client(r), now)
        BY <1>2, LiveRateIsWindow DEF Through, CountedFor
      <3> QED BY <2>1, <3>1, ThrottleEffect DEF CountStep
    <2> QED BY <2>1, RateStep DEF CountStep
  <1>4. CountStep(anonAt, anonAt', AnonWindow, AnonLimit)
    <2>1. ASSUME NEW r \in Callers, Admit(r) \/ Charge(r)
          PROVE  CountStep(anonAt, anonAt', AnonWindow, AnonLimit)
      <3>1. LiveAnon(Client(r)) = CountedFor(anonAt, AnonWindow, Client(r), now)
        BY <1>2, LiveAnonIsWindow DEF ChargedIn
      <3> QED BY <2>1, <3>1, AnonEffect DEF CountStep
    <2> QED BY <2>1, AnonStep DEF CountStep
  <1> QED BY <1>1, <1>3, <1>4

\* Every charge is remembered as long as it counts.
LEMMA AllowanceListStep ==
    ASSUME HandlerInv, AllowanceInv, [ServerNext]_serverVars
    PROVE  /\ \A r \in Callers : anonAt'[r] =< now'
           /\ \A r \in Callers : stage'[r] \notin {"finish", "answered"}
                                 => anonAt'[r] = Never
           /\ \A c \in Clients :
                 /\ ChargedIn(c, now)' \subseteq anonHits'[c]
                 /\ \A h \in anonHits'[c] : Client(h)' = c /\ anonAt'[h] # Never
PROOF
  <1> DEFINE Remembered ==
                /\ \A r \in Callers : anonAt[r] =< now
                /\ \A r \in Callers : stage[r] \notin {"finish", "answered"}
                                      => anonAt[r] = Never
                /\ \A c \in Clients :
                      /\ ChargedIn(c, now) \subseteq anonHits[c]
                      /\ \A h \in anonHits[c] : Client(h) = c /\ anonAt[h] # Never
  <1> USE DEF ChargedIn, CountedFor, Recorded, Client
  <1>0. /\ anonAt \in [Callers -> Nat \cup {-1}]
        /\ anonHits \in [Clients -> SUBSET Callers]
        /\ stage \in [Callers -> Stages]
        /\ now \in Nat /\ kind' = kind /\ Clients' = Clients
        /\ Remembered
    BY AnswerTypes, LimitersCount DEF AllowanceInv, Times, Clients
  <1>1. CASE /\ UNCHANGED <<anonHits, anonAt>>
             /\ now' = now \/ now' = now + 1
             /\ \A r \in Callers : stage[r] \in {"finish", "answered"}
                                   => stage'[r] \in {"finish", "answered"}
    BY <1>0, <1>1
  <1>2. ASSUME NEW r \in Callers, Admit(r) \/ Charge(r), now' = now
        PROVE  Remembered'
    <2>1. \A q \in Callers : stage[q] \in {"finish", "answered"}
                             => stage'[q] \in {"finish", "answered"}
      BY <1>2, AnonEffect
    <2>2. \A c \in Clients : LiveAnon(c) = ChargedIn(c, now)
      BY LiveAnonIsWindow
    <2> HIDE DEF ChargedIn, CountedFor, Recorded, Client
    <2>3. CASE /\ anonAt' = anonAt
               /\ \A c \in Clients : anonHits'[c] \in {anonHits[c], LiveAnon(c)}
      <3>1. \A c \in Clients : ChargedIn(c, now)' = ChargedIn(c, now)
        BY <1>0, <1>2, <2>3 DEF ChargedIn, CountedFor, Recorded, Client
      <3>2. \A c \in Clients : /\ ChargedIn(c, now) \subseteq anonHits'[c]
                               /\ anonHits'[c] \subseteq anonHits[c]
        BY <1>0, <2>2, <2>3
      <3>3. \A q \in Callers : Client(q)' = Client(q)
        BY <1>0 DEF Client
      <3>4. ASSUME NEW c \in Clients, NEW h \in anonHits'[c]
            PROVE  Client(h)' = c /\ anonAt'[h] # Never
        <4>1. h \in anonHits[c] /\ h \in Callers
          BY <1>0, <3>2, <3>4
        <4> QED BY <1>0, <2>3, <3>3, <4>1
      <3> QED BY <1>0, <1>2, <2>1, <2>3, <3>1, <3>2, <3>4
    <2>4. CASE /\ anonAt[r] = Never /\ stage'[r] = "finish"
               /\ anonAt' = [anonAt EXCEPT ![r] = now]
               /\ anonHits' = [anonHits EXCEPT
                                  ![Client(r)] = LiveAnon(Client(r)) \cup {r}]
      <3>1. \A c \in Clients :
               ChargedIn(c, now)' \subseteq
                  ChargedIn(c, now) \cup (IF c = Client(r) THEN {r} ELSE {})
        BY <1>0, <1>2, <2>4 DEF ChargedIn, CountedFor, Recorded, Client
      <3>2. \A c \in Clients :
               anonHits'[c] = IF c = Client(r) THEN ChargedIn(c, now) \cup {r}
                                               ELSE anonHits[c]
        BY <1>0, <2>2, <2>4
      <3>3. ASSUME NEW c \in Clients
            PROVE  /\ ChargedIn(c, now)' \subseteq anonHits'[c]
                   /\ \A h \in anonHits'[c] :
                         (h = r /\ Client(r) = c) \/ h \in anonHits[c]
        <4>1. ChargedIn(c, now) \subseteq anonHits[c]
          BY <1>0
        <4>2. CASE c = Client(r)
          BY <3>1, <3>2, <4>1, <4>2
        <4>3. CASE c # Client(r)
          BY <3>1, <3>2, <4>1, <4>3
        <4> QED BY <4>2, <4>3
      <3>4. ASSUME NEW c \in Clients, NEW h \in anonHits'[c]
            PROVE  Client(h)' = c /\ anonAt'[h] # Never
        <4>1. (h = r /\ Client(r) = c) \/ h \in anonHits[c]
          BY <3>3, <3>4
        <4>2. h \in Callers
          BY <1>0, <4>1
        <4>3. Client(h)' = Client(h)
          BY <1>0 DEF Client
        <4>4. anonAt'[h] = IF h = r THEN now ELSE anonAt[h]
          BY <1>0, <2>4, <4>2
        <4> QED BY <1>0, <4>1, <4>3, <4>4
      <3>5. \A q \in Callers : anonAt'[q] = IF q = r THEN now ELSE anonAt[q]
        BY <1>0, <2>4
      <3> QED BY <1>0, <1>2, <2>1, <2>4, <3>3, <3>4, <3>5
    <2> QED BY <1>2, <2>3, <2>4, AnonEffect
  <1> QED BY <1>1, <1>2, AnonStep

\* No window of client c up to now holds more than limit.
WithinLimit(at, w, limit, c) ==
    \A s \in 0 .. now : Cardinality(CountedFor(at, w, c, s)) =< limit

\* Nobody is counted in the future.
CountedByNow(at) == \A r \in Callers : at[r] =< now

\* A limiter that counts only where there is room keeps every window of every
\* client within its limit, also when the clock moves on instead.
LEMMA WindowsStay ==
    ASSUME now \in Nat,
           NEW at \in [Callers -> Times], NEW after,
           NEW w \in Nat, NEW limit \in Nat, CountStep(at, after, w, limit),
           NEW later \in {now, now + 1}, later = now \/ after = at,
           CountedByNow(at), NEW c, WithinLimit(at, w, limit, c),
           NEW t \in 0 .. later
    PROVE  Cardinality(CountedFor(after, w, c, t)) =< limit
PROOF
  <1> DEFINE counted(s) == CountedFor(at, w, c, s)
             countedAfter == CountedFor(after, w, c, t)
  <1>0. /\ now \in Nat /\ at \in [Callers -> Nat \cup {-1}]
        /\ \A r \in Callers : at[r] =< now
        /\ \A s \in 0 .. now : Cardinality(counted(s)) =< limit
    BY DEF Times, CountedByNow, WithinLimit
  <1>1. \A s : IsFiniteSet(counted(s)) /\ Cardinality(counted(s)) \in Nat
    <2>1. \A s : counted(s) \subseteq Callers
      BY <1>0 DEF CountedFor, Recorded
    <2> QED BY <2>1, FS_Subset, FS_CardinalityType
  <1>2. ASSUME after = at PROVE Cardinality(countedAfter) =< limit
    <2>1. CASE t \in 0 .. now
      BY <1>0, <1>2, <2>1
    <2>2. CASE t = now + 1
      <3>1. countedAfter \subseteq counted(now)
        BY <1>0, <1>2, <2>2 DEF CountedFor, Recorded
      <3>2. Cardinality(counted(now)) =< limit
        BY <1>0
      <3> HIDE DEF counted, countedAfter
      <3>3. /\ Cardinality(countedAfter) =< Cardinality(counted(now))
            /\ Cardinality(countedAfter) \in Nat
        BY <1>1, <3>1, FS_Subset, FS_CardinalityType
      <3> QED BY <1>1, <3>2, <3>3
    <2> QED BY <1>0, <2>1, <2>2
  <1>3. ASSUME NEW r \in Callers, at[r] = Never, after = [at EXCEPT ![r] = now],
               Cardinality(CountedFor(at, w, Client(r), now)) < limit, later = now
        PROVE  Cardinality(countedAfter) =< limit
    <2>1. CASE t # now \/ c # Client(r)
      <3>1. countedAfter = counted(t)
        BY <1>0, <1>3, <2>1 DEF CountedFor, Recorded
      <3> QED BY <1>0, <1>3, <3>1
    <2>2. CASE t = now /\ c = Client(r)
      <3>1. countedAfter \subseteq counted(now) \cup {r}
        BY <1>0, <1>3, <2>2 DEF CountedFor, Recorded
      <3>2. Cardinality(counted(now)) < limit
        BY <1>3, <2>2
      <3> HIDE DEF counted, countedAfter
      <3>3. /\ IsFiniteSet(counted(now) \cup {r})
            /\ Cardinality(counted(now) \cup {r})
                  = IF r \in counted(now) THEN Cardinality(counted(now))
                                          ELSE Cardinality(counted(now)) + 1
        BY <1>1, FS_AddElement
      <3>4. /\ Cardinality(countedAfter) =< Cardinality(counted(now) \cup {r})
            /\ Cardinality(countedAfter) \in Nat
            /\ Cardinality(counted(now) \cup {r}) \in Nat
        BY <3>1, <3>3, FS_Subset, FS_CardinalityType
      <3> QED BY <1>1, <3>2, <3>3, <3>4
    <2> QED BY <2>1, <2>2
  <1> QED BY <1>2, <1>3 DEF CountStep

LEMMA AllowanceStep ==
    ASSUME HandlerInv, AllowanceInv, [ServerNext]_serverVars
    PROVE  AllowanceInv'
PROOF
  <1>1. kind' = kind /\ (now' = now \/ now' = now + 1) /\ Clients' = Clients
    BY LimitersCount DEF Clients
  <1>2. now' # now => anonAt' = anonAt
    BY AnonStep
  <1>3. ASSUME AnonLimit > 0, NEW c \in Clients, NEW t \in 0 .. now'
        PROVE  Cardinality(ChargedIn(c, t)') =< AnonLimit
    <2>1. WithinLimit(anonAt, AnonWindow, AnonLimit, c)
      BY <1>3 DEF AllowanceInv, ChargedIn, WithinLimit
    <2>2. anonAt \in [Callers -> Times] /\ CountedByNow(anonAt) /\ now \in Nat
      BY AnswerTypes DEF AllowanceInv, CountedByNow
    <2>3. CountStep(anonAt, anonAt', AnonWindow, AnonLimit)
      BY LimitersCount
    <2>4. now' \in {now, now + 1} /\ (now' = now \/ anonAt' = anonAt)
      BY <1>1, <1>2
    <2>5. Cardinality(CountedFor(anonAt', AnonWindow, c, t)) =< AnonLimit
      <3> HIDE DEF CountStep
      <3> QED BY <2>1, <2>2, <2>3, <2>4, WindowsStay
    <2>6. ChargedIn(c, t)' = CountedFor(anonAt', AnonWindow, c, t)
      BY <1>1 DEF ChargedIn, CountedFor, Recorded, Client
    <2> QED BY <2>5, <2>6
  <1> QED BY <1>1, <1>3, AllowanceListStep DEF AllowanceInv
-----------------------------------------------------------------------------
(* The refusals of the limiters and the waits they announce.               *)

\* The limiter refuses when it has counted as many as it may, and so does the
\* allowance; the header is then worked out from the oldest of them.
LEMMA NewRefusals ==
    ASSUME HandlerInv, AllowanceInv, [ServerNext]_serverVars,
           NEW r \in Callers, answer'[r] # answer[r]
    PROVE  LET c == Client(r) IN
           /\ Limited(answer'[r]) =>
                 /\ RateLimit > 0 /\ Cardinality(LiveRate(c)) >= RateLimit
                 /\ answer'[r] = Refusal(429, "rate_limited",
                                    ResetIn(LiveRate(c), rateAt, now, RateWindow))
                 /\ now' = now /\ rateAt' = rateAt
           /\ Exhausted(answer'[r]) =>
                 /\ AnonLimit > 0 /\ Cardinality(LiveAnon(c)) >= AnonLimit
                 /\ answer'[r] = Refusal(429, "anonymous_quota_exhausted",
                                    ResetIn(LiveAnon(c), anonAt, now, AnonWindow))
                 /\ now' = now /\ anonAt' = anonAt
PROOF
  <1> DEFINE c == Client(r)
             a == answer'[r]
  <1>0. /\ answer = [q \in Callers |-> answer[q]]
        /\ RateLimit \in Nat /\ AnonLimit \in Nat
        /\ Cardinality(LiveRate(c)) \in Nat /\ Cardinality(LiveAnon(c)) \in Nat
    <2>1. c \in Clients
      BY AnswerTypes DEF Client, Clients
    <2> QED BY <2>1, AnswerTypes, LiveRateIsWindow, LiveAnonIsWindow
  <1>1. CASE Arrive(r)
    <2>1. a = Refusal(401, "unauthorized", 0)
      BY <1>0, <1>1 DEF Arrive, Answer
    <2> QED BY <2>1 DEF Refusal, Limited, Exhausted
  <1>2. CASE Throttle(r)
    <2>1. CASE RateAllows(c)
      <3>1. a = Refusal(400, "invalid_profile_url", 0)
        BY <1>0, <1>2, <2>1 DEF Throttle, Answer
      <3> QED BY <3>1 DEF Refusal, Limited, Exhausted
    <2>2. CASE ~RateAllows(c)
      <3>1. /\ a = Refusal(429, "rate_limited",
                      ResetIn(LiveRate(c), rateAt, now, RateWindow))
            /\ now' = now /\ rateAt' = rateAt
        BY <1>0, <1>2, <2>2 DEF Throttle, Answer, gateVars
      <3>2. ~Exhausted(a)
        BY <3>1 DEF Refusal, Exhausted
      <3>3. RateLimit > 0 /\ Cardinality(LiveRate(c)) >= RateLimit
        BY <1>0, <2>2 DEF RateAllows
      <3> QED BY <3>1, <3>2, <3>3
    <2> QED BY <2>1, <2>2
  <1>3. CASE Lookup(r)
    <2>1. \E of, by : a = Success(of, by, TRUE)
      BY <1>0, <1>3 DEF Lookup, Answer
    <2> QED BY <2>1 DEF Success, Limited, Exhausted
  <1>4. CASE Admit(r)
    <2>1. CASE ~session
      <3>1. a = Refusal(503, "session_expired", 0)
        BY <1>0, <1>4, <2>1 DEF Admit, Answer
      <3> QED BY <3>1 DEF Refusal, Limited, Exhausted
    <2>2. CASE session
      <3>1. /\ ~AnonAllows(c)
            /\ a = Refusal(429, "anonymous_quota_exhausted",
                      ResetIn(LiveAnon(c), anonAt, now, AnonWindow))
            /\ now' = now /\ anonAt' = anonAt
        BY <1>0, <1>4, <2>2 DEF Admit, Answer, gateVars
      <3>2. ~Limited(a)
        BY <3>1 DEF Refusal, Limited
      <3>3. AnonLimit > 0 /\ Cardinality(LiveAnon(c)) >= AnonLimit
        BY <1>0, <3>1 DEF AnonAllows
      <3> QED BY <3>1, <3>2, <3>3
    <2> QED BY <2>1, <2>2
  <1>5. CASE Finish(r)
    <2>1. \/ a = Success(Asked(r), r, FALSE)
          \/ a = Refusal(429, "budget_exhausted", outcome[r].resetIn)
          \/ a = Refusal(502, "upstream_error", 0)
      <3>1. \/ answer' = [answer EXCEPT ![r] = Success(Asked(r), r, FALSE)]
            \/ answer' = [answer EXCEPT ![r] = Refusal(429, "budget_exhausted",
                                                       outcome[r].resetIn)]
            \/ answer' = [answer EXCEPT ![r] = Refusal(502, "upstream_error", 0)]
        BY <1>5 DEF Finish, Answer
      <3> QED BY <1>0, <3>1
    <2> QED BY <2>1 DEF Success, Refusal, Limited, Exhausted
  <1> QED BY <1>1, <1>2, <1>3, <1>4, <1>5, WhoAnswers

\* The refusal of a limiter, whichever it is: the window was full, and the
\* header says how long to wait until it has room.
FullAt(a, at, w, limit, c) ==
    /\ a.at \in 0 .. now
    /\ Cardinality(CountedFor(at, w, c, a.at)) >= limit
    /\ Cardinality(StillThere(at, w, c, a.at, a.at + a.retryAfter * Second)) < limit

FullForm ==
    \A r \in Callers :
       /\ Limited(answer[r]) =>
             FullAt(answer[r], rateAt, RateWindow, RateLimit, Client(r))
       /\ Exhausted(answer[r]) =>
             FullAt(answer[r], anonAt, AnonWindow, AnonLimit, Client(r))

\* Which is what FullInv and RetryAfterHeaderSuffices say together.
LEMMA RefusalForms == FullInv /\ RetryAfterHeaderSuffices <=> FullForm
PROOF
  <1> DEFINE until(r) == answer[r].at + answer[r].retryAfter * Second
  <1>1. FullInv <=>
           \A r \in Callers :
              /\ Limited(answer[r]) =>
                    /\ answer[r].at \in 0 .. now
                    /\ Cardinality(CountedFor(rateAt, RateWindow, Client(r),
                                              answer[r].at)) >= RateLimit
              /\ Exhausted(answer[r]) =>
                    /\ answer[r].at \in 0 .. now
                    /\ Cardinality(CountedFor(anonAt, AnonWindow, Client(r),
                                              answer[r].at)) >= AnonLimit
    BY Zenon DEF FullInv, Through, ChargedIn, CountedFor
  <1>2. RetryAfterHeaderSuffices <=>
           \A r \in Callers :
              /\ Limited(answer[r]) =>
                    Cardinality(StillThere(rateAt, RateWindow, Client(r),
                                   answer[r].at, until(r))) < RateLimit
              /\ Exhausted(answer[r]) =>
                    Cardinality(StillThere(anonAt, AnonWindow, Client(r),
                                   answer[r].at, until(r))) < AnonLimit
    BY Zenon DEF RetryAfterHeaderSuffices, Limited, Exhausted, StillThere
  <1> HIDE DEF until
  <1>3. \A r \in Callers : \A at, w, limit, c :
           FullAt(answer[r], at, w, limit, c) <=>
              /\ answer[r].at \in 0 .. now
              /\ Cardinality(CountedFor(at, w, c, answer[r].at)) >= limit
              /\ Cardinality(StillThere(at, w, c, answer[r].at, until(r))) < limit
    BY Zenon DEF FullAt, until
  <1> QED BY <1>1, <1>2, <1>3, Zenon DEF FullForm

\* A new refusal is one of a full window.
LEMMA RefusedWhenFull ==
    ASSUME now \in Nat,
           NEW at \in [Callers -> Times], NEW w \in Nat, NEW limit \in Nat, NEW c,
           limit > 0,
           Cardinality(CountedFor(at, w, c, now)) >= limit,
           Cardinality(CountedFor(at, w, c, now)) =< limit,
           NEW s, NEW code
    PROVE  FullAt(Refusal(s, code, ResetIn(CountedFor(at, w, c, now), at, now, w)),
                  at, w, limit, c)
PROOF
  <1> DEFINE counted == CountedFor(at, w, c, now)
             wait == ResetIn(counted, at, now, w)
             until == now + RetryAfterHeader(wait, Second) * Second
             a == Refusal(s, code, wait)
  <1>1. counted # {}
    <2>1. Cardinality(counted) >= limit /\ limit \in Nat /\ limit > 0
      OBVIOUS
    <2>2. Cardinality({}) = 0
      BY FS_EmptySet
    <2> HIDE DEF counted
    <2> QED BY <2>1, <2>2
  <1>2. /\ wait > 0
        /\ Cardinality(StillThere(at, w, c, now, until)) < Cardinality(counted)
    BY <1>1, HeaderWaitSuffices
  <1>3. a.at = now /\ a.retryAfter = RetryAfterHeader(wait, Second)
    BY <1>2 DEF Refusal
  <1>4. /\ Cardinality(counted) \in Nat
        /\ Cardinality(StillThere(at, w, c, now, until)) \in Nat
    <2>1. /\ counted \subseteq Callers
          /\ StillThere(at, w, c, now, until) \subseteq Callers
      BY DEF CountedFor, Recorded, StillThere
    <2> HIDE DEF counted, until
    <2> QED BY <2>1, FS_Subset, FS_CardinalityType
  <1>5. Cardinality(StillThere(at, w, c, now, until)) < limit
    <2> HIDE DEF counted, until
    <2>1. Cardinality(counted) =< limit
      BY DEF counted
    <2> QED BY <1>2, <1>4, <2>1
  <1> QED BY <1>3, <1>5 DEF FullAt

\* And stays one: nobody is counted in that window any more.
LEMMA FullStays ==
    ASSUME now \in Nat,
           NEW at \in [Callers -> Times], NEW after \in [Callers -> Times],
           NEW w \in Nat, NEW limit \in Nat, CountStep(at, after, w, limit),
           NEW c, NEW a, FullAt(a, at, w, limit, c)
    PROVE  FullAt(a, after, w, limit, c)
PROOF
  <1>1. /\ a.at \in 0 .. now
        /\ Cardinality(CountedFor(at, w, c, a.at)) >= limit
        /\ Cardinality(StillThere(at, w, c, a.at, a.at + a.retryAfter * Second)) < limit
    BY DEF FullAt
  <1>2. \A q \in Callers :
           Client(q) = c => \/ after[q] = at[q]
                            \/ after[q] \notin 0 .. a.at /\ at[q] \notin 0 .. a.at
    BY <1>1, FullWindowIsFrozen
  <1>3. CountedFor(after, w, c, a.at) = CountedFor(at, w, c, a.at)
    BY <1>1, <1>2 DEF CountedFor, Recorded, Times
  <1>4. \A until : StillThere(after, w, c, a.at, until) = StillThere(at, w, c, a.at, until)
    BY <1>1, <1>2 DEF StillThere
  <1> QED BY <1>1, <1>3, <1>4 DEF FullAt
LEMMA RefusalsStep ==
    ASSUME HandlerInv, AllowanceInv, FullInv, RetryAfterHeaderSuffices,
           [ServerNext]_serverVars
    PROVE  (FullInv /\ RetryAfterHeaderSuffices)'
PROOF
  <1>0. /\ now \in Nat /\ kind' = kind /\ now' \in {now, now + 1}
        /\ rateAt \in [Callers -> Times] /\ anonAt \in [Callers -> Times]
        /\ rateAt' \in [Callers -> Times] /\ anonAt' \in [Callers -> Times]
        /\ CountStep(rateAt, rateAt', RateWindow, RateLimit)
        /\ CountStep(anonAt, anonAt', AnonWindow, AnonLimit)
    BY AnswerTypes, LimitersCount, HandlerTypeStep DEF HandlerTypeInv
  <1>1. ASSUME NEW r \in Callers, Limited(answer'[r])
        PROVE  FullAt(answer'[r], rateAt', RateWindow, RateLimit, Client(r))
    <2>1. CASE answer'[r] = answer[r]
      <3>1. FullAt(answer'[r], rateAt, RateWindow, RateLimit, Client(r))
        BY <1>1, <2>1, RefusalForms DEF FullForm
      <3> HIDE DEF CountStep
      <3> QED BY <1>0, <3>1, FullStays
    <2>2. CASE answer'[r] # answer[r]
      <3>1. Client(r) \in Clients
        BY AnswerTypes DEF Client, Clients
      <3>2. LiveRate(Client(r)) = CountedFor(rateAt, RateWindow, Client(r), now)
        BY <3>1, LiveRateIsWindow DEF Through, CountedFor
      <3>3. /\ RateLimit > 0 /\ Cardinality(LiveRate(Client(r))) >= RateLimit
            /\ answer'[r] = Refusal(429, "rate_limited",
                               ResetIn(LiveRate(Client(r)), rateAt, now, RateWindow))
            /\ rateAt' = rateAt
        BY <1>1, <2>2, NewRefusals
      <3>4. Cardinality(CountedFor(rateAt, RateWindow, Client(r), now)) =< RateLimit
        <4>1. now \in 0 .. now
          BY <1>0
        <4> QED BY <3>1, <3>3, <4>1 DEF HandlerInv, RateWindowHolds, CountedFor
      <3> QED BY <1>0, <3>2, <3>3, <3>4, RefusedWhenFull
    <2> QED BY <2>1, <2>2
  <1>2. ASSUME NEW r \in Callers, Exhausted(answer'[r])
        PROVE  FullAt(answer'[r], anonAt', AnonWindow, AnonLimit, Client(r))
    <2>1. CASE answer'[r] = answer[r]
      <3>1. FullAt(answer'[r], anonAt, AnonWindow, AnonLimit, Client(r))
        BY <1>2, <2>1, RefusalForms DEF FullForm
      <3> HIDE DEF CountStep
      <3> QED BY <1>0, <3>1, FullStays
    <2>2. CASE answer'[r] # answer[r]
      <3>1. Client(r) \in Clients
        BY AnswerTypes DEF Client, Clients
      <3>2. LiveAnon(Client(r)) = CountedFor(anonAt, AnonWindow, Client(r), now)
        BY <3>1, LiveAnonIsWindow DEF ChargedIn
      <3>3. /\ AnonLimit > 0 /\ Cardinality(LiveAnon(Client(r))) >= AnonLimit
            /\ answer'[r] = Refusal(429, "anonymous_quota_exhausted",
                               ResetIn(LiveAnon(Client(r)), anonAt, now, AnonWindow))
            /\ anonAt' = anonAt
        BY <1>2, <2>2, NewRefusals
      <3>4. Cardinality(CountedFor(anonAt, AnonWindow, Client(r), now)) =< AnonLimit
        <4>1. now \in 0 .. now
          BY <1>0
        <4> QED BY <3>1, <3>3, <4>1 DEF AllowanceInv, ChargedIn
      <3> QED BY <1>0, <3>2, <3>3, <3>4, RefusedWhenFull
    <2> QED BY <2>1, <2>2
  <1>3. \A a, at, w, limit : \A r \in Callers :
           FullAt(a, at, w, limit, Client(r)) => FullAt(a, at, w, limit, Client(r))'
    BY <1>0 DEF FullAt, CountedFor, StillThere, Client
  <1>4. \A r \in Callers :
           /\ Limited(answer'[r]) =>
                 FullAt(answer[r], rateAt, RateWindow, RateLimit, Client(r))'
           /\ Exhausted(answer'[r]) =>
                 FullAt(answer[r], anonAt, AnonWindow, AnonLimit, Client(r))'
    BY <1>1, <1>2, <1>3
  <1>5. FullForm'
    BY <1>4 DEF FullForm
  <1> QED BY <1>5, RefusalForms, PTL
-----------------------------------------------------------------------------
(* The cache.                                                              *)

\* Only a lookup and the end of a handler touch it.
LEMMA CacheStep ==
    ASSUME HandlerInv, [ServerNext]_serverVars
    PROVE  /\ kind' = kind
           /\ now' = now \/ now' = now + 1
           /\ \/ UNCHANGED <<cache, storedAt, lookedUpAt>>
              \/ \E r \in Callers : (Lookup(r) \/ Finish(r)) /\ now' = now
PROOF
  <1>1. kind' = kind /\ (now' = now \/ now' = now + 1)
    BY RateStep DEF Throttle, gateVars
  <1>2. ASSUME NEW r \in Callers, Arrive(r) \/ HandlerStep(r)
        PROVE  \/ UNCHANGED <<cache, storedAt, lookedUpAt>>
               \/ (Lookup(r) \/ Finish(r)) /\ now' = now
    BY <1>2 DEF Arrive, HandlerStep, Throttle, Lookup, Admit, CallFetch, Charge,
       Finish, gateVars
  <1>3. CASE UNCHANGED handlerVars
    BY <1>1, <1>3 DEF handlerVars
  <1> QED BY <1>1, <1>2, <1>3 DEF ServerNext, GateStep, serverVars

\* The keys and the responses are the same all along.
LEMMA KeysStay ==
    ASSUME HandlerInv, [ServerNext]_serverVars
    PROVE  /\ \A r \in Callers : Asked(r)' = Asked(r)
           /\ CacheKeys' = CacheKeys /\ Responses' = Responses
PROOF
  <1>1. kind' = kind
    BY CacheStep
  <1>2. \A r \in Callers : Asked(r)' = Asked(r)
    BY <1>1 DEF Asked
  <1>3. CacheKeys' = CacheKeys
    BY <1>1 DEF CacheKeys, Asked
  <1> QED BY <1>2, <1>3 DEF Responses

\* A request is at the lookup only if it may ask, and asks and stores once.
LEMMA AskingStep ==
    ASSUME HandlerInv, AskingInv, [ServerNext]_serverVars
    PROVE  AskingInv'
PROOF
  <1>0. /\ now \in Nat /\ stage \in [Callers -> Stages]
        /\ lookedUpAt \in [Callers -> Nat \cup {-1}]
        /\ storedAt \in [Callers -> Nat \cup {-1}]
        /\ kind' = kind /\ (now' = now \/ now' = now + 1)
    BY AnswerTypes, CacheStep DEF Times
  <1> SUFFICES ASSUME NEW q \in Callers
               PROVE  /\ lookedUpAt'[q] =< now' /\ storedAt'[q] =< now'
                      /\ stage'[q] # "answered" => storedAt'[q] = Never
                      /\ stage'[q] \in {"absent", "throttle", "lookup"}
                            => lookedUpAt'[q] = Never
                      /\ stage'[q] = "lookup"
                            => kind[q].route = "profile" /\ ~kind[q].refresh
    BY <1>0 DEF AskingInv
  <1>1. /\ lookedUpAt[q] =< now /\ storedAt[q] =< now
        /\ stage[q] # "answered" => storedAt[q] = Never
        /\ stage[q] \in {"absent", "throttle", "lookup"} => lookedUpAt[q] = Never
        /\ stage[q] = "lookup" => kind[q].route = "profile" /\ ~kind[q].refresh
    BY DEF AskingInv
  <1>2. CASE UNCHANGED <<stage, storedAt, lookedUpAt>>
    BY <1>0, <1>1, <1>2
  <1>3. ASSUME NEW r \in Callers, Arrive(r) \/ HandlerStep(r), r # q
        PROVE  UNCHANGED <<stage[q], storedAt[q], lookedUpAt[q]>>
    <2>1. stage'[q] = stage[q]
      BY <1>0, <1>3, StageStep DEF HandlerInv, Answer, MoveTo
    <2>2. CASE Lookup(r)
      BY <1>0, <1>3, <2>1, <2>2 DEF Lookup
    <2>3. CASE Finish(r)
      BY <1>0, <1>3, <2>1, <2>3 DEF Finish
    <2>4. CASE ~Lookup(r) /\ ~Finish(r)
      BY <1>3, <2>1, <2>4 DEF Arrive, HandlerStep, Throttle, Admit, CallFetch, Charge
    <2> QED BY <2>2, <2>3, <2>4
  <1>4. CASE Arrive(q)
    BY <1>0, <1>1, <1>4 DEF Arrive, Answer, MoveTo
  <1>5. CASE Throttle(q)
    BY <1>0, <1>1, <1>5 DEF Throttle, Answer, MoveTo
  <1>6. CASE Lookup(q)
    <2>1. stage'[q] \in {"admit", "answered"} /\ stage[q] = "lookup"
      BY <1>0, <1>6 DEF Lookup, Answer, MoveTo
    <2>2. lookedUpAt'[q] = now /\ storedAt' = storedAt /\ now' = now
      BY <1>0, <1>6 DEF Lookup, gateVars
    <2> QED BY <1>0, <1>1, <2>1, <2>2
  <1>7. CASE Admit(q) \/ CallFetch(q) \/ Charge(q)
    <2>1. stage'[q] \in {"call", "fetch", "finish", "answered"}
          /\ stage[q] \notin {"absent", "throttle", "lookup", "answered"}
      BY <1>0, <1>7 DEF Admit, CallFetch, Charge, Answer, MoveTo
    <2>2. UNCHANGED <<storedAt, lookedUpAt>>
      BY <1>7 DEF Admit, CallFetch, Charge
    <2> QED BY <1>0, <1>1, <2>1, <2>2
  <1>8. CASE Finish(q)
    <2>1. stage'[q] = "answered"
      BY <1>0, <1>8 DEF Finish, Answer, MoveTo
    <2>2. storedAt'[q] \in {storedAt[q], now} /\ lookedUpAt' = lookedUpAt
      BY <1>0, <1>8 DEF Finish
    <2> QED BY <1>0, <1>1, <2>1, <2>2
  <1>9. ASSUME NEW r \in Callers, Arrive(r) \/ HandlerStep(r), r = q
        PROVE  \/ Arrive(q) \/ Throttle(q) \/ Lookup(q)
               \/ Admit(q) \/ CallFetch(q) \/ Charge(q) \/ Finish(q)
    BY <1>9 DEF HandlerStep
  <1>10. \/ UNCHANGED handlerVars
         \/ \E r \in Callers : Arrive(r) \/ HandlerStep(r)
    BY DEF ServerNext, GateStep, serverVars
  <1>11. UNCHANGED handlerVars => UNCHANGED <<stage, storedAt, lookedUpAt>>
    BY DEF handlerVars
  <1>12. ASSUME NEW r \in Callers, Arrive(r) \/ HandlerStep(r), r # q
         PROVE  /\ lookedUpAt'[q] =< now' /\ storedAt'[q] =< now'
                /\ stage'[q] # "answered" => storedAt'[q] = Never
                /\ stage'[q] \in {"absent", "throttle", "lookup"}
                      => lookedUpAt'[q] = Never
                /\ stage'[q] = "lookup"
                      => kind[q].route = "profile" /\ ~kind[q].refresh
    BY <1>0, <1>1, <1>3, <1>12
  <1> QED BY <1>2, <1>4, <1>5, <1>6, <1>7, <1>8, <1>9, <1>10, <1>11, <1>12

\* What Lookup does to the cache and to the request.
LEMMA LookupEffect ==
    ASSUME HandlerInv, AskingInv, StoreInv, NEW r \in Callers, Lookup(r)
    PROVE  /\ WellFormed(cache', CacheKeys, Responses)
           /\ \A j \in Listed(cache'.order) :
                 j \in Listed(cache.order) /\ cache'.items[j] = cache.items[j]
           /\ \A j \in Listed(cache.order) :
                 now =< cache.items[j].expiresAt => j \in Listed(cache'.order)
           /\ lookedUpAt' = [lookedUpAt EXCEPT ![r] = now]
           /\ storedAt' = storedAt
           /\ IsHit(cache, Asked(r), now) =>
                 LET stored == cache.items[Asked(r)].value IN
                 answer'[r] = Success(stored.of, stored.by, TRUE)
           /\ ~IsHit(cache, Asked(r), now) => answer' = answer
PROOF
  <1>0. /\ now \in Nat /\ answer = [q \in Callers |-> answer[q]]
        /\ WellFormed(cache, CacheKeys, Responses)
    BY AnswerTypes DEF StoreInv
  <1>1. cache' = AfterGet(cache, Asked(r), now)
    BY DEF Lookup, CacheKey
  <1>2. CASE IsHit(cache, Asked(r), now)
    <2>1. /\ WellFormed(cache', CacheKeys, Responses)
          /\ Listed(cache'.order) = Listed(cache.order)
          /\ cache'.items = cache.items
      BY <1>0, <1>1, <1>2, HitEffect
    <2> QED BY <1>0, <1>2, <2>1 DEF Lookup, Answer, CacheKey
  <1>3. CASE ~IsHit(cache, Asked(r), now)
    <2>1. /\ WellFormed(cache', CacheKeys, Responses)
          /\ \A j \in Listed(cache'.order) :
                j \in Listed(cache.order) /\ cache'.items[j] = cache.items[j]
          /\ \A j \in Listed(cache.order) :
                /\ j # Asked(r) \/ ~Fresh(cache, Asked(r), now)
                /\ j # Asked(r) => j \in Listed(cache'.order)
      BY <1>0, <1>1, <1>3, MissEffect
    <2>2. \A j \in Listed(cache.order) :
             now =< cache.items[j].expiresAt => j # Asked(r)
      BY <1>0, <2>1 DEF WellFormed, Fresh, Holds
    <2> QED BY <1>3, <2>1, <2>2 DEF Lookup, CacheKey
  <1> QED BY <1>2, <1>3

\* A list of some keys, none twice, is not longer than there are keys.
LEMMA DistinctFits ==
    ASSUME NEW K, IsFiniteSet(K), NEW order \in Seq(K), Distinct(order)
    PROVE  Len(order) =< Cardinality(K)
PROOF
  <1> DEFINE places == 1 .. Len(order)
  <1>1. IsFiniteSet(places) /\ Cardinality(places) = Len(order)
    <2>1. ASSUME NEW n \in Int
          PROVE  /\ IsFiniteSet(1 .. n)
                 /\ Cardinality(1 .. n) = IF 1 > n THEN 0 ELSE n - 1 + 1
      <3>1. 1 \in Int
        OBVIOUS
      <3> QED BY <3>1, FS_Interval, Zenon
    <2>2. Len(order) \in Nat
      OBVIOUS
    <2> QED BY <2>1, <2>2
  <1>2. order \in [places -> K]
    OBVIOUS
  <1>3. \A i, j \in places : order[i] = order[j] => i = j
    BY DEF Distinct
  <1>4. Cardinality(places) =< Cardinality(K)
    <2> HIDE DEF places
    <2>1. order \in Injection(places, K)
      BY <1>2, <1>3 DEF Injection, IsInjective
    <2> QED BY <1>1, <2>1, FS_Injection
  <1> QED BY <1>1, <1>4

\* What Finish does to the cache when it stores.
LEMMA FinishEffect ==
    ASSUME HandlerInv, AskingInv, StoreInv, NEW r \in Callers, Finish(r)
    PROVE  LET k == Asked(r) IN
           \/ UNCHANGED <<cache, storedAt>>
           \/ /\ storedAt' = [storedAt EXCEPT ![r] = now]
              /\ outcome[r].kind = "fetched"
              /\ \/ Ttl = 0 /\ cache' = cache
                 \/ /\ Ttl > 0
                    /\ WellFormed(cache', CacheKeys, Responses)
                    /\ k \in Listed(cache'.order)
                    /\ cache'.items[k] = [value |-> [of |-> k, by |-> r],
                                          expiresAt |-> now + Ttl]
                    /\ \A j \in Listed(cache'.order) :
                          j # k => /\ j \in Listed(cache.order)
                                   /\ cache'.items[j] = cache.items[j]
                    /\ RoomForAll =>
                          \A j \in Listed(cache.order) : j \in Listed(cache'.order)
PROOF
  <1> DEFINE k == Asked(r)
             v == [of |-> k, by |-> r]
             front == ToFront(cache.order, k)
  <1>0. /\ now \in Nat
        /\ WellFormed(cache, CacheKeys, Responses)
        /\ k \in CacheKeys /\ v \in Responses
    BY AnswerTypes DEF StoreInv, CacheKeys, Responses
  <1>1. CASE ~(outcome[r].kind = "fetched" /\ kind[r].route = "profile")
    BY <1>1 DEF Finish
  <1>2. CASE outcome[r].kind = "fetched" /\ kind[r].route = "profile"
    <2>1. /\ storedAt' = [storedAt EXCEPT ![r] = now]
          /\ cache' = AfterSet(cache, k, v, now)
      BY <1>2 DEF Finish, CacheKey
    <2>2. CASE Ttl = 0
      BY <1>2, <2>1, <2>2 DEF AfterSet
    <2>3. CASE Ttl # 0
      <3> HIDE DEF k, v
      <3>1. Ttl > 0
        BY <2>3
      <3>2. /\ WellFormed(cache', CacheKeys, Responses)
            /\ k \in Listed(cache'.order)
            /\ cache'.items[k] = [value |-> v, expiresAt |-> now + Ttl]
            /\ \A j \in Listed(cache'.order) :
                  j # k => j \in Listed(cache.order) /\ cache'.items[j] = cache.items[j]
            /\ \A i \in 1 .. Len(front) :
                  i =< Capacity => front[i] \in Listed(cache'.order)
        <4> DEFINE after == AfterSet(cache, k, v, now)
        <4>1. /\ WellFormed(after, CacheKeys, Responses)
              /\ k \in Listed(after.order)
              /\ after.items[k] = [value |-> v, expiresAt |-> now + Ttl]
              /\ \A j \in Listed(after.order) :
                    j # k => j \in Listed(cache.order) /\ after.items[j] = cache.items[j]
              /\ \A i \in 1 .. Len(front) :
                    i =< Capacity => front[i] \in Listed(after.order)
              /\ \A a, b : Ahead(after.order, a, b) => Ahead(front, a, b)
          BY <1>0, <3>1, SetEffect, Zenon
        <4> HIDE DEF after
        <4>2. cache' = after
          BY <2>1 DEF after
        <4> QED BY <4>1, <4>2, Zenon
      <3>3. ASSUME RoomForAll, NEW j \in Listed(cache.order)
            PROVE  j \in Listed(cache'.order)
        <4>1. /\ front \in Seq(CacheKeys) /\ Distinct(front)
              /\ Listed(front) = Listed(cache.order) \cup {k}
          <5>1. cache.order \in Seq(CacheKeys) /\ Distinct(cache.order)
            BY <1>0 DEF WellFormed
          <5> QED BY <1>0, <5>1, ToFrontKeepsOrder, Zenon
        <4> HIDE DEF front
        <4>2. IsFiniteSet(CacheKeys)
          <5> DEFINE ask == [q \in Callers |-> Asked(q)]
          <5>1. ask \in Surjection(Callers, CacheKeys)
            BY DEF Surjection, CacheKeys
          <5> HIDE DEF ask
          <5> QED BY <5>1, FS_Surjection
        <4>3. Len(front) =< Cardinality(CacheKeys)
          BY <4>1, <4>2, DistinctFits
        <4>4. PICK i \in 1 .. Len(front) : front[i] = j
          <5>1. j \in Listed(front)
            BY <3>3, <4>1
          <5>2. DOMAIN front = 1 .. Len(front)
            BY <4>1
          <5> QED BY <5>1, <5>2 DEF Listed
        <4>5. i =< Capacity
          <5>1. /\ Cardinality(CacheKeys) \in Nat /\ Cardinality(CacheKeys) =< Capacity
                /\ Capacity \in Nat /\ Len(front) \in Nat
            BY <3>3, <4>1, <4>2, FS_CardinalityType, CapacityIsPositive DEF RoomForAll
          <5> QED BY <4>3, <5>1
        <4> QED BY <3>2, <4>4, <4>5
      <3> QED BY <1>2, <2>1, <3>1, <3>2, <3>3 DEF k, v
    <2> QED BY <2>2, <2>3
  <1> QED BY <1>1, <1>2
\* What is stored is the response of a request that is over, so what is right
\* of an entry stays right as long as it is there.
LEMMA StoreStep ==
    ASSUME HandlerInv, AskingInv, StoreInv, [ServerNext]_serverVars
    PROVE  StoreInv'
PROOF
  <1> DEFINE RightAfter(k, entry) ==
                /\ entry.value.of = k
                /\ entry.expiresAt = storedAt'[entry.value.by] + Ttl
                /\ stage'[entry.value.by] = "answered"
                /\ outcome'[entry.value.by].kind = "fetched"
  <1>0. /\ WellFormed(cache, CacheKeys, Responses)
        /\ CacheKeys' = CacheKeys /\ Responses' = Responses
        /\ now \in Nat /\ storedAt \in [Callers -> Times]
        /\ outcome \in [Callers -> Outcomes] /\ stage \in [Callers -> Stages]
    BY AnswerTypes, KeysStay DEF StoreInv
  <1>1. ASSUME NEW j \in Listed(cache.order)
        PROVE  RightAfter(j, cache.items[j])
    <2>1. cache.items[j].value.by \in Callers
      BY <1>0 DEF WellFormed, Responses
    <2>2. RightEntry(j, cache.items[j])
      BY DEF StoreInv
    <2> QED BY <2>1, <2>2, AnsweredStays DEF RightEntry
  <1> SUFFICES /\ WellFormed(cache', CacheKeys, Responses)
               /\ \A j \in Listed(cache'.order) : RightAfter(j, cache'.items[j])
    <2>1. \A j : RightEntry(j, cache.items[j])' <=> RightAfter(j, cache'.items[j])
      BY DEF RightEntry
    <2> HIDE DEF RightAfter
    <2> QED BY <1>0, <2>1 DEF StoreInv, WellFormed
  <1> HIDE DEF RightAfter
  <1>2. CASE cache' = cache
    BY <1>0, <1>1, <1>2
  <1>3. ASSUME NEW r \in Callers, Lookup(r)
        PROVE  /\ WellFormed(cache', CacheKeys, Responses)
               /\ \A j \in Listed(cache'.order) : RightAfter(j, cache'.items[j])
    BY <1>1, <1>3, LookupEffect
  <1>4. ASSUME NEW r \in Callers, Finish(r)
        PROVE  /\ WellFormed(cache', CacheKeys, Responses)
               /\ \A j \in Listed(cache'.order) : RightAfter(j, cache'.items[j])
    <2> DEFINE k == Asked(r)
    <2>1. CASE cache' = cache
      BY <1>2, <2>1
    <2>2. CASE cache' # cache
      <3>1. /\ storedAt'[r] = now /\ outcome[r].kind = "fetched"
            /\ WellFormed(cache', CacheKeys, Responses)
            /\ k \in Listed(cache'.order)
            /\ cache'.items[k] = [value |-> [of |-> k, by |-> r],
                                  expiresAt |-> now + Ttl]
            /\ \A j \in Listed(cache'.order) :
                  j # k => /\ j \in Listed(cache.order)
                           /\ cache'.items[j] = cache.items[j]
        BY <1>0, <1>4, <2>2, FinishEffect
      <3>2. stage'[r] = "answered" /\ outcome' = outcome
        BY <1>0, <1>4 DEF Finish, Answer, MoveTo, gateVars
      <3>3. RightAfter(k, cache'.items[k])
        BY <3>1, <3>2 DEF RightAfter
      <3> QED BY <1>1, <3>1, <3>3
    <2> QED BY <2>1, <2>2
  <1> QED BY <1>2, <1>3, <1>4, CacheStep

\* Finish answers with the request's own profile if it fetched one.
LEMMA FinishAnswers ==
    ASSUME HandlerInv, NEW r \in Callers, Finish(r)
    PROVE  /\ stage'[r] = "answered" /\ outcome' = outcome
           /\ \/ answer'[r].status # 200
              \/ /\ answer'[r] = Success(Asked(r), r, FALSE)
                 /\ outcome[r].kind = "fetched"
PROOF
  <1>0. stage \in [Callers -> Stages] /\ answer = [q \in Callers |-> answer[q]]
    BY AnswerTypes
  <1>1. /\ stage' = [stage EXCEPT ![r] = "answered"] /\ outcome' = outcome
        /\ \/ answer' = [answer EXCEPT ![r] = Success(Asked(r), r, FALSE)]
              /\ outcome[r].kind = "fetched"
           \/ answer' = [answer EXCEPT ![r] = Refusal(429, "budget_exhausted",
                                                      outcome[r].resetIn)]
           \/ answer' = [answer EXCEPT ![r] = Refusal(502, "upstream_error", 0)]
    BY DEF Finish, Answer, MoveTo, gateVars
  <1>2. stage'[r] = "answered" /\ outcome' = outcome
    BY <1>0, <1>1
  <1>3. \/ answer'[r] = Success(Asked(r), r, FALSE) /\ outcome[r].kind = "fetched"
        \/ answer'[r] = Refusal(429, "budget_exhausted", outcome[r].resetIn)
        \/ answer'[r] = Refusal(502, "upstream_error", 0)
    BY <1>0, <1>1
  <1>4. ASSUME NEW s, NEW code, NEW w, s # 200, answer'[r] = Refusal(s, code, w)
        PROVE  answer'[r].status # 200
    <2>1. answer'[r].status = s
      BY <1>4 DEF Refusal
    <2> QED BY <1>4, <2>1
  <1>5. CASE answer'[r] = Refusal(429, "budget_exhausted", outcome[r].resetIn)
    <2>1. answer'[r].status # 200
      BY <1>4, <1>5
    <2> QED BY <1>2, <2>1
  <1>6. CASE answer'[r] = Refusal(502, "upstream_error", 0)
    <2>1. answer'[r].status # 200
      BY <1>4, <1>6
    <2> QED BY <1>2, <2>1
  <1> QED BY <1>2, <1>3, <1>5, <1>6, Zenon

\* A new answer with a profile is from the cache, of an entry that is right
\* and has not expired, or of the request's own fetch.
LEMMA NewProfiles ==
    ASSUME HandlerInv, AskingInv, StoreInv, [ServerNext]_serverVars,
           NEW r \in Callers, answer'[r] # answer[r], answer'[r].status = 200
    PROVE  LET by == answer'[r].by IN
           /\ answer'[r].of = Asked(r) /\ by \in Callers
           /\ stage'[by] = "answered" /\ outcome'[by].kind = "fetched"
           /\ answer'[r].cached => /\ ~kind[r].refresh /\ kind[r].route = "profile"
                                   /\ answer'[r].at - storedAt'[by] =< Ttl
PROOF
  <1>0. /\ storedAt \in [Callers -> Times] /\ now \in Nat
        /\ stage \in [Callers -> Stages] /\ answer = [q \in Callers |-> answer[q]]
        /\ WellFormed(cache, CacheKeys, Responses)
    BY AnswerTypes DEF StoreInv
  <1>1. CASE Arrive(r) \/ Throttle(r) \/ Admit(r)
    <2>1. \/ answer'[r] = answer[r]
          \/ \E s, code, w : s # 200 /\ answer'[r] = Refusal(s, code, w)
      <3>1. CASE Arrive(r)
        BY <1>0, <3>1 DEF Arrive, Answer
      <3>2. CASE Throttle(r)
        BY <1>0, <3>2 DEF Throttle, Answer
      <3>3. CASE Admit(r)
        BY <1>0, <3>3 DEF Admit, Answer
      <3> QED BY <1>1, <3>1, <3>2, <3>3
    <2>2. PICK s, code, w : s # 200 /\ answer'[r] = Refusal(s, code, w)
      BY <2>1
    <2>3. answer'[r].status = s
      BY <2>2 DEF Refusal
    <2> QED BY <2>2, <2>3
  <1>2. CASE Lookup(r)
    <2> DEFINE k == Asked(r)
               q == cache.items[k].value.by
    <2>1. IsHit(cache, k, now)
      BY <1>2, LookupEffect
    <2>2. k \in Listed(cache.order) /\ now =< cache.items[k].expiresAt
      BY <1>0, <2>1 DEF IsHit, Fresh, Holds, WellFormed
    <2>3. RightEntry(k, cache.items[k]) /\ q \in Callers
      BY <1>0, <2>2 DEF StoreInv, WellFormed, Responses
    <2>4. /\ stage'[q] = "answered" /\ outcome'[q] = outcome[q]
          /\ storedAt'[q] = storedAt[q]
      BY <2>3, AnsweredStays DEF RightEntry
    <2>5. answer'[r] = Success(cache.items[k].value.of, q, TRUE)
      BY <1>2, <2>1, LookupEffect
    <2>6. answer'[r].by = q /\ answer'[r].of = cache.items[k].value.of
          /\ answer'[r].at = now
      BY <2>5 DEF Success
    <2>7. ~kind[r].refresh /\ kind[r].route = "profile"
      BY <1>2 DEF Lookup, AskingInv
    <2>8. answer'[r].at - storedAt'[q] =< Ttl
      <3>1. storedAt[q] \in Int /\ now =< storedAt[q] + Ttl
        BY <1>0, <2>2, <2>3 DEF RightEntry, Times
      <3> QED BY <1>0, <2>4, <2>6, <3>1
    <2> QED BY <2>3, <2>4, <2>6, <2>7, <2>8 DEF RightEntry
  <1>3. CASE Finish(r)
    <2>1. /\ stage'[r] = "answered" /\ outcome' = outcome
          /\ answer'[r] = Success(Asked(r), r, FALSE)
          /\ outcome[r].kind = "fetched"
      <3>1. answer'[r].status = 200
        OBVIOUS
      <3>2. /\ stage'[r] = "answered" /\ outcome' = outcome
            /\ \/ answer'[r].status # 200
               \/ /\ answer'[r] = Success(Asked(r), r, FALSE)
                  /\ outcome[r].kind = "fetched"
        BY <1>3, FinishAnswers, Zenon
      <3> QED BY <3>1, <3>2, Zenon
    <2>2. answer'[r].by = r /\ answer'[r].of = Asked(r) /\ answer'[r].cached = FALSE
      BY <2>1 DEF Success
    <2>3. ~answer'[r].cached
      BY <2>2
    <2>4. /\ answer'[r].by \in Callers /\ stage'[answer'[r].by] = "answered"
          /\ outcome'[answer'[r].by].kind = "fetched"
      <3>1. /\ r \in Callers /\ stage'[r] = "answered"
            /\ outcome'[r].kind = "fetched"
        BY <2>1
      <3>2. ASSUME NEW by, by = r
            PROVE  by \in Callers /\ stage'[by] = "answered"
                   /\ outcome'[by].kind = "fetched"
        BY <3>1, <3>2
      <3>3. answer'[r].by = r
        BY <2>2
      <3> QED BY <3>2, <3>3
    <2> QED BY <2>2, <2>3, <2>4
  <1> QED BY <1>1, <1>2, <1>3, WhoAnswers
\* Every profile that was answered is the right one, and stays so.
LEMMA ServedStep ==
    ASSUME HandlerInv, AskingInv, StoreInv, ServedInv, CachedAnswerIsRight,
           [ServerNext]_serverVars
    PROVE  (ServedInv /\ CachedAnswerIsRight)'
PROOF
  <1> SUFFICES ASSUME NEW r \in Callers, answer'[r] # Unanswered,
                      answer'[r].status = 200
               PROVE  LET a == answer'[r] IN
                      /\ a.by \in Callers /\ stage'[a.by] = "answered"
                      /\ a.of = Asked(r) /\ outcome'[a.by].kind = "fetched"
                      /\ a.cached => /\ ~kind[r].refresh /\ kind[r].route = "profile"
                                     /\ a.at - storedAt'[a.by] =< Ttl
    <2>1. kind' = kind
      BY CacheStep
    <2> QED BY <2>1 DEF ServedInv, CachedAnswerIsRight, Asked
  <1>1. CASE answer'[r] = answer[r]
    <2> DEFINE q == answer[r].by
    <2>1. /\ q \in Callers /\ stage[q] = "answered"
          /\ answer[r].of = Asked(r) /\ outcome[q].kind = "fetched"
          /\ answer[r].cached => /\ ~kind[r].refresh /\ kind[r].route = "profile"
                                 /\ answer[r].at - storedAt[q] =< Ttl
      BY <1>1 DEF ServedInv, CachedAnswerIsRight
    <2>2. /\ stage'[q] = "answered" /\ outcome'[q] = outcome[q]
          /\ storedAt'[q] = storedAt[q]
      BY <2>1, AnsweredStays
    <2> QED BY <1>1, <2>1, <2>2
  <1>2. CASE answer'[r] # answer[r]
    BY <1>2, NewProfiles
  <1> QED BY <1>1, <1>2

\* With room for every key nothing that has not expired leaves the cache.
LEMMA KeptStep ==
    ASSUME HandlerInv, AskingInv, StoreInv, KeptInv, [ServerNext]_serverVars
    PROVE  KeptInv'
PROOF
  <1> DEFINE StillKept(q) ==
                /\ Asked(q) \in Listed(cache'.order)
                /\ cache'.items[Asked(q)].expiresAt >= storedAt'[q] + Ttl
  <1>0. /\ now \in Nat /\ now' \in {now, now + 1}
        /\ storedAt \in [Callers -> Nat \cup {-1}]
        /\ WellFormed(cache, CacheKeys, Responses)
    BY AnswerTypes, CacheStep DEF StoreInv, Times
  <1> SUFFICES ASSUME RoomForAll, NEW q \in Callers, storedAt'[q] # Never, Ttl > 0,
                      now' =< storedAt'[q] + Ttl
               PROVE  StillKept(q)
    BY KeysStay DEF KeptInv, RoomForAll
  <1>1. ASSUME storedAt'[q] = storedAt[q]
        PROVE  /\ Asked(q) \in Listed(cache.order)
               /\ cache.items[Asked(q)].expiresAt >= storedAt'[q] + Ttl
               /\ cache.items[Asked(q)].expiresAt \in Nat
               /\ now =< cache.items[Asked(q)].expiresAt
    <2>1. now =< storedAt[q] + Ttl
      BY <1>0, <1>1
    <2>2. /\ Asked(q) \in Listed(cache.order)
          /\ cache.items[Asked(q)].expiresAt >= storedAt[q] + Ttl
      BY <1>1, <2>1 DEF KeptInv
    <2>3. cache.items[Asked(q)].expiresAt \in Nat
      BY <1>0, <2>2 DEF WellFormed
    <2> QED BY <1>0, <1>1, <2>1, <2>2, <2>3
  <1>2. CASE UNCHANGED <<cache, storedAt>>
    BY <1>1, <1>2
  <1>3. ASSUME NEW r \in Callers, Lookup(r) PROVE StillKept(q)
    BY <1>1, <1>3, LookupEffect
  <1>4. ASSUME NEW r \in Callers, Finish(r), now' = now PROVE StillKept(q)
    <2> DEFINE k == Asked(r)
    <2>1. CASE ~UNCHANGED <<cache, storedAt>>
      <3>1. /\ storedAt' = [storedAt EXCEPT ![r] = now]
            /\ k \in Listed(cache'.order)
            /\ cache'.items[k].expiresAt = now + Ttl
            /\ \A j \in Listed(cache'.order) :
                  j # k => cache'.items[j] = cache.items[j]
            /\ \A j \in Listed(cache.order) : j \in Listed(cache'.order)
        <4>1. Ttl # 0
          OBVIOUS
        <4>2. /\ storedAt' = [storedAt EXCEPT ![r] = now]
              /\ k \in Listed(cache'.order)
              /\ cache'.items[k] = [value |-> [of |-> k, by |-> r],
                                    expiresAt |-> now + Ttl]
              /\ \A j \in Listed(cache'.order) :
                    j # k => cache'.items[j] = cache.items[j]
              /\ \A j \in Listed(cache.order) : j \in Listed(cache'.order)
          BY <1>4, <2>1, <4>1, FinishEffect
        <4> QED BY <4>2
      <3>2. storedAt'[q] \in Int /\ storedAt'[q] =< now
        BY <1>0, <3>1 DEF AskingInv
      <3>3. CASE Asked(q) = k
        BY <1>0, <3>1, <3>2, <3>3
      <3>4. CASE Asked(q) # k
        <4>1. storedAt'[q] = storedAt[q]
          BY <1>0, <3>1, <3>4
        <4> QED BY <1>1, <3>1, <3>4, <4>1
      <3> QED BY <3>3, <3>4
    <2> QED BY <1>2, <2>1
  <1> QED BY <1>2, <1>3, <1>4, CacheStep

\* A request that asks while a stored profile for its key is still good is
\* answered from the cache.
LEMMA RepeatsStep ==
    ASSUME HandlerInv, AskingInv, StoreInv, KeptInv,
           RoomForAll, RepeatsAreServedFromCache, [ServerNext]_serverVars
    PROVE  RepeatsAreServedFromCache'
PROOF
  <1>0. /\ now \in Nat /\ stage \in [Callers -> Stages]
        /\ storedAt \in [Callers -> Nat \cup {-1}]
        /\ lookedUpAt \in [Callers -> Nat \cup {-1}]
        /\ WellFormed(cache, CacheKeys, Responses)
        /\ \A r \in Callers : Asked(r)' = Asked(r)
    BY AnswerTypes, KeysStay DEF StoreInv, Times
  <1> SUFFICES ASSUME NEW r \in Callers, NEW q \in Callers,
                      storedAt'[q] # Never, lookedUpAt'[r] # Never,
                      storedAt'[q] < lookedUpAt'[r],
                      lookedUpAt'[r] =< storedAt'[q] + Ttl, Asked(q) = Asked(r)
               PROVE  stage'[r] = "answered" /\ answer'[r].cached
    BY <1>0 DEF RepeatsAreServedFromCache
  <1>1. ASSUME storedAt'[q] = storedAt[q], lookedUpAt'[r] = lookedUpAt[r]
        PROVE  stage'[r] = "answered" /\ answer'[r].cached
    <2>1. stage[r] = "answered" /\ answer[r].cached
      BY <1>1 DEF RepeatsAreServedFromCache
    <2> QED BY <2>1, AnsweredStays
  <1>2. CASE UNCHANGED <<storedAt, lookedUpAt>>
    BY <1>1, <1>2
  <1>3. ASSUME NEW p \in Callers, Lookup(p)
        PROVE  stage'[r] = "answered" /\ answer'[r].cached
    <2>1. lookedUpAt' = [lookedUpAt EXCEPT ![p] = now] /\ storedAt' = storedAt
      BY <1>3, LookupEffect
    <2>2. CASE p # r
      BY <1>0, <1>1, <2>1, <2>2
    <2>3. CASE p = r
      <3>1. storedAt[q] # Never /\ storedAt[q] < now /\ now =< storedAt[q] + Ttl
        BY <1>0, <2>1, <2>3
      <3>2. storedAt[q] \in Nat /\ Ttl > 0
        BY <1>0, <3>1
      <3>3. /\ Asked(r) \in Listed(cache.order)
            /\ cache.items[Asked(r)].expiresAt >= storedAt[q] + Ttl
        BY <3>1, <3>2 DEF KeptInv
      <3>4. IsHit(cache, Asked(r), now)
        BY <1>0, <3>1, <3>2, <3>3 DEF IsHit, Fresh, Holds, WellFormed
      <3>5. /\ answer'[r] = Success(cache.items[Asked(r)].value.of,
                                    cache.items[Asked(r)].value.by, TRUE)
            /\ stage'[r] = "answered"
        <4>1. CacheKey(r) = Asked(r)
          BY DEF CacheKey
        <4>2. stage'[r] = "answered"
          BY <1>0, <1>3, <2>3, <3>4, <4>1 DEF Lookup, Answer, MoveTo
        <4> QED BY <1>3, <2>3, <3>4, <4>2, LookupEffect
      <3>6. answer'[r].cached
        BY <3>5 DEF Success
      <3> QED BY <3>5, <3>6
    <2> QED BY <2>2, <2>3
  <1>4. ASSUME NEW p \in Callers, Finish(p)
        PROVE  stage'[r] = "answered" /\ answer'[r].cached
    <2>1. lookedUpAt' = lookedUpAt
      BY <1>4 DEF Finish
    <2>2. CASE storedAt' = storedAt
      BY <1>1, <2>1, <2>2
    <2>3. CASE storedAt' = [storedAt EXCEPT ![p] = now]
      <3>1. lookedUpAt[r] =< now /\ lookedUpAt[r] \in Int
        BY <1>0 DEF AskingInv
      <3>2. p # q
        BY <1>0, <2>1, <2>3, <3>1
      <3>3. storedAt'[q] = storedAt[q]
        BY <1>0, <2>3, <3>2
      <3> QED BY <1>1, <2>1, <3>3
    <2> QED BY <1>4, <2>2, <2>3, FinishEffect
  <1> QED BY <1>2, <1>3, <1>4, CacheStep
-----------------------------------------------------------------------------
(* The invariant and what follows from it.                                 *)

LEMMA AnswerInitial == ServerInit => AnswerInv
PROOF
  <1> SUFFICES ASSUME ServerInit PROVE AnswerInv
    OBVIOUS
  <1>1. HandlerInv
    BY HandlerInitial
  <1>2. /\ now = 0
        /\ \A r \in Callers : /\ answer[r] = Unanswered /\ stage[r] = "absent"
                              /\ anonAt[r] = Never
                              /\ lookedUpAt[r] = Never /\ storedAt[r] = Never
        /\ \A c \in Clients : anonHits[c] = {}
        /\ cache = EmptyCache
    BY DEF ServerInit, GateInit
  <1>3. AllowanceInv
    <2>1. \A c, t : ChargedIn(c, t) = {}
      BY <1>2 DEF ServerInit, ChargedIn, CountedFor, Recorded
    <2>2. \A c, t : Cardinality(ChargedIn(c, t)) = 0
      BY <2>1, FS_EmptySet
    <2> QED BY <1>2, <2>1, <2>2 DEF AllowanceInv
  <1>4. FullForm
    BY <1>2 DEF FullForm, Limited, Exhausted
  <1>5. AskingInv
    BY <1>2 DEF AskingInv
  <1>6. StoreInv
    <2>1. cache.order = <<>> /\ cache.items = <<>>
      BY <1>2 DEF EmptyCache
    <2>2. Listed(<<>>) = {} /\ Distinct(<<>>)
      BY DEF Listed, Distinct
    <2>3. <<>> \in [{} -> [value : Responses, expiresAt : Nat]] /\ <<>> \in Seq(CacheKeys)
      OBVIOUS
    <2>4. Len(<<>>) =< Capacity
      BY CapacityIsPositive
    <2>5. WellFormed(cache, CacheKeys, Responses)
      BY <1>2, <2>1, <2>2, <2>3, <2>4 DEF WellFormed, EmptyCache
    <2> QED BY <2>1, <2>2, <2>5 DEF StoreInv
  <1>7. ServedInv /\ CachedAnswerIsRight
    BY <1>2 DEF ServedInv, CachedAnswerIsRight
  <1>8. KeptInv /\ RepeatsAreServedFromCache
    BY <1>2 DEF KeptInv, RepeatsAreServedFromCache
  <1> QED BY <1>1, <1>3, <1>4, <1>5, <1>6, <1>7, <1>8, RefusalForms DEF AnswerInv

\* Every step of the handlers and of the gate preserves AnswerInv.
LEMMA AnswerInvStep == AnswerInv /\ [ServerNext]_serverVars => AnswerInv'
PROOF
  <1> SUFFICES ASSUME AnswerInv, [ServerNext]_serverVars PROVE AnswerInv'
    OBVIOUS
  <1>0. /\ HandlerInv /\ AllowanceInv /\ FullInv /\ RetryAfterHeaderSuffices
        /\ AskingInv /\ StoreInv /\ ServedInv /\ CachedAnswerIsRight /\ KeptInv
        /\ RoomForAll => RepeatsAreServedFromCache
    BY DEF AnswerInv
  <1>1. HandlerInv'
    BY <1>0, HandlerInvStep
  <1>2. AllowanceInv' /\ FullInv' /\ RetryAfterHeaderSuffices'
    BY <1>0, AllowanceStep, RefusalsStep
  <1>3. AskingInv' /\ StoreInv' /\ KeptInv'
    BY <1>0, AskingStep, StoreStep, KeptStep
  <1>4. ServedInv' /\ CachedAnswerIsRight'
    BY <1>0, ServedStep
  <1>5. RoomForAll' => RepeatsAreServedFromCache'
    <2>1. RoomForAll' <=> RoomForAll
      BY <1>0, KeysStay DEF RoomForAll
    <2> QED BY <1>0, <2>1, RepeatsStep
  <1> QED BY <1>1, <1>2, <1>3, <1>4, <1>5 DEF AnswerInv

\* AnswerInv holds in every reachable state of the server.
THEOREM AnswerInvariant == ServerSpec => []AnswerInv
PROOF
  BY AnswerInitial, AnswerInvStep, PTL DEF ServerSpec

\* No rolling window of the anonymous allowance holds more charges of one
\* client than AnonLimit, although fetches are charged only after they end
\* (anonymousAllowed looks, anon.Check spends): what is exceeded is the number
\* of fetches, which AllowanceHolds speaks of and the code does not keep.
THEOREM AllowanceIsNotOvercharged ==
    ServerSpec => [](AnonLimit > 0 =>
                        \A c \in Clients : \A t \in 0 .. now :
                            Cardinality(ChargedIn(c, t)) =< AnonLimit)
PROOF
  <1>1. AnswerInv => (AnonLimit > 0 =>
                        \A c \in Clients : \A t \in 0 .. now :
                            Cardinality(ChargedIn(c, t)) =< AnonLimit)
    BY DEF AnswerInv, AllowanceInv
  <1> QED BY <1>1, AnswerInvariant, PTL

\* The Retry-After of a 429 of the limiter or of the allowance is never too
\* short, rounded to seconds as it is (writeError).
THEOREM HeaderSuffices == ServerSpec => []RetryAfterHeaderSuffices
PROOF
  <1>1. AnswerInv => RetryAfterHeaderSuffices
    BY DEF AnswerInv
  <1> QED BY <1>1, AnswerInvariant, PTL

\* A profile from the cache is the one asked for, from a fetch that succeeded,
\* and at most Ttl old, whatever was evicted, refreshed or expired meanwhile.
THEOREM CachedAnswersAreRight == ServerSpec => []CachedAnswerIsRight
PROOF
  <1>1. AnswerInv => CachedAnswerIsRight
    BY DEF AnswerInv
  <1> QED BY <1>1, AnswerInvariant, PTL

\* As long as the cache has room for every key, a profile stored less than Ttl
\* ago is served without a fetch.
THEOREM RepeatsAreFree == ServerSpec => [](RoomForAll => RepeatsAreServedFromCache)
PROOF
  <1>1. AnswerInv => (RoomForAll => RepeatsAreServedFromCache)
    BY DEF AnswerInv
  <1> QED BY <1>1, AnswerInvariant, PTL

-----------------------------------------------------------------------------
(* Counting.                                                               *)

\* What a sequence is made of.
LEMMA ElementsOf ==
    ASSUME NEW S, NEW s \in Seq(S)
    PROVE  /\ \A i \in 1 .. Len(s) : s[i] \in S
           /\ \A T : S \subseteq T => s \in Seq(T)
PROOF
  OBVIOUS

\* A set of no more than n members can be numbered from 1 to n.
LEMMA Numbering ==
    ASSUME NEW S, IsFiniteSet(S), NEW n \in Nat, Cardinality(S) =< n
    PROVE  \E f : f \in [S -> 1 .. n] /\ \A x, y \in S : f[x] = f[y] => x = y
PROOF
  <1>1. PICK m \in Nat : ExistsBijection(1 .. m, S)
    BY FS_NatBijection
  <1>2. Cardinality(S) = m
    BY <1>1, FS_CountingElements
  <1>3. PICK g : g \in Bijection(1 .. m, S)
    BY <1>1 DEF ExistsBijection
  <1>4. /\ g \in [1 .. m -> S]
        /\ \A x \in S : \E i \in 1 .. m : g[i] = x
    BY <1>3 DEF Bijection, Surjection
  <1> DEFINE f == [x \in S |-> CHOOSE i \in 1 .. m : g[i] = x]
  <1>5. \A x \in S : f[x] \in 1 .. m /\ g[f[x]] = x
    BY <1>4
  <1>6. f \in [S -> 1 .. n]
    <2>1. 1 .. m \subseteq 1 .. n
      BY <1>2
    <2>2. \A x \in S : f[x] \in 1 .. n
      BY <1>5, <2>1
    <2> HIDE DEF f
    <2>3. f \in [S -> {f[x] : x \in S}]
      BY DEF f
    <2> QED BY <2>2, <2>3
  <1> HIDE DEF f
  <1>7. \A x, y \in S : f[x] = f[y] => x = y
    BY <1>5
  <1> QED BY <1>6, <1>7

\* The subsets of C with at most n members.
AtMost(C, n) == {X \in SUBSET C : IsFiniteSet(X) /\ Cardinality(X) =< n}

\* The pairs of a k of S and a member of F[k].
Pairs(F, S, C) == {u \in S \X C : u[2] \in F[u[1]]}

\* The members of F[k], for the k of S, are together no more than n for every
\* member of T, when S has no more members than T and each F[k] no more than n.
LEMMA CountAll ==
    ASSUME NEW S, NEW T, IsFiniteSet(T), NEW slot \in Injection(S, T),
           NEW n \in Nat, NEW C, NEW F \in [S -> AtMost(C, n)]
    PROVE  Cardinality(Pairs(F, S, C)) =< n * Cardinality(T)
PROOF
  <1>0. /\ slot \in [S -> T] /\ \A j, k \in S : slot[j] = slot[k] => j = k
        /\ \A k \in S : IsFiniteSet(F[k]) /\ Cardinality(F[k]) =< n
    BY DEF Injection, IsInjective, AtMost
  <1> DEFINE All == Pairs(F, S, C)
             Numbers(k) == {f \in [F[k] -> 1 .. n] :
                               \A x, y \in F[k] : f[x] = f[y] => x = y}
             num == [k \in S |-> CHOOSE f : f \in Numbers(k)]
             place == [u \in All |-> <<num[u[1]][u[2]], slot[u[1]]>>]
  <1>1. \A k \in S : num[k] \in Numbers(k)
    <2> SUFFICES ASSUME NEW k \in S PROVE num[k] \in Numbers(k)
      OBVIOUS
    <2>1. \E f : f \in Numbers(k)
      BY <1>0, Numbering
    <2> HIDE DEF Numbers
    <2> QED BY <2>1
  <1>2. \A k \in S : /\ num[k] \in [F[k] -> 1 .. n]
                     /\ \A x, y \in F[k] : num[k][x] = num[k][y] => x = y
    BY <1>1
  <1> HIDE DEF num
  <1>3. \A u \in All : /\ u[1] \in S /\ u[2] \in F[u[1]] /\ u = <<u[1], u[2]>>
                       /\ place[u] = <<num[u[1]][u[2]], slot[u[1]]>>
    BY DEF Pairs
  <1>4. place \in [All -> (1 .. n) \X T]
    <2>1. ASSUME NEW u \in All PROVE place[u] \in (1 .. n) \X T
      <3>1. /\ u[1] \in S /\ u[2] \in F[u[1]]
            /\ place[u] = <<num[u[1]][u[2]], slot[u[1]]>>
        BY <1>3
      <3>2. num[u[1]] \in [F[u[1]] -> 1 .. n] /\ slot[u[1]] \in T
        BY <1>0, <1>2, <3>1
      <3> HIDE DEF place
      <3> QED BY <3>1, <3>2
    <2>2. place \in [All -> {place[u] : u \in All}]
      OBVIOUS
    <2> HIDE DEF place, All
    <2> QED BY <2>1, <2>2
  <1> HIDE DEF place, All
  <1>5. \A u, v \in All : place[u] = place[v] => u = v
    <2> SUFFICES ASSUME NEW u \in All, NEW v \in All, place[u] = place[v]
                 PROVE  u = v
      OBVIOUS
    <2>1. /\ num[u[1]][u[2]] = num[v[1]][v[2]] /\ slot[u[1]] = slot[v[1]]
          /\ u[1] \in S /\ v[1] \in S
      BY <1>3
    <2>2. u[1] = v[1]
      BY <1>0, <2>1
    <2>3. u[2] = v[2]
      BY <1>2, <1>3, <2>1, <2>2
    <2> QED BY <1>3, <2>2, <2>3
  <1>6. place \in Injection(All, (1 .. n) \X T)
    BY <1>4, <1>5 DEF Injection, IsInjective
  <1>7. IsFiniteSet(1 .. n) /\ Cardinality(1 .. n) = n
    <2>1. /\ IsFiniteSet(1 .. n)
          /\ Cardinality(1 .. n) = IF 1 > n THEN 0 ELSE n - 1 + 1
      <3>1. 1 \in Int /\ n \in Int
        OBVIOUS
      <3> QED BY <3>1, FS_Interval, Zenon
    <2> QED BY <2>1
  <1>8. /\ IsFiniteSet((1 .. n) \X T)
        /\ Cardinality((1 .. n) \X T) = Cardinality(1 .. n) * Cardinality(T)
    BY <1>7, FS_Product
  <1>9. Cardinality(All) =< Cardinality((1 .. n) \X T)
    BY <1>6, <1>8, FS_Injection
  <1> QED BY <1>7, <1>8, <1>9 DEF All

-----------------------------------------------------------------------------
(* One process.                                                            *)

\* A window that ends after now holds no more than the one that ends now.
LEMMA WindowEver ==
    ASSUME GateInv, NEW b \in Budgets, Limit[b] > 0, NEW t \in Nat
    PROVE  Cardinality(Recorded(stamp[b], t, Window[b])) =< Limit[b]
PROOF
  <1>1. GateTypeOK /\ now \in Nat /\ BudgetWindow
    BY DEF GateInv, GateTypeOK
  <1>2. CASE t =< now
    <2>1. t \in 0 .. now
      BY <1>1, <1>2
    <2> QED BY <1>1, <2>1 DEF BudgetWindow, UnitsIn
  <1>3. CASE t > now
    <2>1. stamp[b] \in [Callers -> Nat \cup {-1}] /\ Window[b] \in Nat
          /\ \A c \in Callers : stamp[b][c] =< now
      <3>1. stamp \in [Budgets -> [Callers -> Nat \cup {-1}]]
        BY <1>1 DEF GateTypeOK, Times
      <3>2. ClockInv
        BY DEF GateInv
      <3> QED BY <3>1, <3>2 DEF ClockInv
    <2>2. UnitsIn(b, t) \subseteq UnitsIn(b, now)
      BY <1>1, <1>3, <2>1 DEF UnitsIn, Recorded
    <2>3. IsFiniteSet(UnitsIn(b, now)) /\ Cardinality(UnitsIn(b, now)) \in Nat
      BY <1>1, UnitsFinite
    <2>4. Cardinality(UnitsIn(b, t)) =< Cardinality(UnitsIn(b, now))
      BY <2>2, <2>3, FS_Subset
    <2>5. Cardinality(UnitsIn(b, now)) =< Limit[b]
      <3>1. now \in 0 .. now
        BY <1>1
      <3> QED BY <1>1, <3>1 DEF BudgetWindow
    <2>6. Cardinality(UnitsIn(b, t)) \in Nat
      BY <1>1, UnitsFinite
    <2>7. Limit[b] \in Nat
      OBVIOUS
    <2> QED BY <2>3, <2>4, <2>5, <2>6, <2>7 DEF UnitsIn
  <1> QED BY <1>1, <1>2, <1>3

\* A process that runs keeps to its budgets and to the floor.
LEMMA RunningRun == GateInv => RunInv(Run)
PROOF
  <1> SUFFICES ASSUME GateInv PROVE RunInv(Run)
    OBVIOUS
  <1>1. /\ stamp \in [Budgets -> [Callers -> Times]] /\ FloorBetweenFetches
        /\ startedAt \in [Callers -> Times] /\ endedAt \in [Callers -> Times]
    BY DEF GateInv, GateTypeOK
  <1>2. /\ Run.stamp = stamp /\ Run.startedAt = startedAt /\ Run.endedAt = endedAt
    BY DEF Run
  <1>3. SpacedOut(Run)
    BY <1>1, <1>2 DEF SpacedOut, FloorBetweenFetches
  <1>4. \A b \in Budgets : Limit[b] > 0 =>
           \A t \in Nat :
              Cardinality(Recorded(Run.stamp[b], t, Window[b])) =< Limit[b]
    BY <1>2, WindowEver
  <1>5. Run \in Runs
    BY <1>1 DEF Run, Runs
  <1> QED BY <1>3, <1>4, <1>5 DEF RunInv

\* A step of the running process is one of the gate, or leaves it alone.
LEMMA ServingIsGateStep ==
    ASSUME \/ \E r \in Callers : Accept(r) \/ Serve(r) \/ Fetch(r) \/ Leave(r)
           \/ Enter \/ Elapse \/ (\E b \in Budgets : Health(b)) \/ Signal
    PROVE  [GateNext]_gateVars /\ UNCHANGED <<births, past>> /\ (Running' <=> Running)
PROOF
  <1>1. ASSUME NEW r \in Callers, Accept(r) \/ Serve(r)
        PROVE  [ServerNext]_serverVars /\ UNCHANGED <<births, past>>
               /\ (Running' <=> Running)
    BY <1>1 DEF Accept, Serve, ServerNext, lifeVars, Running
  <1>2. ASSUME \/ \E r \in Callers : Fetch(r) \/ Leave(r)
               \/ Enter \/ Elapse \/ (\E b \in Budgets : Health(b))
        PROVE  GateNext /\ UNCHANGED <<births, past>> /\ (Running' <=> Running)
    BY <1>2 DEF Fetch, Leave, Enter, Elapse, Health, GateNext, lifeVars, Running
  <1>3. ASSUME Signal
        PROVE  UNCHANGED <<gateVars, births, past>> /\ (Running' <=> Running)
    BY <1>3 DEF Signal, serverVars, Running
  <1> QED BY <1>1, <1>2, <1>3, ServerStepIsGateStep

-----------------------------------------------------------------------------
(* The invariant.                                                          *)

\* The processes, by number: the last is the one that runs or ran last.
LEMMA Ordered ==
    ASSUME TimeInv
    PROVE  /\ Len(births) \in DOMAIN births /\ DOMAIN births = 1 .. Len(births)
           /\ Len(past) = Len(births) - 1 /\ DOMAIN past = 1 .. Len(past)
           /\ RunOf(Len(births)) = Run
           /\ \A k \in DOMAIN births : k # Len(births) => RunOf(k) = past[k]
PROOF
  <1>1. /\ births \in Seq(0 .. now) /\ past \in Seq(Runs)
        /\ Len(births) = Len(past) + 1
    BY DEF TimeInv
  <1> QED BY <1>1 DEF RunOf

\* A step that records units now and no others, and fetches, keeps the times.
LEMMA TimesKept ==
    ASSUME TimeInv, now \in Nat, now' \in Nat, now' >= now,
           UNCHANGED <<births, past>>,
           stamp \in [Budgets -> [Callers -> Times]],
           \A b \in Budgets, c \in Callers : stamp'[b][c] \in {stamp[b][c], now}
    PROVE  TimeInv'
PROOF
  <1>1. /\ births' \in Seq(0 .. now') /\ past' \in Seq(Runs)
        /\ Len(births') = Len(past') + 1
    <2>1. births \in Seq(0 .. now) /\ past \in Seq(Runs)
          /\ Len(births) = Len(past) + 1 /\ 0 .. now \subseteq 0 .. now'
      BY DEF TimeInv
    <2> QED BY <2>1
  <1>2. \A i, j \in DOMAIN births' : i =< j => births'[i] =< births'[j]
    BY DEF TimeInv
  <1>3. ASSUME NEW k \in DOMAIN births, NEW b \in Budgets, NEW c \in Callers,
               RunOf(k)'.stamp[b][c] # Never
        PROVE  /\ births[k] =< RunOf(k)'.stamp[b][c]
               /\ k < Len(births) => RunOf(k)'.stamp[b][c] =< births[k + 1]
    <2>1. CASE k # Len(births)
      <3>1. k \in DOMAIN past
        BY <2>1, Ordered
      <3>2. RunOf(k)' = RunOf(k)
        BY <3>1 DEF RunOf
      <3> QED BY <1>3, <3>2 DEF TimeInv
    <2>2. CASE k = Len(births)
      <3>1. k \notin DOMAIN past
        BY <2>2, Ordered
      <3>2. RunOf(k)'.stamp = stamp' /\ RunOf(k).stamp = stamp
        BY <3>1 DEF RunOf, Run
      <3>3. births[k] \in 0 .. now
        BY DEF TimeInv
      <3>4. CASE stamp'[b][c] = now
        BY <2>2, <3>2, <3>3, <3>4
      <3>5. CASE stamp'[b][c] = stamp[b][c]
        BY <1>3, <2>2, <3>2, <3>5 DEF TimeInv
      <3> QED BY <3>4, <3>5
    <2> QED BY <2>1, <2>2
  <1> QED BY <1>1, <1>2, <1>3 DEF TimeInv

\* What holds of the current process and of the earlier ones holds of all.
LEMMA AllRuns ==
    TimeInv /\ RunInv(Run) /\ (\A k \in DOMAIN past : RunInv(past[k]))
    => \A k \in DOMAIN births : RunInv(RunOf(k))
PROOF
  BY Ordered DEF RunOf

LEMMA LifeInitial == LifeInit => LifeInv
PROOF
  <1> SUFFICES ASSUME LifeInit PROVE LifeInv
    OBVIOUS
  <1>1. GateInv /\ now = 0
    BY FreshEstablishes DEF LifeInit, ServerInit, GateInit
  <1>2. births = <<0>> /\ past = <<>>
    BY DEF LifeInit
  <1>3. \A b \in Budgets, c \in Callers : stamp[b][c] = Never
    BY DEF LifeInit, ServerInit, GateInit, FreshGate
  <1>4. TimeInv
    <2>1. /\ births \in Seq(0 .. now) /\ past \in Seq(Runs)
          /\ Len(births) = 1 /\ Len(past) = 0
      BY <1>1, <1>2
    <2>2. DOMAIN births = {1} /\ births[1] = 0
      BY <1>2
    <2>3. RunOf(1).stamp = stamp
      BY <1>2 DEF RunOf, Run
    <2> QED BY <1>3, <2>1, <2>2, <2>3 DEF TimeInv
  <1>5. \A k \in DOMAIN births : RunInv(RunOf(k))
    <2>1. DOMAIN past = {}
      BY <1>2
    <2> QED BY <1>1, <1>4, <2>1, RunningRun, AllRuns
  <1> QED BY <1>1, <1>3, <1>4, <1>5 DEF LifeInv

\* The process that runs goes on.
LEMMA ServingStep ==
    ASSUME LifeInv, Running, [GateNext]_gateVars, UNCHANGED <<births, past>>
    PROVE  LifeInv'
PROOF
  <1>1. GateInv /\ GateInv' /\ TimeInv
    BY GateInvStep DEF LifeInv
  <1>2. now \in Nat /\ now' \in Nat /\ stamp \in [Budgets -> [Callers -> Times]]
    BY <1>1 DEF GateInv, GateTypeOK
  <1>3. /\ now' >= now
        /\ \A b \in Budgets, c \in Callers : stamp'[b][c] \in {stamp[b][c], now}
    <2>1. now' = now \/ now' = now + 1
      BY DEF GateNext, HolderStep, gateVars, Call, Lock, Available, Refuse, Spend,
             Sleep, Begin, EndFetch, Cancel, Remaining, Tick
    <2>2. CASE UNCHANGED stamp
      BY <1>2, <2>1, <2>2
    <2>3. ASSUME NEW c \in Callers, NEW b \in Budgets, Spend(c, b), Limit[b] > 0
          PROVE  \A d \in Budgets, a \in Callers : stamp'[d][a] \in {stamp[d][a], now}
      <3>1. /\ stamp'[b] = [stamp[b] EXCEPT ![c] = now]
            /\ \A d \in Budgets : d # b => stamp'[d] = stamp[d]
        BY <1>1, <2>3, SpendEffect
      <3> QED BY <1>2, <3>1
    <2> QED BY <1>1, <1>2, <2>1, <2>2, <2>3, StampStep
  <1>4. TimeInv'
    BY <1>1, <1>2, <1>3, TimesKept
  <1>5. \A k \in DOMAIN births' : RunInv(RunOf(k))'
    <2>1. RunInv(Run)'
      BY <1>1, RunningRun, PTL
    <2>2. \A k \in DOMAIN past : RunInv(past[k])
      BY <1>1, Ordered DEF LifeInv, RunOf
    <2>3. (\A k \in DOMAIN past : RunInv(past[k]))'
      BY <2>2
    <2>4. (\A k \in DOMAIN births : RunInv(RunOf(k)))'
      BY <1>4, <2>1, <2>3, AllRuns, PTL
    <2> QED BY <2>4
  <1>6. \A b \in Budgets, c \in Callers : stamp'[b][c] =< now'
    BY <1>1 DEF GateInv, ClockInv
  <1> QED BY <1>1, <1>2, <1>4, <1>5, <1>6 DEF LifeInv

\* Nothing is recorded while the process stops, or while none runs.
LEMMA QuietStep ==
    ASSUME LifeInv, ~Running', now' \in {now, now + 1},
           UNCHANGED <<stamp, startedAt, endedAt, births, past>>
    PROVE  LifeInv'
PROOF
  <1>1. TimeInv /\ now \in Nat /\ \A b \in Budgets, c \in Callers : stamp[b][c] =< now
    BY DEF LifeInv
  <1>2. Run' = Run /\ \A k : RunOf(k)' = RunOf(k)
    BY DEF Run, RunOf
  <1>3. \A k \in DOMAIN births' : RunInv(RunOf(k))'
    <2>1. \A k \in DOMAIN births : RunInv(RunOf(k)')
      BY <1>2 DEF LifeInv
    <2> QED BY <2>1
  <1>4. /\ now' \in Nat
        /\ \A b \in Budgets, c \in Callers : stamp'[b][c] =< now'
    <2>1. stamp \in [Budgets -> [Callers -> Times]]
      <3>1. RunOf(Len(births)) \in Runs
        BY <1>1, Ordered DEF LifeInv, RunInv
      <3>2. Run \in Runs
        BY <1>1, <3>1, Ordered
      <3> QED BY <3>2 DEF Run, Runs
    <2> QED BY <1>1, <2>1 DEF Times
  <1>5. TimeInv'
    <2>1. births \in Seq(0 .. now')
      <3>1. births \in Seq(0 .. now) /\ now =< now'
        BY <1>1 DEF TimeInv
      <3>3. 0 .. now \subseteq 0 .. now'
        BY <1>1, <1>4, <3>1
      <3> QED BY <3>1, <3>3, ElementsOf
    <2> QED BY <1>1, <1>2, <2>1 DEF TimeInv
  <1> QED BY <1>3, <1>4, <1>5 DEF LifeInv

\* A new process has spent nothing; the one before it becomes history.
LEMMA RestartStep == ASSUME LifeInv, Start PROVE LifeInv'
PROOF
  <1>1. /\ TimeInv /\ now \in Nat /\ now' = now
        /\ \A b \in Budgets, c \in Callers : stamp[b][c] =< now
    BY DEF LifeInv, Start
  <1>2. /\ births' = Append(births, now) /\ past' = Append(past, Run)
    BY DEF Start
  <1>3. GateInv'
    <2>1. (now \in Nat /\ FreshGate)'
      BY <1>1 DEF Start, FreshGate
    <2> QED BY <2>1, FreshEstablishes, PTL
  <1>4. \A b \in Budgets, c \in Callers : stamp'[b][c] = Never
    BY DEF Start, FreshGate
  <1> DEFINE n == Len(births)
  <1>5. /\ births \in Seq(0 .. now) /\ past \in Seq(Runs) /\ n = Len(past) + 1
        /\ \A i, j \in DOMAIN births : i =< j => births[i] =< births[j]
    BY <1>1 DEF TimeInv
  <1>6. Run \in Runs /\ RunInv(Run) /\ \A k \in DOMAIN past : RunInv(past[k])
    <2>1. RunInv(RunOf(n)) /\ RunOf(n) = Run
      BY <1>1, Ordered DEF LifeInv
    <2>2. \A k \in DOMAIN past : RunInv(past[k])
      BY <1>1, Ordered DEF LifeInv, RunOf
    <2> QED BY <2>1, <2>2 DEF RunInv
  <1>7. /\ n \in Nat /\ n >= 1 /\ DOMAIN births = 1 .. n /\ DOMAIN past = 1 .. (n - 1)
        /\ births' \in Seq(0 .. now) /\ past' \in Seq(Runs)
        /\ Len(births') = n + 1 /\ Len(past') = n
        /\ DOMAIN births' = 1 .. (n + 1) /\ DOMAIN past' = 1 .. n
        /\ births'[n + 1] = now /\ past'[n] = Run
        /\ \A k \in 1 .. n : births'[k] = births[k]
        /\ \A k \in 1 .. (n - 1) : past'[k] = past[k]
    BY <1>1, <1>2, <1>5, <1>6
  <1> HIDE DEF n
  <1>8. \A i, j \in DOMAIN births' : i =< j => births'[i] =< births'[j]
    <2> SUFFICES ASSUME NEW i \in DOMAIN births', NEW j \in DOMAIN births', i =< j
                 PROVE  births'[i] =< births'[j]
      OBVIOUS
    <2>1. CASE j = n + 1
      <3>1. births'[i] \in 0 .. now
        <4>1. births' \in Seq(0 .. now) /\ i \in 1 .. Len(births')
          BY <1>7
        <4> QED BY <4>1, ElementsOf
      <3> QED BY <1>7, <2>1, <3>1
    <2>2. CASE j # n + 1
      <3>1. i \in 1 .. n /\ j \in 1 .. n
        BY <1>7, <2>2
      <3> QED BY <1>5, <1>7, <3>1
    <2> QED BY <2>1, <2>2
  <1>9. ASSUME NEW k \in 1 .. (n + 1), NEW b \in Budgets, NEW c \in Callers,
               RunOf(k)'.stamp[b][c] # Never
        PROVE  /\ births'[k] =< RunOf(k)'.stamp[b][c]
               /\ k < n + 1 => RunOf(k)'.stamp[b][c] =< births'[k + 1]
    <2>1. CASE k = n + 1
      <3>1. RunOf(k)'.stamp = stamp'
        BY <1>7, <2>1 DEF RunOf, Run
      <3> QED BY <1>4, <1>9, <3>1
    <2>2. CASE k = n
      <3>1. RunOf(k)' = Run /\ RunOf(k) = Run
        BY <1>7, <2>2 DEF RunOf
      <3>2. RunOf(k)'.stamp = stamp /\ RunOf(k).stamp = stamp
        BY <3>1 DEF Run
      <3>3. births[k] =< stamp[b][c]
        <4>1. k \in DOMAIN births /\ RunOf(k).stamp[b][c] # Never
          BY <1>7, <1>9, <2>2, <3>2
        <4>2. births[k] =< RunOf(k).stamp[b][c]
          BY <1>1, <4>1 DEF TimeInv
        <4> QED BY <3>2, <4>2
      <3> QED BY <1>1, <1>7, <2>2, <3>2, <3>3
    <2>3. CASE k < n
      <3>1. RunOf(k)' = past[k] /\ RunOf(k) = past[k]
        BY <1>7, <2>3 DEF RunOf
      <3>2. k \in DOMAIN births /\ births'[k] = births[k] /\ births'[k + 1] = births[k + 1]
        BY <1>7, <2>3
      <3>3. /\ births[k] =< RunOf(k).stamp[b][c]
            /\ k < n => RunOf(k).stamp[b][c] =< births[k + 1]
        BY <1>1, <1>9, <3>1, <3>2 DEF TimeInv, n
      <3> QED BY <2>3, <3>1, <3>2, <3>3
    <2> QED BY <1>7, <2>1, <2>2, <2>3
  <1>10. TimeInv'
    BY <1>1, <1>7, <1>8, <1>9 DEF TimeInv
  <1>11. (\A k \in DOMAIN births : RunInv(RunOf(k)))'
    <2>1. RunInv(Run)'
      BY <1>3, RunningRun, PTL
    <2>2. (\A k \in DOMAIN past : RunInv(past[k]))'
      BY <1>6, <1>7
    <2> QED BY <1>10, <2>1, <2>2, AllRuns, PTL
  <1>12. \A b \in Budgets, c \in Callers : stamp'[b][c] =< now'
    BY <1>1, <1>4
  <1> QED BY <1>1, <1>3, <1>10, <1>11, <1>12 DEF LifeInv

LEMMA LifeInvStep == LifeInv /\ [LifeNext]_allVars => LifeInv'
PROOF
  <1> SUFFICES ASSUME LifeInv, [LifeNext]_allVars PROVE LifeInv'
    OBVIOUS
  <1>0. now \in Nat
    BY DEF LifeInv
  <1>1. ASSUME Stop PROVE LifeInv'
    BY <1>1, QuietStep DEF Stop, Running
  <1>2. CASE Start
    BY <1>2, RestartStep
  <1>3. ASSUME NEW r \in Callers,
               Accept(r) \/ Serve(r) \/ Fetch(r) \/ Leave(r)
        PROVE  LifeInv'
    <2>1. Running
      BY <1>3 DEF Accept, Serve, Fetch, Leave, Running
    <2> QED BY <1>3, <2>1, ServingIsGateStep, ServingStep
  <1>4. ASSUME Enter \/ (\E b \in Budgets : Health(b)) \/ Signal
        PROVE  LifeInv'
    <2>1. Running
      BY <1>4 DEF Enter, Health, Signal, Running
    <2> QED BY <1>4, <2>1, ServingIsGateStep, ServingStep
  <1>5. CASE Elapse
    <2>1. CASE Running
      BY <1>5, <2>1, ServingIsGateStep, ServingStep
    <2>2. CASE ~Running
      BY <1>5, <2>2, QuietStep DEF Elapse, Tick, lifeVars, Running
    <2> QED BY <2>1, <2>2
  <1>6. CASE UNCHANGED allVars
    <2>1. CASE Running
      BY <1>6, <2>1, ServingStep DEF allVars, serverVars, lifeVars
    <2>2. CASE ~Running
      BY <1>6, <2>2, QuietStep
         DEF allVars, serverVars, gateVars, lifeVars, Running
    <2> QED BY <2>1, <2>2
  <1> QED BY <1>1, <1>2, <1>3, <1>4, <1>5, <1>6
          DEF LifeNext, Drained, GraceOver, Crash

-----------------------------------------------------------------------------
(* What follows from it.                                                   *)

\* LifeInv holds in every reachable state, for any requests, limits, windows,
\* grace period and number of stops.
THEOREM LifeInvariant == LifeSpec => []LifeInv
PROOF
  BY LifeInitial, LifeInvStep, PTL DEF LifeSpec

\* Of two processes that spent in one window the later one started in it.
LEMMA LaterStartsIn ==
    ASSUME LifeInv, NEW b \in Budgets, NEW t \in 0 .. now,
           NEW j \in DOMAIN births, NEW k \in DOMAIN births, j < k,
           Recorded(RunOf(j).stamp[b], t, Window[b]) # {},
           Recorded(RunOf(k).stamp[b], t, Window[b]) # {}
    PROVE  k \in StartsIn(t, Window[b])
PROOF
  <1>1. /\ TimeInv /\ now \in Nat /\ births \in Seq(0 .. now)
        /\ DOMAIN births = 1 .. Len(births)
        /\ RunOf(j).stamp[b] \in [Callers -> Times]
        /\ RunOf(k).stamp[b] \in [Callers -> Times]
    <2>1. RunOf(j) \in Runs /\ RunOf(k) \in Runs /\ TimeInv
      BY DEF LifeInv, RunInv
    <2> QED BY <2>1, Ordered DEF Runs, LifeInv, TimeInv
  <1>2. PICK c \in Callers : c \in Recorded(RunOf(j).stamp[b], t, Window[b])
    BY <1>1 DEF Recorded
  <1>3. PICK d \in Callers : d \in Recorded(RunOf(k).stamp[b], t, Window[b])
    BY <1>1 DEF Recorded
  <1> DEFINE sj == RunOf(j).stamp[b][c]
             sk == RunOf(k).stamp[b][d]
  <1>4. /\ sj \in Nat /\ sj > t - Window[b] /\ sj # Never
        /\ sk \in Nat /\ sk =< t /\ sk # Never
    BY <1>1, <1>2, <1>3 DEF Recorded, Times
  <1>5. sj =< births[j + 1] /\ births[k] =< sk
    BY <1>1, <1>4 DEF TimeInv
  <1> HIDE DEF sj, sk
  <1>6. births[j + 1] =< births[k]
    <2>1. j + 1 \in DOMAIN births /\ j + 1 =< k
      BY <1>1
    <2> QED BY <1>1, <2>1 DEF TimeInv
  <1>7. births[j + 1] \in Nat /\ births[k] \in Nat /\ k > 1 /\ t \in Nat
    BY <1>1
  <1> QED BY <1>4, <1>5, <1>6, <1>7 DEF StartsIn

\* Every restart inside a rolling window costs at most one more Limit: the
\* processes that spent in it are those that started in it and at most one.
THEOREM RestartCostsOneLimit == LifeSpec => []BudgetPerLife
PROOF
  <1>1. ASSUME LifeInv PROVE BudgetPerLife
    <2> SUFFICES ASSUME NEW b \in Budgets, Limit[b] > 0, NEW t \in 0 .. now
                 PROVE  Cardinality(UnitsOfAll(b, t))
                          =< Limit[b] * (1 + Cardinality(StartsIn(t, Window[b])))
      BY DEF BudgetPerLife
    <2> DEFINE S == {k \in DOMAIN births :
                        Recorded(RunOf(k).stamp[b], t, Window[b]) # {}}
               F == [k \in S |-> Recorded(RunOf(k).stamp[b], t, Window[b])]
               late == StartsIn(t, Window[b])
               T == late \cup {0}
               slot == [k \in S |-> IF k \in late THEN k ELSE 0]
    <2>0. /\ t \in Nat /\ Limit[b] \in Nat /\ late \subseteq DOMAIN births
          /\ 0 \notin DOMAIN births /\ IsFiniteSet(DOMAIN births)
      <3>1. now \in Nat /\ TimeInv
        BY <1>1 DEF LifeInv
      <3>2. DOMAIN births = 1 .. Len(births) /\ Len(births) \in Int
        BY <3>1, Ordered DEF TimeInv
      <3>3. 1 \in Int
        OBVIOUS
      <3>4. IsFiniteSet(1 .. Len(births))
        BY <3>2, <3>3, FS_Interval, Zenon
      <3> QED BY <3>1, <3>2, <3>4 DEF StartsIn
    <2>1. F \in [S -> AtMost(Callers, Limit[b])]
      <3> SUFFICES ASSUME NEW k \in S
                   PROVE  F[k] \in AtMost(Callers, Limit[b])
        OBVIOUS
      <3>1. RunInv(RunOf(k)) /\ F[k] = Recorded(RunOf(k).stamp[b], t, Window[b])
        BY <1>1 DEF LifeInv
      <3> HIDE DEF F, S, T, late, slot
      <3>2. F[k] \subseteq Callers
        BY <3>1 DEF RunInv, Runs, Recorded
      <3>3. Cardinality(F[k]) =< Limit[b]
        BY <2>0, <3>1 DEF RunInv
      <3> QED BY <3>2, <3>3, FS_Subset DEF AtMost
    <2>2. \A j, k \in S : slot[j] = slot[k] => j = k
      <3>1. \A j, k \in S : j < k => k \in late
        BY <1>1, LaterStartsIn
      <3>2. \A j \in S : j \in Nat /\ (slot[j] = IF j \in late THEN j ELSE 0)
        <4>1. \A j \in DOMAIN births : j \in Nat
          <5>1. TimeInv
            BY <1>1 DEF LifeInv
          <5> QED BY <5>1, Ordered
        <4> QED BY <4>1
      <3> HIDE DEF S, slot, late
      <3> QED BY <2>0, <3>1, <3>2
    <2>3. slot \in [S -> T]
      OBVIOUS
    <2>4. IsFiniteSet(T) /\ Cardinality(T) = Cardinality(late) + 1
      <3>1. IsFiniteSet(late) /\ 0 \notin late
        BY <2>0, FS_Subset
      <3> HIDE DEF late
      <3> QED BY <3>1, FS_AddElement
    <2>5. UnitsOfAll(b, t) = Pairs(F, S, Callers)
      BY DEF UnitsOfAll, Pairs
    <2> HIDE DEF F, S, T, slot
    <2>6. Cardinality(Pairs(F, S, Callers)) =< Limit[b] * Cardinality(T)
      <3>1. slot \in Injection(S, T)
        BY <2>2, <2>3 DEF Injection, IsInjective
      <3>2. Limit[b] \in Nat /\ IsFiniteSet(T)
        BY <2>0, <2>4
      <3> QED BY <2>1, <3>1, <3>2, CountAll
    <2>7. Cardinality(late) \in Nat
      BY <2>0, FS_Subset, FS_CardinalityType
    <2>8. Cardinality(T) = 1 + Cardinality(late)
      BY <2>4, <2>7
    <2> QED BY <2>5, <2>6, <2>8
  <1>2. LifeInv => BudgetPerLife
    BY <1>1
  <1> QED BY <1>2, LifeInvariant, PTL

\* The fetches of one process are serialised and apart by the floor, however
\* the processes before it stopped.
THEOREM FloorSurvivesRestarts == LifeSpec => []FloorPerLife
PROOF
  <1>1. LifeInv => FloorPerLife
    BY DEF LifeInv, RunInv, FloorPerLife
  <1> QED BY <1>1, LifeInvariant, PTL
=============================================================================
