----------------------------- MODULE FetchGate -----------------------------
(***************************************************************************)
(* Server.fetchCards, the only path from the HTTP handlers to LinkedIn,    *)
(* with the two cache.Budget values it spends.                             *)
(*                                                                         *)
(* Every request that needs a fetch runs fetchCards in its own goroutine.  *)
(* Under the mutex gate it asks both budgets whether a unit is available,  *)
(* spends one unit of each, sleeps until MinBetweenProfiles has passed     *)
(* since the last fetch ended, fetches, and stamps lastFetch.  Each budget *)
(* has a mutex of its own, held for one call, so each call on a budget is  *)
(* one step and the clock may advance between any two steps.               *)
(*                                                                         *)
(* A caller is one request, and a budget unit is named by the caller that  *)
(* spent it.  stamp, startedAt, endedAt and outcome are history: stamp     *)
(* remembers when a unit was spent after the budget has pruned it.         *)
(***************************************************************************)
EXTENDS RollingWindow

CONSTANTS
    Callers,    \* the requests that may call fetchCards
    NoCaller,   \* the mutex is free
    Limit,      \* Limit[b]: units of budget b per window, 0 disables it
    Window,     \* Window[b]: length of its rolling window, in ticks
    MinGap,     \* cfg.MinBetweenProfiles, in ticks
    Horizon,    \* bound: the clock stops here, sleepers apart
    Flaky       \* the callers whose client may disconnect

Budgets == {"hourly", "daily"}

\* The time.Time zero value of lastFetch, and a history entry not yet made.
Never == -1

ASSUME CallersAssumption == IsFiniteSet(Callers) /\ NoCaller \notin Callers
ASSUME LimitAssumption   == Limit \in [Budgets -> Nat]
ASSUME WindowAssumption  == Window \in [Budgets -> Nat \ {0}]
ASSUME ClockAssumption   == MinGap \in Nat /\ Horizon \in Nat
ASSUME FlakyAssumption   == Flaky \subseteq Callers

VARIABLES
    now,        \* the clock
    phase,      \* where each caller is in fetchCards
    holder,     \* the goroutine that holds gate
    cancelled,  \* the callers whose request context is done
    hits,       \* hits[b]: the units budget b still remembers
    lastFetch,  \* Server.lastFetch
    stamp,      \* history: when each caller spent its unit of each budget
    startedAt,  \* history: when each caller's fetch reached LinkedIn
    endedAt,    \* history: when that fetch returned
    outcome     \* history: what fetchCards returned to each caller

gateVars == <<now, phase, holder, cancelled, hits, lastFetch, stamp,
              startedAt, endedAt, outcome>>

Times == Nat \cup {Never}

\* The phases between gate.Lock and gate.Unlock.
InGate == {"checkHourly", "checkDaily", "spendHourly", "spendDaily",
           "pace", "sleeping", "fetching"}

Phases == {"out", "queued", "returned"} \cup InGate

\* What fetchCards returned: a result, an upstream error, or a refusal by one
\* budget at one time with the wait it announced.
Outcomes == [kind : {"pending", "fetched", "failed", "refused"},
             budget : Budgets, at : Nat, resetIn : Nat]

Pending == [kind |-> "pending", budget |-> "hourly", at |-> 0, resetIn |-> 0]

\* api.New: empty budgets, a free mutex, nobody in fetchCards and no last fetch.
FreshGate ==
    /\ phase = [c \in Callers |-> "out"]
    /\ holder = NoCaller
    /\ cancelled = {}
    /\ hits = [b \in Budgets |-> {}]
    /\ lastFetch = Never
    /\ stamp = [b \in Budgets |-> [c \in Callers |-> Never]]
    /\ startedAt = [c \in Callers |-> Never]
    /\ endedAt = [c \in Callers |-> Never]
    /\ outcome = [c \in Callers |-> Pending]

GateInit == now = 0 /\ FreshGate

-----------------------------------------------------------------------------
(* The two loops over {hourly, daily} unrolled: where a budget is checked, *)
(* where it is spent, and where the loop goes next.                        *)

CheckPhase(b) == IF b = "hourly" THEN "checkHourly" ELSE "checkDaily"
AfterCheck(b) == IF b = "hourly" THEN "checkDaily"  ELSE "spendHourly"
SpendPhase(b) == IF b = "hourly" THEN "spendHourly" ELSE "spendDaily"
\* Mutant of AfterSpend: the loop stops after the first budget.
AfterFirstSpend(b) == "pace"
AfterSpend(b) == IF b = "hourly" THEN "spendDaily"  ELSE "pace"

\* Budget.prune.
Kept(b) == Live(hits[b], stamp[b], now, Window[b])

\* Budget.Available: a disabled budget never refuses.
HasUnit(b) == Limit[b] = 0 \/ Cardinality(Kept(b)) < Limit[b]

\* Mutant of TooSoon: the floor is one tick short.
NearlyTooSoon == lastFetch # Never /\ now - lastFetch + 1 < MinGap

\* fetchCards must sleep: lastFetch is set and less than MinGap ago.
TooSoon == lastFetch # Never /\ now - lastFetch < MinGap

GoTo(c, p) == phase' = [phase EXCEPT ![c] = p]

-----------------------------------------------------------------------------
\* A handler calls fetchCards and blocks in gate.Lock.
Call(c) ==
    /\ phase[c] = "out"
    /\ GoTo(c, "queued")
    /\ UNCHANGED <<now, holder, cancelled, hits, lastFetch, stamp, startedAt,
                   endedAt, outcome>>

\* Mutant of Lock: fetchCards without the mutex.
LockNothing(c) ==
    /\ phase[c] = "queued"
    /\ holder' = c
    /\ GoTo(c, "checkHourly")
    /\ UNCHANGED <<now, cancelled, hits, lastFetch, stamp, startedAt, endedAt,
                   outcome>>

\* gate.Lock returns.  The context is not looked at: a caller that has gone
\* away while it waited takes its turn all the same.
Lock(c) ==
    /\ phase[c] = "queued"
    /\ holder = NoCaller
    /\ holder' = c
    /\ GoTo(c, "checkHourly")
    /\ UNCHANGED <<now, cancelled, hits, lastFetch, stamp, startedAt, endedAt,
                   outcome>>

\* budget.Available answers true; it has pruned on the way.
Available(c, b) ==
    /\ phase[c] = CheckPhase(b)
    /\ HasUnit(b)
    /\ hits' = [hits EXCEPT ![b] = Kept(b)]
    /\ GoTo(c, AfterCheck(b))
    /\ UNCHANGED <<now, holder, cancelled, lastFetch, stamp, startedAt, endedAt,
                   outcome>>

\* Mutant of Refuse: the early return forgets to unlock.
RefuseHeld(c, b) ==
    /\ phase[c] = CheckPhase(b)
    /\ ~HasUnit(b)
    /\ hits' = [hits EXCEPT ![b] = Kept(b)]
    /\ outcome' = [outcome EXCEPT ![c] =
          [kind |-> "refused", budget |-> b, at |-> now,
           resetIn |-> ResetIn(Kept(b), stamp[b], now, Window[b])]]
    /\ GoTo(c, "returned")
    /\ UNCHANGED <<now, holder, cancelled, lastFetch, stamp, startedAt, endedAt>>

\* budget.Available answers false: fetchCards returns ErrBudgetExhausted and
\* the deferred Unlock runs.
Refuse(c, b) ==
    /\ phase[c] = CheckPhase(b)
    /\ ~HasUnit(b)
    /\ hits' = [hits EXCEPT ![b] = Kept(b)]
    /\ outcome' = [outcome EXCEPT ![c] =
          [kind |-> "refused", budget |-> b, at |-> now,
           resetIn |-> ResetIn(Kept(b), stamp[b], now, Window[b])]]
    /\ holder' = NoCaller
    /\ GoTo(c, "returned")
    /\ UNCHANGED <<now, cancelled, lastFetch, stamp, startedAt, endedAt>>

\* budget.Spend: prune, then append the current time.
Spend(c, b) ==
    /\ phase[c] = SpendPhase(b)
    /\ IF Limit[b] = 0
       THEN UNCHANGED <<hits, stamp>>
       ELSE /\ hits' = [hits EXCEPT ![b] = Kept(b) \cup {c}]
            /\ stamp' = [stamp EXCEPT ![b][c] = now]
    /\ GoTo(c, AfterSpend(b))
    /\ UNCHANGED <<now, holder, cancelled, lastFetch, startedAt, endedAt,
                   outcome>>

\* s.sleep(gap): the floor between fetches has not passed.  Nothing wakes the
\* sleeper early, a done context included.
Sleep(c) ==
    /\ phase[c] = "pace"
    /\ TooSoon
    /\ GoTo(c, "sleeping")
    /\ UNCHANGED <<now, holder, cancelled, hits, lastFetch, stamp, startedAt,
                   endedAt, outcome>>

\* FetchProfile is called: at once when the floor has passed, else when the
\* sleep is over, at lastFetch + MinGap or later.  With the context already
\* done the HTTP client returns its error without sending anything.
Begin(c) ==
    /\ phase[c] \in {"pace", "sleeping"}
    /\ ~TooSoon
    /\ startedAt' = IF c \in cancelled
                    THEN startedAt
                    ELSE [startedAt EXCEPT ![c] = now]
    /\ GoTo(c, "fetching")
    /\ UNCHANGED <<now, holder, cancelled, hits, lastFetch, stamp, endedAt,
                   outcome>>

\* Mutant of EndFetch: lastFetch is stamped on success only.
EndFetchUnstamped(c, kind) ==
    /\ phase[c] = "fetching"
    /\ kind = "fetched" => startedAt[c] # Never
    /\ lastFetch' = IF kind = "fetched" THEN now ELSE lastFetch
    /\ endedAt' = IF startedAt[c] = Never
                  THEN endedAt
                  ELSE [endedAt EXCEPT ![c] = now]
    /\ outcome' = [outcome EXCEPT ![c] = [Pending EXCEPT !.kind = kind]]
    /\ holder' = NoCaller
    /\ GoTo(c, "returned")
    /\ UNCHANGED <<now, cancelled, hits, stamp, startedAt>>

\* Mutant of EndFetch: the mutex stays locked after a failed fetch.
EndFetchHeld(c, kind) ==
    /\ phase[c] = "fetching"
    /\ kind = "fetched" => startedAt[c] # Never
    /\ lastFetch' = now
    /\ endedAt' = IF startedAt[c] = Never
                  THEN endedAt
                  ELSE [endedAt EXCEPT ![c] = now]
    /\ outcome' = [outcome EXCEPT ![c] = [Pending EXCEPT !.kind = kind]]
    /\ holder' = IF kind = "failed" THEN holder ELSE NoCaller
    /\ GoTo(c, "returned")
    /\ UNCHANGED <<now, cancelled, hits, stamp, startedAt>>

\* FetchProfile returned, with a result or an error: lastFetch is stamped on
\* either and the deferred Unlock runs.
EndFetch(c, kind) ==
    /\ phase[c] = "fetching"
    /\ kind = "fetched" => startedAt[c] # Never
    /\ lastFetch' = now
    /\ endedAt' = IF startedAt[c] = Never
                  THEN endedAt
                  ELSE [endedAt EXCEPT ![c] = now]
    /\ outcome' = [outcome EXCEPT ![c] = [Pending EXCEPT !.kind = kind]]
    /\ holder' = NoCaller
    /\ GoTo(c, "returned")
    /\ UNCHANGED <<now, cancelled, hits, stamp, startedAt>>

\* The client disconnects and net/http cancels the request context.
Cancel(c) ==
    /\ c \in Flaky \ cancelled
    /\ phase[c] \in {"queued"} \cup InGate
    /\ cancelled' = cancelled \cup {c}
    /\ UNCHANGED <<now, phase, holder, hits, lastFetch, stamp, startedAt,
                   endedAt, outcome>>

\* Budget.Remaining, from /health or from the log line of a finished fetch:
\* outside gate, at any time; it prunes.
Remaining(b) ==
    /\ Limit[b] > 0
    /\ Kept(b) # hits[b]
    /\ hits' = [hits EXCEPT ![b] = Kept(b)]
    /\ UNCHANGED <<now, phase, holder, cancelled, lastFetch, stamp, startedAt,
                   endedAt, outcome>>

\* Time passes.  Past the horizon it still does for a sleeper to wake.
Tick ==
    /\ now < Horizon \/ (TooSoon /\ \E c \in Callers : phase[c] = "sleeping")
    /\ now' = now + 1
    /\ UNCHANGED <<phase, holder, cancelled, hits, lastFetch, stamp, startedAt,
                   endedAt, outcome>>

\* One step of the goroutine that holds gate.
HolderStep(c) ==
    \/ \E b \in Budgets : Available(c, b) \/ Refuse(c, b) \/ Spend(c, b)
    \/ Sleep(c)
    \/ Begin(c)
    \/ \E kind \in {"fetched", "failed"} : EndFetch(c, kind)

GateNext ==
    \/ \E c \in Callers : Call(c) \/ Lock(c) \/ HolderStep(c) \/ Cancel(c)
    \/ \E b \in Budgets : Remaining(b)
    \/ Tick

(***************************************************************************)
(* Fairness.  A free mutex with a waiter is taken by some waiter; the      *)
(* goroutine that holds it keeps running, and its fetch ends because the   *)
(* HTTP client has a timeout; the clock advances.  Nothing is assumed of   *)
(* who calls, who disconnects or who reads /health.                        *)
(***************************************************************************)
GateFairness ==
    /\ WF_gateVars(\E c \in Callers : Lock(c))
    /\ \A c \in Callers : WF_gateVars(HolderStep(c))
    /\ WF_gateVars(Tick)

\* What holds of fetchCards without any assumption on scheduling.
GateSafety == GateInit /\ [][GateNext]_gateVars

GateSpec == GateSafety /\ GateFairness

-----------------------------------------------------------------------------
(* Type invariant: the shape of the mutex, the budgets and the history.    *)
GateTypeOK ==
    /\ now \in Nat
    /\ phase \in [Callers -> Phases]
    /\ holder \in Callers \cup {NoCaller}
    /\ cancelled \subseteq Flaky
    /\ hits \in [Budgets -> SUBSET Callers]
    /\ lastFetch \in Times
    /\ stamp \in [Budgets -> [Callers -> Times]]
    /\ startedAt \in [Callers -> Times]
    /\ endedAt \in [Callers -> Times]
    /\ outcome \in [Callers -> Outcomes]

\* The units of budget b spent in the half-open window that ends at t.
UnitsIn(b, t) == Recorded(stamp[b], t, Window[b])

\* No rolling window of any budget, past or present, ever held more than
\* Limit[b] units, whatever the interleaving of callers and of the pruning
\* that /health does between a check and its spend ("the check-then-spend
\* below cannot race", fetchCards).
BudgetWindow ==
    \A b \in Budgets : Limit[b] > 0 =>
        \A t \in 0 .. now : Cardinality(UnitsIn(b, t)) =< Limit[b]

\* Two profile fetches never overlap at LinkedIn and at least MinGap passes
\* between the end of one and the start of the next (fetchCards, gate and
\* lastFetch), also after a failed or an abandoned fetch.
FloorBetweenFetches ==
    \A c, d \in Callers :
        (c # d /\ startedAt[c] # Never /\ startedAt[d] # Never
               /\ startedAt[c] =< startedAt[d])
        => \/ endedAt[c] # Never /\ endedAt[c] + MinGap =< startedAt[d]
           \/ endedAt[d] # Never /\ endedAt[d] + MinGap =< startedAt[c]

\* Every fetch that reached LinkedIn had been charged to every enabled budget
\* before it started, and a caller that was refused, by whichever budget,
\* was charged to none (the two separate loops of fetchCards).
ChargedExactlyWhenAdmitted ==
    \A c \in Callers, b \in Budgets :
        /\ (startedAt[c] # Never /\ Limit[b] > 0)
           => (stamp[b][c] # Never /\ stamp[b][c] =< startedAt[c])
        /\ outcome[c].kind = "refused" => stamp[b][c] = Never

\* The units of b that a refusal at time t knew of and that still count at s.
StillCounted(b, t, s) == {c \in UnitsIn(b, t) : stamp[b][c] > s - Window[b]}

\* The wait a refusal announces is exact for the budget that refused: once it
\* is over that budget has a unit again unless others took it, and one tick
\* earlier it had none (Budget.Available's window - now.Sub(hits[0])).
RetryAfterExact ==
    \A c \in Callers :
        LET o == outcome[c] IN
        o.kind = "refused" =>
            /\ o.resetIn > 0
            /\ Cardinality(StillCounted(o.budget, o.at, o.at + o.resetIn))
                  < Limit[o.budget]
            /\ Cardinality(StillCounted(o.budget, o.at, o.at + o.resetIn - 1))
                  >= Limit[o.budget]

\* Every request that enters fetchCards leaves it, refused, failed or served,
\* however many wait behind the mutex and however long the sleeps are.
EveryCallReturns ==
    \A c \in Callers : (phase[c] = "queued") ~> (phase[c] = "returned")

\* What LinkedIn sees is what MeteredUpstream allows: the gate, the two-pass
\* budget loops and the pacing sleep together implement the one-step promise.
Upstream == INSTANCE MeteredUpstream
ImplementsUpstream == Upstream!UpstreamSpec

-----------------------------------------------------------------------------
(* The inductive invariant behind the safety properties.                   *)

\* Phases in which budget b has said yes and has not been charged yet.
Checked(b) == IF b = "hourly" THEN {"checkDaily", "spendHourly"}
                              ELSE {"spendHourly", "spendDaily"}

\* Phases before c's unit of b is spent, and those after it up to the fetch.
Unspent(b) == {"out", "queued", "checkHourly", "checkDaily", "spendHourly"}
              \cup (IF b = "hourly" THEN {} ELSE {"spendDaily"})
Paid(b)    == {"pace", "sleeping", "fetching"}
              \cup (IF b = "hourly" THEN {"spendDaily"} ELSE {})

\* The mutex is held by exactly the caller that is inside.
MutexInv == \A c \in Callers : phase[c] \in InGate <=> holder = c

\* Nothing is stamped in the future; no fetch ended after lastFetch.
ClockInv ==
    /\ \A c \in Callers : outcome[c].at =< now
    /\ \A b \in Budgets, c \in Callers : stamp[b][c] =< now
    /\ \A c \in Callers : startedAt[c] =< now /\ endedAt[c] =< lastFetch
    /\ lastFetch =< now

\* A budget remembers every unit of the current window, and only units spent.
BudgetInv ==
    \A b \in Budgets :
        /\ UnitsIn(b, now) \subseteq hits[b]
        /\ \A c \in hits[b] : stamp[b][c] # Never

\* What a budget promised the holder is still there when it is spent.
ReservedInv ==
    \A c \in Callers, b \in Budgets :
        (Limit[b] > 0 /\ phase[c] \in Checked(b))
        => Cardinality(UnitsIn(b, now)) < Limit[b]

\* A unit is spent once, after the checks and before the fetch.
ChargeInv ==
    \A c \in Callers, b \in Budgets :
        /\ phase[c] \in Unspent(b) => stamp[b][c] = Never
        /\ (Limit[b] > 0 /\ phase[c] \in Paid(b)) => stamp[b][c] # Never

\* A fetch is in flight only in phase fetching, and ends once it has started.
FlightInv ==
    \A c \in Callers :
        /\ (startedAt[c] # Never /\ endedAt[c] = Never) => phase[c] = "fetching"
        /\ phase[c] \notin {"fetching", "returned"} => startedAt[c] = Never
        /\ phase[c] # "returned" => /\ endedAt[c] = Never
                                    /\ outcome[c].kind # "refused"
        /\ endedAt[c] # Never => startedAt[c] # Never

\* The conjunction of the above with what it is there to establish.  It is
\* inductive: every step of GateNext preserves it.
GateInv ==
    /\ GateTypeOK
    /\ MutexInv
    /\ ClockInv
    /\ BudgetInv
    /\ ReservedInv
    /\ ChargeInv
    /\ FlightInv
    /\ BudgetWindow
    /\ FloorBetweenFetches
    /\ ChargedExactlyWhenAdmitted
    /\ RetryAfterExact
=============================================================================
