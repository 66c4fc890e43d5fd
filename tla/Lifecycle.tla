----------------------------- MODULE Lifecycle ------------------------------
(***************************************************************************)
(* The life of the process around Server: it starts, serves, drains after  *)
(* a signal for at most Grace, stops, and is started again.  All state of  *)
(* Server is memory: a new process knows nothing of the units spent, the   *)
(* last fetch, the cache and the allowances of the one before, and the     *)
(* requests in flight when a process stops get no answer.  A crash may     *)
(* come at any time, also while the process drains.                        *)
(*                                                                         *)
(* The history of the gate is that of the process that runs, or ran last;  *)
(* past keeps those of the processes before it.                            *)
(***************************************************************************)
EXTENDS Server, Sequences

CONSTANTS
    Grace,      \* the timeout given to Server.Shutdown, in ticks
    MaxStops    \* bound: how often the process may stop

ASSUME GraceAssumption == Grace \in Nat /\ MaxStops \in Nat

VARIABLES
    process,    \* up, draining or down
    deadline,   \* when the context of Shutdown is done
    births,     \* history: when each process started
    past        \* history: what each earlier process spent and fetched

lifeVars == <<process, deadline, births, past>>
allVars  == <<serverVars, lifeVars>>

Running == process # "down"

\* The requests whose handler has begun and not answered.
InFlight == {r \in Callers : stage[r] \notin {"absent", "answered", "lost"}}

LifeInit ==
    /\ ServerInit
    /\ process = "up"
    /\ deadline = Never
    /\ births = <<0>>
    /\ past = <<>>

-----------------------------------------------------------------------------
\* Requests arrive as long as the listener is open: Shutdown closes it first.
Accept(r) ==
    /\ process = "up"
    /\ Arrive(r)
    /\ UNCHANGED lifeVars

\* SIGINT or SIGTERM: Shutdown begins.
Signal ==
    /\ process = "up"
    /\ now + Grace =< Horizon
    /\ process' = "draining"
    /\ deadline' = now + Grace
    /\ UNCHANGED <<serverVars, births, past>>

\* The process is gone, and with it the goroutines of the requests in flight;
\* a fetch of theirs goes no further.
Stop ==
    /\ Len(births) =< MaxStops
    /\ process' = "down"
    /\ deadline' = Never
    /\ stage' = [r \in Callers |-> IF r \in InFlight THEN "lost" ELSE stage[r]]
    /\ phase' = [r \in Callers |-> IF r \in InFlight THEN "returned" ELSE phase[r]]
    /\ holder' = NoCaller
    /\ UNCHANGED <<now, cancelled, hits, lastFetch, stamp, startedAt, endedAt,
                   outcome, fixed, cache, rateHits, rateAt, anonHits, anonAt,
                   lookedUpAt, storedAt, answer, births, past>>

\* Shutdown returns because no handler is left, or because its time is up.
Drained   == process = "draining" /\ InFlight = {} /\ Stop
GraceOver == process = "draining" /\ now >= deadline /\ Stop
Crash     == Running /\ Stop

\* What a process spent, and the fetches it made.
Run == [stamp |-> stamp, startedAt |-> startedAt, endedAt |-> endedAt]

\* main and api.New: a gate, budgets, limiters and a cache that know nothing.
Start ==
    /\ ~Running
    /\ process' = "up"
    /\ births' = Append(births, now)
    /\ past' = Append(past, Run)
    /\ phase' = [c \in Callers |-> "out"] /\ holder' = NoCaller /\ cancelled' = {}
    /\ hits' = [b \in Budgets |-> {}] /\ lastFetch' = Never
    /\ stamp' = [b \in Budgets |-> [c \in Callers |-> Never]]
    /\ startedAt' = [c \in Callers |-> Never] /\ endedAt' = startedAt'
    /\ outcome' = [c \in Callers |-> Pending]
    /\ cache' = EmptyCache
    /\ rateHits' = [c \in Clients |-> {}]
    /\ anonHits' = [c \in Clients |-> {}]
    /\ UNCHANGED <<now, stage, fixed, rateAt, anonAt, lookedUpAt, storedAt, answer,
                   deadline>>

\* A handler, or the gate, goes on.
Serve(r) == Running /\ HandlerStep(r) /\ UNCHANGED lifeVars
Fetch(r) == Running /\ HolderStep(r) /\ UNCHANGED <<handlerVars, lifeVars>>
Enter    == Running /\ (\E r \in Callers : Lock(r)) /\ UNCHANGED <<handlerVars, lifeVars>>
Leave(r) == Running /\ Cancel(r) /\ UNCHANGED <<handlerVars, lifeVars>>
Health(b) == Running /\ Remaining(b) /\ UNCHANGED <<handlerVars, lifeVars>>
Elapse   == Tick /\ UNCHANGED <<handlerVars, lifeVars>>

LifeNext ==
    \/ \E r \in Callers : Accept(r) \/ Serve(r) \/ Fetch(r) \/ Leave(r)
    \/ Enter \/ Elapse
    \/ \E b \in Budgets : Health(b)
    \/ Signal \/ Drained \/ GraceOver \/ Crash \/ Start

(***************************************************************************)
(* Fairness: that of Server as long as the process runs, and Shutdown      *)
(* returns.  Nothing makes a signal come, a process crash or start again.  *)
(***************************************************************************)
LifeFairness ==
    /\ \A r \in Callers : WF_allVars(Serve(r)) /\ WF_allVars(Fetch(r))
    /\ WF_allVars(Enter)
    /\ WF_allVars(Elapse)
    /\ WF_allVars(Drained \/ GraceOver)

LifeSpec == LifeInit /\ [][LifeNext]_allVars /\ LifeFairness

-----------------------------------------------------------------------------
\* What the k-th process spent and fetched so far.
RunOf(k) == IF k \in DOMAIN past THEN past[k] ELSE Run

\* The units of b spent in the half-open window that ends at t, by any process.
UnitsOfAll(b, t) ==
    {u \in (DOMAIN births) \X Callers :
        u[2] \in Recorded(RunOf(u[1]).stamp[b], t, Window[b])}

\* The processes that started in the half-open window that ends at t.
StartsIn(t, window) ==
    {k \in DOMAIN births : k > 1 /\ births[k] > t - window /\ births[k] =< t}

\* What a restart costs, "restarting resets them": every restart inside a
\* rolling window lets at most one more Limit of units through, however the
\* stop cut into the requests that were being charged.  Without restarts this
\* is BudgetWindow (fetchCards against main).
BudgetPerLife ==
    \A b \in Budgets : Limit[b] > 0 =>
        \A t \in 0 .. now :
            Cardinality(UnitsOfAll(b, t))
                =< Limit[b] * (1 + Cardinality(StartsIn(t, Window[b])))

\* FloorBetweenFetches of one process.
SpacedOut(run) ==
    \A c, d \in Callers :
        (c # d /\ run.startedAt[c] # Never /\ run.startedAt[d] # Never
               /\ run.startedAt[c] =< run.startedAt[d])
        => \/ run.endedAt[c] # Never /\ run.endedAt[c] + MinGap =< run.startedAt[d]
           \/ run.endedAt[d] # Never /\ run.endedAt[d] + MinGap =< run.startedAt[c]

\* Fetches of one process are apart by the floor and do not overlap, whatever
\* a process before it left unfinished at LinkedIn; nothing is promised across
\* a restart (lastFetch is memory).
FloorPerLife == \A k \in DOMAIN births : SpacedOut(RunOf(k))

\* Every request that arrives is answered unless its process stops before:
\* no handler waits for ever, for another one, for the gate or for a shutdown.
EveryRequestIsAnsweredOrLost ==
    \A r \in Callers : (stage[r] # "absent") ~> (stage[r] \in {"answered", "lost"})

-----------------------------------------------------------------------------
(* The inductive invariant behind the two safety properties.               *)

Runs == [stamp : [Budgets -> [Callers -> Times]],
         startedAt : [Callers -> Times], endedAt : [Callers -> Times]]

\* No window of one process holds more than the limit, and its fetches are
\* apart.
RunInv(run) ==
    /\ run \in Runs
    /\ \A b \in Budgets : Limit[b] > 0 =>
          \A t \in Nat :
              Cardinality(Recorded(run.stamp[b], t, Window[b])) =< Limit[b]
    /\ SpacedOut(run)

\* Processes follow one another, and each spends while it lives.
TimeInv ==
    /\ births \in Seq(0 .. now) /\ past \in Seq(Runs)
    /\ Len(births) = Len(past) + 1
    /\ \A i, j \in DOMAIN births : i =< j => births[i] =< births[j]
    /\ \A k \in DOMAIN births, b \in Budgets, c \in Callers :
          LET s == RunOf(k).stamp[b][c] IN
          s # Never => /\ births[k] =< s
                       /\ k < Len(births) => s =< births[k + 1]

\* The process that runs is a FetchGate that started late.
LifeInv ==
    /\ now \in Nat
    /\ Running => GateInv
    /\ \A k \in DOMAIN births : RunInv(RunOf(k))
    /\ \A b \in Budgets, c \in Callers : stamp[b][c] =< now
    /\ TimeInv
=============================================================================
