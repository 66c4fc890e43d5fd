-------------------------- MODULE MeteredUpstream --------------------------
(***************************************************************************)
(* What the gate and the budgets promise the LinkedIn session behind them, *)
(* whoever calls and however they interleave: a fetch reaches LinkedIn     *)
(* only after it was charged to every enabled budget, a budget is charged  *)
(* only while its rolling window has room, one fetch is in flight at a     *)
(* time, and MinGap passes between the end of one and the start of the     *)
(* next.  No mutex, no queue, no pruned list: only what LinkedIn and the   *)
(* account's owner could tell.  FetchGate implements it.                   *)
(***************************************************************************)
EXTENDS RollingWindow

CONSTANTS Callers, Budgets, Limit, Window, MinGap, Never

VARIABLES now, stamp, startedAt, endedAt

upstreamVars == <<now, stamp, startedAt, endedAt>>

UpstreamInit ==
    /\ now = 0
    /\ stamp = [b \in Budgets |-> [c \in Callers |-> Never]]
    /\ startedAt = [c \in Callers |-> Never]
    /\ endedAt = [c \in Callers |-> Never]

\* A unit of b is spent for c, and there was room for it.
Charge(c, b) ==
    /\ Limit[b] > 0
    /\ stamp[b][c] = Never
    /\ Cardinality(Recorded(stamp[b], now, Window[b])) < Limit[b]
    /\ stamp' = [stamp EXCEPT ![b][c] = now]
    /\ UNCHANGED <<now, startedAt, endedAt>>

\* The fetch of c reaches LinkedIn: paid for, alone, and not too soon.
Reach(c) ==
    /\ startedAt[c] = Never
    /\ \A b \in Budgets : Limit[b] > 0 => stamp[b][c] # Never
    /\ \A d \in Callers : startedAt[d] # Never =>
          endedAt[d] # Never /\ endedAt[d] + MinGap =< now
    /\ startedAt' = [startedAt EXCEPT ![c] = now]
    /\ UNCHANGED <<now, stamp, endedAt>>

Return(c) ==
    /\ startedAt[c] # Never
    /\ endedAt[c] = Never
    /\ endedAt' = [endedAt EXCEPT ![c] = now]
    /\ UNCHANGED <<now, stamp, startedAt>>

Pass ==
    /\ now' = now + 1
    /\ UNCHANGED <<stamp, startedAt, endedAt>>

UpstreamNext ==
    \/ \E c \in Callers : Reach(c) \/ Return(c) \/ \E b \in Budgets : Charge(c, b)
    \/ Pass

UpstreamSpec == UpstreamInit /\ [][UpstreamNext]_upstreamVars
=============================================================================
