------------------------------- MODULE Server -------------------------------
(***************************************************************************)
(* handleProfile and handleRaw of api.Server around the fetch gate: API    *)
(* key, per-address rate limit, cache, anonymous allowance, fetch, charge, *)
(* store.  Every request is one goroutine that walks through the checks in *)
(* the order of the handler; each check of shared state (limiter, cache,   *)
(* anon) takes the mutex of that state for one call, and what it found may *)
(* be stale by the time it is acted on.                                    *)
(*                                                                         *)
(* The module extends FetchGate: a request is a caller of fetchCards, the  *)
(* gate's actions are this module's and its clock is the clock here.       *)
(***************************************************************************)
EXTENDS FetchGate, TTLStore

CONSTANTS
    Kinds,          \* the requests that may arrive, see KindShape
    KeysRequired,   \* cfg.APIKeys is not empty
    Sessions,       \* the values cfg.SessionConfigured() may have
    RateLimit, RateWindow,  \* cfg.RateLimitRequests, cfg.RateLimitWindow
    AnonLimit, AnonWindow,  \* cfg.AnonPerDay, its 24 hours
    Second,         \* a second in ticks
    BadUrl          \* a url parameter ExtractVanity rejects

\* What the handlers read of a request: clientKey, X-API-Key, the path, the
\* vanity name in url, include_activity and refresh.
KindShape(k) ==
    /\ k.key \in {"none", "good", "bad"}
    /\ k.route \in {"profile", "raw"}
    /\ k.activity \in BOOLEAN /\ k.refresh \in BOOLEAN

ASSUME KindsAssumption == \A k \in Kinds : KindShape(k)
ASSUME SwitchAssumption == KeysRequired \in BOOLEAN /\ Sessions \subseteq BOOLEAN
ASSUME RateAssumption ==
    /\ RateLimit \in Nat /\ AnonLimit \in Nat
    /\ RateWindow \in Nat \ {0} /\ AnonWindow \in Nat \ {0}
    /\ Second \in Nat \ {0}

VARIABLES
    stage,      \* where each request is in its handler
    session,    \* cfg.SessionConfigured(), fixed from the start
    kind,       \* what each request asks, fixed from the start
    cache,      \* Server.cache
    rateHits,   \* Server.limiter.hits, by client
    rateAt,     \* history: when each request was counted by the limiter
    anonHits,   \* Server.anon.hits, by client
    anonAt,     \* history: when each request was charged to the allowance
    lookedUpAt, \* history: when each request asked the cache
    storedAt,   \* history: when each request stored its response
    answer      \* what each request was answered

fixed == <<session, kind>>
handlerVars == <<stage, fixed, cache, rateHits, rateAt, anonHits, anonAt,
                 lookedUpAt, storedAt, answer>>
serverVars == <<gateVars, handlerVars>>

Clients == {k.client : k \in Kinds}

Stages == {"absent", "throttle", "lookup", "admit", "call", "fetch",
           "finish", "answered"}

Unanswered == [status |-> 0]

ServerInit ==
    /\ GateInit
    /\ stage = [r \in Callers |-> "absent"]
    /\ session \in Sessions
    /\ kind \in [Callers -> Kinds]
    /\ cache = EmptyCache
    /\ rateHits = [c \in Clients |-> {}]
    /\ rateAt = [r \in Callers |-> Never]
    /\ anonHits = [c \in Clients |-> {}]
    /\ anonAt = [r \in Callers |-> Never]
    /\ lookedUpAt = [r \in Callers |-> Never]
    /\ storedAt = [r \in Callers |-> Never]
    /\ answer = [r \in Callers |-> Unanswered]

-----------------------------------------------------------------------------
(* The shape of a handler.                                                 *)

Client(r) == kind[r].client

\* authenticate's second result; without configured keys everyone has one.
Authenticated(k) == ~KeysRequired \/ k.key = "good"

\* The profile fetchCards is called for, with or without its activity.
Asked(r) == <<kind[r].target, kind[r].activity>>

\* Mutant of CacheKey: include_activity is not part of the key.
KeyOfVanityOnly(r) == <<kind[r].target, FALSE>>

\* handleProfile: vanity + ":" + include_activity.
CacheKey(r) == Asked(r)

MoveTo(r, s) == stage' = [stage EXCEPT ![r] = s]

Answer(r, a) ==
    /\ answer' = [answer EXCEPT ![r] = a]
    /\ MoveTo(r, "answered")

\* writeError with a domain error; a positive RetryAfter becomes a header.
Refusal(status, code, resetIn) ==
    [status |-> status, code |-> code, at |-> now,
     retryAfter |-> IF resetIn > 0 THEN RetryAfterHeader(resetIn, Second) ELSE 0]

\* writeJSON with a profile or a raw outline: of what, fetched by whom.
Success(of, by, cached) ==
    [status |-> 200, code |-> "ok", at |-> now, retryAfter |-> 0,
     of |-> of, by |-> by, cached |-> cached]

\* RateLimiter.prune for one client, and whether another hit is allowed.
LiveRate(c) == Live(rateHits[c], rateAt, now, RateWindow)
LiveAnon(c) == Live(anonHits[c], anonAt, now, AnonWindow)
\* Mutant of RateAllows: one request too many.
RateAllowsOneMore(c) == RateLimit = 0 \/ Cardinality(LiveRate(c)) =< RateLimit
RateAllows(c) == RateLimit = 0 \/ Cardinality(LiveRate(c)) < RateLimit
AnonAllows(c) == AnonLimit = 0 \/ Cardinality(LiveAnon(c)) < AnonLimit

-----------------------------------------------------------------------------
\* Mutant of Arrive: a wrong key is taken for no key.
ArriveDowngraded(r) ==
    /\ stage[r] = "absent"
    /\ MoveTo(r, "throttle")
    /\ UNCHANGED <<gateVars, fixed, cache, rateHits, rateAt, anonHits, anonAt,
                   lookedUpAt, storedAt, answer>>

\* A request arrives and authenticate looks at its key: a wrong one is 401, a
\* missing one falls back to the anonymous allowance.
Arrive(r) ==
    /\ stage[r] = "absent"
    /\ IF KeysRequired /\ kind[r].key = "bad"
       THEN Answer(r, Refusal(401, "unauthorized", 0))
       ELSE MoveTo(r, "throttle") /\ UNCHANGED answer
    /\ UNCHANGED <<gateVars, fixed, cache, rateHits, rateAt, anonHits, anonAt,
                   lookedUpAt, storedAt>>

\* Mutant of Throttle: the 429 is written and the handler goes on.
ThrottleNoReturn(r) ==
    LET c == Client(r) IN
    /\ stage[r] = "throttle"
    /\ rateHits' = [rateHits EXCEPT ![c] =
                       IF RateAllows(c) THEN LiveRate(c) \cup {r} ELSE LiveRate(c)]
    /\ rateAt' = IF RateAllows(c) THEN [rateAt EXCEPT ![r] = now] ELSE rateAt
    /\ answer' = IF RateAllows(c) THEN answer
                 ELSE [answer EXCEPT ![r] = Refusal(429, "rate_limited", 1)]
    /\ MoveTo(r, "admit")
    /\ UNCHANGED <<gateVars, fixed, cache, anonHits, anonAt, lookedUpAt, storedAt>>

\* throttled: the per-address limiter, before the url is even read.
Throttle(r) ==
    LET c == Client(r) IN
    /\ stage[r] = "throttle"
    /\ IF RateAllows(c)
       THEN /\ IF RateLimit = 0
               THEN UNCHANGED <<rateHits, rateAt>>
               ELSE /\ rateHits' = [rateHits EXCEPT ![c] = LiveRate(c) \cup {r}]
                    /\ rateAt' = [rateAt EXCEPT ![r] = now]
            /\ IF kind[r].target = BadUrl
               THEN Answer(r, Refusal(400, "invalid_profile_url", 0))
               ELSE /\ UNCHANGED answer
                    /\ MoveTo(r, IF kind[r].route = "profile" /\ ~kind[r].refresh
                                 THEN "lookup" ELSE "admit")
       ELSE /\ rateHits' = [rateHits EXCEPT ![c] = LiveRate(c)]
            /\ Answer(r, Refusal(429, "rate_limited",
                          ResetIn(LiveRate(c), rateAt, now, RateWindow)))
            /\ UNCHANGED rateAt
    /\ UNCHANGED <<gateVars, fixed, cache, anonHits, anonAt, lookedUpAt, storedAt>>

\* cache.Get: a hit is answered at once, marked as cached in the copy only.
Lookup(r) ==
    LET k == CacheKey(r) IN
    /\ stage[r] = "lookup"
    /\ cache' = AfterGet(cache, k, now)
    /\ lookedUpAt' = [lookedUpAt EXCEPT ![r] = now]
    /\ IF IsHit(cache, k, now)
       THEN LET stored == cache.items[k].value
            IN  Answer(r, Success(stored.of, stored.by, TRUE))
       ELSE MoveTo(r, "admit") /\ UNCHANGED answer
    /\ UNCHANGED <<gateVars, fixed, rateHits, rateAt, anonHits, anonAt, storedAt>>

\* SessionConfigured, then anonymousAllowed for a caller without a key: the
\* allowance is looked at, not spent.
Admit(r) ==
    LET c == Client(r)
        asksAnon == session /\ ~Authenticated(kind[r])
    IN
    /\ stage[r] = "admit"
    /\ anonHits' = IF asksAnon THEN [anonHits EXCEPT ![c] = LiveAnon(c)]
                               ELSE anonHits
    /\ CASE ~session -> Answer(r, Refusal(503, "session_expired", 0))
         [] asksAnon /\ ~AnonAllows(c) ->
               Answer(r, Refusal(429, "anonymous_quota_exhausted",
                          ResetIn(LiveAnon(c), anonAt, now, AnonWindow)))
         [] OTHER -> MoveTo(r, "call") /\ UNCHANGED answer
    /\ UNCHANGED <<gateVars, fixed, cache, rateHits, rateAt, anonAt, lookedUpAt,
                   storedAt>>

\* Mutant of CallFetch: the handler calls the fetcher itself, past the gate.
CallFetcher(r) ==
    /\ stage[r] = "call"
    /\ phase[r] = "out"
    /\ GoTo(r, "fetching")
    /\ startedAt' = [startedAt EXCEPT ![r] = now]
    /\ MoveTo(r, "fetch")
    /\ UNCHANGED <<now, holder, cancelled, hits, lastFetch, stamp, endedAt,
                   outcome, fixed, cache, rateHits, rateAt, anonHits, anonAt,
                   lookedUpAt, storedAt, answer>>

\* s.fetchCards is called; from here to its return the request is the gate's.
CallFetch(r) ==
    /\ stage[r] = "call"
    /\ Call(r)
    /\ MoveTo(r, "fetch")
    /\ UNCHANGED <<fixed, cache, rateHits, rateAt, anonHits, anonAt, lookedUpAt,
                   storedAt, answer>>

\* fetchCards has returned.  The allowance is charged whatever it returned,
\* and the answer of anon.Check is thrown away.
Charge(r) ==
    LET c == Client(r)
        pays == ~Authenticated(kind[r]) /\ AnonLimit > 0
    IN
    /\ stage[r] = "fetch"
    /\ phase[r] = "returned"
    /\ IF pays /\ AnonAllows(c)
       THEN /\ anonHits' = [anonHits EXCEPT ![c] = LiveAnon(c) \cup {r}]
            /\ anonAt' = [anonAt EXCEPT ![r] = now]
       ELSE /\ anonHits' = IF pays THEN [anonHits EXCEPT ![c] = LiveAnon(c)]
                                   ELSE anonHits
            /\ UNCHANGED anonAt
    /\ MoveTo(r, "finish")
    /\ UNCHANGED <<gateVars, fixed, cache, rateHits, rateAt, lookedUpAt,
                   storedAt, answer>>

\* Mutant of Finish: a refreshed profile is not stored.
FinishUnstored(r) ==
    LET o == outcome[r]
        response == [of |-> Asked(r), by |-> r]
        stores == o.kind = "fetched" /\ kind[r].route = "profile"
    IN
    /\ stage[r] = "finish"
    /\ cache' = IF stores /\ ~kind[r].refresh
                THEN AfterSet(cache, CacheKey(r), response, now) ELSE cache
    /\ storedAt' = IF stores THEN [storedAt EXCEPT ![r] = now] ELSE storedAt
    /\ Answer(r, IF o.kind = "fetched" THEN Success(Asked(r), r, FALSE)
                 ELSE Refusal(502, "upstream_error", 0))
    /\ UNCHANGED <<gateVars, fixed, rateHits, rateAt, anonHits, anonAt,
                   lookedUpAt>>

\* An error is written; a profile is stored, then written; a raw outline is
\* only written.  An error from LinkedIn is one answer here, whichever status
\* writeError gives it (module Upstream has the statuses).
Finish(r) ==
    LET o == outcome[r]
        response == [of |-> Asked(r), by |-> r]
        stores == o.kind = "fetched" /\ kind[r].route = "profile"
    IN
    /\ stage[r] = "finish"
    /\ cache' = IF stores THEN AfterSet(cache, CacheKey(r), response, now)
                          ELSE cache
    /\ storedAt' = IF stores THEN [storedAt EXCEPT ![r] = now] ELSE storedAt
    /\ CASE o.kind = "fetched" -> Answer(r, Success(Asked(r), r, FALSE))
         [] o.kind = "refused" ->
               Answer(r, Refusal(429, "budget_exhausted", o.resetIn))
         [] OTHER -> Answer(r, Refusal(502, "upstream_error", 0))
    /\ UNCHANGED <<gateVars, fixed, rateHits, rateAt, anonHits, anonAt,
                   lookedUpAt>>

\* A step of fetchCards, of a budget or of the clock.
GateStep ==
    /\ \/ \E r \in Callers : Lock(r) \/ HolderStep(r) \/ Cancel(r)
       \/ \E b \in Budgets : Remaining(b)
       \/ Tick
    /\ UNCHANGED handlerVars

HandlerStep(r) ==
    \/ Throttle(r)
    \/ Lookup(r)
    \/ Admit(r)
    \/ CallFetch(r)
    \/ Charge(r)
    \/ Finish(r)

ServerNext ==
    \/ \E r \in Callers : Arrive(r) \/ HandlerStep(r)
    \/ GateStep

(***************************************************************************)
(* Fairness: a handler that can go on does, and the gate's own fairness.   *)
(* Nothing makes a request arrive, a client disconnect or /health be read. *)
(***************************************************************************)
ServerFairness ==
    /\ \A r \in Callers : WF_serverVars(HandlerStep(r))
    /\ WF_serverVars(\E r \in Callers : Lock(r) /\ UNCHANGED handlerVars)
    /\ \A r \in Callers : WF_serverVars(HolderStep(r) /\ UNCHANGED handlerVars)
    /\ WF_serverVars(Tick /\ UNCHANGED handlerVars)

ServerSpec == ServerInit /\ [][ServerNext]_serverVars /\ ServerFairness

-----------------------------------------------------------------------------
(* Type invariant.                                                         *)
ServerTypeOK ==
    /\ GateTypeOK
    /\ stage \in [Callers -> Stages]
    /\ session \in BOOLEAN
    /\ kind \in [Callers -> Kinds]
    /\ rateHits \in [Clients -> SUBSET Callers]
    /\ anonHits \in [Clients -> SUBSET Callers]
    /\ \A f \in {rateAt, anonAt, lookedUpAt, storedAt} : f \in [Callers -> Times]
    /\ \A r \in Callers : stage[r] = "answered" <=> answer[r] # Unanswered

\* One address is never let through more than RateLimit times in any rolling
\* window, however its requests interleave (RateLimiter.Check records and
\* checks under one lock).
RateWindowHolds ==
    RateLimit > 0 =>
        \A c \in Clients : \A t \in 0 .. now :
            Cardinality({r \in Recorded(rateAt, t, RateWindow) : Client(r) = c})
                =< RateLimit

\* What is answered without a fetch never touched LinkedIn nor a budget: a
\* wrong key, a bad url, a full limiter, a spent allowance, an exhausted
\* budget and a cached profile (handleProfile's order of checks; fetchCards
\* is the only path to LinkedIn).
OnlyFetchesReachLinkedIn ==
    \A r \in Callers :
        /\ startedAt[r] # Never =>
              /\ session
              /\ KeysRequired => kind[r].key # "bad"
              /\ kind[r].target # BadUrl
              /\ RateLimit > 0 => rateAt[r] # Never
        /\ (answer[r] # Unanswered /\ (answer[r].status # 200 \/ answer[r].cached))
           => \/ \A b \in Budgets : stamp[b][r] = Never /\ startedAt[r] = Never
              \/ answer[r].code = "upstream_error"

\* A profile served from the cache is the one asked for, activity included,
\* was fetched by a request that succeeded, is not older than the TTL, and is
\* never given to a caller that asked for a refresh.
CachedAnswerIsRight ==
    \A r \in Callers :
        (answer[r] # Unanswered /\ answer[r].status = 200) =>
            /\ answer[r].of = Asked(r)
            /\ outcome[answer[r].by].kind = "fetched"
            /\ answer[r].cached =>
                  /\ ~kind[r].refresh /\ kind[r].route = "profile"
                  /\ answer[r].at - storedAt[answer[r].by] =< Ttl

\* A profile request that asks the cache while a stored profile for its key is
\* within its TTL costs nothing upstream; Capacity must hold every key here.
RepeatsAreServedFromCache ==
    \A r, q \in Callers :
        (/\ storedAt[q] # Never /\ lookedUpAt[r] # Never
         /\ storedAt[q] < lookedUpAt[r] /\ lookedUpAt[r] =< storedAt[q] + Ttl
         /\ Asked(q) = Asked(r))
        => stage[r] = "answered" /\ answer[r].cached

\* A client that waits as long as the header of a 429 says is let in by the
\* limiter, or by the allowance, that refused it, unless it was counted again
\* meanwhile: rounding to whole seconds never promises too little.
RetryAfterHeaderSuffices ==
    \A r \in Callers :
        LET a == answer[r]
            until == a.at + a.retryAfter * Second
        IN
        /\ (a # Unanswered /\ a.status = 429 /\ a.code = "rate_limited") =>
              Cardinality({q \in Callers : /\ Client(q) = Client(r)
                                           /\ rateAt[q] \in 0 .. a.at
                                           /\ rateAt[q] > until - RateWindow})
                 < RateLimit
        /\ (a # Unanswered /\ a.status = 429
               /\ a.code = "anonymous_quota_exhausted") =>
              Cardinality({q \in Callers : /\ Client(q) = Client(r)
                                           /\ anonAt[q] \in 0 .. a.at
                                           /\ anonAt[q] > until - AnonWindow})
                 < AnonLimit

\* However the handlers use it, fetchCards behaves as FetchGate says: they
\* enter it once, leave it once and touch nothing of its state.
UsesGate == GateSafety

-----------------------------------------------------------------------------
(* What the documentation says and the code does not do.                   *)

\* The anonymous fetches of client c that reached LinkedIn in the window to t.
AnonymousFetches(c, t) ==
    {r \in Recorded(startedAt, t, AnonWindow) :
        Client(r) = c /\ ~Authenticated(kind[r])}

\* "gets ANON_PROFILES_PER_DAY profiles a day ... then 429" (README.md:81).
AllowanceHolds ==
    AnonLimit > 0 =>
        \A c \in Clients : \A t \in 0 .. now :
            Cardinality(AnonymousFetches(c, t)) =< AnonLimit

\* "Only fetches that actually reach LinkedIn are counted" (README.md:85).
OnlyFetchesAreCharged ==
    \A r \in Callers : anonAt[r] # Never => startedAt[r] # Never
=============================================================================
