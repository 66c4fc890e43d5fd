----------------------------- MODULE CardFetch ------------------------------
(***************************************************************************)
(* Client.FetchProfile: the navigate request, the discovery of the cards   *)
(* in its answer, then one goroutine per card.  A goroutine takes a slot   *)
(* of a channel of capacity Concurrency, posts its request, records the    *)
(* answer under mu, and its deferred calls run last in first out: mu is    *)
(* unlocked, the slot is given back, the WaitGroup is told.  The main      *)
(* goroutine waits for the group and reads what was recorded.              *)
(*                                                                         *)
(* A card is its short name: the components of one shell have different    *)
(* ones.  Recording is one step: nothing else runs while mu is held.       *)
(* reply is history.                                                       *)
(***************************************************************************)
EXTENDS Upstream, CardDiscovery

CONSTANTS
    Statuses,       \* the answers LinkedIn may give
    Shells,         \* the shells it may answer with
    Concurrency     \* capacity of the channel gate, at least one

ASSUME StatusesAssumption == Statuses \subseteq Nat /\ NoResponse \in Statuses
ASSUME ConcurrencyAssumption == Concurrency \in Nat \ {0}

VARIABLES
    stage,      \* where FetchProfile's own goroutine is
    activity,   \* includeActivity
    shell,      \* the answer to the navigate request
    unread,     \* the rows of the shell DiscoverCards has not read
    found,      \* found[c]: the arguments it keeps for card c
    cards,      \* the cards to fetch
    job,        \* job[c]: where the goroutine of card c is
    slots,      \* length of the channel gate
    pending,    \* counter of the WaitGroup
    results,    \* the cards in the results map, the shell apart
    failed,     \* the cards in the failed list
    fatal,      \* the session_expired error was recorded
    cancelled,  \* the context of the request is done
    outcome,    \* what FetchProfile returned
    reply       \* history: the answer each card's request got

discoveryVars == <<activity, shell, unread, found>>
fetchVars == <<discoveryVars, stage, cards, job, slots, pending, results,
               failed, fatal, cancelled, outcome, reply>>

Waiting == [kind |-> "waiting"]
Error(code) == [kind |-> "error", code |-> code]
Result(ok, bad) == [kind |-> "result", cards |-> ok, failed |-> bad]

Stages == {"navigate", "discover", "launch", "wait", "done"}

\* refused: the context was done before the request was sent.
JobPhases == {"idle", "waiting", "posting", "refused", "answered",
              "recorded", "released", "finished"}

\* The phases in which a card's goroutine owns a slot of the channel.
OwnsSlot == {"posting", "refused", "answered", "recorded"}

FetchInit ==
    /\ stage = "navigate"
    /\ activity \in BOOLEAN
    /\ shell = Waiting /\ unread = {} /\ found = <<>>
    /\ cards = Waiting
    /\ job = [c \in Cards |-> "idle"]
    /\ slots = 0 /\ pending = 0
    /\ results = {} /\ failed = {} /\ fatal = FALSE
    /\ cancelled = FALSE
    /\ outcome = Waiting
    /\ reply = <<>>

GoOn(c, phase) == job' = [job EXCEPT ![c] = phase]

-----------------------------------------------------------------------------
\* Navigate returns: its error is FetchProfile's error.
Navigate(s, rows) ==
    /\ stage = "navigate"
    /\ cancelled => s = NoResponse
    /\ shell' = [kind |-> "shell", status |-> s, rows |-> rows]
    /\ IF Code(s) = "ok"
       THEN /\ stage' = "discover" /\ unread' = DOMAIN rows
            /\ UNCHANGED outcome
       ELSE /\ stage' = "done" /\ outcome' = Error(Code(s))
            /\ UNCHANGED unread
    /\ UNCHANGED <<activity, found, cards, job, slots, pending, results, failed,
                   fatal, cancelled, reply>>

\* DiscoverCards fails: the answer was no Flight stream.
Unparseable ==
    /\ stage = "discover" /\ shell.rows = <<>>
    /\ stage' = "done"
    /\ outcome' = Error("unparseable_response")
    /\ UNCHANGED <<discoveryVars, cards, job, slots, pending, results, failed,
                   fatal, cancelled, reply>>

\* DiscoverCards reads one more row, in the order of Go's map of rows.
ReadRow(r) ==
    /\ stage = "discover" /\ r \in unread
    /\ found' = Collected(found, shell.rows[r], activity)
    /\ unread' = unread \ {r}
    /\ UNCHANGED <<activity, shell, stage, cards, job, slots, pending, results,
                   failed, fatal, cancelled, outcome, reply>>

\* DiscoverCards returns; with nothing to fetch the shell is the result.
Discovered ==
    /\ stage = "discover" /\ shell.rows # <<>> /\ unread = {}
    /\ cards' = [kind |-> "cards", set |-> DOMAIN found]
    /\ IF DOMAIN found = {}
       THEN stage' = "done" /\ outcome' = Result({}, {})
       ELSE stage' = "launch" /\ UNCHANGED outcome
    /\ UNCHANGED <<discoveryVars, job, slots, pending, results, failed, fatal,
                   cancelled, reply>>

\* Mutant of Launch: the WaitGroup is not told before the goroutine starts.
LaunchUncounted(c) ==
    /\ stage = "launch"
    /\ c \in cards.set /\ job[c] = "idle"
    /\ \A d \in cards.set : job[d] = "idle" => NotAfter(c, d)
    /\ GoOn(c, "waiting")
    /\ stage' = IF \A d \in cards.set \ {c} : job[d] # "idle" THEN "wait"
                                                              ELSE stage
    /\ UNCHANGED <<discoveryVars, cards, slots, pending, results, failed, fatal,
                   cancelled, outcome, reply>>

\* wg.Add(1) and go func: a goroutine for the next card in page order.
Launch(c) ==
    /\ stage = "launch"
    /\ c \in cards.set /\ job[c] = "idle"
    /\ \A d \in cards.set : job[d] = "idle" => NotAfter(c, d)
    /\ GoOn(c, "waiting")
    /\ pending' = pending + 1
    /\ stage' = IF \A d \in cards.set \ {c} : job[d] # "idle" THEN "wait"
                                                              ELSE stage
    /\ UNCHANGED <<discoveryVars, cards, slots, results, failed, fatal, cancelled,
                   outcome, reply>>

\* Mutant of Acquire: a channel that never fills up.
AcquireUnbounded(c) ==
    /\ job[c] = "waiting"
    /\ slots' = slots + 1
    /\ GoOn(c, IF cancelled THEN "refused" ELSE "posting")
    /\ UNCHANGED <<discoveryVars, stage, cards, pending, results, failed, fatal,
                   cancelled, outcome, reply>>

\* gate <- struct{}{}: there is room in the channel.  The request is sent
\* unless the context is already done.
Acquire(c) ==
    /\ job[c] = "waiting"
    /\ slots < Concurrency
    /\ slots' = slots + 1
    /\ GoOn(c, IF cancelled THEN "refused" ELSE "posting")
    /\ UNCHANGED <<discoveryVars, stage, cards, pending, results, failed, fatal,
                   cancelled, outcome, reply>>

\* FetchCard returns: LinkedIn answered, or the request failed on its way.
Answer(c, s) ==
    /\ job[c] \in {"posting", "refused"}
    /\ job[c] = "refused" => s = NoResponse
    /\ reply' = [d \in DOMAIN reply \cup {c} |-> IF d = c THEN s ELSE reply[d]]
    /\ GoOn(c, "answered")
    /\ UNCHANGED <<discoveryVars, stage, cards, slots, pending, results, failed,
                   fatal, cancelled, outcome>>

\* Mutant of Record: a failed card is logged and dropped.
RecordDropping(c) ==
    LET code == Code(reply[c]) IN
    /\ job[c] = "answered"
    /\ fatal' = (fatal \/ code = "session_expired")
    /\ results' = IF code = "ok" THEN results \cup {c} ELSE results
    /\ GoOn(c, "recorded")
    /\ UNCHANGED <<discoveryVars, stage, cards, slots, pending, failed, cancelled,
                   outcome, reply>>

\* Mutant of Record: a rejected session is fatal only before the first body.
RecordFirstWins(c) ==
    LET code == Code(reply[c])
        first == code = "session_expired" /\ results = {}
    IN
    /\ job[c] = "answered"
    /\ fatal' = (fatal \/ first)
    /\ results' = IF code = "ok" THEN results \cup {c} ELSE results
    /\ failed' = IF code # "ok" /\ ~first THEN failed \cup {c} ELSE failed
    /\ GoOn(c, "recorded")
    /\ UNCHANGED <<discoveryVars, stage, cards, slots, pending, cancelled, outcome,
                   reply>>

\* Under mu: the first rejected session is fatal and its card is in neither
\* list, any other error, a second rejection included, names the card as
\* failed, and a body goes to the results.
Record(c) ==
    LET code == Code(reply[c])
        first == code = "session_expired" /\ ~fatal
    IN
    /\ job[c] = "answered"
    /\ fatal' = (fatal \/ first)
    /\ results' = IF code = "ok" THEN results \cup {c} ELSE results
    /\ failed' = IF code # "ok" /\ ~first THEN failed \cup {c} ELSE failed
    /\ GoOn(c, "recorded")
    /\ UNCHANGED <<discoveryVars, stage, cards, slots, pending, cancelled, outcome,
                   reply>>

\* Mutant of Release: the slot is never given back.
ReleaseNothing(c) ==
    /\ job[c] = "recorded"
    /\ GoOn(c, "released")
    /\ UNCHANGED <<discoveryVars, stage, cards, slots, pending, results, failed, fatal,
                   cancelled, outcome, reply>>

\* The deferred receive from gate.
Release(c) ==
    /\ job[c] = "recorded"
    /\ slots' = slots - 1
    /\ GoOn(c, "released")
    /\ UNCHANGED <<discoveryVars, stage, cards, pending, results, failed, fatal,
                   cancelled, outcome, reply>>

\* The deferred wg.Done.
Done(c) ==
    /\ job[c] = "released"
    /\ pending' = pending - 1
    /\ GoOn(c, "finished")
    /\ UNCHANGED <<discoveryVars, stage, cards, slots, results, failed, fatal,
                   cancelled, outcome, reply>>

\* wg.Wait returns and the verdict is read.
Collect ==
    /\ stage = "wait"
    /\ pending = 0
    /\ outcome' = IF fatal THEN Error("session_expired")
                           ELSE Result(results, failed)
    /\ stage' = "done"
    /\ UNCHANGED <<discoveryVars, cards, job, slots, pending, results, failed, fatal,
                   cancelled, reply>>

\* The client disconnects; FetchProfile is not told in any other way.
Cancel ==
    /\ ~cancelled /\ stage # "done"
    /\ cancelled' = TRUE
    /\ UNCHANGED <<discoveryVars, stage, cards, job, slots, pending, results, failed,
                   fatal, outcome, reply>>

MainStep ==
    \/ \E s \in Statuses, rows \in Shells : Navigate(s, rows)
    \/ Unparseable
    \/ \E r \in unread : ReadRow(r)
    \/ Discovered
    \/ \E c \in Cards : Launch(c)
    \/ Collect

JobStep(c) ==
    \/ Acquire(c)
    \/ \E s \in Statuses : Answer(c, s)
    \/ Record(c)
    \/ Release(c)
    \/ Done(c)

FetchNext == MainStep \/ (\E c \in Cards : JobStep(c)) \/ Cancel

(***************************************************************************)
(* Fairness.  Every goroutine that can run does, and every request gets an *)
(* answer because the HTTP client has a timeout.  Weak fairness is enough  *)
(* for the slots: there are finitely many cards and each takes one once.   *)
(***************************************************************************)
FetchSpec ==
    /\ FetchInit /\ [][FetchNext]_fetchVars
    /\ WF_fetchVars(MainStep)
    /\ \A c \in Cards : WF_fetchVars(JobStep(c))

-----------------------------------------------------------------------------
(* Type invariant.                                                         *)
FetchTypeOK ==
    /\ stage \in Stages
    /\ activity \in BOOLEAN
    /\ shell = Waiting \/ (shell.status \in Statuses /\ shell.rows \in Shells)
    /\ unread # {} => stage = "discover" /\ unread \subseteq DOMAIN shell.rows
    /\ DOMAIN found \subseteq Wanted(activity)
    /\ cards = Waiting \/ cards.set = DOMAIN found
    /\ job \in [Cards -> JobPhases]
    /\ slots \in 0 .. Concurrency
    /\ pending \in Nat
    /\ results \subseteq Cards /\ failed \subseteq Cards
    /\ fatal \in BOOLEAN /\ cancelled \in BOOLEAN
    /\ DOMAIN reply \subseteq Cards

\* At most Concurrency requests of one profile are at LinkedIn at a time, and
\* a slot is held until the answer has been recorded (Client.FetchProfile,
\* the channel gate).
BoundedFanOut ==
    /\ Cardinality({c \in Cards : job[c] \in OwnsSlot}) = slots
    /\ slots =< Concurrency

\* No card is lost and none is counted twice: what FetchProfile returns as
\* fetched and as failed are disjoint and are together the cards the shell
\* advertises, in whichever of its rows and however often, so missing data is
\* never mistaken for absent data (DiscoverCards, FetchResult, Failed).
EveryCardAccountedFor ==
    outcome.kind = "result" =>
        /\ outcome.cards \cap outcome.failed = {}
        /\ outcome.cards \cup outcome.failed = Listed(shell.rows, activity)
        /\ \A c \in outcome.cards : Code(reply[c]) = "ok"

\* After FetchProfile has returned no goroutine of it can still send, write
\* the result map or hold a slot (wg.Wait against the deferred calls).
NoStraggler ==
    stage = "done" =>
        /\ \A c \in Cards : job[c] \in {"idle", "finished"}
        /\ slots = 0 /\ pending = 0

\* FetchProfile always returns.
FetchReturns == <>(stage = "done")

\* The result is the verdict on LinkedIn's answers, whatever order they came
\* in, whichever row was read and whichever goroutine recorded first: CardFetch
\* implements the specification without rows and goroutines.
Promise == INSTANCE FetchVerdict
             WITH wantsActivity <- activity, navigated <- shell, listed <- cards,
                  answers <- reply, verdict <- outcome
ImplementsVerdict == Promise!VerdictSpec
=============================================================================
