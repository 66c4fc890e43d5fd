# Verification of linkedin-profile-api-go

TLA+ modules, TLC configurations and TLAPS proofs about the service in `src/`:
an HTTP API in Go that fetches a LinkedIn profile with one backing session,
parses the pages it gets and returns JSON. Paths below are relative to `src/`;
`server.go` is `internal/api/server.go`, `cache.go` is
`internal/cache/cache.go`, and `client.go`, `flight.go`, `sdui.go`, `sections.go`,
`parser.go` are in `internal/linkedin/`; `main.go` is `cmd/server/main.go`.

The service's own risk is not in any one function. There is one LinkedIn
session behind every caller, so pacing, budgets and charging must hold for all
interleavings of requests; and what a page does not say must not be confused
with what could not be fetched or was cut up wrongly. These two concerns shape
the project.

## 1. Inventory

| Component | State | Operations | Interacts with | Hard behaviour |
| --- | --- | --- | --- | --- |
| Rolling windows (`cache.go` 96-233: `RateLimiter`, `Budget`) | lists of hit times, one mutex each | prune, Check, Available, Spend, Remaining | handlers, gate, `/health` | boundary of the window, wait until a unit frees up, zero means unlimited |
| Fetch gate (`server.go` 244-272: `fetchCards`) | `gate` mutex, `lastFetch`, two budgets | check both budgets, spend both, sleep to the floor, fetch | every handler; `/health` prunes the budgets at any time | queueing, check-then-act, failure between two budgets, disconnects while queued or asleep |
| TTL+LRU cache (`cache.go` 21-94) | map and list, one mutex | Get, Set, Len | `handleProfile`, `/health` | map and list in step, expiry against eviction |
| Handlers (`server.go` 81-242, 274-390) | rate limiter, anonymous allowance, cache | `handleProfile`, `handleRaw`, `handleHealth` | all of the above, the client, the parser | eight checks in a fixed order with stale answers between them |
| LinkedIn client (`client.go` 152-285, `errors.go`) | per call: result map, failed list, fatal error, WaitGroup, bounded channel | Navigate, one goroutine per card, collect | handlers, LinkedIn | bounded fan-out, partial failure, one fatal answer among many, cancellation |
| Card discovery (`client.go` 312-383) | the components found so far | DiscoverCards, collectCard | the client | rows in the order of a Go map, the first offer wins |
| Flight reader (`flight.go`, `ordered.go`, `num.go`, `tostring.go`) | none | split rows, decode, resolve | client, outline builder | broken lines, two rows of one id |
| Outline builder (`sdui.go`) | visited rows, block tree, signatures met | walk, orphan rows, dedupe, collapse | parser | circular references, content met twice or nowhere, copies inside copies |
| State harvesting (`states.go`) | none | collect values by key | parser | |
| Section parsing (`sections.go`) | loop state of `parseFlatEntities` | rows out of a flat list, entities out of rows, skills, languages, interests | parser | a state machine over lines: groups, tails, a row's end |
| Profile assembly (`parser.go`) | profile, seen sections | order the cards, parse each, merge their blocks | handlers | repeats in nested blocks and over cards, cards that do not parse |
| URL parsing (`urlparse`) | none | ExtractVanity | handlers | string shapes |
| Process lifecycle (`main.go`) | the process; all state above is its memory | serve, drain, stop, start | everything | 15 s of grace against a sleep plus a fetch; budgets lost in a restart |
| Configuration (`config`) | environment | load | everything | |
| Data types, docs pages, HAR tool, fixtures, deployment | none | none that change state | | |

What makes each correct:

- *Windows, gate*: no rolling window holds more units than its cap; a unit is
  spent exactly for the requests that are let through; fetches do not overlap
  and keep their distance; an announced wait is exact; everyone in the queue
  is answered.
- *Cache*: a hit is the latest value and not expired; at most `MaxEntries`
  entries; nothing fresh is dropped while there is room for it.
- *Handlers*: an answer given early leaves LinkedIn and the budgets alone; an
  address stays within its limit; a cached profile is the one asked for.
- *Client*: never more requests at once than configured; each card is in the
  result or in the list of failures; the outcome does not depend on the order
  of the answers; no goroutine is left behind.
- *Discovery, outline*: every card the shell lists is asked for; the text of the
  page is found, all of it and nothing else, whatever rows refer to each other,
  and no clean-up loses what has no copy.
- *Lifecycle*: a restart costs what the README says and no more; a request is
  answered unless its process stops.
- *Sections, assembly*: every line of a card is kept once and in page order, a
  group's employer reaches its roles and no others, every row is in the profile
  once, every card that is missing is reported.

## 2. Modules

| Module | Models | Uses |
| --- | --- | --- |
| `RollingWindow` | hits in a window, oldest hit, `resetIn`, rounding of Retry-After | |
| `MeteredUpstream` | abstract: what LinkedIn and the account's owner can see of the gate | `RollingWindow` |
| `FetchGate` | `fetchCards` with both budgets, one step per lock or call | `RollingWindow`; `INSTANCE MeteredUpstream` |
| `TTLStore`, `TTLCache` | the cache's operations as operators; a client that calls them in any order | |
| `Server` | `handleProfile`, `handleRaw`, and `/health` as pruning | extends `FetchGate` and `TTLStore` |
| `Lifecycle` | start, signal, drain, crash and restart of the process | extends `Server` |
| `Upstream` | how `post` classifies LinkedIn's answers | |
| `CardDiscovery` | `DiscoverCards`, `collectCard` | |
| `FetchVerdict` | abstract: the result as a function of the shell and the answers | `Upstream`, `CardDiscovery` |
| `CardFetch` | `FetchProfile` with its goroutines | `Upstream`, `CardDiscovery`; `INSTANCE FetchVerdict` |
| `Flight` | `ParseDocument`, `Deref` | |
| `Blocks` | a tree of blocks (`IsOutline`), its texts, `Walk` | `Lists` |
| `Outline` | `BuildOutline`: the walk, the orphan rows, `dedupe`, `collapse` | `Flight`, `Blocks` |
| `PageText` | what text a document holds, by its references and without a walk | `Outline` |
| `LineKinds` | the predicates on a rendered line | |
| `Lists` | filters of lists: what is in a set, what is not, the first of each | |
| `RowEntity` | `ParseEntity` | `LineKinds`, `Lists` |
| `FlatRows` | `parseFlatEntities`, line by line | `RowEntity` |
| `Sections` | `EntityBlocks`, and the rows, skills, languages, interests and about of a section | `Blocks`, `Lists` |
| `ProfileAssembly` | `ParseProfile`, `applySection`, the end of `handleProfile` | `Sections` |
| `ListsProofs` | lemmas: induction over a bounded index, what a filter returns and in which order, what a concatenation holds, how the trees of `Blocks` nest | `Blocks` |
| `CardFetchProofs`, `TTLStoreProofs`, `TTLCacheProofs`, `FlatRowsProofs`, `ProfileAssemblyProofs`, `OutlineProofs` | theorems about the module of that name | the modules they are about, `ListsProofs` |
| `ServerProofs` | theorems about `FetchGate`, `Server` and `Lifecycle` | `Lifecycle`, `ListsProofs`, `TTLStoreProofs` |
| `MC*` | small instances for TLC | the modules they are about |

Definitions whose comment begins "Mutant of" are wrong on purpose: each is a
plausible slip in the code, kept to show that a property notices it. Nothing
uses them.

### The gate (`FetchGate`)

A caller's goroutine goes `out`, `queued` (in `gate.Lock`), then through the
phases of the two unrolled loops over hourly and daily budget, `pace` (the
sleep), `fetching`, `returned`. Each call of `Available`, `Spend` and
`Remaining` takes the budget's mutex once, so each is one step; between two of
them other callers queue, clients disconnect (`Cancel`), `/health` prunes
(`Remaining`) and the clock ticks. `hits[b]` is the pruned list of budget `b`
as a set of callers; `stamp[b]` says when each was recorded and is never
pruned, so that the properties can look at windows the code has forgotten.
`startedAt`, `endedAt` and `outcome` are history. `Budget.Available` of a
budget with limit zero never refuses and `Spend` of one records nothing.

### The cache (`TTLStore`, `TTLCache`)

The Go cache is a map of elements and a list; here it is a record of the entries
(`items`) and the list of keys (`order`), front first. `list.Remove` is
`Without`, which joins what stands before an element and what stands after it,
`MoveToFront` and `PushFront` are `ToFront`, and the loop that drops from the back
keeps the first `Capacity` keys. `TTLCache` calls the operations in any order
and remembers what was last set and when each key was last used; `Server` uses
the same operators for its profiles.

### The handlers (`Server`)

A request is a caller of the gate. Its stages are the handler's checks in the
order of the code: `Arrive` (API key), `Throttle`, `Lookup` (url and cache),
`Admit` (session, allowance), `CallFetch`, then the gate's own actions,
`Charge` (the allowance, before the error is looked at), `Finish` (answer, and
store on success). `RateLimiter.Check` prunes, tests and records under one
mutex and is one step; `Available` of the allowance and `Check` of it are two
steps with the whole gate in between, as in the code. Upstream errors keep one
code here; `Upstream` has the table.

### The process (`Lifecycle`)

`Accept` needs an open listener, which `Signal` (SIGINT or SIGTERM) closes.
`Server.Shutdown` then returns when no handler is left (`Drained`) or its time
is up (`GraceOver`), and `main` returns with it; a `Crash` stops the process at
any time, also while it drains. A stop takes the goroutines of the requests in flight along, wherever
they are; `Start` begins with empty budgets, limiters and cache and no last
fetch, which is the `FreshGate` that `GateInit` begins with. What the process
before it spent and fetched goes to `past`, so the gate's history is that of
one process, as the code's memory is, and the properties can compare what all
processes did with what one rolling window allows.

### The client (`CardDiscovery`, `CardFetch`)

The main goroutine navigates, discovers, launches, waits and collects. Discovery
reads the shell row by row in any order, which is what ranging over a Go map
does, and takes the first offer of a component that has arguments. A card's
goroutine takes a slot, posts, records under `mu`, gives the slot back and tells
the WaitGroup, in the order in which its deferred calls run. A cancelled
context makes a request fail whenever it is noticed. Recording is one step:
nothing else runs while `mu` is held. A card is its short name, although the code
finds cards by their full component id: two components of one short name in one
shell are left out.

### Pages (`Flight`, `Blocks`, `Outline`)

A body is a sequence of lines, each a row or broken; a later row of an id
replaces an earlier one. A node is a text, a reference, a list, an element, an
object, an action, a link, an image or nothing: the cases `descend` and its
helpers tell apart. An element passes over more props than an object
(`PassedOver`). The recursion of `descend` is a stack of nodes to visit,
each with the block it belongs to, the rows expanded on the way to it (`seen`),
its depth and its mode (`textKind`), so that a step of the model is a call. The
blocks come in the order of `Walk` with their level, which is how `Blocks`
represents a tree. After the walk, and the second one over the rows it did not
reach (`orphans`, taken in the order of their ids), `Dedupe` is one step and
`Collapse` one step per block, in the order of its recursion, since one set of
signatures is shared by all: the step is the code's loop over the block's children,
and puts those it keeps in front of the blocks still to be looked at.

`ContentIsFound` compares the walk with a definition that does without one, in
the module `PageText`: the places (a node and the mode it is met in) that row 0
leads to in 0, 1, ... `MaxDepth` steps, where a step goes to a part of a node or to
the row it refers to; then the same from the rows that nothing among these places
refers to. There is no stack in it, no path and no `visited`. What the walk has
read must be text that stands at one of these places, and every such text if no row
leads back to itself: a row on its own path is not expanded again, so it may be met
in text mode only where it is cut.

### Rows (`LineKinds`, `RowEntity`, `FlatRows`)

The parsers look at a line only through eight predicates, so a line is
represented by a kind: one for each combination of answers that rendered text
gives, with an example each in `LineKinds`. A card is a sequence of kinds and a
line is its position, so that a line that changes place or gets lost is
visible. `FlatRows` runs the four loops of `parseFlatEntities` in the code's
order: a step reads a line, hands one back, drops or keeps a row, or maps one.
Emptied rows leave the list where they stand, since the code's `kept` shares its
memory. A field of an entity holds the position of the line it was read from.
Filters are those of `Lists`: `KeepAt`, what a list holds at some positions, and
`Only`, `AllBut` and `FirstOfEach` made of it, and not `SelectSeq` or a fold, which
the prover cannot unfold.

### Assembly (`Sections`, `ProfileAssembly`)

The cards are parsed in the order of the code, shell first, then the blocks of
all outlines are visited in walk order, each applied by the branch of
`applySection` for its key, then `ParseProfile` adds its warning and
`handleProfile` the cards that were not fetched. A card is a tree of blocks with
their lines, and `Sections` finds the rows in it: `EntityBlocks` descends to the
level that holds rows, passes chrome over, and drops wrappers and repeats by
comparing lines; the parsers of skills, languages, interests and about read
those rows. Blocks inside blocks are visited as blocks of their own, which is
why a row can be met twice. `EntityBlocks` drops a candidate that repeats an
earlier one or wraps a shorter one: the code's loop asks for repeats only among
the rows it has kept, which is the same, since a copy of a wrapper is one too.
The split of one flat list into entities is the
subject of `FlatRows`; here a row is one entity, and a line of it is its title: the
rows of nothing but dates that `ParseEntities` skips do not occur.

## 3. Runs

Each bound is a constant in the .cfg or a definition of an MC module.

| Run | Instance | Shows |
| --- | --- | --- |
| `gate` | 3 callers, 1 may disconnect, caps 1 and 2, windows 2 and 4, floor 1, clock to 4 | type and inductive invariant; the budgets, the floor, exact charging, exact waits; refinement of `MeteredUpstream`; everyone returns |
| `cache` | 3 keys, 2 fit, 2 values, TTL 2, clock to 5 | map and list agree, bound, freshness, no early loss |
| `fetch` | 5 shells of at most 2 rows and 4 offers, 3 cards, 2 slots, success, redirect, throttling and no response | fan-out, accounting, no straggler, return, refinement of `FetchVerdict` |
| `server_safety` | 2 requests of 7 kinds, both routes, with and without a session | early answers, use of the gate, rate window, Retry-After, what is cached |
| `lifecycle` | 2 requests of 2 kinds, 1 may disconnect, 1 stop, grace 1, clock to 2 | budgets and floor over a restart; every request is answered or lost |
| `outline` | 3 rows that refer to each other in every way, broken and repeated lines, trees of labelled blocks of three levels with copies | the walk ends, finds the text of the page, and the clean-ups drop copies and nothing else |
| `flat_rows` | all cards of at most 4 lines of 9 kinds, of at most 6 lines of 4 kinds | no line lost or moved, extent of a group, fields of an entity |
| `profile` | shell and 2 cards, at most 2 sections each out of 10; every tree of at most 4 blocks inside a section | rows once in page order, cards accounted for, rows neither glued nor repeated |
| `server_allowance`, `server_refused_charge`, `flat_rows_tail`, `outline_copies` | | four places where the code does not do what it or its README says, section 6 |

Why the bounds suffice. *Gate*: the daily cap of two is reached by units spent
at different times while the hourly one has recovered, a third caller is then
refused by either budget, and the clock sees both windows end and a hit exactly
as old as its window; a fourth caller could only repeat one of these roles.
*Cache*: one key more than fits is what eviction needs; the clock passes the TTL
twice. *Fetch*: with three cards and two slots one goroutine waits while one
records and one posts; the shells offer a card twice in a row, in two rows,
without arguments and among components nobody wants. *Server*: two requests are
enough for every pair of stages to meet; every kind is drawn for each of them
independently. A repeat from the cache is then one store and one repeat; that it
holds after any number of stores, refreshes and repeats is the theorem
`RepeatsAreFree`. *Lifecycle*: two requests are one that the stop cuts off, at any
of its steps, serving or draining, and one that comes to the process after it. *Outline*: three rows
give circles of one, two and three, a row met on two paths, one nobody refers
to, and a reference in every role (content, text, heading, tag, action); a
block, one inside it and one inside that are the levels at which a copy may be
met before or after its original; one of two labels that may be swapped is fixed. `Nodes` and `Height` are given the
values inside the rows and how far down these go, so that TLC evaluates the
assumption that values are finite trees. `MaxDepth` is 7 where the code has
900: some bodies exceed it and are cut there, in the walk and in the definition it is
compared with, and a walk that went one level less or more would find other texts.
*Rows*: a group needs a name, a span and a place, a role its title
and its date, which is five lines, and a sixth begins the row that leaves the
group; four lines over the larger set of kinds put any two closing lines around
any other two. *Assembly*: rows that repeat within a block, over two blocks of a
card and over two cards all occur, so does every mix of missing, unparseable
and parsed cards; four blocks under a section make a wrapper of a wrapper with a
row beside it.

`CHECK_DEADLOCK FALSE` is set where the system may stop: callers, requests,
cards and lines are finitely many and when all are served nothing is left to
do. The cache's run checks for deadlock. Symmetry is used where only
safety is checked and the values are interchangeable.

**Fairness.** `GateFairness`: some waiter takes a free mutex (Go's mutex does
not stay free under a waiter; which waiter is left open), its holder keeps
running, its sleep and its fetch end (the sleep is a timer, the HTTP client has
a timeout), and time passes. Weak fairness is enough since a holder's step
stays enabled until taken, and with finitely many callers, each of which calls
once, a fixed waiter is not overtaken for ever. `ServerFairness` adds that a
handler that can go on does. `LifeFairness` is the same as long as the process
runs, and says that `Shutdown` returns, which it does by its timeout.
`CardFetch` assumes that its goroutines run and that requests end. Nothing is
assumed of arrivals, disconnects, `/health`, signals, crashes or that a stopped
process starts again.

## 4. Proofs

TLAPS checks these for all values of the constants that satisfy the named
assumptions: a finite set of callers, natural limits, positive windows, a
natural floor, positive windows of the limiters and a positive second; a natural
TTL, any integer as `MaxEntries`, finitely many keys; a finite list of wanted
cards, a positive number of slots; any grace and any number of stops; any set
of cards, each a sequence of lines of the thirteen kinds. For `ProfileAssembly`:
the cards' names in an order without repeats, the shell not among them
(`CardOrderAssumption`); any answers in which the shell is there and a card has
failed or has an answer but not both, which is what `NoCardIsLost` shows of
`CardFetch`, each answer an outline (`FetchesAssumption`). An outline is a list of
blocks with their levels, each at most one deeper than the one before it and the
first a root (`IsOutline`), as `Walk` visits a tree; how deep and wide, and where
chrome hangs, is left open. That `BuildOutline` returns such a list is
`OutlineIsReturned`. For `Outline`: any bodies, lists of lines whose decoded values
are finite trees of nodes, as JSON is (`NodesAssumption`, `StreamsAssumption`); any
text tags, any props that are passed over but `children`, and any natural
`MaxDepth` (`OutlineAssumption`). The
horizon of the clock is a constant like the others, so no proof depends on it.

- `ListsProofs`: a set of natural numbers has a least member (`LeastNatural`), hence
  induction up to a bound (`BoundedInduction`), hence what a concatenation of
  lists holds (`FlattenMembers`, `FlattenAppend`), and what `Only`, `AllBut` and
  `FirstOfEach` return for every list and in which order (`KeepAtMembers`,
  `OnlyMembers`, `FirstOfEachIs`). Of trees of blocks, that each block but the root
  has one parent before it (`ParentIs`) and that two subtrees are apart or one
  inside the other (`SubtreeNests`).
- `ServerProofs`, of the gate: `ResetInIsExact` (the wait is the least after which the
  oldest hit has left the window) and `PruneIsExact` (pruning early and again
  later keeps what pruning later keeps). Then `GateInvariant`, and from it `GateTypeCorrect`,
  `BudgetIsNeverOverspent`, `FetchesAreSpacedOut`, `NoUnpaidFetch` and
  `AnnouncedWaitIsExact`, each of which is a property of the run `gate`, and
  `GateImplementsUpstream`, the refinement of the abstract specification.
- `ServerProofs`, of the handlers: every step of a handler is a step of the gate or leaves it
  alone (`ServerImplementsGate`), so the budgets, the floor and the charging
  hold for the whole server, over all routes and kinds of request. Then
  `HandlerInvariant`, and from it `ServerTypeCorrect`, `RateLimitHolds` (no
  address exceeds its limit in any rolling window) and `EarlyAnswersAreFree`
  (what is answered without a fetch has cost nothing, what is fetched has
  passed every check).
  Last `AnswerInvariant`, and from it `HeaderSuffices` (a client that
  waits as long as a 429 says is let through if nobody else called),
  `CachedAnswersAreRight` (a profile out of the cache is the one asked for, was
  fetched, and is not older than the TTL), `RepeatsAreFree` (while the cache has
  room, a repeat within the TTL is answered from it) and
  `AllowanceIsNotOvercharged`. Of the process around it, `LifeInvariant`, and from
  it `RestartCostsOneLimit` (each restart within a window lets at most one more
  limit of units through) and `FloorSurvivesRestarts`.
- `TTLStoreProofs`: `GetEffect` and `SetEffect`, which say what the two
  operations do to a well-formed cache: which keys are listed afterwards, with
  which entries and in which relative order. Nothing about sequences is needed
  beyond them.
- `TTLCacheProofs`: `CacheInvariant`, and from it the properties of the run
  `cache`: `CacheTypeCorrect`, `CapacityIsKept`, `HitsAreRight`,
  `EvictionIsByRecency`.
- `CardFetchProofs`: `FetchInvariant`, and from it `FetchTypeCorrect`,
  `FanOutIsBounded`, `NoCardIsLost` and `NoGoroutineIsLeft`, the properties of the
  run `fetch`, and `FetchImplementsVerdict`: whatever the order of rows, goroutines
  and answers, the result is the one `FetchVerdict` computes from the answers.
- `FlatRowsProofs`: `FlatInvariant`, and from it, for cards of any length, the
  properties of the run `flat_rows`: `FlatTypeCorrect`, `LinesAreKept` (no loop
  loses, repeats or moves a line), `GroupsEndAtOwnEmployer` (a header's employer and
  place reach its roles and no others) and `FieldsAreShared` (each line of a row
  is in one field of its entity).
- `ProfileAssemblyProofs`: the properties of the run `profile`, for any cards and
  any trees of blocks: `CardsAccountedFor` (a card asked for is part of the profile
  or reported once), `RowsAreNotGlued` and `RowsAreApart` (what `EntityBlocks`
  returns are single rows, none of them twice or inside another, and no text is
  lost with a row that is dropped) and `RowsAreMerged` (each row of a section is in
  its list once, in the order of the page).
- `OutlineProofs`: for any document, `WalkEnds` (rows that refer to each other in
  circles do not keep the walk going), `BlocksOpenInside` (a block becomes a child
  of the block its element stands in), `NoCopyIsLeft`, `NoTextIsLost` (the
  properties of the run `outline` about the clean-ups), `OutlineIsReturned` and
  `PageTextIsFound` (what the walk reads is the text of the page, the last property of
  that run). `ParkedRowsAreWalked` says of the second walk that it takes exactly the
  rows the first should have left: those that are referred to nowhere.

**The inductive invariant of the gate.** `BudgetWindow` is not inductive: a
caller that has passed `Available` and not yet called `Spend` would break it if
the room it saw could go away. `GateInv` therefore adds

- `MutexInv`: at most the holder is inside the gate;
- `ClockInv`: no recorded time is in the future, and no fetch ends after
  `lastFetch`;
- `BudgetInv`: `hits[b]` holds every unit of the current window, which is
  what makes pruning by `/health` at any moment harmless;
- `ReservedInv`: a budget that the holder has checked still has room, since time
  only frees room and only the holder spends;
- `ChargeInv`: which budgets each phase has been charged to;
- `FlightInv`: a fetch is open exactly for the caller in phase `fetching`.

Each part has a lemma `...Step` with one case per action. `BudgetWindow` then
follows from `ReservedInv` at `Spend`: a window that ends now is `Kept(b)`, one
that ended earlier does not change. `FloorBetweenFetches` follows at `Begin`
from `ClockInv` and the test of `TooSoon`; `RetryAfterExact` from
`ResetInIsExact`. TLC checks `GateInv` in the run `gate` before the proofs rely
on it.

**That of the handlers.** `HandlerInv` is `GateInv` with `LimiterInv`, which is to
the limiter what `BudgetInv` is to a budget (`hits` of an address holds every
request of the current window and only requests of that address), and
`PassedInv`, which says of each stage what a request that got there has passed
and in which phases of the gate it can be. Since recording and checking are one
step, no reservation is needed: at `Throttle` the window that ends now is what
the limiter counted. `EarlyAnswersAreFree` joins the two state machines: a
request is answered early either before it enters the gate, where `ChargeInv`
and `FlightInv` say that it has paid nothing, or by the refusal of a budget,
where `ChargedExactlyWhenAdmitted` says so; and what is outside the gate stays
as it is (`OutsideGate`).

**That of the client.** Accounting alone is not inductive either. `FetchInv` adds
`StageInv` and `DiscoveryInv` (the components found are those the rows read so far
offer, in whatever order they were read), `JobInv` (goroutines exist only for
cards found, and none when the call has returned), `CountInv` (the slots taken
and the WaitGroup's counter are the numbers of goroutines that hold one and that
have not finished) and `RecordInv` (what the map, the list of failures and the
fatal error say is what the recorded answers amount to). With it a recording
step of a goroutine maps to a step of `FetchVerdict` and every other step of a
goroutine to a stutter.

**That of the cache.** `CacheInv` says that the list has no key twice, that the
map has exactly the listed keys and that they are at most `Capacity`
(`StateInv`); that each entry is the last one set for its key, with the expiry
it was given (`EntryInv`); and that of two listed keys the one ahead was used
later (`OrderInv`). The properties follow: what `Set` cuts off is behind all that
stays, so it was used before them, and there are `Capacity` of those. A list
without repeats of keys out of a set is not longer than the set is large
(`DistinctFits`), so with room for every key nothing is ever cut off.

**That of the answers.** `AnswerInv` extends `HandlerInv`. `AllowanceInv` is to the
allowance what `LimiterInv` is to the rate limiter; it speaks of charges, of
which there are at most `AnonLimit` in any window, and not of fetches, of which
there may be more (finding `server_allowance`). A wait in a header is computed
once, while requests go on being recorded: it stays right because the limiter
refuses only when its window is full (`FullInv`), and a window that was full at
a time gets no further requests for that time (`FullWindowIsFrozen`); what
is left is the arithmetic of rounding up to seconds (`HeaderWaitSuffices`).
`StoreInv` says of an entry of the cache whose response it holds. A request
that has answered never changes again (`AnsweredStays`), so an entry stays right
while it waits to be served (`ServedInv`). `KeptInv` says that what was stored is
there until it expires. It has the hypothesis `RoomForAll`, that
there are no more keys than `Capacity`, and so has `RepeatsAreFree`: with a
smaller cache a repeat may have been evicted, which is what an LRU cache is
for. The run `server_safety` has room for all its keys.

**That of the process.** The gate of a process is a `FetchGate` that started
late, so its invariant is `GateInv` again: `LifeInv` says that it holds while the
process runs, that each earlier process kept within its windows and apart by
the floor (`RunInv`), and that a process spends between its start and that of
its successor (`TimeInv`). A stop cuts requests off anywhere and breaks `GateInv`, which
says of each phase what was paid; `FreshEstablishes` gives it back at `Start`.
For `BudgetPerLife`, a window that ends at some time meets the process that ran when it
began and those that started inside it, since the others had all been
succeeded before; each contributes at most one limit.

**That of the rows.** The open row and the closed ones are lists of lines, and the
card is tiled by them and the headers: `EveryLineInOneRow` says that the lists
increase one after the other and that every line read is in a list or in a
header. Each loop does one of five things to the lists, and each has a lemma
(`TileExtend`, `TileBegin`, `TileCut`, `TileMove`, `TileDrop`), so this part is
inductive with the types and the places of the loops (`LoopInv`). The group needs
more, as long as lines are read: the open row is the run of lines before `at`
(`RunInv`), so a header is always the two lines before `at`; the last header heads
the group until a closed row names its own employer, and the run of places under
any other header has been interrupted by a line that is no place, so nothing read
later can belong to it (`GroupInv`); and the same for every closed row and the
header above it (`RowsInv`). For `FieldsAreShared`, what a row inherits is a line of
a header or nothing (`SourceInv`), hence none of its own lines, and the cascade of
filters in `ParseEntity` divides a list without repeats (`ParsedShares`).

**That of the outline.** `CyclesAreCut` is not inductive, as it says nothing of the
node itself. `WalkInv` says of each visit on the stack that its depth and the
height of its node together are at most the levels of row 0 and of the rows on
its path: a step into a node trades height for depth, and a row is expanded only
when its id is not on the path, which makes room for its height (`VisitInside`,
`FollowStep`). The ids of a document are finitely many, so this is a bound.
`WalkInv` also says where blocks may still be opened: the walk appends a block at
the end of the list, which puts it inside the right one only if every visit's
block is an ancestor of the last block, or it, and visits further down the stack
belong to blocks further up (`IsStack`, `IsTree`, `TreeGrows`); the orphan rows
belong to the root, for which this always holds. `CollapseInv` says that kept
blocks have different signatures, all of them met, and that each child of a block
that has been looked at is kept or has the signature of a kept one (`KeptInv`).
For `NoTextIsLost`, consider the kept blocks that render a text which is left
nowhere, and of these one that renders the fewest texts. The text is not its own,
so it is inside one of its children; of that child a copy is kept that renders the
same, hence is such a block too and renders no fewer texts than its wrapper. What is
inside a block renders fewer texts or exactly the same ones (`FewerTexts`), and
the latter makes the block a bare wrapper. `OutlineIsReturned` needs that a kept
block's parent is kept (`KeepAtOutline`).

For `PageTextIsFound` the state lacks what the walk has already done, so
`ContentInv` says that there is a set `h` of visits that are over, each a place and a
depth, of which the texts read are the texts (`Traversed`). Then (`Progress`)
whatever is over or still on the stack is a place that so many steps lead to
(`Sound`), and all that is one step below a visit that is over is over or on the
stack, one deeper (`Closed`), with one exception: where a row was cut since it is on
the path, its value was met earlier, at no greater depth and perhaps in another
mode, and the path shows that the row leads back to itself (`OnPath`, `CutIs`). A
step moves the top of the stack into `h` (`TraversedStep`), and each action has to show
that it leaves the node for just what is below it (`LeftFor`); for an element this
needs that a tag reads the same whether or not the path is cut, because what is on
the path are rows with content. When the stack is empty, induction over the steps
gives that all is met which is led to (`FoundIs`). The first walk has the same part
about row 0 alone, and that `builder.visited` holds the rows that the visits in `h`
refer to (`InWalk`). Which nodes are below a node does not depend on the mode
(`SameNodesBelow`), so here a cut loses nothing: the value was met before, and no
deeper. So at the end of the first walk the rows visited are those referred to
(`VisitedIs`), and the rows of the second walk are the others, cycles or not.

**That of the assembly.** For the cards it is enough that each is still to be
parsed, has an outline, or is reported (`CardsInv`): `InOrder` lists every card
once and `Only` every failed one once (`OrderIs`, `FailedAdded`), and the two
lists of `meta.cards_failed` are disjoint because the failed cards have no answer.
The rows need to know that what is walked over is an outline (`WalkInv`); a card
that is parsed adds an outline to one (`OutlinesJoin`). What `CollectRows` finds in
a block is then shown from the last block back to the first, since the blocks
inside a block come after it: its candidates are blocks inside it that hold text,
and a block in which there are several has several below any block it is the
only way to (`RowsAddUp`, `RowsComeUp`). A row with two children that hold text
would therefore have been replaced by its own rows, also if the two stand
further down, which is `NoGluedRows`. For `RowsStandApart`, the rows that
are left neither repeat nor wrap each other (`RowsDiffer`), and of the candidates whose
lines a given candidate holds, the first among the shortest is left
(`SomeRowIsLeft`). Page order is an invariant of its own (`RowsInv`): at each block the
list of its section holds what the section's blocks have shown so far, in the
order of their first positions. A block adds to both sides (`OneMoreBlock`); what
`Unseen` adds to the list stands behind all that was shown before and in the
block's own order (`MergeKeepsOrder`), and the blocks the walk skips are those of
sections without a merged list (`MergedTakesRepeats`).

**Model-checked only.** Liveness (`EveryCallReturns`, `FetchReturns`,
`EveryRequestIsAnsweredOrLost`): it needs fairness and ENABLED, out of the
prover's reach; so the refinement of `FetchVerdict` is proved without its
fairness. Every invariant that a passing run checks is proved. The library's
induction theorems take an operator as a parameter and cannot be used; what is left
is induction over a bounded index, as in `ListsProofs`, for definitions that are
recursive functions, as `After` in `PageText`, which counts steps. So nothing is
proved about what `ParseSkills` (a fold) returns, and the theorems about rows do not
need it.

## 5. What is left out

- Rendering, logging, CORS, the documentation pages and the access log change
  no state. `/health` is modelled by the pruning its `Remaining` calls do.
- Request bodies, headers and cookies of the client: only the answer's status
  and whether a body arrives matter to the control.
- Decoding the JSON of a Flight row (`ordered.go`, `num.go`, `tostring.go` and the
  splitting of a line): a parser of text; the trees it yields are the inputs of
  `Outline`. A row 0 that is a client component has no content in `Outline`; the code
  walks the array of its name and chunks, and finds no text there. Inside `Outline`, accessibility labels, the renditions of an image and
  the shape of a link.
- The depth limit of card discovery; a shell never comes near it.
- State harvesting (`states.go`): a search for values by key patterns.
- The top card (name, headline, place, pictures, followers): independent
  searches for a line, read by nothing else. Logos of flat rows, the details of a
  skill, the proficiency of a language.
- Rows cut too small: a lockup whose lines are blocks of their own becomes one row
  per line. `NoGluedRows` says that rows are not glued together, not the converse.
- Components of a shell that share a short name: no fixture of the repository has any.
- URL parsing: its outcome is a request's target or `BadUrl`. Configuration:
  its values are constants.
- The write timeout of the HTTP server: a response that comes after it is lost
  on the way, with no effect on any state here.

## 6. Where the code and its documentation differ

Shown by a run:

1. `server_allowance`. README.md:80-82 promises an address
   `ANON_PROFILES_PER_DAY` profiles a day. `anonymousAllowed` looks
   (`server.go:142`) and `anon.Check` charges only after the fetch
   (`server.go:149`), with its answer discarded. Two requests that both look
   first both fetch, past an allowance of one.
2. `server_refused_charge`. README.md:85: "Only fetches that actually reach
   LinkedIn are counted". The charge comes before the error is looked at, so a
   request that the budget refused is charged.
3. `flat_rows_tail`. `sections.go:574-578` says that a row's tail is handed
   back so that it does not become the next row's title. The loop hands lines
   to `rows[i-1]` even when that row has just been emptied, which brings it back
   to life with a line of prose as its first. In the run the two lines handed
   back are a dated bullet, which is a row of its own at first, and a sentence.
4. `outline_copies`. `sdui.go:438-440` says that `collapse` drops blocks that
   render exactly what an earlier block rendered, and that the shallowest copy
   is kept. A block's signature holds the texts of everything inside it, so a
   block without text of its own has the signature of a block of the same label
   that is its only content. That block is dropped as a copy of its own wrapper, and
   its text is left nowhere.

Noticed while modelling; the model behaves like the code, no run singles them
out:

- README.md:214 "`0` disables the allowance, making a key mandatory":
  `RateLimiter.Available` with limit zero always says yes (`cache.go:115`).
- `parser.go:417-418` says that skills and languages "can likewise span blocks;
  each branch above drops repeats by name." Those two branches append without
  looking (`parser.go:279`); only the interests branch does.
- README.md:436 "Repeats never reach LinkedIn": the cache is not asked again
  after the wait for the gate, so two identical requests that overlap both
  fetch.
- README.md:215 caps "fetches that reach LinkedIn, rolling hour": a unit is
  stamped before the pacing sleep, so a window counted at the starts of the
  fetches can hold more than the cap.
- README.md:197 "`Retry-After` says when it frees up": the wait announced is
  that of the first exhausted budget.
- README.md:193 has a missing key answered 401 when `API_KEYS` is set; README.md:80
  and the code give it the anonymous allowance.
- `cache.go:89` "Len is the number of live entries": it counts expired ones.
- `client.go:345` ranges over a map, so which of two offers of one component has
  its arguments replayed may differ from fetch to fetch. Which cards are asked
  for does not.
- `sdui.go:243`: a text that begins with a dollar sign is taken for a reference
  and is lost; Flight escapes such texts with a second one.
- `sdui.go:353`: `resolveTag` marks a row as visited that it does not descend
  into, so content in a row that is referred to only as a tag is not found.
- `sdui.go:421`: `dedupe` drops every second occurrence of a line in a block. In
  a flat list, where two roles may well have the same dates or employment type,
  README.md:593-594 promises `raw_lines` in page order, "always recoverable".
- `sections.go:570`: the row left open at the end of a flat list gets the employer
  of the last group without the test that closed rows are put to.
- `sections.go:647`: the details that follow a repeated skill are attached to the
  last skill that was kept, which is a different one.
- README.md:571-575 promises a warning when no content card succeeds, and the
  comment of `onlyShell` says "the only card that parsed": the code looks at
  the cards returned, so cards that came back as garbage silence that warning.
- README.md:145 shows `cards_returned` in string order: `sort.SliceStable` sorts
  the same array afterwards, so the shell comes first.
- README.md:604-605 "nothing is lost": the lines of group headers and of rows
  that are a lone date are in no entity's `raw_lines`.

## 7. Plan

Done, in this order: the gate with its abstract specification, its invariant
and proofs; the cache; the client's fan-out; the handlers over the gate; flat
rows; assembly; card discovery; the Flight rows and the outline; the rows of a
section out of trees of blocks; the process's life; the proofs about the client,
the handlers, the cache, the answers, the process, the flat rows, the
assembly and the outline, last that the walk finds the text of the page.

Left, in order of worth:

1. The top card and `states.go`: which of several candidates for a name wins.
2. `urlparse`: the decision between a vanity name, a link and a refusal.
