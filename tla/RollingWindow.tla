--------------------------- MODULE RollingWindow ---------------------------
(***************************************************************************)
(* The rolling window that cache.Budget and cache.RateLimiter share.       *)
(*                                                                         *)
(* The code keeps a slice of timestamps in the order they were appended.   *)
(* Both types read the clock while they hold their mutex, so append order  *)
(* is time order and hits[0] is always a timestamp no other precedes.  A   *)
(* hit is therefore named here by the request that recorded it, the slice  *)
(* is a SET of such names, and stamp[h] is the time the hit carries.       *)
(***************************************************************************)
EXTENDS Integers, FiniteSets

\* prune: what is kept at time t, those stamped after the cutoff t - window.
Live(hits, stamp, t, window) == {h \in hits : stamp[h] > t - window}

\* Mutant of Oldest: the wait is read from the last hit instead of the first.
NewestHit(hits, stamp) ==
    CHOOSE h \in hits : \A g \in hits : stamp[h] >= stamp[g]

\* hits[0] of a non-empty slice: a hit no other precedes.
Oldest(hits, stamp) ==
    CHOOSE h \in hits : \A g \in hits : stamp[h] =< stamp[g]

\* Mutant of ResetIn: the subtraction the wrong way round.
ResetInNegated(hits, stamp, t, window) ==
    (t - stamp[Oldest(hits, stamp)]) - window

\* window - now.Sub(hits[0]): how long until the oldest hit leaves the window.
ResetIn(hits, stamp, t, window) == window - (t - stamp[Oldest(hits, stamp)])

\* The hits a history of stamps places in the half-open window that ends at t,
\* pruned or not.  A hit not yet recorded is stamped -1.
Recorded(stamp, t, window) ==
    {h \in DOMAIN stamp : /\ stamp[h] >= 0
                          /\ stamp[h] > t - window
                          /\ stamp[h] =< t}

\* Mutant of RetryAfterHeader: rounded down, with nothing added.
RoundedDown(resetIn, second) == resetIn \div second

\* How long a caller is told to wait: writeError rounds the duration down to
\* whole seconds and adds one (Second is the length of a second in ticks).
RetryAfterHeader(resetIn, second) == (resetIn \div second) + 1
=============================================================================
