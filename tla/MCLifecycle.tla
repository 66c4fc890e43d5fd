---------------------------- MODULE MCLifecycle -----------------------------
(***************************************************************************)
(* Two requests, one of which may go away, and a process that stops while  *)
(* they are anywhere in their handlers: drained, out of time or crashed.   *)
(***************************************************************************)
EXTENDS Lifecycle

CONSTANTS r1, r2, alice, bob, jane

TwoRequests == {r1, r2}
OneFlaky    == {r1}

Ask(client, key, route) ==
    [client |-> client, key |-> key, route |-> route, target |-> jane,
     activity |-> FALSE, refresh |-> FALSE]

\* Without a key and with one.
AnyCaller == {Ask(alice, "none", "raw"), Ask(bob, "good", "profile")}

WithSession == {TRUE}
OneAnHour   == [hourly |-> 1, daily |-> 0]
TwoTicks    == [hourly |-> 2, daily |-> 4]
=============================================================================
