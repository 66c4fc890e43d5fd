------------------------------ MODULE MCServer ------------------------------
(***************************************************************************)
(* Small instances of Server.  Each asks one question of the handlers with *)
(* the requests that bear on it: two at a time, drawn from the kinds below *)
(* in every combination.                                                   *)
(***************************************************************************)
EXTENDS Server, TLC

CONSTANTS r1, r2, alice, bob, jane

TwoRequests == {r1, r2}
Nobody      == {}

Ask(client, key, route, target, activity, refresh) ==
    [client |-> client, key |-> key, route |-> route, target |-> target,
     activity |-> activity, refresh |-> refresh]

\* Two addresses, one without a key, over both routes.  A wrong key and a bad
\* url are among them.
MixedKinds ==
    {Ask(alice, "none", "profile", jane, FALSE, FALSE),
     Ask(alice, "none", "raw", jane, FALSE, FALSE),
     Ask(alice, "bad", "profile", jane, FALSE, FALSE),
     Ask(bob, "good", "profile", BadUrl, FALSE, FALSE),
     Ask(bob, "good", "profile", jane, FALSE, FALSE)}

\* The same, and the profile with its activity and afresh.
EveryKind == MixedKinds \cup
    {Ask(bob, "good", "profile", jane, TRUE, FALSE),
     Ask(alice, "none", "profile", jane, FALSE, TRUE)}

\* One address without a key that asks for one profile after another.
AnonymousKinds == {Ask(alice, "none", "raw", jane, FALSE, FALSE)}

WithSession == {TRUE}
EitherWay   == {TRUE, FALSE}

OffLimits   == [hourly |-> 0, daily |-> 0]
OneAnHour   == [hourly |-> 1, daily |-> 0]
ShortWindows == [hourly |-> 2, daily |-> 4]

RequestSymmetry == Permutations(Callers)
=============================================================================
