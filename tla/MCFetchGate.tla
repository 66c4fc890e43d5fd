---------------------------- MODULE MCFetchGate ----------------------------
(* A small instance of FetchGate: one caller more than the daily budget has *)
(* units, one that may disconnect, and a clock that sees both windows end.  *)
EXTENDS FetchGate, TLC

CONSTANTS c1, c2, c3

ThreeCallers == {c1, c2, c3}
OneFlaky     == {c1}

\* The daily budget binds first, with units spent at different times.
TightLimits  == [hourly |-> 1, daily |-> 2]
TightWindows == [hourly |-> 2, daily |-> 4]
=============================================================================
