---------------------------- MODULE MCCardFetch ----------------------------
(***************************************************************************)
(* More cards than slots, and shells that advertise them once or twice,    *)
(* with and without arguments, next to components nobody wants.            *)
(***************************************************************************)
EXTENDS CardFetch

CONSTANTS a, b, activityCard, other, noArguments

TwoCards == <<a, b>>
SomeStatuses == {200, 302, 429, NoResponse}

Request(card, args) == [card |-> card, args |-> args]

SomeShells ==
    {<<>>,
     <<<<>>, <<Request(other, 1), Request(a, noArguments)>>>>,
     <<<<Request(a, 1)>>>>,
     <<<<Request(b, 1), Request(a, noArguments), Request(b, 2)>>, <<Request(a, 1)>>>>,
     <<<<Request(activityCard, 1), Request(b, 1)>>, <<Request(a, 1), Request(b, 2)>>>>}
=============================================================================
