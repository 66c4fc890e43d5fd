--------------------------- MODULE CardDiscovery ----------------------------
(***************************************************************************)
(* DiscoverCards: which cards a shell advertises.  A shell is the sequence *)
(* of the rows of its document, a row the sequence of the requests for     *)
(* asynchronous components inside it, a request [card, args]: the short    *)
(* name of its component and the arguments to replay.  A body that is no   *)
(* Flight stream has no rows.  The code keys what it finds by the full id  *)
(* of a component; no two components of a shell share a short name here.   *)
(***************************************************************************)
EXTENDS FiniteSetsExt, Integers, Sequences

CONSTANTS
    WantedCards,    \* the cards worth fetching, in page order
    ActivityCard,   \* fetched on demand only
    NoArguments     \* requestedArguments missing or no object

ASSUME WantedAssumption ==
    /\ WantedCards \in Seq({WantedCards[k] : k \in DOMAIN WantedCards})
    /\ ActivityCard \notin {WantedCards[k] : k \in DOMAIN WantedCards}

PageOrder == Append(WantedCards, ActivityCard)
Cards == {PageOrder[k] : k \in DOMAIN PageOrder}

\* The keys of order.
Wanted(activity) == IF activity THEN Cards ELSE Cards \ {ActivityCard}

\* Card c stands no later on the page than card d.
NotAfter(c, d) ==
    \E k, l \in DOMAIN PageOrder : PageOrder[k] = c /\ PageOrder[l] = d /\ k =< l

\* The requests of row that collectCard may take for card c.
Offers(row, c) ==
    {k \in DOMAIN row : row[k].card = c /\ row[k].args # NoArguments}

\* The cards a shell advertises, wherever in it they stand.
Listed(rows, activity) ==
    {c \in Wanted(activity) : \E r \in DOMAIN rows : Offers(rows[r], c) # {}}

\* collectCard of every request of a row: the first of a card is taken.
Collected(found, row, activity) ==
    LET new == {c \in Wanted(activity) \ DOMAIN found : Offers(row, c) # {}}
    IN  [c \in DOMAIN found \cup new |->
            IF c \in DOMAIN found THEN found[c]
                                  ELSE row[Min(Offers(row, c))].args]
=============================================================================
