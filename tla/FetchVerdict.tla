---------------------------- MODULE FetchVerdict ----------------------------
(***************************************************************************)
(* What Client.FetchProfile promises its caller, without goroutines and    *)
(* without rows: it learns whether the shell could be had, which cards the *)
(* shell lists and what LinkedIn answered for each, in any order, and its  *)
(* result is a function of those answers alone.  CardFetch implements it.  *)
(***************************************************************************)
EXTENDS Upstream, CardDiscovery

CONSTANTS Statuses, Shells

VARIABLES
    wantsActivity,  \* the caller asked for the activity card
    navigated,      \* the answer to the navigate request, or Waiting
    listed,         \* the cards to fetch, or Waiting
    answers,        \* the answers so far, a function on the answered cards
    verdict         \* what FetchProfile returned, or Waiting

Waiting == [kind |-> "waiting"]

Error(code) == [kind |-> "error", code |-> code]

Answered(code) == {c \in DOMAIN answers : Code(answers[c]) = code}

\* Every card that answered is delivered and every other one is named as
\* failed; a single rejected session discards the profile.
Verdict ==
    IF Answered("session_expired") # {}
    THEN Error("session_expired")
    ELSE [kind |-> "result",
          cards |-> Answered("ok"),
          failed |-> DOMAIN answers \ Answered("ok")]

VerdictInit ==
    /\ wantsActivity \in BOOLEAN
    /\ navigated = Waiting /\ listed = Waiting
    /\ answers = <<>>
    /\ verdict = Waiting

ShellArrives(s, rows) ==
    /\ navigated = Waiting
    /\ navigated' = [kind |-> "shell", status |-> s, rows |-> rows]
    /\ verdict' = IF Code(s) = "ok" THEN verdict ELSE Error(Code(s))
    /\ UNCHANGED <<wantsActivity, listed, answers>>

\* The cards are those the shell advertises, in whatever order it is read.
CardsFound ==
    /\ navigated # Waiting /\ verdict = Waiting /\ listed = Waiting
    /\ navigated.rows # <<>>
    /\ listed' = [kind |-> "cards", set |-> Listed(navigated.rows, wantsActivity)]
    /\ verdict' = IF listed'.set = {} THEN Verdict ELSE verdict
    /\ UNCHANGED <<wantsActivity, navigated, answers>>

ShellUnparseable ==
    /\ navigated # Waiting /\ verdict = Waiting /\ listed = Waiting
    /\ navigated.rows = <<>>
    /\ verdict' = Error("unparseable_response")
    /\ UNCHANGED <<wantsActivity, navigated, listed, answers>>

CardAnswers(c, s) ==
    /\ listed # Waiting /\ verdict = Waiting
    /\ c \in listed.set \ DOMAIN answers
    /\ answers' = [d \in DOMAIN answers \cup {c} |-> IF d = c THEN s ELSE answers[d]]
    /\ UNCHANGED <<wantsActivity, navigated, listed, verdict>>

\* Only with every card accounted for.
Return ==
    /\ listed # Waiting /\ verdict = Waiting
    /\ DOMAIN answers = listed.set
    /\ verdict' = Verdict
    /\ UNCHANGED <<wantsActivity, navigated, listed, answers>>

VerdictNext ==
    \/ \E s \in Statuses, rows \in Shells : ShellArrives(s, rows)
    \/ CardsFound
    \/ ShellUnparseable
    \/ \E s \in Statuses, c \in Cards : CardAnswers(c, s)
    \/ Return

verdictVars == <<wantsActivity, navigated, listed, answers, verdict>>

VerdictSafety == VerdictInit /\ [][VerdictNext]_verdictVars
VerdictSpec == VerdictSafety /\ WF_verdictVars(VerdictNext)
=============================================================================
