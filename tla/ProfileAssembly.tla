-------------------------- MODULE ProfileAssembly --------------------------
(***************************************************************************)
(* ParseProfile and the end of handleProfile: the cards of one fetch are   *)
(* parsed, the shell first, their blocks are merged into one profile, and  *)
(* meta says which cards are missing.                                      *)
(*                                                                         *)
(* A card's answer is [ok, blocks]: no Flight stream, or its outline, see  *)
(* Sections.  Walk visits a block before the blocks inside it, so one row  *)
(* can be met twice.  An entity is its fingerprint.  The top card and the  *)
(* followers are left out: nothing else reads them.                        *)
(***************************************************************************)
EXTENDS Sections

CONSTANTS
    CardOrder,  \* the names of the cards in string order, without the shell
    Fetches     \* what FetchProfile may return: answers and failed cards

Shell == "shell"

ASSUME CardOrderAssumption ==
    /\ CardOrder \in Seq(ToSet(CardOrder)) /\ IsInjective(CardOrder)
    /\ Shell \notin ToSet(CardOrder)

\* FetchProfile returns the shell, and each card asked for either gave an answer
\* or failed (CardFetch); an answer is an outline.
ASSUME FetchesAssumption ==
    \A f \in Fetches :
        /\ Shell \in DOMAIN f.cards
        /\ DOMAIN f.cards \subseteq {Shell} \cup ToSet(CardOrder)
        /\ f.failed \subseteq ToSet(CardOrder) \ DOMAIN f.cards
        /\ \A c \in DOMAIN f.cards : IsOutline(f.cards[c].blocks)

NoKey == "none"     \* SectionKey's empty answer

\* What stands for the outline of a body that is no Flight stream.
NoOutline == <<[level |-> 0, key |-> "nil", chrome |-> FALSE, texts |-> <<>>]>>

EntitySections == {"experience", "education", "certifications", "projects",
                   "volunteering", "publications", "honors", "courses",
                   "organizations", "recommendations"}
PassthroughSections == {"activity", "featured", "services", "highlights",
                        "patents", "test_scores", "causes"}
ListSections == EntitySections \cup {"skills", "languages", "interests"}

\* acceptsRepeats.
AcceptsRepeats(key) == key \in ListSections

VARIABLES
    fetched,    \* [cards, failed]: the answers and the cards that gave none
    stage,      \* the part of the work that runs
    names,      \* the cards not parsed yet, in order
    outlines,   \* the outlines of the parsed cards, in order
    at,         \* the next block of the walk over the outlines
    lists,      \* lists[key]: the profile's list for that section
    about,      \* the profile's about text, as paragraphs
    other,      \* other_sections
    found,      \* meta.sections_found
    cardsFailed,\* meta.cards_failed
    warnings    \* the reasons among meta.warnings

vars == <<fetched, stage, names, outlines, at, lists, about, other, found,
          cardsFailed, warnings>>

\* The names sorted, the shell moved to the front.
InOrder(cards) ==
    <<Shell>> \o Only(CardOrder, cards)

Init ==
    /\ fetched \in Fetches
    /\ stage = "parse"
    /\ names = InOrder(DOMAIN fetched.cards)
    /\ outlines = <<>> /\ at = 1
    /\ lists = [key \in ListSections |-> <<>>]
    /\ about = <<>> /\ other = <<>>
    /\ found = <<>> /\ cardsFailed = <<>> /\ warnings = {}

-----------------------------------------------------------------------------
\* A card that is no Flight stream is reported, the others go on.
ParseCard ==
    LET card == fetched.cards[Head(names)] IN
    /\ stage = "parse" /\ names # <<>>
    /\ names' = Tail(names)
    /\ IF card.ok
       THEN /\ outlines' = Append(outlines, card.blocks)
            /\ UNCHANGED <<cardsFailed, warnings>>
       ELSE /\ cardsFailed' = Append(cardsFailed, Head(names))
            /\ warnings' = warnings \cup {"unparseable"}
            /\ UNCHANGED outlines
    /\ UNCHANGED <<fetched, stage, at, lists, about, other, found>>

AllParsed ==
    /\ stage = "parse" /\ names = <<>>
    /\ stage' = "merge"
    /\ UNCHANGED <<fetched, names, outlines, at, lists, about, other, found,
                   cardsFailed, warnings>>

-----------------------------------------------------------------------------
(* The loop over the blocks of all outlines.                               *)

walk == FlattenSeq(outlines)
block == walk[at]
seenSection == ToSet(found)

AtBlock == stage = "merge" /\ at =< Len(walk)

\* What a section whose rows are merged finds in block i.
Items(key, i) ==
    IF key = "interests" THEN ParseInterests(walk, i) ELSE ParseEntities(walk, i)

IsSkipped ==
    \/ block.key = NoKey
    \/ block.key \in seenSection /\ ~AcceptsRepeats(block.key)

\* The block is no section, or one that was seen and takes no repeats.
SkipBlock ==
    /\ AtBlock /\ IsSkipped
    /\ at' = at + 1
    /\ UNCHANGED <<fetched, stage, names, outlines, lists, about, other, found,
                   cardsFailed, warnings>>

\* The block is applied, and its key is seen whether it held anything or not.
Applied(key) ==
    /\ AtBlock /\ ~IsSkipped
    /\ block.key = key
    /\ found' = IF key \in seenSection THEN found ELSE Append(found, key)
    /\ at' = at + 1
    /\ UNCHANGED <<fetched, stage, names, outlines, cardsFailed, warnings>>

About ==
    /\ Applied("about")
    /\ about' = IF about = <<>> THEN AboutText(walk, at) ELSE about
    /\ UNCHANGED <<lists, other>>

\* Skills and languages: whatever the block holds is appended.
Named(key) ==
    /\ key \in {"skills", "languages"}
    /\ Applied(key)
    /\ lists' = [lists EXCEPT ![key] =
                    @ \o IF key = "skills" THEN ParseSkills(walk, at)
                                           ELSE ParseLanguages(walk, at)]
    /\ UNCHANGED <<about, other>>

\* Mutant of Unseen: rows are compared with those of their own block only.
UnseenInBlock(old, new) == FirstOfEach(new)

\* The members of new that are neither in old nor earlier in new.
Unseen(old, new) == AllBut(FirstOfEach(new), ToSet(old))

\* Interests, and the sections of entities (withoutSeenEntities).
Merged(key) ==
    /\ key \in EntitySections \cup {"interests"}
    /\ Applied(key)
    /\ \E items \in {Items(key, at)} :
          lists' = [lists EXCEPT ![key] = @ \o Unseen(@, items)]
    /\ UNCHANGED <<about, other>>

Passthrough(key) ==
    /\ key \in PassthroughSections
    /\ Applied(key)
    /\ other' = IF LinesOf(walk, at) = <<>> THEN other
                ELSE Append(other, [key |-> key, lines |-> LinesOf(walk, at)])
    /\ UNCHANGED <<lists, about>>

\* ParseProfile ends: onlyShell looks at the cards returned.
Finish ==
    /\ stage = "merge" /\ at > Len(walk)
    /\ stage' = "parsed"
    /\ warnings' = IF DOMAIN fetched.cards = {Shell}
                   THEN warnings \cup {"onlyShell"} ELSE warnings
    /\ UNCHANGED <<fetched, names, outlines, at, lists, about, other, found,
                   cardsFailed>>

\* Mutant of AddFailed: meta.CardsFailed is assigned, not appended to.
AddFailedOnly ==
    /\ stage = "parsed"
    /\ stage' = "done"
    /\ cardsFailed' = Only(CardOrder, fetched.failed)
    /\ warnings' = IF fetched.failed # {} THEN warnings \cup {"notFetched"}
                                         ELSE warnings
    /\ UNCHANGED <<fetched, names, outlines, at, lists, about, other, found>>

\* handleProfile adds the cards that could not be fetched, sorted by name.
AddFailed ==
    /\ stage = "parsed"
    /\ stage' = "done"
    /\ cardsFailed' = cardsFailed \o Only(CardOrder, fetched.failed)
    /\ warnings' = IF fetched.failed # {} THEN warnings \cup {"notFetched"}
                                         ELSE warnings
    /\ UNCHANGED <<fetched, names, outlines, at, lists, about, other, found>>

Next ==
    \/ ParseCard \/ AllParsed
    \/ SkipBlock \/ About
    \/ \E key \in {"skills", "languages"} : Named(key)
    \/ \E key \in EntitySections \cup {"interests"} : Merged(key)
    \/ \E key \in PassthroughSections : Passthrough(key)
    \/ Finish \/ AddFailed

Spec == Init /\ [][Next]_vars

-----------------------------------------------------------------------------
\* What the blocks of section key hold, up to the one being visited.
Rendered(key) ==
    FlattenSeq([k \in 1 .. (at - 1) |->
                   IF walk[k].key = key THEN Items(key, k) ELSE <<>>])

\* The position at which x is rendered first.
FirstAt(seq, x) == SelectInSeq(seq, LAMBDA y : y = x)

\* However a section is split over cards and nested blocks, each of its rows is
\* in the profile, once, in page order, and interests do not stop at the card
\* that holds their heading only (applySection, acceptsRepeats).
RowsOnceInPageOrder ==
    stage # "parse" =>
        \A key \in ListSections \ {"skills", "languages"} :
            LET all == Rendered(key) IN
            /\ ToSet(lists[key]) = ToSet(all)
            /\ \A i, j \in DOMAIN lists[key] :
                  i < j => FirstAt(all, lists[key][i]) < FirstAt(all, lists[key][j])

\* A card that was asked for is either part of the profile or named once in
\* meta.cards_failed, and a profile with a card missing carries a warning (the
\* failures of the fetch and those of the parser reach meta by two paths).
EveryCardAccountedFor ==
    stage = "done" =>
        LET parsed == {c \in DOMAIN fetched.cards : fetched.cards[c].ok}
            asked == DOMAIN fetched.cards \cup fetched.failed
        IN  /\ ToSet(cardsFailed) = asked \ parsed
            /\ IsInjective(cardsFailed)
            /\ Len(outlines) = Cardinality(parsed)
            /\ cardsFailed # <<>> => warnings # {}

\* What a block of some section is read as rows: the rows of the block that
\* the walk is at.
RowsHere == IF AtBlock /\ block.key # NoKey THEN EntityBlocks(walk, at) ELSE <<>>

\* Two rows are never read as one, "with all of them glued together": nowhere
\* inside a row do two blocks that hold text stand side by side, however deep
\* the wrappers around the rows go (EntityBlocks, collectRows).
NoGluedRows ==
    \A r \in ToSet(RowsHere) :
        \A i \in Subtree(walk, r) :
            (\A c \in Subtree(walk, r) \ {r} : i \in Subtree(walk, c) => ~walk[c].chrome)
            => \A c, d \in TextChildren(walk, i) : c = d

\* No row is there twice and none contains another, wherever a wrapper and its
\* repeats stand, and no text is lost with what is dropped unless it wraps a
\* row that is kept (EntityBlocks: "Exact repeats and containing wrappers are
\* both dropped").
RowsStandApart ==
    LET Lines(r) == LinesOf(walk, r) IN
    /\ \A r, q \in ToSet(RowsHere) :
          r # q => ~ContainsRun(Lines(r), Lines(q))
    /\ AtBlock /\ block.key # NoKey =>
          \A c \in ToSet(CollectRows(walk)[at]) :
             \E r \in ToSet(RowsHere) : ContainsRun(Lines(c), Lines(r))
=============================================================================
