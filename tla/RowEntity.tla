----------------------------- MODULE RowEntity ------------------------------
(***************************************************************************)
(* ParseEntity: how the lines of one row become the fields of an entity.   *)
(* A row is a sequence of lines, a line is its position on the card, and   *)
(* text[l] is the kind of the line at position l.  A field holds the       *)
(* position of the line it was read from, zero when it stays empty; the    *)
(* description is the sequence of lines it joins.                          *)
(***************************************************************************)
EXTENDS LineKinds, Lists, SequencesExt

None == 0

\* The first line of seq that is in set, None if there is no such line.
FirstIn(seq, set) ==
    LET found == Only(seq, set)
    IN  IF found = <<>> THEN None ELSE Head(found)

Dates(text)       == {l \in DOMAIN text : IsDate(text[l])}
Places(text)      == {l \in DOMAIN text : LooksLikeLocation(text[l])}
Credentials(text) == {l \in DOMAIN text : IsCredential(text[l])}

\* The line after the title is a subtitle unless what stands before its
\* employment type is a sentence, or a place with no line after it.
TakesSubtitle(rest, text) ==
    /\ rest # <<>>
    /\ LET subtitle == BeforeType(text[Head(rest)])
       IN  /\ ~LooksLikeProse(subtitle)
           /\ ~(LooksLikeLocation(subtitle) /\ Len(rest) = 1)

\* The entities a card can yield.
Entities(text) ==
    LET Field == DOMAIN text \cup {None}
    IN  [title : Field, subtitle : Field, employment : Field, dates : Field,
         location : Field, description : Seq(DOMAIN text), raw : Seq(DOMAIN text)]

\* Mutant of ParseEntity: the place found is left in the description too.
ParseEntityPlaceTwice(lines, text) ==
    LET date        == FirstIn(lines, Dates(text))
        undated     == Only(lines, DOMAIN text \ {date})
        credentials == Only(undated, Credentials(text))
        remaining   == Only(undated, DOMAIN text \ Credentials(text))
        rest        == IF remaining = <<>> THEN <<>> ELSE Tail(remaining)
        second      == TakesSubtitle(rest, text)
        details     == IF second THEN Tail(rest) ELSE rest
        place       == FirstIn(details, Places(text))
    IN  [title       |-> IF remaining = <<>> THEN None ELSE Head(remaining),
         subtitle    |-> IF second THEN Head(rest) ELSE None,
         employment  |-> IF second /\ NamesType(text[Head(rest)])
                         THEN Head(rest) ELSE None,
         dates       |-> date,
         location    |-> place,
         description |-> details \o credentials,
         raw         |-> lines]

\* The first date, then the credentials, are set aside; of what remains the
\* first line is the title, the second may be the subtitle and names the
\* employment type, the first place is the location, and the rest, then the
\* credentials, are the description.
ParseEntity(lines, text) ==
    LET date        == FirstIn(lines, Dates(text))
        undated     == Only(lines, DOMAIN text \ {date})
        credentials == Only(undated, Credentials(text))
        remaining   == Only(undated, DOMAIN text \ Credentials(text))
        rest        == IF remaining = <<>> THEN <<>> ELSE Tail(remaining)
        second      == TakesSubtitle(rest, text)
        details     == IF second THEN Tail(rest) ELSE rest
        place       == FirstIn(details, Places(text))
    IN  [title       |-> IF remaining = <<>> THEN None ELSE Head(remaining),
         subtitle    |-> IF second THEN Head(rest) ELSE None,
         employment  |-> IF second /\ NamesType(text[Head(rest)])
                         THEN Head(rest) ELSE None,
         dates       |-> date,
         location    |-> place,
         description |-> Only(details, DOMAIN text \ {place}) \o credentials,
         raw         |-> lines]

\* namesItsOwnEmployer: two lines that could be names.
NamesItsOwnEmployer(lines, text) ==
    \E j, k \in DOMAIN lines :
        j # k /\ IsNameLike(text[lines[j]]) /\ IsNameLike(text[lines[k]])

\* ParseEntities keeps an entity that has a title or a subtitle.
IsEntity(entity) == entity.title # None \/ entity.subtitle # None
=============================================================================
