------------------------------ MODULE FlatRows ------------------------------
(***************************************************************************)
(* parseFlatEntities: a card that renders its rows as one flat list of     *)
(* lines is cut into rows and every row mapped onto an entity.             *)
(*                                                                         *)
(* The first loop reads the lines: a line that closes a row ends it, and a *)
(* name with a bare duration under it heads a group of roles that inherit  *)
(* its employer and its place.  The second loop hands lines rendered after *)
(* a date back to the row they belong to.  The third drops the rows this   *)
(* emptied, the last maps what is left.  Logos are left out.               *)
(*                                                                         *)
(* A line is its position in text.  heads is history: the lines the group  *)
(* headers took.                                                           *)
(***************************************************************************)
EXTENDS RowEntity, FiniteSets

CONSTANT Texts      \* the cards: sequences of line kinds

ASSUME TextsAssumption == \A t \in Texts : t \in Seq(Kinds)

VARIABLES
    text,       \* the card
    stage,      \* the loop that runs
    at,         \* the next line, then the next row
    rows,       \* lines, company and location of each row
    current,    \* the lines of the row being read
    group,      \* the header's name, None outside a group
    groupLoc,   \* the header's place
    afterHead,  \* the last line belonged to a header
    out,        \* the entities
    heads       \* history: the lines that belong to headers

vars == <<text, stage, at, rows, current, group, groupLoc, afterHead, out, heads>>

Init ==
    /\ text \in Texts
    /\ stage = "split" /\ at = 1
    /\ rows = <<>> /\ current = <<>>
    /\ group = None /\ groupLoc = None /\ afterHead = FALSE
    /\ out = <<>>
    /\ heads = {}

Row(lines, company, location) ==
    [lines |-> lines, company |-> company, location |-> location]

-----------------------------------------------------------------------------
(* The first loop, one line per step.                                      *)

AtLine == stage = "split" /\ at =< Len(text)

\* The line is a bare duration under a single name.
IsHeader == IsBareDuration(text[at]) /\ Len(current) = 1

\* The line is the place under a header.
IsHeaderPlace == afterHead /\ LooksLikeLocation(text[at])

Header ==
    /\ AtLine /\ IsHeader
    /\ group' = Head(current) /\ groupLoc' = None /\ afterHead' = TRUE
    /\ current' = <<>>
    /\ heads' = heads \cup {Head(current), at}
    /\ at' = at + 1
    /\ UNCHANGED <<text, stage, rows, out>>

HeaderPlace ==
    /\ AtLine /\ ~IsHeader /\ IsHeaderPlace
    /\ groupLoc' = at
    /\ heads' = heads \cup {at}
    /\ at' = at + 1
    /\ UNCHANGED <<text, stage, rows, current, group, afterHead, out>>

\* A line of a row that goes on.
Extend ==
    /\ AtLine /\ ~IsHeader /\ ~IsHeaderPlace
    /\ ~ClosesRow(text[at])
    /\ current' = Append(current, at)
    /\ afterHead' = FALSE
    /\ at' = at + 1
    /\ UNCHANGED <<text, stage, rows, group, groupLoc, out, heads>>

\* Mutant of Close: the employer is forgotten, the place is not.
CloseKeepsPlace ==
    LET lines == Append(current, at)
        leaves == group # None /\ NamesItsOwnEmployer(lines, text)
    IN
    /\ AtLine /\ ~IsHeader /\ ~IsHeaderPlace
    /\ ClosesRow(text[at])
    /\ group' = IF leaves THEN None ELSE group
    /\ rows' = Append(rows, Row(lines, group', groupLoc))
    /\ current' = <<>>
    /\ afterHead' = FALSE
    /\ at' = at + 1
    /\ UNCHANGED <<text, stage, groupLoc, out, heads>>

\* Mutant of Close: the row is recorded before it leaves the group.
CloseRecordsFirst ==
    LET lines == Append(current, at)
        leaves == group # None /\ NamesItsOwnEmployer(lines, text)
    IN
    /\ AtLine /\ ~IsHeader /\ ~IsHeaderPlace
    /\ ClosesRow(text[at])
    /\ rows' = Append(rows, Row(lines, group, groupLoc))
    /\ group' = IF leaves THEN None ELSE group
    /\ groupLoc' = IF leaves THEN None ELSE groupLoc
    /\ current' = <<>>
    /\ afterHead' = FALSE
    /\ at' = at + 1
    /\ UNCHANGED <<text, stage, out, heads>>

\* The last line of a row: a row that names its own employer leaves the group
\* before it is recorded.
Close ==
    LET lines == Append(current, at)
        leaves == group # None /\ NamesItsOwnEmployer(lines, text)
    IN
    /\ AtLine /\ ~IsHeader /\ ~IsHeaderPlace
    /\ ClosesRow(text[at])
    /\ group' = IF leaves THEN None ELSE group
    /\ groupLoc' = IF leaves THEN None ELSE groupLoc
    /\ rows' = Append(rows, Row(lines, group', groupLoc'))
    /\ current' = <<>>
    /\ afterHead' = FALSE
    /\ at' = at + 1
    /\ UNCHANGED <<text, stage, out, heads>>

\* After the last line what was read of an open row is a row too; the group
\* is not asked whether the row left it.
EndOfText ==
    /\ stage = "split" /\ at > Len(text)
    /\ rows' = IF current = <<>> THEN rows
                                 ELSE Append(rows, Row(current, group, groupLoc))
    /\ current' = <<>>
    /\ stage' = "handBack" /\ at' = 2
    /\ UNCHANGED <<text, group, groupLoc, afterHead, out, heads>>

-----------------------------------------------------------------------------
(* The loops over the rows.                                                *)

\* The row begins with a line that continues the one before it.
BeginsWithTail(row) ==
    row.lines # <<>> /\ Continues(text[Head(row.lines)])

\* Mutant of HandBack: the line goes to the front of the row before.
HandBackInFront ==
    /\ stage = "handBack" /\ at =< Len(rows)
    /\ BeginsWithTail(rows[at])
    /\ rows' = [rows EXCEPT
                   ![at - 1].lines = <<Head(rows[at].lines)>> \o @,
                   ![at].lines = Tail(@)]
    /\ UNCHANGED <<text, stage, at, current, group, groupLoc, afterHead, out, heads>>

\* The first line of the row goes to the end of the row before it, be that
\* empty by now or not.
HandBack ==
    /\ stage = "handBack" /\ at =< Len(rows)
    /\ BeginsWithTail(rows[at])
    /\ rows' = [rows EXCEPT
                   ![at - 1].lines = Append(@, Head(rows[at].lines)),
                   ![at].lines = Tail(@)]
    /\ UNCHANGED <<text, stage, at, current, group, groupLoc, afterHead, out, heads>>

NextRow ==
    /\ stage = "handBack" /\ at =< Len(rows)
    /\ ~BeginsWithTail(rows[at])
    /\ at' = at + 1
    /\ UNCHANGED <<text, stage, rows, current, group, groupLoc, afterHead, out, heads>>

RowsRead ==
    /\ stage = "handBack" /\ at > Len(rows)
    /\ stage' = "drop" /\ at' = 1
    /\ UNCHANGED <<text, rows, current, group, groupLoc, afterHead, out, heads>>

\* Up to at, rows is what the code calls kept, which shares its memory.
DropRow ==
    /\ stage = "drop" /\ at =< Len(rows)
    /\ rows[at].lines = <<>>
    /\ rows' = RemoveAt(rows, at)
    /\ UNCHANGED <<text, stage, at, current, group, groupLoc, afterHead, out, heads>>

KeepRow ==
    /\ stage = "drop" /\ at =< Len(rows)
    /\ rows[at].lines # <<>>
    /\ at' = at + 1
    /\ UNCHANGED <<text, stage, rows, current, group, groupLoc, afterHead, out, heads>>

RowsKept ==
    /\ stage = "drop" /\ at > Len(rows)
    /\ stage' = "map" /\ at' = 1
    /\ UNCHANGED <<text, rows, current, group, groupLoc, afterHead, out, heads>>

\* A role takes employer and place from its header where it has none, and an
\* employment type is not an employer.
Inherit(entity, row) ==
    LET typed == entity.subtitle # None /\ IsEmployment(text[entity.subtitle])
        takes == row.company # None /\ (entity.subtitle = None \/ typed)
    IN  [entity EXCEPT
            !.subtitle   = IF takes THEN row.company ELSE @,
            !.employment = IF takes /\ typed THEN entity.subtitle ELSE @,
            !.location   = IF @ = None THEN row.location ELSE @]

\* A row with neither title nor subtitle, a lone date for one, is skipped.
MapRow ==
    /\ stage = "map" /\ at =< Len(rows)
    /\ LET entity == ParseEntity(rows[at].lines, text)
       IN  out' = IF IsEntity(entity) THEN Append(out, Inherit(entity, rows[at]))
                                      ELSE out
    /\ at' = at + 1
    /\ UNCHANGED <<text, stage, rows, current, group, groupLoc, afterHead, heads>>

Next ==
    \/ Header \/ HeaderPlace \/ Extend \/ Close \/ EndOfText
    \/ HandBack \/ NextRow \/ RowsRead
    \/ DropRow \/ KeepRow \/ RowsKept \/ MapRow

Spec == Init /\ [][Next]_vars

-----------------------------------------------------------------------------
Lines == 0 .. Len(text)

\* The shape of the four loops' state; a place is inherited with an employer.
TypeOK ==
    /\ text \in Texts
    /\ stage \in {"split", "handBack", "drop", "map"}
    /\ at \in Nat /\ at > 0
    /\ rows \in Seq([lines : Seq(DOMAIN text), company : Lines, location : Lines])
    /\ current \in Seq(DOMAIN text)
    /\ group \in Lines /\ groupLoc \in Lines /\ afterHead \in BOOLEAN
    /\ group = None => groupLoc = None
    /\ out \in Seq(Entities(text))
    /\ heads \subseteq DOMAIN text

\* The lines of the k-th row, the last of which is the one being read.
Piece(k) == IF k \in DOMAIN rows THEN rows[k].lines ELSE current
Pieces   == 1 .. Len(rows) + 1

InRows == UNION {ToSet(Piece(k)) : k \in Pieces}

\* raw_lines keeps every line of the card in page order (model.Entity,
\* RawLines): while the rows are cut, while lines are handed back and while
\* emptied rows are dropped, every line read is in exactly one row or in a group
\* header, and the rows one after the other are the card.
EveryLineInOneRow ==
    /\ \A j, k \in Pieces : \A a \in DOMAIN Piece(j), b \in DOMAIN Piece(k) :
          (j < k \/ (j = k /\ a < b)) => Piece(j)[a] < Piece(k)[b]
    /\ heads \cap InRows = {}
    /\ heads \cup InRows = IF stage = "split" THEN 1 .. (at - 1) ELSE DOMAIN text

\* The names among the header lines: a bare duration stands under them.
HeaderNames == {h \in heads : h + 1 \in heads /\ IsBareDuration(text[h + 1])}

\* The last header above line l, None if there is none.
HeaderAbove(l) ==
    LET above == {h \in HeaderNames : h < l}
    IN  IF above = {} THEN None ELSE Max(above)

\* The last of the places that stand directly under header h, if any.
PlaceUnder(h) ==
    LET run == {l \in heads : /\ l > h + 1
                              /\ \A m \in (h + 2) .. l :
                                    LooksLikeLocation(text[m])}
    IN  IF run = {} THEN None ELSE Max(run)

\* A closed row belongs to the nearest header above it exactly when neither it
\* nor any row in between named an employer of its own, and then it has that
\* header's place and otherwise none ("The group covers only the roles that
\* follow its header", parseFlatEntities).
GroupEndsAtOwnEmployer ==
    stage = "split" =>
        \A k \in DOMAIN rows :
            LET h == HeaderAbove(Head(rows[k].lines))
                within == /\ h # None
                          /\ \A j \in 1 .. k :
                                Head(rows[j].lines) > h
                                => ~NamesItsOwnEmployer(rows[j].lines, text)
            IN  /\ rows[k].company = IF within THEN h ELSE None
                /\ rows[k].location = IF within THEN PlaceUnder(h) ELSE None

\* The fields of an entity share out the lines of its row: each line is in one
\* field and none is dropped, whatever is inherited from a header (ParseEntity
\* and the patch after it).  One line may be the subtitle and name the type.
FieldsShareOutTheRow ==
    \A k \in DOMAIN out :
        LET e == out[k] IN
        \A l \in ToSet(e.raw) :
            Cardinality({f \in {"title", "names", "dates", "location", "text"} :
                CASE f = "title"    -> e.title = l
                  [] f = "names"    -> e.subtitle = l \/ e.employment = l
                  [] f = "dates"    -> e.dates = l
                  [] f = "location" -> e.location = l
                  [] OTHER          -> l \in ToSet(e.description)}) = 1

-----------------------------------------------------------------------------
(* What the code says of itself and does not do.                           *)

\* "a row's tail lands at the head of the next one, where the first of them
\* would be read as that row's title ... Hand those lines back"
\* (sections.go:574-578): no row but the first opens with such a line.
NoTailOpensARow ==
    stage = "map" =>
        \A k \in 2 .. Len(rows) : ~Continues(text[Head(rows[k].lines)])
=============================================================================
