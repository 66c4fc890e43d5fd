------------------------------ MODULE Sections ------------------------------
(***************************************************************************)
(* How the blocks of an outline become the rows of a section: EntityBlocks *)
(* with collectRows and containsRun, and the parsers that read entities,   *)
(* skills, languages and interests off those rows.                         *)
(*                                                                         *)
(* An outline is that of Blocks; a block has, besides its level and its    *)
(* texts, a key, the answer of SectionKey, and chrome, that of isRowChrome.*)
(* Lines are opaque but for the sets below; a line in none of them is a    *)
(* label, and a flat list of labels is a single row (FlatRows has the      *)
(* other kinds).                                                           *)
(***************************************************************************)
EXTENDS Blocks

CONSTANTS
    NoiseLines,     \* IsNoise
    HeadingLines,   \* SectionHeadings
    DetailLines,    \* skillDetail matches
    BareName        \* each line without its interestType

ASSUME LinesAssumption ==
    /\ NoiseLines \cap HeadingLines = {}
    /\ DetailLines \cap (NoiseLines \cup HeadingLines) = {}

-----------------------------------------------------------------------------
(* Lines.                                                                  *)

\* contentTexts: what hangs off chrome inside the block is left out.
ContentTexts(o, i) ==
    LET chrome == {c \in Subtree(o, i) \ {i} : o[c].chrome}
    IN  TextsOf(o, Subtree(o, i) \ UNION {Subtree(o, c) : c \in chrome})

CleanLines(texts) == AllBut(texts, NoiseLines)
WithoutHeadings(lines) == AllBut(lines, HeadingLines)

LinesOf(o, i) == CleanLines(AllTexts(o, i))

-----------------------------------------------------------------------------
(* Rows.                                                                   *)

\* The children of block i that are no chrome and hold text.
TextChildren(o, i) == {c \in ChildSet(o, i) : ~o[c].chrome /\ LinesOf(o, c) # <<>>}

\* Mutant of CollectRows: only the children themselves are rows.
CollectChildren(o) ==
    [i \in DOMAIN o |->
        LET children == TextChildren(o, i)
        IN  FlattenSeq([c \in DOMAIN o |->
                IF c \notin children THEN <<>> ELSE <<c>>])]

\* collectRows of every block: its children that hold text, and instead of a
\* child that holds several rows those rows.
CollectRows(o) ==
    LET rows[i \in DOMAIN o] ==
        LET children == TextChildren(o, i)
        IN  FlattenSeq([c \in DOMAIN o |->
                IF c \notin children THEN <<>>
                ELSE IF Len(rows[c]) > 1 THEN rows[c] ELSE <<c>>])
    IN  rows

ContainsRun(haystack, needle) == needle # <<>> /\ needle \in SubSeqs(haystack)

\* Row c holds the lines of the earlier row d and no others.
Repeats(o, c, d) == d < c /\ LinesOf(o, d) = LinesOf(o, c)

\* Mutant of EntityBlocks: exact repeats are dropped, wrappers stay.
EntityBlocksWrapped(o, i) ==
    LET candidates == CollectRows(o)[i]
    IN  AllBut(candidates,
               {c \in ToSet(candidates) : \E d \in ToSet(candidates) : Repeats(o, c, d)})

\* Row c holds the lines of the shorter row d and more.
Wraps(o, c, d) ==
    /\ Len(LinesOf(o, d)) < Len(LinesOf(o, c))
    /\ ContainsRun(LinesOf(o, c), LinesOf(o, d))

\* The candidates that neither repeat an earlier one line for line nor wrap a
\* shorter one, whichever side of it that stands.
EntityBlocks(o, i) ==
    LET candidates == CollectRows(o)[i]
    IN  AllBut(candidates,
               {c \in ToSet(candidates) :
                   \E d \in ToSet(candidates) : Repeats(o, c, d) \/ Wraps(o, c, d)})

EntityBlocksOrSelf(o, i) ==
    LET rows == EntityBlocks(o, i)
    IN  IF rows = <<>> THEN <<i>> ELSE rows

-----------------------------------------------------------------------------
(* The parsers.  An entity is its raw lines, which are its fingerprint.    *)

\* parseFlatEntities of a list of labels.
FlatEntities(o, i) ==
    LET lines == WithoutHeadings(CleanLines(ContentTexts(o, i)))
    IN  IF lines = <<>> THEN <<>> ELSE <<lines>>

\* The first line of a row is its title, so that no row is skipped for having
\* neither title nor subtitle.
ParseEntities(o, i) ==
    LET rows == EntityBlocks(o, i)
    IN  IF rows = <<>> THEN FlatEntities(o, i)
        ELSE [k \in DOMAIN rows |-> LinesOf(o, rows[k])]

\* The lines of each row that are no heading, rows without any included.
RowLines(o, i) ==
    LET rows == EntityBlocksOrSelf(o, i)
        Lines == [r \in DOMAIN o |-> WithoutHeadings(LinesOf(o, r))]
    IN  [k \in DOMAIN rows |-> Lines[rows[k]]]

\* A line that describes goes to the last skill named, a name met before is
\* passed over.
ParseSkills(o, i) ==
    LET Read(skills, line) ==
            IF line \in DetailLines
            THEN IF skills = <<>> THEN skills
                 ELSE [skills EXCEPT ![Len(skills)].detail = Append(@, line)]
            ELSE IF \E k \in DOMAIN skills : skills[k].name = line THEN skills
            ELSE Append(skills, [name |-> line, detail |-> <<>>])
    IN  FoldLeft(Read, <<>>, FlattenSeq(RowLines(o, i)))

\* The first line of each row that has one.
FirstLines(o, i) ==
    LET lines == RowLines(o, i)
    IN  FlattenSeq([k \in DOMAIN lines |->
            IF lines[k] = <<>> THEN <<>> ELSE <<Head(lines[k])>>])

\* One language per row, by its first line; the proficiency is left out.
ParseLanguages(o, i) == FirstOfEach(FirstLines(o, i))

\* One interest per row, by its first line without the kind after it.
ParseInterests(o, i) ==
    LET lines == FirstLines(o, i)
    IN  FirstOfEach([k \in DOMAIN lines |-> BareName[lines[k]]])

\* aboutText.
AboutText(o, i) == WithoutHeadings(LinesOf(o, i))
=============================================================================
