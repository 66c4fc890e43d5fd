------------------------------ MODULE PageText ------------------------------
(***************************************************************************)
(* What a document holds, by its references and without a walk, and that   *)
(* the walk of Outline finds it.                                           *)
(***************************************************************************)
EXTENDS Outline

\* A node and the mode in which it is met.
Place(n, m) == [node |-> n, mode |-> m]

\* The places one step on: what the node holds, or the row it refers to.
Below(d, p) ==
    LET n == p.node
        m == p.mode
    IN  CASE n.form = "list"    -> ToSet(InMode(m, n.items))
          [] n.form = "object"  -> ToSet(InMode(m, Content(n)))
          [] n.form = "action"  -> ToSet(InMode(m, n.slots))
          [] n.form = "element" -> ToSet(ElementContent(d, n, m, {}))
          [] n.form = "ref" /\ IsModel(d, n.id) -> {Place(d[n.id].value, m)}
          [] OTHER              -> {}

\* The places that those of start lead to, by the number of steps.
After(d, start) ==
    LET after[k \in 0 .. MaxDepth] ==
            IF k = 0 THEN start ELSE UNION {Below(d, p) : p \in after[k - 1]}
    IN  after

LeadsTo(d, start) == UNION {After(d, start)[k] : k \in 0 .. MaxDepth}

Start(d, rows) ==
    {Place(d[id].value, "none") : id \in {id \in rows : IsModel(d, id)}}

\* The rows that these places refer to, as content or as a tag.
RefIds(places) ==
    {p.node.id : p \in {p \in places : p.node.form = "ref"}}
    \cup {p.node.tag.id : p \in {p \in places : /\ p.node.form = "element"
                                                /\ p.node.tag.form = "ref"}}

\* The rows that the root refers to, through other rows or not.
Referenced(d) == RefIds(LeadsTo(d, Start(d, {0})))

OnPage(d) == LeadsTo(d, Start(d, {0} \cup (DOMAIN d \ Referenced(d))))

IsText(p) == p.node.form = "text" /\ p.mode # "none"

TextsInDocument(d) == {p.node.text : p \in {p \in OnPage(d) : IsText(p)}}

\* A row leads back to itself.
IsCyclic(d) ==
    \E p \in OnPage(d) : /\ p.node.form = "ref" /\ IsModel(d, p.node.id)
                         /\ \E m \in Modes :
                               p \in LeadsTo(d, {Place(d[p.node.id].value, m)})

\* All text of the page is found and nothing that is no text: what stands in
\* text mode in a row that row 0 leads to, or in one that row 0 does not lead to,
\* by at most MaxDepth steps.  Wrappers between the tag and the text do not lose
\* it, nor does a row that is met first where its strings are no text, or on two
\* paths; a row on its own path may be met in text mode too late (BuildOutline,
\* descendString).
ContentIsFound ==
    stage = "collapse" =>
        LET found == TextsInBlocks(blocks, DOMAIN blocks)
        IN  /\ found \subseteq TextsInDocument(doc)
            /\ ~IsCyclic(doc) => TextsInDocument(doc) \subseteq found
=============================================================================
