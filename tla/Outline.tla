------------------------------ MODULE Outline -------------------------------
(***************************************************************************)
(* BuildOutline: the walk over a Flight document that finds the text of    *)
(* the page and the blocks it stands in, the second walk over the rows the *)
(* first did not reach, and the two clean-ups, dedupe and collapse.        *)
(*                                                                         *)
(* The recursion of descend is the stack todo of the nodes still to visit, *)
(* each with the block its content goes to, the rows expanded on the path  *)
(* to it, its depth and its mode.  A node is a record with a field form:   *)
(*   text (text)         a string that is no reference, not blank          *)
(*   ref (id)            a reference to a row                              *)
(*   list (items)        an array that is no element                       *)
(*   element (tag, label, content, props)                                  *)
(*   object (props)      an object without a type                          *)
(*   action (slots)      a typed object: its newComponent, initialContent  *)
(*                       and content, in that order                        *)
(*   link (url), image (token)                                             *)
(*   nothing             null, a number, blank, a reference to no row      *)
(* A tag is a name or a reference; content is what textProps holds, if it  *)
(* does; a prop is [name, node].  A label is the pair of a block's name    *)
(* and component.  The aria texts are left out: no caller reads them.      *)
(***************************************************************************)
EXTENDS Flight, Blocks

CONSTANTS
    Nodes,          \* the values that a row or a part of one can have
    Height(_),      \* the longest way down inside a node
    Streams,        \* the bodies, as sequences of lines
    TextTags,       \* textTags
    BehaviourProps, \* behaviourProps
    ElementProps,   \* the others that an element passes over or reads itself:
                    \* textProps, viewTrackingSpecs, aria texts, expressions
    MaxDepth        \* maxDepth

ASSUME OutlineAssumption ==
    MaxDepth \in Nat /\ "children" \notin BehaviourProps \cup ElementProps

\* The props that a walk over element or object n leaves out.
PassedOver(n) ==
    BehaviourProps \cup (IF n.form = "element" THEN ElementProps ELSE {})

\* The other props, and their nodes.
Shown(n) ==
    KeepAt(n.props, {k \in DOMAIN n.props : n.props[k].name \notin PassedOver(n)})

Content(n) == LET shown == Shown(n)
              IN  [k \in DOMAIN shown |-> shown[k].node]

\* The nodes right inside node n.
Parts(n) ==
    CASE n.form = "list"    -> ToSet(n.items)
      [] n.form = "object"  -> ToSet(Content(n))
      [] n.form = "action"  -> ToSet(n.slots)
      [] n.form = "element" -> ToSet(Content(n))
                                  \cup {c.node : c \in ToSet(n.content)}
      [] OTHER              -> {}

\* A value is a tree of nodes: lists of them and lists of props, and no node
\* inside itself.
ASSUME NodesAssumption ==
    /\ \A n \in Nodes :
          /\ n.form = "list"    => n.items \in Seq(Nodes)
          /\ n.form = "action"  => n.slots \in Seq(Nodes)
          /\ n.form = "object"  => n.props \in Seq(ToSet(n.props))
          /\ n.form = "element" => /\ n.props \in Seq(ToSet(n.props))
                                   /\ n.content \in Seq(ToSet(n.content))
          /\ Parts(n) \subseteq Nodes
    /\ \A n \in Nodes :
          Height(n) \in Nat /\ \A part \in Parts(n) : Height(part) < Height(n)

ASSUME StreamsAssumption ==
    \A s \in Streams :
        /\ s \in Seq(ToSet(s))
        /\ \A k \in DOMAIN s : s[k].kind = "model" => s[k].value \in Nodes

NoLabel == "?"
RootLabel == "__root__"
Modes == {"none", "text", "heading"}    \* textKind

VARIABLES
    stream,     \* the body that is read
    doc,        \* its document
    stage,      \* the pass that runs
    todo,       \* the nodes to visit, as the stack of descend's calls
    blocks,     \* the tree built so far
    visited,    \* builder.visited
    orphans,    \* the rows of the second walk that are left
    outline,    \* the tree after dedupe
    kept,       \* the blocks of it that collapse has kept
    pending,    \* the blocks whose children collapse has still to look at
    seen        \* the signatures that collapse has met

walkVars == <<stream, doc, todo, blocks, visited, orphans>>
treeVars == <<outline, kept, pending, seen>>
vars == <<walkVars, stage, treeVars>>

NewBlock(level, label) ==
    [level |-> level, label |-> label, texts |-> <<>>, headings |-> <<>>,
     images |-> <<>>, links |-> <<>>]

Visit(node, block, path, depth, mode) ==
    [node |-> node, block |-> block, path |-> path, depth |-> depth, mode |-> mode]

Init ==
    /\ stream \in Streams
    /\ doc = EmptyDocument
    /\ stage = "read"
    /\ todo = <<>> /\ visited = {} /\ orphans = {}
    /\ blocks = <<NewBlock(0, RootLabel)>>
    /\ outline = <<>> /\ kept = {} /\ pending = <<>> /\ seen = {}

\* The stream is parsed, and the walk begins at row 0 if there is one.  A row 0
\* that is a client component has no texts; its array is not walked here.
Read ==
    LET rows == ParseDocument(stream) IN
    /\ stage = "read"
    /\ doc' = rows
    /\ stage' = IF NotFlight(rows) THEN "notFlight" ELSE "walk"
    /\ todo' = IF IsModel(rows, 0) THEN <<Visit(rows[0].value, 1, {}, 0, "none")>>
                                   ELSE <<>>
    /\ UNCHANGED <<stream, blocks, visited, orphans, treeVars>>

-----------------------------------------------------------------------------
(* The walk.                                                               *)

node == Head(todo).node
path == Head(todo).path
mode == Head(todo).mode
here == Head(todo).block

Walking == stage \in {"walk", "orphans"} /\ todo # <<>>
TooDeep == Head(todo).depth > MaxDepth

\* The next node is one of form and is not dropped for its depth.
At(form) == Walking /\ ~TooDeep /\ node.form = form

\* The node is left, and nodes are visited in its place, a level deeper.
Then(nodes, block) ==
    LET Below(n) == Visit(n.node, block, path, Head(todo).depth + 1, n.mode)
    IN  todo' = [k \in DOMAIN nodes |-> Below(nodes[k])] \o Tail(todo)

InMode(m, nodes) == [k \in DOMAIN nodes |-> [node |-> nodes[k], mode |-> m]]

\* Texts that are not in text mode, references that do not resolve, what has
\* no content, and whatever is too deep.
IsDropped ==
    \/ TooDeep
    \/ node.form = "nothing"
    \/ node.form = "text" /\ mode = "none"
    \/ node.form = "ref" /\ ~Resolves(doc, node.id, path)

Drop ==
    /\ Walking /\ IsDropped
    /\ Then(<<>>, here)
    /\ UNCHANGED <<stream, doc, stage, blocks, visited, orphans, treeVars>>

ReadText ==
    /\ At("text") /\ ~IsDropped
    /\ Then(<<>>, here)
    /\ blocks' = [blocks EXCEPT
                    ![here].texts = Append(@, node.text),
                    ![here].headings = IF mode = "heading" THEN Append(@, node.text)
                                                           ELSE @]
    /\ UNCHANGED <<stream, doc, stage, visited, orphans, treeVars>>

\* Mutant of Follow: a row is expanded once on the page, not once on a path.
FollowOnce ==
    /\ At("ref") /\ ~IsDropped
    /\ visited' = visited \cup {node.id}
    /\ todo' = (IF IsModel(doc, node.id) /\ node.id \notin visited
                THEN <<[Head(todo) EXCEPT !.node = doc[node.id].value,
                                          !.path = @ \cup {node.id},
                                          !.depth = @ + 1]>>
                ELSE <<>>) \o Tail(todo)
    /\ UNCHANGED <<stream, doc, stage, blocks, orphans, treeVars>>

\* Mutant of Follow: the row is not on the path of what it holds.
FollowUncut ==
    /\ At("ref") /\ ~IsDropped
    /\ visited' = visited \cup {node.id}
    /\ todo' = (IF IsModel(doc, node.id)
                THEN <<[Head(todo) EXCEPT !.node = doc[node.id].value,
                                          !.depth = @ + 1]>>
                ELSE <<>>) \o Tail(todo)
    /\ UNCHANGED <<stream, doc, stage, blocks, orphans, treeVars>>

\* The row is visited in the mode of the reference; a client component has
\* no content.
Follow ==
    /\ At("ref") /\ ~IsDropped
    /\ visited' = visited \cup {node.id}
    /\ todo' = (IF IsModel(doc, node.id)
                THEN <<[Head(todo) EXCEPT !.node = doc[node.id].value,
                                          !.path = @ \cup {node.id},
                                          !.depth = @ + 1]>>
                ELSE <<>>) \o Tail(todo)
    /\ UNCHANGED <<stream, doc, stage, blocks, orphans, treeVars>>

\* Lists that are no element, objects and actions: the mode stays.
Enter ==
    /\ \/ At("list") /\ Then(InMode(mode, node.items), here)
       \/ At("object") /\ Then(InMode(mode, Content(node)), here)
       \/ At("action") /\ Then(InMode(mode, node.slots), here)
    /\ UNCHANGED <<stream, doc, stage, blocks, visited, orphans, treeVars>>

\* Images and links hang on the block and have no content.
Attach ==
    /\ \/ /\ At("image")
          /\ blocks' = [blocks EXCEPT ![here].images = Append(@, node.token)]
       \/ /\ At("link")
          /\ blocks' = [blocks EXCEPT ![here].links = Append(@, node.url)]
    /\ Then(<<>>, here)
    /\ UNCHANGED <<stream, doc, stage, visited, orphans, treeVars>>

\* resolveTag: the row of a tag counts as visited whatever it holds.
TagResolves(d, tag, expanded) == tag.form = "ref" /\ Resolves(d, tag.id, expanded)
TagName(d, tag, expanded) ==
    CASE tag.form = "text" -> tag.text
      [] TagResolves(d, tag, expanded) /\ ~IsModel(d, tag.id) -> d[tag.id].value
      [] OTHER -> "?"

\* Once in text mode the walk stays in it, whatever the wrapper.
ModeOf(m, prop, tag) ==
    IF m # "none" THEN m
    ELSE IF prop.name = "children" /\ tag \in TextTags THEN "text"
    ELSE "none"

\* What the element n of document d, met in mode m, holds: textProps, then the
\* props.
ElementContent(d, n, m, expanded) ==
    LET shown == Shown(n)
        tag   == TagName(d, n.tag, expanded)
    IN  [k \in DOMAIN n.content |->
           [node |-> n.content[k].node,
            mode |-> IF n.content[k].heading THEN "heading" ELSE "text"]]
        \o [k \in DOMAIN shown |->
              [node |-> shown[k].node, mode |-> ModeOf(m, shown[k], tag)]]

\* An element with a label opens a block.
EnterElement ==
    LET opens == node.label # NoLabel
    IN  /\ At("element")
        /\ visited' = visited \cup (IF TagResolves(doc, node.tag, path) THEN {node.tag.id}
                                                                   ELSE {})
        /\ blocks' = IF opens
                     THEN Append(blocks, NewBlock(blocks[here].level + 1, node.label))
                     ELSE blocks
        /\ Then(ElementContent(doc, node, mode, path),
                IF opens THEN Len(blocks) + 1 ELSE here)
        /\ UNCHANGED <<stream, doc, stage, orphans, treeVars>>

-----------------------------------------------------------------------------
(* The second walk: content parked in rows that the tree never reached.    *)

Unreached == {id \in DOMAIN doc \ {0} : IsModel(doc, id) /\ id \notin visited}

WalkOrphans ==
    /\ stage = "walk" /\ todo = <<>>
    /\ stage' = "orphans"
    /\ orphans' = Unreached
    /\ UNCHANGED <<stream, doc, todo, blocks, visited, treeVars>>

\* The ids are sorted.
NextOrphan ==
    /\ stage = "orphans" /\ todo = <<>>
    /\ \E id \in orphans :
          /\ \A other \in orphans : id =< other
          /\ todo' = <<Visit(doc[id].value, 1, {id}, 0, "none")>>
          /\ orphans' = orphans \ {id}
    /\ UNCHANGED <<stream, doc, stage, blocks, visited, treeVars>>

-----------------------------------------------------------------------------
(* The clean-ups.                                                          *)

\* dedupe: what a block of its own has twice.
Dedupe ==
    /\ stage = "orphans" /\ todo = <<>> /\ orphans = {}
    /\ outline' = [i \in DOMAIN blocks |->
                     [blocks[i] EXCEPT !.texts = FirstOfEach(@),
                                       !.headings = FirstOfEach(@),
                                       !.images = FirstOfEach(@),
                                       !.links = FirstOfEach(@)]]
    /\ kept' = {1} /\ pending' = <<1>>
    /\ stage' = "collapse"
    /\ UNCHANGED <<walkVars, seen>>

ImagesIn(o, i) ==
    FlattenSeq([j \in DOMAIN o |-> IF j \in Subtree(o, i) THEN o[j].images ELSE <<>>])

\* Mutant of Signature: the texts of the block itself only.
SignatureOfOwn(i) ==
    <<outline[i].label, outline[i].texts, outline[i].images, outline[i].links>>

Signature(i) ==
    <<outline[i].label, AllTexts(outline, i), ImagesIn(outline, i), outline[i].links>>

\* The children of the next block whose signature is not among those met, nor that
\* of a child before them.
NewChildren(met) ==
    LET children == Children(outline, Head(pending))
        signatures == [k \in DOMAIN children |-> Signature(children[k])]
    IN  KeepAt(children,
               {k \in DOMAIN children :
                   /\ signatures[k] \notin met
                   /\ \A a \in 1 .. (k - 1) : signatures[a] # signatures[k]})

\* These children are kept, and their own are looked at before the rest.
Keep(children) ==
    /\ seen' = seen \cup {Signature(c) : c \in ToSet(children)}
    /\ kept' = kept \cup ToSet(children)
    /\ pending' = children \o Tail(pending)

\* Mutant of Collapse: only siblings are compared.
CollapseSiblings ==
    /\ stage = "collapse" /\ pending # <<>>
    /\ Keep(NewChildren({}))
    /\ UNCHANGED <<walkVars, stage, outline>>

\* Children whose signature has been met are dropped with all that is inside,
\* then the children of each of the others are looked at.
Collapse ==
    /\ stage = "collapse" /\ pending # <<>>
    /\ Keep(NewChildren(seen))
    /\ UNCHANGED <<walkVars, stage, outline>>

Collapsed ==
    /\ stage = "collapse" /\ pending = <<>>
    /\ stage' = "done"
    /\ UNCHANGED <<walkVars, treeVars>>

Next ==
    \/ Read
    \/ Drop \/ ReadText \/ Follow \/ Enter \/ EnterElement \/ Attach
    \/ WalkOrphans \/ NextOrphan
    \/ Dedupe \/ Collapse \/ Collapsed

Spec == Init /\ [][Next]_vars

-----------------------------------------------------------------------------
(* Properties.                                                             *)

TextsInBlocks(o, set) == UNION {ToSet(o[i].texts) : i \in set}

\* The levels inside those rows, one after the other.
HeightOf(rows) ==
    Cardinality(UNION {{id} \X (0 .. Height(doc[id].value)) :
                          id \in {id \in rows : IsModel(doc, id)}})

\* The walk ends on every document: rows that refer to themselves or to each
\* other are not expanded inside themselves, so that it never goes deeper than
\* row 0 and the rows on the path are high (Deref, "what keeps the self-referential rows
\* LinkedIn emits from recursing forever").
CyclesAreCut ==
    \A k \in DOMAIN todo :
        todo[k].depth =< HeightOf({0}) + HeightOf(todo[k].path)

\* No two blocks that are left rendered the same when the walk ended, however
\* far apart in the tree they stand (collapse: "drops blocks that render exactly
\* what an earlier block rendered").
CopiesAreDropped ==
    stage = "done" =>
        \A i, j \in kept \ {1} : i # j => Signature(i) # Signature(j)

\* No block has all its texts inside a single block inside it.
NoBareWrapper ==
    \A i \in DOMAIN outline : \A j \in Subtree(outline, i) \ {i} :
        AllTexts(outline, i) = AllTexts(outline, j) => AllTexts(outline, i) = <<>>

\* The clean-ups lose no text, although what is dropped takes the blocks inside
\* along and the copy it repeats may lose blocks of its own to other copies; the
\* exception are outlines with bare wrappers, see TextsAreKept (collapse).
NothingIsLost ==
    stage = "done" /\ NoBareWrapper =>
        TextsInBlocks(blocks, DOMAIN blocks) \subseteq TextsInBlocks(outline, kept)

\* The same for every outline: a dropped block leaves a copy of what it renders
\* (collapse: "top-down order keeps the shallowest copy").
TextsAreKept ==
    stage = "done" =>
        TextsInBlocks(blocks, DOMAIN blocks) \subseteq TextsInBlocks(outline, kept)
=============================================================================
