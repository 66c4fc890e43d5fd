----------------------------- MODULE MCOutline ------------------------------
(***************************************************************************)
(* Two families of bodies.  In the first three rows refer to each other in *)
(* every way: as content, in text mode or not, as tags, through behaviour, *)
(* in circles or not at all, and their lines come whole, broken, repeated  *)
(* or out of order.  In the second row 0 holds labelled elements in two    *)
(* levels, with a copy of any of them anywhere.                            *)
(***************************************************************************)
EXTENDS PageText

MCTextTags  == {"p"}
MCBehaviour == {"action"}
MCOfElement == {"viewTrackingSpecs"}

Nothing    == [form |-> "nothing"]
Text(t)    == [form |-> "text", text |-> t]
Ref(id)    == [form |-> "ref", id |-> id]
Link       == [form |-> "link", url |-> "u"]
Image      == [form |-> "image", token |-> "i"]
List(s)    == [form |-> "list", items |-> s]
Prop(p, n) == [name |-> p, node |-> n]
Element(tag, label, content, props) ==
    [form |-> "element", tag |-> tag, label |-> label, content |-> content,
     props |-> props]

Div        == Text("div")
P(n)       == Element(Text("p"), NoLabel, <<>>, <<Prop("children", n)>>)
Tracked(n) == Prop("viewTrackingSpecs", n)
Slot(n)    == Element(Div, NoLabel, <<>>, <<Prop("slot", n), Prop("action", Text("b")),
                                            Tracked(P(Text("b")))>>)
Heading(n) == Element(Div, NoLabel, <<[heading |-> TRUE, node |-> n]>>, <<>>)
Tagged(id) == Element(Ref(id), NoLabel, <<>>, <<Prop("children", Text("b"))>>)
Card(l, s) == Element(Div, l, <<>>, <<Prop("children", List(s))>>)
Parked(n)  == [form |-> "action", slots |-> <<n>>]
Object(n)  == [form |-> "object", props |-> <<Tracked(n), Prop("action", P(Text("b")))>>]

Line(id, n)  == [ok |-> TRUE, id |-> id, kind |-> "model", value |-> n]
Client(id)   == [ok |-> TRUE, id |-> id, kind |-> "client", value |-> "p"]
Broken(id)   == [ok |-> FALSE, id |-> id, kind |-> "model", value |-> Nothing]

Leaf == {Text("a"), Ref(0), Ref(1), Ref(2)}
Rows(id) == {Line(id, n) : n \in Leaf \cup {P(l) : l \in Leaf}
                                      \cup {P(Slot(l)) : l \in Leaf}
                                      \cup {Slot(l) : l \in Leaf}}
Rows1 == Rows(1) \cup {Client(1), Line(1, Parked(Ref(2))), Line(1, Object(P(Ref(2))))}
Rows2 == {Line(2, n) : n \in {Text("c"), P(Text("c")), Ref(1), P(Ref(1)), List(<<Ref(0), P(Ref(2))>>),
                              Card("L", <<P(Text("c"))>>)}}
Rows0 == {Line(0, n) : n \in
            {List(<<x, y>>) : x \in {Ref(1), P(Ref(1)), Tagged(1), P(Text("b"))},
                              y \in {Ref(1), P(Ref(2)), Tagged(2), Heading(Ref(2)), Nothing}}
            \cup {Card("L", <<Ref(1), Card("M", <<P(Ref(1))>>)>>), P(Ref(0)), P(Parked(Ref(1)))}}

References == {<<r0, r1, r2>> : r0 \in Rows0, r1 \in Rows1, r2 \in Rows2}

Orders ==
    UNION {{Reverse(s), s \o <<Broken(1)>>, <<s[1], Broken(1), s[3]>>, Tail(s),
            <<Line(1, P(Text("b")))>> \o s, s \o <<Line(1, P(Text("b")))>>,
            <<Client(0)>> \o Tail(s)} :
              s \in {<<r0, r1, r2>> : r0 \in Rows0,
                                      r1 \in {Line(1, P(Text("a"))), Line(1, Ref(2))},
                                      r2 \in {Line(2, P(Text("c")))}}}
    \cup {<<>>, <<Broken(0)>>}

Labels  == {"L", "M"}
Single  == {Card(l, <<P(Text(t))>>) : l \in Labels, t \in {"a", "b"}}
Adorned == {Card("L", <<Image>>), Card("L", <<Link>>), Card("L", <<P(Text("a")), P(Text("a")), Link>>)}
Double  == {Card(l, own \o kids) :
               l \in Labels, own \in {<<>>, <<P(Text("a"))>>},
               kids \in {<<c>> : c \in Single \cup Adorned}
                        \cup {<<c, d>> : c, d \in Single}}
\* The names of the labels may be swapped, so one is fixed.
DoubleL == {c \in Double : c.label = "L"}
Cards   == {<<Line(0, List(<<c, d>>))>> : c \in DoubleL, d \in Single \cup Double}
           \cup {<<Line(0, List(<<c, d>>))>> : c \in Double, d \in Adorned}

MCStreams == References \cup Orders \cup Cards

Inside(nodes) == UNION {Parts(n) : n \in nodes}

\* The values of the rows, and level by level what is inside them.
NodesOfStreams ==
    LET lines   == UNION {ToSet(s) : s \in MCStreams}
        values  == {l.value : l \in {l \in lines : l.kind = "model"}}
        inside1 == Inside(values)
        inside2 == Inside(inside1)
        inside3 == Inside(inside2)
        inside4 == Inside(inside3)
        inside5 == Inside(inside4)
        inside6 == Inside(inside5)
    IN  UNION {values, inside1, inside2, inside3, inside4, inside5, inside6}

MCNodes == NodesOfStreams   \* a name of its own: TLC evaluates it once

RECURSIVE MCHeight(_)
MCHeight(n) == Max({0} \cup {1 + MCHeight(part) : part \in Parts(n)})
=============================================================================
