------------------------------- MODULE Blocks -------------------------------
(***************************************************************************)
(* A tree of blocks as a sequence: the blocks in the order of Walk, each   *)
(* with its level in the tree, so what lies inside a block is the run of   *)
(* deeper blocks after it.  A block has at least a level and its texts.    *)
(***************************************************************************)
EXTENDS Lists, FiniteSets, Integers

\* Blocks in the order of Walk: a root, and none deeper than one below the block
\* before it.
IsOutline(o) ==
    /\ o \in Seq(ToSet(o))
    /\ \A i \in DOMAIN o :
          /\ o[i].texts \in Seq(ToSet(o[i].texts))
          /\ o[i].level \in 0 .. (IF i = 1 THEN 0 ELSE o[i - 1].level + 1)

\* Block i of outline o and the blocks inside it.
Subtree(o, i) ==
    {j \in i .. Len(o) : \A k \in (i + 1) .. j : o[k].level > o[i].level}

\* The blocks right inside block i.
ChildSet(o, i) == {j \in Subtree(o, i) : o[j].level = o[i].level + 1}
Children(o, i) == Only([j \in DOMAIN o |-> j], ChildSet(o, i))

\* The texts of the blocks in set, in the order of Walk.
TextsOf(o, set) ==
    FlattenSeq([j \in DOMAIN o |-> IF j \in set THEN o[j].texts ELSE <<>>])

AllTexts(o, i) == TextsOf(o, Subtree(o, i))
=============================================================================
