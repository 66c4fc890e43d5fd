--------------------------- MODULE OutlineProofs ----------------------------
(***************************************************************************)
(* Proofs about Outline for every document, every set of text tags and     *)
(* every bound on the depth: the walk ends, the clean-ups leave no copy,   *)
(* and they lose no text; and the walk finds the text of the page.         *)
(***************************************************************************)
EXTENDS PageText, ListsProofs

USE NodesAssumption

-----------------------------------------------------------------------------
(* Documents.                                                              *)

LEMMA ImageIsFinite ==
    ASSUME NEW S, IsFiniteSet(S), NEW f, f = [x \in S |-> f[x]]
    PROVE  IsFiniteSet(Members(f))
PROOF
  <1>1. f \in Surjection(S, Members(f))
    BY DEF Surjection, Members
  <1> QED BY <1>1, FS_Surjection

\* The levels inside those rows of document d: HeightOf counts them.
Levels(d, rows) ==
    UNION {{id} \X (0 .. Height(d[id].value)) : id \in {id \in rows : IsModel(d, id)}}
RowHeight(d, rows) == Cardinality(Levels(d, rows))

IsDocument(d) ==
    /\ IsFiniteSet(DOMAIN d)
    /\ \A id \in DOMAIN d : IsModel(d, id) => d[id].value \in Nodes

\* What a stream is read as.
LEMMA DocumentIs ==
    ASSUME NEW s \in Streams
    PROVE  IsDocument(ParseDocument(s))
PROOF
  <1> DEFINE rows == {n \in DOMAIN s : s[n].ok}
             Row(n) == [kind |-> s[n].kind, value |-> s[n].value]
             IsLatest(id, n) == /\ s[n].id = id
                                /\ \A k \in rows : s[k].id = id => k =< n
             Latest(id) == CHOOSE n \in rows : IsLatest(id, n)
             ids == {s[n].id : n \in rows}
             d == ParseDocument(s)
  <1>1. /\ Len(s) \in Nat /\ DOMAIN s = 1 .. Len(s)
        /\ \A k \in DOMAIN s : s[k].kind = "model" => s[k].value \in Nodes
    <2>1. /\ s \in Seq(ToSet(s))
          /\ \A k \in DOMAIN s : s[k].kind = "model" => s[k].value \in Nodes
      BY StreamsAssumption
    <2> QED BY <2>1
  <1>2. d = [id \in ids |-> Row(Latest(id))]
    BY DEF ParseDocument
  <1>3. IsFiniteSet(ids)
    <2>1. IsFiniteSet(DOMAIN s)
      BY <1>1, FS_Interval
    <2>2. rows \in SUBSET DOMAIN s
      OBVIOUS
    <2>3. IsFiniteSet(rows)
      <3> HIDE DEF rows
      <3> QED BY <2>1, <2>2, FS_Subset
    <2> DEFINE f == [n \in rows |-> s[n].id]
    <2>4. f = [n \in rows |-> f[n]] /\ Members(f) = ids
      BY DEF Members
    <2> HIDE DEF rows, f, ids
    <2>5. IsFiniteSet(Members(f))
      BY <2>3, <2>4, ImageIsFinite
    <2> QED BY <2>4, <2>5
  <1>4. ASSUME NEW id \in ids PROVE Latest(id) \in rows
    <2> DEFINE back == {Len(s) - n : n \in {n \in rows : s[n].id = id}}
    <2>1. back \subseteq Nat /\ back # {}
      BY <1>1, <1>4
    <2>2. PICK x \in back : \A y \in back : x =< y
      <3> HIDE DEF back
      <3> QED BY <2>1, LeastNatural
    <2>3. PICK n \in rows : s[n].id = id /\ x = Len(s) - n
      BY <2>2
    <2>4. ASSUME NEW k \in rows, s[k].id = id PROVE k =< n
      <3>1. Len(s) - k \in back
        BY <2>4
      <3>2. Len(s) - n =< Len(s) - k
        <4> HIDE DEF back
        <4> QED BY <2>2, <2>3, <3>1
      <3>3. k \in Nat /\ n \in Nat
        BY <1>1
      <3> QED BY <1>1, <3>2, <3>3
    <2>5. IsLatest(id, n)
      BY <2>3, <2>4
    <2> HIDE DEF IsLatest, rows
    <2> QED BY <2>5
  <1> HIDE DEF Latest
  <1>5. DOMAIN d = ids
    BY <1>2
  <1>6. ASSUME NEW id \in ids, IsModel(d, id) PROVE d[id].value \in Nodes
    <2>1. d[id] = Row(Latest(id))
      BY <1>2
    <2>2. Latest(id) \in DOMAIN s
      BY <1>4
    <2>3. s[Latest(id)].kind = "model"
      BY <1>6, <2>1 DEF IsModel
    <2> QED BY <1>1, <2>1, <2>2, <2>3
  <1> HIDE DEF d, ids
  <1> QED BY <1>3, <1>5, <1>6 DEF IsDocument, d

\* A row that is a model adds its own levels.
LEMMA RowHeightIs ==
    ASSUME NEW d, IsDocument(d), NEW rows \in SUBSET DOMAIN d
    PROVE  /\ RowHeight(d, rows) \in Nat
           /\ \A id \in DOMAIN d \ rows :
                 IsModel(d, id) => RowHeight(d, rows \cup {id}) =
                                      RowHeight(d, rows) + Height(d[id].value) + 1
PROOF
  <1> DEFINE One(id) == {id} \X (0 .. Height(d[id].value))
             models == {id \in rows : IsModel(d, id)}
  <1>1. ASSUME NEW id \in DOMAIN d, IsModel(d, id)
        PROVE  /\ Height(d[id].value) \in Nat
               /\ IsFiniteSet(One(id)) /\ Cardinality(One(id)) = Height(d[id].value) + 1
    <2> DEFINE h == Height(d[id].value)
    <2>1. h \in Nat
      BY <1>1 DEF IsDocument
    <2> HIDE DEF h
    <2>2. IsFiniteSet(0 .. h) /\ Cardinality(0 .. h) = h + 1
      BY <2>1, FS_Interval
    <2>3. IsFiniteSet({id}) /\ Cardinality({id}) = 1
      BY FS_Singleton
    <2> DEFINE A == {id}
               B == 0 .. h
    <2> HIDE DEF A, B
    <2>4. /\ IsFiniteSet(A \X B)
          /\ Cardinality(A \X B) = Cardinality(A) * Cardinality(B)
      BY <2>2, <2>3, FS_Product DEF A, B
    <2>5. Cardinality(A) * Cardinality(B) = h + 1
      BY <2>1, <2>2, <2>3 DEF A, B
    <2>6. One(id) = A \X B
      BY DEF A, B, h
    <2> HIDE DEF One
    <2>7. Height(d[id].value) = h
      BY DEF h
    <2> QED BY <2>1, <2>4, <2>5, <2>6, <2>7
  <1>2. IsFiniteSet(Levels(d, rows))
    <2>1. models \in SUBSET DOMAIN d
      OBVIOUS
    <2>2. IsFiniteSet(models)
      <3> HIDE DEF models
      <3> QED BY <2>1, FS_Subset DEF IsDocument
    <2> DEFINE all == {One(id) : id \in models}
    <2>3. \A T \in all : IsFiniteSet(T)
      <3> HIDE DEF One
      <3> QED BY <1>1, <2>1
    <2>4. IsFiniteSet(all)
      <3> DEFINE f == [id \in models |-> One(id)]
      <3> HIDE DEF models, One
      <3>1. f = [id \in models |-> f[id]] /\ Members(f) = all
        BY DEF Members
      <3> HIDE DEF f, all
      <3>2. IsFiniteSet(Members(f))
        BY <2>2, <3>1, ImageIsFinite
      <3> QED BY <3>1, <3>2
    <2>5. Levels(d, rows) = UNION all
      BY DEF Levels
    <2> HIDE DEF all
    <2> QED BY <2>3, <2>4, <2>5, FS_UNION
  <1>3. RowHeight(d, rows) \in Nat
    BY <1>2, FS_CardinalityType DEF RowHeight
  <1>4. ASSUME NEW id \in DOMAIN d \ rows, IsModel(d, id)
        PROVE  RowHeight(d, rows \cup {id}) =
                  RowHeight(d, rows) + Height(d[id].value) + 1
    <2>1. Levels(d, rows \cup {id}) = Levels(d, rows) \cup One(id)
      BY <1>4 DEF Levels
    <2>2. Levels(d, rows) \cap One(id) = {}
      BY <1>4 DEF Levels
    <2>3. /\ Height(d[id].value) \in Nat /\ IsFiniteSet(One(id))
          /\ Cardinality(One(id)) = Height(d[id].value) + 1
      BY <1>1, <1>4
    <2> DEFINE L == Levels(d, rows)
               O == One(id)
    <2>4. L \cap O = {} /\ IsFiniteSet(L) /\ IsFiniteSet(O)
      BY <1>2, <2>2, <2>3
    <2> HIDE DEF L, O
    <2>5. Cardinality(L \cup O) = Cardinality(L) + Cardinality(O) - Cardinality(L \cap O)
      BY <2>4, FS_Union
    <2>6. Cardinality(L \cap O) = 0
      BY <2>4, FS_EmptySet
    <2>7. Cardinality(L) \in Nat /\ Cardinality(O) \in Nat
      BY <2>4, FS_CardinalityType
    <2>8. Cardinality(L \cup O) = Cardinality(L) + Cardinality(O)
      BY <2>5, <2>6, <2>7
    <2>9. RowHeight(d, rows \cup {id}) = Cardinality(L \cup O) /\ RowHeight(d, rows) = Cardinality(L)
      BY <2>1 DEF RowHeight, L, O
    <2> HIDE DEF One
    <2>10. Cardinality(O) = Height(d[id].value) + 1
      BY <2>3 DEF O
    <2> QED BY <2>3, <2>7, <2>8, <2>9, <2>10
  <1> QED BY <1>3, <1>4

-----------------------------------------------------------------------------
(* What is inside a node.                                                  *)

\* The nodes that a node is left for, with their modes.
Visitable(nodes) == [node : nodes, mode : Modes]

LEMMA InModeIs ==
    ASSUME NEW S, NEW nodes \in Seq(S), NEW m \in Modes
    PROVE  InMode(m, nodes) \in Seq(Visitable(S))
PROOF
  <1>1. Len(nodes) \in Nat /\ \A k \in 1 .. Len(nodes) : nodes[k] \in S
    OBVIOUS
  <1>2. InMode(m, nodes) = [k \in 1 .. Len(nodes) |-> [node |-> nodes[k], mode |-> m]]
    BY DEF InMode
  <1>3. \A k \in 1 .. Len(nodes) : [node |-> nodes[k], mode |-> m] \in Visitable(S)
    BY <1>1 DEF Visitable
  <1> QED BY <1>1, <1>2, <1>3

LEMMA ContentIs ==
    ASSUME NEW n, n.props \in Seq(ToSet(n.props))
    PROVE  /\ Shown(n) \in Seq(ToSet(n.props))
           /\ Content(n) \in Seq(ToSet(Content(n)))
           /\ DOMAIN Shown(n) = 1 .. Len(Shown(n)) /\ Len(Shown(n)) \in Nat
           /\ \A k \in DOMAIN Shown(n) : Shown(n)[k].node \in ToSet(Content(n))
PROOF
  <1> DEFINE props == n.props
             at == {k \in DOMAIN props : props[k].name \notin PassedOver(n)}
             shown == Shown(n)
             content == Content(n)
  <1>1. shown = KeepAt(props, at) /\ at \subseteq DOMAIN props
    BY DEF Shown
  <1> HIDE DEF at, shown
  <1>2. shown \in Seq(ToSet(props))
    BY <1>1, KeepAtMembers
  <1>3. Len(shown) \in Nat /\ DOMAIN shown = 1 .. Len(shown)
    BY <1>2
  <1>4. content = [k \in 1 .. Len(shown) |-> shown[k].node]
    BY <1>3 DEF Content, shown
  <1> HIDE DEF content
  <1>5. \A k \in 1 .. Len(shown) : content[k] \in ToSet(content) /\ content[k] = shown[k].node
    BY <1>4 DEF ToSet
  <1>6. content \in Seq(ToSet(content))
    BY <1>3, <1>4, <1>5
  <1> QED BY <1>2, <1>3, <1>5, <1>6 DEF shown, content

\* What an element holds in its textProps and in its props.
FromText(n) ==
    [k \in DOMAIN n.content |-> [node |-> n.content[k].node,
                                 mode |-> IF n.content[k].heading THEN "heading" ELSE "text"]]
FromProps(d, n, m, expanded) ==
    [k \in DOMAIN Shown(n) |->
        [node |-> Shown(n)[k].node,
         mode |-> ModeOf(m, Shown(n)[k], TagName(d, n.tag, expanded))]]

LEMMA ElementHolds ==
    ASSUME NEW d, NEW n \in Nodes, n.form = "element", NEW m \in Modes, NEW expanded
    PROVE  /\ FromText(n) \in Seq(Visitable(Parts(n)))
           /\ FromProps(d, n, m, expanded) \in Seq(Visitable(Parts(n)))
           /\ ElementContent(d, n, m, expanded) = FromText(n) \o FromProps(d, n, m, expanded)
PROOF
  <1> DEFINE V == Visitable(Parts(n))
             shown == Shown(n)
             tag == TagName(d, n.tag, expanded)
             first == FromText(n)
             rest == FromProps(d, n, m, expanded)
  <1>1. /\ n.props \in Seq(ToSet(n.props)) /\ n.content \in Seq(ToSet(n.content))
    OBVIOUS
  <1>2. Parts(n) = ToSet(Content(n)) \cup {c.node : c \in ToSet(n.content)}
    BY DEF Parts
  <1>3. first \in Seq(V)
    <2>1. Len(n.content) \in Nat /\ DOMAIN n.content = 1 .. Len(n.content)
      BY <1>1
    <2>2. \A k \in DOMAIN n.content : n.content[k].node \in Parts(n)
      BY <1>2 DEF ToSet
    <2>3. \A k \in DOMAIN n.content : first[k] \in V
      BY <2>2 DEF Visitable, Modes, FromText
    <2>4. first = [k \in 1 .. Len(n.content) |-> first[k]]
      BY <2>1 DEF FromText
    <2> DEFINE l == Len(n.content)
    <2> HIDE DEF first, V
    <2>5. l \in Nat /\ first = [k \in 1 .. l |-> first[k]] /\ \A k \in 1 .. l : first[k] \in V
      BY <2>1, <2>3, <2>4
    <2> HIDE DEF l
    <2> QED BY <2>5
  <1>4. rest \in Seq(V)
    <2>1. /\ DOMAIN shown = 1 .. Len(shown) /\ Len(shown) \in Nat
          /\ \A k \in DOMAIN shown : shown[k].node \in Parts(n)
      BY <1>1, <1>2, ContentIs
    <2>2. \A prop : ModeOf(m, prop, tag) \in Modes
      BY DEF ModeOf, Modes
    <2>3. rest = [k \in DOMAIN shown |->
                    [node |-> shown[k].node, mode |-> ModeOf(m, shown[k], tag)]]
      BY DEF FromProps
    <2> HIDE DEF shown, tag, rest
    <2>4. \A k \in DOMAIN shown : rest[k] \in V
      BY <2>1, <2>2, <2>3 DEF Visitable
    <2> QED BY <2>1, <2>3, <2>4
  <1>5. ElementContent(d, n, m, expanded) = first \o rest
    BY DEF ElementContent, FromText, FromProps
  <1> QED BY <1>3, <1>4, <1>5

LEMMA ElementContentIs ==
    ASSUME NEW d, NEW n \in Nodes, n.form = "element", NEW m \in Modes, NEW expanded
    PROVE  ElementContent(d, n, m, expanded) \in Seq(Visitable(Parts(n)))
PROOF
  <1> DEFINE V == Visitable(Parts(n))
             s == FromText(n)
             t == FromProps(d, n, m, expanded)
  <1>1. s \in Seq(V) /\ t \in Seq(V) /\ ElementContent(d, n, m, expanded) = s \o t
    BY ElementHolds
  <1> HIDE DEF V, s, t
  <1>2. s \o t \in Seq(V)
    BY <1>1, ConcatProperties
  <1> QED BY <1>1, <1>2 DEF V

-----------------------------------------------------------------------------
(* The tree and the stack.                                                 *)

IsBlock(b) ==
    /\ b = [level |-> b.level, label |-> b.label, texts |-> b.texts,
            headings |-> b.headings, images |-> b.images, links |-> b.links]
    /\ b.level \in Nat /\ IsList(b.texts)

\* An outline with one root.
IsTree(o) ==
    /\ IsList(o) /\ o # <<>>
    /\ \A i \in DOMAIN o : IsBlock(o[i]) /\ (o[i].level = 0 <=> i = 1)
    /\ \A i \in DOMAIN o : i > 1 => o[i].level =< o[i - 1].level + 1

\* Block i is on the way from the root to the last block.
OnRightmost(o, i) ==
    i \in DOMAIN o /\ \A j \in DOMAIN o : j > i => o[j].level > o[i].level

\* The blocks of the nodes to visit are, from the top of the stack down, ever
\* nearer to the root.
IsStack(t, o) ==
    /\ \A a \in DOMAIN t : OnRightmost(o, t[a].block)
    /\ \A a, c \in DOMAIN t : a < c => o[t[c].block].level =< o[t[a].block].level

LEMMA NewBlockIs ==
    ASSUME NEW level \in Nat, NEW label
    PROVE  IsBlock(NewBlock(level, label)) /\ NewBlock(level, label).level = level
PROOF
  <1>1. IsList(<<>>)
    BY DEF IsList
  <1> QED BY <1>1 DEF NewBlock, IsBlock

LEMMA TreeIs ==
    ASSUME NEW o, IsTree(o)
    PROVE  /\ Len(o) \in Nat \ {0} /\ DOMAIN o = 1 .. Len(o) /\ 1 \in DOMAIN o
           /\ IsOutline(o) /\ \A i \in DOMAIN o : o[i].level \in Nat
           /\ Subtree(o, 1) = DOMAIN o
PROOF
  <1>1. Len(o) \in Nat \ {0} /\ DOMAIN o = 1 .. Len(o) /\ o \in Seq(Members(o))
    BY DEF IsTree, IsList
  <1>2. \A i \in DOMAIN o : o[i].level \in Nat /\ o[i].texts \in Seq(ToSet(o[i].texts))
    BY ToSetIs DEF IsTree, IsBlock, IsList
  <1>3. ASSUME NEW i \in DOMAIN o
        PROVE  o[i].level \in 0 .. (IF i = 1 THEN 0 ELSE o[i - 1].level + 1)
    <2>1. CASE i = 1
      BY <2>1 DEF IsTree
    <2>2. CASE i # 1
      <3>1. i > 1 /\ i - 1 \in DOMAIN o
        BY <1>1, <2>2
      <3>2. o[i].level =< o[i - 1].level + 1
        BY <3>1 DEF IsTree
      <3>3. o[i].level \in Nat /\ o[i - 1].level \in Nat
        BY <1>2, <3>1
      <3> QED BY <2>2, <3>2, <3>3
    <2> QED BY <2>1, <2>2
  <1>4. IsOutline(o)
    BY <1>1, <1>2, <1>3, ToSetIs DEF IsOutline
  <1>5. ASSUME NEW i \in DOMAIN o PROVE i \in Subtree(o, 1)
    <2>1. \A k \in DOMAIN o : 1 < k => o[k].level > o[1].level
      BY <1>1, <1>2 DEF IsTree
    <2> QED BY <1>1, <1>4, <1>5, <2>1, InSubtree
  <1>6. \A i \in Subtree(o, 1) : i \in DOMAIN o
    BY <1>1, <1>4, InSubtree
  <1>7. Subtree(o, 1) = DOMAIN o
    BY <1>5, <1>6
  <1>8. 1 \in DOMAIN o
    BY <1>1
  <1> QED BY <1>1, <1>2, <1>4, <1>7, <1>8

LEMMA ListAppend ==
    ASSUME NEW s, IsList(s), NEW x
    PROVE  /\ IsList(Append(s, x)) /\ Append(s, x) # <<>>
           /\ DOMAIN s = 1 .. Len(s) /\ Len(s) \in Nat
           /\ DOMAIN Append(s, x) = 1 .. Len(s) + 1
           /\ \A a \in DOMAIN s : Append(s, x)[a] = s[a]
           /\ Append(s, x)[Len(s) + 1] = x
PROOF
  <1> DEFINE S == Members(s) \cup {x}
  <1>1. \A T, U : T \subseteq U => Seq(T) \subseteq Seq(U)
    OBVIOUS
  <1>2. s \in Seq(S) /\ x \in S
    BY <1>1 DEF IsList
  <1> HIDE DEF S
  <1>3. Append(s, x) \in Seq(S) /\ Members(Append(s, x)) = Members(s) \cup {x}
    BY <1>2, AppendMembers
  <1> QED BY <1>2, <1>3, AppendIs DEF IsList, S

\* A block that changes, but for its level, leaves the tree and the stack.
LEMMA TreeChange ==
    ASSUME NEW o, IsTree(o), NEW i \in DOMAIN o, NEW b, IsBlock(b),
           b.level = o[i].level, NEW q, q = [o EXCEPT ![i] = b]
    PROVE  /\ IsTree(q) /\ \A t : IsStack(t, o) => IsStack(t, q)
PROOF
  <1>1. Len(o) \in Nat \ {0} /\ DOMAIN o = 1 .. Len(o)
    BY TreeIs
  <1>2. DOMAIN q = DOMAIN o /\ \A j \in DOMAIN o : q[j] = IF j = i THEN b ELSE o[j]
    OBVIOUS
  <1>3. \A j \in DOMAIN o : q[j].level = o[j].level /\ IsBlock(q[j])
    BY <1>2 DEF IsTree
  <1>4. IsList(q) /\ q # <<>>
    <2>1. q = [j \in 1 .. Len(o) |-> q[j]]
      BY <1>1, <1>2
    <2>2. IsList(q)
      BY <1>1, <2>1, ListIs
    <2> QED BY <1>1, <1>2, <2>2
  <1>5. IsTree(q)
    <2>1. \A j \in DOMAIN q : j > 1 => j - 1 \in DOMAIN o
      BY <1>1, <1>2
    <2> QED BY <1>2, <1>3, <1>4, <2>1 DEF IsTree
  <1>6. \A j : OnRightmost(o, j) => OnRightmost(q, j)
    BY <1>2, <1>3 DEF OnRightmost
  <1>7. ASSUME NEW t, IsStack(t, o) PROVE IsStack(t, q)
    <2>1. \A a \in DOMAIN t : OnRightmost(q, t[a].block) /\ t[a].block \in DOMAIN o
      BY <1>6, <1>7 DEF IsStack, OnRightmost
    <2> QED BY <1>3, <1>7, <2>1 DEF IsStack
  <1> QED BY <1>5, <1>7

\* A new block one level below block i, which is on the way to the last one.
LEMMA TreeGrows ==
    ASSUME NEW o, IsTree(o), NEW i, OnRightmost(o, i),
           NEW b, IsBlock(b), b.level = o[i].level + 1,
           NEW q, q = Append(o, b)
    PROVE  /\ IsTree(q) /\ OnRightmost(q, Len(o) + 1)
           /\ q[Len(o) + 1].level = o[i].level + 1
           /\ \A a \in DOMAIN o : q[a] = o[a]
           /\ \A a : OnRightmost(o, a) /\ o[a].level =< o[i].level => OnRightmost(q, a)
           /\ Len(o) + 1 \in ChildSet(q, i)
PROOF
  <1> DEFINE n == Len(o)
  <1>1. /\ n \in Nat \ {0} /\ DOMAIN o = 1 .. n /\ i \in 1 .. n
        /\ \A a \in 1 .. n : o[a].level \in Nat
    BY TreeIs DEF OnRightmost
  <1>3. /\ IsList(q) /\ q # <<>> /\ DOMAIN q = 1 .. n + 1
        /\ \A a \in 1 .. n : q[a] = o[a]
        /\ q[n + 1] = b
    <2>1. q = Append(o, b) /\ IsList(o)
      BY DEF IsTree
    <2> QED BY <1>1, <2>1, ListAppend
  <1> HIDE DEF n
  <1>4. \A a \in 1 .. n + 1 : a \in 1 .. n \/ a = n + 1
    BY <1>1
  <1>5. n + 1 \in 1 .. n + 1 /\ n + 1 # 1 /\ n + 1 - 1 = n /\ n \in 1 .. n
    BY <1>1
  <1>6. o[i].level =< o[n].level
    BY <1>1 DEF OnRightmost
  <1>7. ASSUME NEW a \in DOMAIN q
        PROVE  IsBlock(q[a]) /\ (q[a].level = 0 <=> a = 1)
    BY <1>1, <1>3, <1>4, <1>5 DEF IsTree
  <1>8. ASSUME NEW a \in DOMAIN q, a > 1 PROVE q[a].level =< q[a - 1].level + 1
    <2>1. CASE a = n + 1
      BY <1>1, <1>3, <1>5, <1>6, <2>1
    <2>2. CASE a \in 1 .. n
      <3>1. a - 1 \in 1 .. n
        BY <1>1, <1>8, <2>2
      <3> QED BY <1>1, <1>3, <1>8, <2>2, <3>1 DEF IsTree
    <2> QED BY <1>3, <1>4, <2>1, <2>2
  <1>9. IsTree(q)
    BY <1>3, <1>7, <1>8 DEF IsTree
  <1>10. OnRightmost(q, n + 1)
    BY <1>1, <1>3, <1>5 DEF OnRightmost
  <1>11. ASSUME NEW a, OnRightmost(o, a), o[a].level =< o[i].level
         PROVE  OnRightmost(q, a)
    <2>1. a \in 1 .. n /\ \A j \in 1 .. n : j > a => o[j].level > o[a].level
      BY <1>1, <1>11 DEF OnRightmost
    <2>2. q[n + 1].level > o[a].level
      BY <1>1, <1>3, <1>11, <2>1
    <2>3. a \in 1 .. n + 1 /\ q[a] = o[a]
      BY <1>1, <1>3, <2>1
    <2>4. \A j \in 1 .. n + 1 : j > a => q[j].level > q[a].level
      BY <1>3, <1>4, <2>1, <2>2, <2>3
    <2> QED BY <1>3, <2>3, <2>4 DEF OnRightmost
  <1>12. n + 1 \in ChildSet(q, i)
    <2>1. OnRightmost(q, i) /\ i \in DOMAIN q /\ q[i] = o[i]
      BY <1>1, <1>3, <1>11
    <2>2. IsOutline(q)
      BY <1>9, TreeIs
    <2>3. n + 1 \in Subtree(q, i) <=>
             /\ n + 1 \in DOMAIN q /\ i =< n + 1
             /\ \A k \in DOMAIN q : i < k /\ k =< n + 1 => q[k].level > q[i].level
      BY <2>1, <2>2, InSubtree
    <2>4. i =< n + 1
      BY <1>1
    <2>5. n + 1 \in Subtree(q, i)
      BY <1>3, <1>5, <2>1, <2>3, <2>4 DEF OnRightmost
    <2> QED BY <1>3, <2>1, <2>5 DEF ChildSet
  <1> QED BY <1>1, <1>3, <1>9, <1>10, <1>11, <1>12 DEF n

\* Nodes of block i take the place of the top of a stack.
LEMMA StackThen ==
    ASSUME NEW S, NEW t \in Seq(S), t # <<>>, NEW new \in Seq(S), NEW o, IsTree(o),
           \A a \in DOMAIN t : OnRightmost(o, t[a].block),
           \A a, c \in DOMAIN t : a < c => o[t[c].block].level =< o[t[a].block].level,
           NEW i, OnRightmost(o, i), \A a \in DOMAIN new : new[a].block = i,
           \A a \in DOMAIN t : o[t[a].block].level =< o[i].level
    PROVE  IsStack(new \o Tail(t), o)
PROOF
  <1> DEFINE rest == Tail(t)
             q == new \o rest
             m == Len(new)
             n == Len(rest)
             V(x) == o[x.block].level
  <1>1. /\ rest \in Seq(S) /\ DOMAIN t = 1 .. Len(t)
        /\ \A a \in DOMAIN rest : a + 1 \in DOMAIN t /\ rest[a] = t[a + 1]
    BY TailIs
  <1> HIDE DEF rest
  <1>2. /\ m \in Nat /\ n \in Nat /\ DOMAIN new = 1 .. m /\ DOMAIN rest = 1 .. n
        /\ DOMAIN q = 1 .. m + n
        /\ \A a \in 1 .. m + n : q[a] = IF a =< m THEN new[a] ELSE rest[a - m]
    BY <1>1, ConcatProperties
  <1>3. i \in DOMAIN o /\ \A a \in DOMAIN o : o[a].level \in Nat
    BY TreeIs DEF OnRightmost
  <1> HIDE DEF q, m, n
  <1>4. ASSUME NEW a \in DOMAIN q
        PROVE  \/ a =< m /\ q[a].block = i
               \/ a > m /\ a - m \in DOMAIN rest /\ q[a] = t[a - m + 1]
                        /\ a - m + 1 \in DOMAIN t
    BY <1>1, <1>2
  <1>5. \A a \in DOMAIN q : OnRightmost(o, q[a].block)
    BY <1>4
  <1>6. ASSUME NEW a \in DOMAIN q, NEW c \in DOMAIN q, a < c
        PROVE  V(q[c]) =< V(q[a])
    <2>1. CASE c =< m
      <3>1. q[c].block = i /\ q[a].block = i
        BY <1>2, <1>4, <1>6, <2>1
      <3> QED BY <1>3, <3>1
    <2>2. CASE c > m /\ a =< m
      <3>1. q[a].block = i
        BY <1>2, <1>4, <2>2
      <3>2. q[c] = t[c - m + 1] /\ c - m + 1 \in DOMAIN t
        BY <1>2, <1>4, <2>2
      <3> QED BY <3>1, <3>2
    <2>3. CASE a > m
      <3>1. /\ q[c] = t[c - m + 1] /\ c - m + 1 \in DOMAIN t
            /\ q[a] = t[a - m + 1] /\ a - m + 1 \in DOMAIN t
            /\ a - m + 1 < c - m + 1
        BY <1>2, <1>4, <1>6, <2>3
      <3> QED BY <3>1
    <2> QED BY <1>2, <2>1, <2>2, <2>3
  <1> QED BY <1>5, <1>6 DEF IsStack, q, rest

-----------------------------------------------------------------------------
(* The walk.                                                               *)

LEMMA RootHeightIs ==
    ASSUME NEW d, IsDocument(d)
    PROVE  /\ RowHeight(d, {}) = 0 /\ RowHeight(d, {0}) \in Nat
           /\ IsModel(d, 0) => RowHeight(d, {0}) = Height(d[0].value) + 1
PROOF
  <1>1. RowHeight(d, {}) = 0
    <2>1. Levels(d, {}) = {}
      BY DEF Levels
    <2> QED BY <2>1, FS_EmptySet DEF RowHeight
  <1>2. CASE IsModel(d, 0)
    <2>1. 0 \in DOMAIN d \ {} /\ {} \in SUBSET DOMAIN d /\ {} \cup {0} = {0}
      BY <1>2 DEF IsModel
    <2>2. Height(d[0].value) \in Nat
      BY <1>2, <2>1 DEF IsDocument
    <2>3. RowHeight(d, {} \cup {0}) = RowHeight(d, {}) + Height(d[0].value) + 1
      BY <1>2, <2>1, RowHeightIs
    <2>4. RowHeight(d, {0}) = Height(d[0].value) + 1
      BY <1>1, <2>1, <2>2, <2>3
    <2> QED BY <1>1, <2>2, <2>4
  <1>3. CASE ~IsModel(d, 0)
    <2>1. Levels(d, {0}) = {}
      BY <1>3 DEF Levels
    <2>2. RowHeight(d, {0}) = 0
      BY <2>1, FS_EmptySet DEF RowHeight
    <2> QED BY <1>1, <1>3, <2>2
  <1> QED BY <1>2, <1>3

\* The nodes to visit in document d: what is left of the way down is no longer
\* than the rows on the path and row 0 are high.
VisitSet(d) ==
    [node : Nodes, block : Nat, path : SUBSET DOMAIN d, depth : Nat, mode : Modes]
Visits(d) ==
    {v \in VisitSet(d) :
        v.depth + Height(v.node) =< RowHeight(d, {0}) + RowHeight(d, v.path)}

WalkInv ==
    /\ stream \in Streams
    /\ IsDocument(doc)
    /\ todo \in Seq(Visits(doc))
    /\ orphans \subseteq {id \in DOMAIN doc : IsModel(doc, id)}
    /\ stage = "read" => orphans = {}
    /\ IsTree(blocks)
    /\ IsStack(todo, blocks)

\* A node inside the one that is left is less high, by as much as it is deeper.
LEMMA VisitInside ==
    ASSUME NEW d, IsDocument(d), NEW v \in Visits(d), NEW i \in Nat,
           NEW nodes \in Seq(Visitable(Parts(v.node))),
           NEW new, new = [k \in DOMAIN nodes |->
                             Visit(nodes[k].node, i, v.path, v.depth + 1, nodes[k].mode)]
    PROVE  new \in Seq(Visits(d)) /\ \A a \in DOMAIN new : new[a].block = i
PROOF
  <1> DEFINE n == Len(nodes)
             H == RowHeight(d, {0}) + RowHeight(d, v.path)
  <1>1. /\ n \in Nat /\ DOMAIN nodes = 1 .. n
        /\ \A k \in 1 .. n : nodes[k] \in Visitable(Parts(v.node))
    OBVIOUS
  <1>2. /\ v.node \in Nodes /\ v.path \in SUBSET DOMAIN d /\ v.depth \in Nat
        /\ v.depth + Height(v.node) =< H
    BY DEF Visits, VisitSet
  <1>3. H \in Nat /\ Height(v.node) \in Nat
    BY <1>2, RowHeightIs, RootHeightIs
  <1> HIDE DEF n, H
  <1>4. ASSUME NEW k \in 1 .. n PROVE new[k] \in Visits(d) /\ new[k].block = i
    <2>1. nodes[k].node \in Parts(v.node) /\ nodes[k].mode \in Modes
      BY <1>1 DEF Visitable
    <2>2. /\ nodes[k].node \in Nodes /\ Height(nodes[k].node) \in Nat
          /\ Height(nodes[k].node) < Height(v.node)
      BY <1>2, <2>1
    <2>3. v.depth + 1 \in Nat /\ v.depth + 1 + Height(nodes[k].node) =< H
      BY <1>2, <1>3, <2>2
    <2>4. new[k] = Visit(nodes[k].node, i, v.path, v.depth + 1, nodes[k].mode)
      BY <1>1
    <2>5. /\ new[k].node = nodes[k].node /\ new[k].block = i /\ new[k].path = v.path
          /\ new[k].depth = v.depth + 1
      BY <2>4 DEF Visit
    <2>6. \A a \in Nodes, b \in Nat, p \in SUBSET DOMAIN d, e \in Nat, m \in Modes :
             Visit(a, b, p, e, m) \in VisitSet(d)
      BY DEF Visit, VisitSet
    <2>7. new[k] \in VisitSet(d)
      <3> DEFINE a == nodes[k].node
                 p == v.path
                 e == v.depth + 1
                 m == nodes[k].mode
      <3>1. /\ a \in Nodes /\ p \in SUBSET DOMAIN d /\ e \in Nat /\ m \in Modes
            /\ new[k] = Visit(a, i, p, e, m)
        BY <1>2, <2>1, <2>2, <2>3, <2>4
      <3> HIDE DEF a, p, e, m
      <3> QED BY <2>6, <3>1
    <2>8. new[k].depth + Height(new[k].node) =< RowHeight(d, {0}) + RowHeight(d, new[k].path)
      BY <2>3, <2>5 DEF H
    <2> QED BY <2>5, <2>7, <2>8 DEF Visits
  <1>5. new = [k \in 1 .. n |-> new[k]]
    BY <1>1
  <1>6. new \in Seq(Visits(d))
    <2> DEFINE W == Visits(d)
    <2> HIDE DEF W
    <2>1. \A k \in 1 .. n : new[k] \in W
      BY <1>4 DEF W
    <2>2. n \in Nat
      BY <1>1
    <2>3. new \in Seq(W)
      BY <1>5, <2>1, <2>2
    <2> QED BY <2>3 DEF W
  <1> QED BY <1>4, <1>5, <1>6

LEMMA StackIs ==
    ASSUME WalkInv, todo # <<>>
    PROVE  /\ todo[1] = Head(todo) /\ Head(todo) \in Visits(doc) /\ 1 \in DOMAIN todo
           /\ Tail(todo) \in Seq(Visits(doc))
           /\ node \in Nodes /\ path \in SUBSET DOMAIN doc /\ mode \in Modes
           /\ Head(todo).depth \in Nat /\ here \in Nat
           /\ OnRightmost(blocks, here) /\ here \in DOMAIN blocks
           /\ \A a \in DOMAIN todo : blocks[todo[a].block].level =< blocks[here].level
PROOF
  <1>1. /\ Head(todo) = todo[1] /\ Len(todo) \in Nat \ {0}
        /\ todo[1] \in Visits(doc) /\ Tail(todo) \in Seq(Visits(doc))
        /\ DOMAIN todo = 1 .. Len(todo)
    BY TailIs DEF WalkInv
  <1>2. 1 \in DOMAIN todo
    BY <1>1
  <1>3. OnRightmost(blocks, here) /\ here \in DOMAIN blocks
    BY <1>1, <1>2 DEF WalkInv, IsStack, OnRightmost, here
  <1>4. blocks[here].level \in Nat
    BY <1>3, TreeIs DEF WalkInv
  <1>5. ASSUME NEW a \in DOMAIN todo
        PROVE  blocks[todo[a].block].level =< blocks[here].level
    <2>1. CASE a = 1
      BY <1>1, <1>4, <2>1 DEF here
    <2>2. CASE a # 1
      <3>1. 1 < a
        BY <1>1, <2>2
      <3> QED BY <1>1, <1>2, <3>1 DEF WalkInv, IsStack, here
    <2> QED BY <2>1, <2>2
  <1>6. /\ node \in Nodes /\ path \in SUBSET DOMAIN doc /\ mode \in Modes
        /\ Head(todo).depth \in Nat /\ here \in Nat
    BY <1>1 DEF Visits, VisitSet, node, path, mode, here
  <1> QED BY <1>1, <1>2, <1>3, <1>5, <1>6

\* Whatever a node is left for, the stack stays one.
LEMMA ThenStep ==
    ASSUME WalkInv, todo # <<>>, NEW nodes \in Seq(Visitable(Parts(node))),
           NEW o, IsTree(o), IsStack(todo, o), NEW i, OnRightmost(o, i),
           \A a \in DOMAIN todo : o[todo[a].block].level =< o[i].level,
           Then(nodes, i)
    PROVE  todo' \in Seq(Visits(doc)) /\ IsStack(todo', o)
PROOF
  <1> DEFINE new == [k \in DOMAIN nodes |->
                       Visit(nodes[k].node, i, path, Head(todo).depth + 1, nodes[k].mode)]
             W == Visits(doc)
  <1>1. todo' = new \o Tail(todo)
    BY DEF Then
  <1>2. Head(todo) \in W /\ Tail(todo) \in Seq(W) /\ todo \in Seq(W)
    BY StackIs DEF WalkInv
  <1>3. i \in Nat
    BY TreeIs DEF OnRightmost
  <1>4. new \in Seq(W) /\ \A a \in DOMAIN new : new[a].block = i
    <2>1. IsDocument(doc) /\ Head(todo) \in Visits(doc)
      BY <1>2 DEF WalkInv
    <2>2. new = [k \in DOMAIN nodes |->
                   Visit(nodes[k].node, i, Head(todo).path, Head(todo).depth + 1,
                         nodes[k].mode)]
      BY DEF path
    <2>3. nodes \in Seq(Visitable(Parts(Head(todo).node)))
      BY DEF node
    <2> HIDE DEF new
    <2>4. new \in Seq(Visits(doc)) /\ \A a \in DOMAIN new : new[a].block = i
      BY <1>3, <2>1, <2>2, <2>3, VisitInside
    <2> QED BY <2>4
  <1> HIDE DEF new, W
  <1>5. new \o Tail(todo) \in Seq(W)
    BY <1>2, <1>4, ConcatProperties
  <1>6. IsStack(new \o Tail(todo), o)
    <2>1. /\ \A a \in DOMAIN todo : OnRightmost(o, todo[a].block)
          /\ \A a, c \in DOMAIN todo :
                a < c => o[todo[c].block].level =< o[todo[a].block].level
      BY DEF IsStack
    <2> QED BY <1>2, <1>4, <2>1, StackThen
  <1> QED BY <1>1, <1>5, <1>6 DEF W

LEMMA WalkInit == Init => WalkInv
PROOF
  <1> SUFFICES ASSUME Init PROVE WalkInv
    OBVIOUS
  <1> DEFINE root == NewBlock(0, RootLabel)
  <1>1. IsDocument(doc)
    <2>1. DOMAIN doc = {}
      BY DEF Init, EmptyDocument
    <2> QED BY <2>1, FS_EmptySet DEF IsDocument
  <1>2. IsBlock(root) /\ root.level = 0
    BY NewBlockIs
  <1> HIDE DEF root
  <1>3. blocks = <<root>>
    BY DEF Init, root
  <1>4. IsList(<<root>>)
    <2>1. <<root>> = [k \in 1 .. 1 |-> <<root>>[k]]
      OBVIOUS
    <2> QED BY <2>1, ListIs
  <1>5. IsTree(blocks)
    <2>1. DOMAIN blocks = {1} /\ blocks[1] = root /\ blocks # <<>>
      BY <1>3
    <2> QED BY <1>2, <1>3, <1>4, <2>1 DEF IsTree
  <1>6. IsStack(todo, blocks) /\ todo \in Seq(Visits(doc))
    BY DEF Init, IsStack
  <1> QED BY <1>1, <1>5, <1>6 DEF Init, WalkInv

\* The first node of row 0 or of a row that was not reached.
LEMMA FirstVisit ==
    ASSUME NEW d, IsDocument(d), NEW id \in DOMAIN d, IsModel(d, id), NEW o, IsTree(o),
           NEW p \in {{}, {id}}, p = {} => id = 0
    PROVE  LET t == <<Visit(d[id].value, 1, p, 0, "none")>>
           IN  t \in Seq(Visits(d)) /\ IsStack(t, o)
PROOF
  <1> DEFINE v == Visit(d[id].value, 1, p, 0, "none")
             h == Height(d[id].value)
  <1>1. d[id].value \in Nodes /\ h \in Nat
    BY DEF IsDocument
  <1>2. h =< RowHeight(d, {0}) + RowHeight(d, p)
    <2>1. {} \in SUBSET DOMAIN d /\ id \notin {} /\ {} \cup {id} = {id}
      OBVIOUS
    <2>2. RowHeight(d, {}) = 0 /\ RowHeight(d, {0}) \in Nat
      BY RootHeightIs
    <2>3. RowHeight(d, {} \cup {id}) = RowHeight(d, {}) + h + 1
      BY <2>1, RowHeightIs
    <2> HIDE DEF h
    <2>4. RowHeight(d, {id}) = h + 1
      BY <1>1, <2>1, <2>2, <2>3
    <2>5. CASE p = {}
      BY <1>1, <2>2, <2>4, <2>5
    <2>6. CASE p = {id}
      BY <1>1, <2>2, <2>4, <2>6
    <2> QED BY <2>5, <2>6
  <1>3. v \in VisitSet(d) /\ v.block = 1
    BY <1>1 DEF Visit, VisitSet, Modes
  <1>4. v.depth + Height(v.node) =< RowHeight(d, {0}) + RowHeight(d, v.path)
    <2>1. v.depth = 0 /\ v.node = d[id].value /\ v.path = p
      BY DEF Visit
    <2>2. 0 + h = h
      BY <1>1
    <2> HIDE DEF v
    <2> QED BY <1>2, <2>1, <2>2
  <1> HIDE DEF v
  <1>5. v \in Visits(d)
    BY <1>3, <1>4 DEF Visits
  <1>6. <<v>> \in Seq(Visits(d)) /\ DOMAIN <<v>> = {1} /\ <<v>>[1] = v
    BY <1>5
  <1>7. OnRightmost(o, 1)
    <2>1. /\ Len(o) \in Nat \ {0} /\ DOMAIN o = 1 .. Len(o) /\ 1 \in DOMAIN o
          /\ \A i \in DOMAIN o : o[i].level \in Nat
      BY TreeIs
    <2>2. \A i \in DOMAIN o : o[i].level = 0 <=> i = 1
      BY DEF IsTree
    <2> QED BY <2>1, <2>2 DEF OnRightmost
  <1>8. IsStack(<<v>>, o)
    BY <1>3, <1>6, <1>7 DEF IsStack
  <1> QED BY <1>6, <1>8 DEF v

\* Nodes that hang nothing on the tree.
LEMMA PlainStep ==
    ASSUME WalkInv, Drop \/ Enter
    PROVE  WalkInv'
PROOF
  <1>1. todo # <<>> /\ stage \in {"walk", "orphans"}
    BY DEF Drop, Enter, At, Walking
  <1>2. UNCHANGED <<stream, doc, stage, blocks, orphans>>
    BY DEF Drop, Enter
  <1>3. \E nodes \in Seq(Visitable(Parts(node))) : Then(nodes, here)
    <2>1. node \in Nodes /\ mode \in Modes
      BY <1>1, StackIs
    <2>2. CASE Drop
      <3>1. <<>> \in Seq(Visitable(Parts(node)))
        OBVIOUS
      <3> QED BY <2>2, <3>1 DEF Drop
    <2>3. CASE At("list") /\ Then(InMode(mode, node.items), here)
      <3>1. node.form = "list" /\ node.items \in Seq(Nodes)
        BY <2>1, <2>3 DEF At
      <3>2. node.items \in Seq(Parts(node))
        <4>1. Parts(node) = {node.items[k] : k \in DOMAIN node.items}
          BY <3>1 DEF Parts, ToSet
        <4> QED BY <3>1, <4>1
      <3> QED BY <2>1, <2>3, <3>2, InModeIs
    <2>4. CASE At("object") /\ Then(InMode(mode, Content(node)), here)
      <3>1. node.form = "object" /\ node.props \in Seq(ToSet(node.props))
        BY <2>1, <2>4 DEF At
      <3>2. Parts(node) = ToSet(Content(node))
        BY <3>1 DEF Parts
      <3>3. Content(node) \in Seq(Parts(node))
        BY <3>1, <3>2, ContentIs
      <3> QED BY <2>1, <2>4, <3>3, InModeIs
    <2>5. CASE At("action") /\ Then(InMode(mode, node.slots), here)
      <3>1. node.form = "action" /\ node.slots \in Seq(Nodes)
        BY <2>1, <2>5 DEF At
      <3>2. node.slots \in Seq(Parts(node))
        <4>1. Parts(node) = {node.slots[k] : k \in DOMAIN node.slots}
          BY <3>1 DEF Parts, ToSet
        <4> QED BY <3>1, <4>1
      <3> QED BY <2>1, <2>5, <3>2, InModeIs
    <2> QED BY <2>2, <2>3, <2>4, <2>5 DEF Enter
  <1>4. todo' \in Seq(Visits(doc)) /\ IsStack(todo', blocks)
    <2>1. PICK nodes \in Seq(Visitable(Parts(node))) : Then(nodes, here)
      BY <1>3
    <2>2. /\ IsTree(blocks) /\ IsStack(todo, blocks) /\ OnRightmost(blocks, here)
          /\ \A a \in DOMAIN todo : blocks[todo[a].block].level =< blocks[here].level
      BY <1>1, StackIs DEF WalkInv
    <2> QED BY <1>1, <2>1, <2>2, ThenStep
  <1> QED BY <1>1, <1>2, <1>4 DEF WalkInv

\* Nodes that hang something on their block.
LEMMA LeafStep ==
    ASSUME WalkInv, ReadText \/ Attach
    PROVE  WalkInv'
PROOF
  <1>1. todo # <<>> /\ stage \in {"walk", "orphans"}
    BY DEF ReadText, Attach, At, Walking
  <1>2. UNCHANGED <<stream, doc, stage, orphans>> /\ Then(<<>>, here)
    BY DEF ReadText, Attach
  <1>3. here \in DOMAIN blocks /\ IsTree(blocks) /\ IsBlock(blocks[here])
    BY <1>1, StackIs DEF WalkInv, IsTree
  <1> DEFINE old == blocks[here]
  <1>4. PICK b : /\ blocks' = [blocks EXCEPT ![here] = b]
                 /\ IsBlock(b) /\ b.level = old.level
    <2>1. CASE ReadText
      <3> DEFINE x == Append(old.texts, node.text)
                 y == IF mode = "heading" THEN Append(old.headings, node.text)
                                          ELSE old.headings
                 b1 == [old EXCEPT !.texts = x]
                 b2 == [b1 EXCEPT !.headings = y]
      <3>1. blocks' = [blocks EXCEPT ![here] = b2]
        BY <1>3, <2>1 DEF ReadText, IsBlock
      <3>2. IsList(x) /\ IsBlock(old)
        BY <1>3, ListAppend DEF IsBlock
      <3> HIDE DEF x, y, old
      <3>3. IsBlock(b1) /\ b1.level = old.level
        BY <3>2 DEF IsBlock
      <3> HIDE DEF b1
      <3>4. IsBlock(b2) /\ b2.level = old.level
        BY <3>3 DEF IsBlock
      <3> QED BY <3>1, <3>4 DEF old
    <2>2. CASE Attach
      <3>1. \/ blocks' = [blocks EXCEPT ![here] = [old EXCEPT !.images = Append(@, node.token)]]
            \/ blocks' = [blocks EXCEPT ![here] = [old EXCEPT !.links = Append(@, node.url)]]
        BY <1>3, <2>2 DEF Attach
      <3>2. \A x : /\ IsBlock([old EXCEPT !.images = x])
                   /\ [old EXCEPT !.images = x].level = old.level
                   /\ IsBlock([old EXCEPT !.links = x])
                   /\ [old EXCEPT !.links = x].level = old.level
        BY <1>3 DEF IsBlock
      <3> QED BY <3>1, <3>2
    <2> QED BY <2>1, <2>2
  <1>5. IsTree(blocks') /\ \A t : IsStack(t, blocks) => IsStack(t, blocks')
    BY <1>3, <1>4, TreeChange
  <1>6. todo' \in Seq(Visits(doc)) /\ IsStack(todo', blocks)
    <2>1. /\ IsTree(blocks) /\ IsStack(todo, blocks) /\ OnRightmost(blocks, here)
          /\ \A a \in DOMAIN todo : blocks[todo[a].block].level =< blocks[here].level
      BY <1>1, StackIs DEF WalkInv
    <2>2. <<>> \in Seq(Visitable(Parts(node)))
      OBVIOUS
    <2> QED BY <1>1, <1>2, <2>1, <2>2, ThenStep
  <1> QED BY <1>1, <1>2, <1>5, <1>6 DEF WalkInv

\* The visit of a row in place of the reference to it.
Moved(v, n, p, depth) == [v EXCEPT !.node = n, !.path = p, !.depth = depth]

LEMMA MovedIs ==
    ASSUME NEW d, NEW v \in VisitSet(d), NEW n \in Nodes, NEW p \in SUBSET DOMAIN d,
           NEW depth \in Nat
    PROVE  /\ Moved(v, n, p, depth) \in VisitSet(d)
           /\ Moved(v, n, p, depth).node = n /\ Moved(v, n, p, depth).path = p
           /\ Moved(v, n, p, depth).depth = depth /\ Moved(v, n, p, depth).block = v.block
PROOF
  BY DEF Moved, VisitSet

LEMMA FollowStep ==
    ASSUME WalkInv, Follow
    PROVE  WalkInv'
PROOF
  <1> DEFINE top == Head(todo)
             id == node.id
             v == [top EXCEPT !.node = doc[id].value, !.path = @ \cup {id}, !.depth = @ + 1]
             new == IF IsModel(doc, id) THEN <<v>> ELSE <<>>
             W == Visits(doc)
  <1>1. todo # <<>> /\ stage \in {"walk", "orphans"} /\ node.form = "ref"
    BY DEF Follow, At, Walking
  <1>2. UNCHANGED <<stream, doc, stage, blocks, orphans>> /\ todo' = new \o Tail(todo)
    BY DEF Follow
  <1>3. id \in DOMAIN doc \ path
    BY <1>1 DEF Follow, IsDropped, Resolves
  <1>4. /\ top \in W /\ Tail(todo) \in Seq(W) /\ todo \in Seq(W)
        /\ path \in SUBSET DOMAIN doc /\ IsDocument(doc)
        /\ OnRightmost(blocks, here) /\ IsTree(blocks) /\ IsStack(todo, blocks)
        /\ \A a \in DOMAIN todo : blocks[todo[a].block].level =< blocks[here].level
    BY <1>1, StackIs DEF WalkInv
  <1>5. ASSUME IsModel(doc, id) PROVE v \in W /\ v.block = here
    <2> DEFINE h == Height(doc[id].value)
               H == RowHeight(doc, {0})
               P == RowHeight(doc, path)
    <2>1. doc[id].value \in Nodes /\ h \in Nat
      BY <1>3, <1>4, <1>5 DEF IsDocument
    <2>2. /\ H \in Nat /\ P \in Nat /\ RowHeight(doc, path \cup {id}) = P + h + 1
      BY <1>3, <1>4, <1>5, RowHeightIs, RootHeightIs
    <2>3. /\ top \in VisitSet(doc) /\ top.depth + Height(node) =< H + P
      BY <1>4 DEF Visits, node, path
    <2>4. top.depth \in Nat /\ Height(node) \in Nat
      <3>1. node \in Nodes
        BY <1>1, StackIs
      <3> QED BY <2>3, <3>1 DEF VisitSet
    <2> HIDE DEF h, H, P, top
    <2>5. top.depth + 1 + h =< H + RowHeight(doc, path \cup {id})
      BY <2>1, <2>2, <2>3, <2>4
    <2>6. /\ v.node = doc[id].value /\ v.path = path \cup {id} /\ v.depth = top.depth + 1
          /\ v.block = top.block /\ v \in VisitSet(doc)
      <3>1. top.path = path
        BY DEF path, top
      <3>2. path \cup {id} \in SUBSET DOMAIN doc /\ top.depth + 1 \in Nat
        BY <1>3, <1>4, <2>4
      <3>3. v = Moved(top, doc[id].value, path \cup {id}, top.depth + 1)
        BY <2>3, <3>1 DEF VisitSet, Moved
      <3> HIDE DEF v
      <3> QED BY <2>1, <2>3, <3>2, <3>3, MovedIs
    <2>7. v.depth + Height(v.node) =< RowHeight(doc, {0}) + RowHeight(doc, v.path)
      <3> HIDE DEF v
      <3> QED BY <2>5, <2>6 DEF h, H
    <2> HIDE DEF v
    <2> QED BY <2>6, <2>7 DEF Visits, here, top
  <1> HIDE DEF v
  <1>6. new \in Seq(W) /\ \A a \in DOMAIN new : new[a].block = here
    <2>1. CASE IsModel(doc, id)
      BY <1>5, <2>1
    <2>2. CASE ~IsModel(doc, id)
      BY <2>2
    <2> QED BY <2>1, <2>2
  <1> HIDE DEF new
  <1>7. new \o Tail(todo) \in Seq(W)
    <2> HIDE DEF W
    <2> QED BY <1>4, <1>6, ConcatProperties
  <1>8. IsStack(new \o Tail(todo), blocks)
    <2>1. /\ \A a \in DOMAIN todo : OnRightmost(blocks, todo[a].block)
          /\ \A a, c \in DOMAIN todo :
                a < c => blocks[todo[c].block].level =< blocks[todo[a].block].level
      BY <1>4 DEF IsStack
    <2> HIDE DEF W
    <2> QED BY <1>1, <1>4, <1>6, <2>1, StackThen
  <1> QED BY <1>1, <1>2, <1>4, <1>7, <1>8 DEF WalkInv

LEMMA ElementStep ==
    ASSUME WalkInv, EnterElement
    PROVE  WalkInv'
PROOF
  <1> DEFINE opens == node.label # NoLabel
             level == blocks[here].level
             more == Append(blocks, NewBlock(level + 1, node.label))
             content == ElementContent(doc, node, mode, path)
  <1>1. todo # <<>> /\ stage \in {"walk", "orphans"} /\ node.form = "element"
    BY DEF EnterElement, At, Walking
  <1>2. /\ UNCHANGED <<stream, doc, stage, orphans>>
        /\ blocks' = (IF opens THEN more ELSE blocks)
        /\ Then(content, IF opens THEN Len(blocks) + 1 ELSE here)
    BY DEF EnterElement
  <1>3. /\ node \in Nodes /\ mode \in Modes
        /\ IsTree(blocks) /\ IsStack(todo, blocks) /\ OnRightmost(blocks, here)
        /\ \A a \in DOMAIN todo : blocks[todo[a].block].level =< level
    BY <1>1, StackIs DEF WalkInv
  <1>4. content \in Seq(Visitable(Parts(node)))
    BY <1>1, <1>3, ElementContentIs
  <1> HIDE DEF content
  <1>5. CASE opens
    <2> DEFINE i == Len(blocks) + 1
    <2>1. /\ IsTree(more) /\ OnRightmost(more, i) /\ more[i].level = level + 1
          /\ \A a \in DOMAIN blocks : more[a] = blocks[a]
          /\ \A a : OnRightmost(blocks, a) /\ blocks[a].level =< level => OnRightmost(more, a)
      <3> DEFINE b == NewBlock(level + 1, node.label)
      <3>1. level \in Nat
        BY <1>3, TreeIs DEF OnRightmost
      <3>2. IsBlock(b) /\ b.level = blocks[here].level + 1
        BY <3>1, NewBlockIs
      <3>3. more = Append(blocks, b)
        OBVIOUS
      <3> HIDE DEF more, b, level
      <3>4. IsTree(more)
        BY <1>3, <3>2, <3>3, TreeGrows
      <3>5. \A a \in DOMAIN blocks : more[a] = blocks[a]
        BY <1>3, <3>2, <3>3, TreeGrows
      <3>6. \A a : OnRightmost(blocks, a) /\ blocks[a].level =< blocks[here].level
                   => OnRightmost(more, a)
        BY <1>3, <3>2, <3>3, TreeGrows
      <3>7. OnRightmost(more, Len(blocks) + 1)
        BY <1>3, <3>2, <3>3, TreeGrows
      <3>8. more[Len(blocks) + 1].level = blocks[here].level + 1
        BY <1>3, <3>2, <3>3, TreeGrows
      <3> QED BY <3>4, <3>5, <3>6, <3>7, <3>8 DEF level
    <2> HIDE DEF more, i
    <2>2. \A a \in DOMAIN todo : /\ OnRightmost(blocks, todo[a].block)
                                 /\ todo[a].block \in DOMAIN blocks
      BY <1>3 DEF IsStack, OnRightmost
    <2>3. /\ level \in Nat
          /\ \A a \in DOMAIN blocks : blocks[a].level \in Nat
      BY <1>3, TreeIs DEF OnRightmost
    <2>4. IsStack(todo, more)
      <3>1. \A a \in DOMAIN todo : OnRightmost(more, todo[a].block)
        BY <1>3, <2>1, <2>2
      <3>2. \A a \in DOMAIN todo : more[todo[a].block] = blocks[todo[a].block]
        BY <2>1, <2>2
      <3> QED BY <1>3, <3>1, <3>2 DEF IsStack
    <2>5. ASSUME NEW a \in DOMAIN todo PROVE more[todo[a].block].level =< more[i].level
      <3>1. /\ more[todo[a].block] = blocks[todo[a].block]
            /\ blocks[todo[a].block].level \in Nat /\ blocks[todo[a].block].level =< level
        BY <1>3, <2>1, <2>2, <2>3, <2>5
      <3> QED BY <2>1, <2>3, <3>1
    <2>6. Then(content, i)
      BY <1>2, <1>5 DEF i
    <2>7. todo' \in Seq(Visits(doc)) /\ IsStack(todo', more)
      BY <1>1, <1>4, <2>1, <2>4, <2>5, <2>6, ThenStep
    <2>8. blocks' = more
      BY <1>2, <1>5
    <2> QED BY <1>1, <1>2, <2>1, <2>7, <2>8 DEF WalkInv
  <1>6. CASE ~opens
    <2>1. Then(content, here) /\ blocks' = blocks
      BY <1>2, <1>6
    <2>2. todo' \in Seq(Visits(doc)) /\ IsStack(todo', blocks)
      BY <1>1, <1>3, <1>4, <2>1, ThenStep
    <2> QED BY <1>1, <1>2, <2>1, <2>2 DEF WalkInv
  <1> QED BY <1>5, <1>6

LEMMA WalkStep == WalkInv /\ [Next]_vars => WalkInv'
PROOF
  <1> SUFFICES ASSUME WalkInv, [Next]_vars PROVE WalkInv'
    OBVIOUS
  <1>1. CASE Read
    <2> DEFINE rows == ParseDocument(stream)
    <2>1. IsDocument(rows) /\ IsTree(blocks) /\ orphans = {}
      BY <1>1, DocumentIs DEF WalkInv, Read
    <2>2. /\ doc' = rows /\ UNCHANGED <<stream, blocks, orphans>>
          /\ stage' # "read"
          /\ todo' = IF IsModel(rows, 0) THEN <<Visit(rows[0].value, 1, {}, 0, "none")>>
                                         ELSE <<>>
      BY <1>1 DEF Read
    <2> HIDE DEF rows
    <2>3. todo' \in Seq(Visits(rows)) /\ IsStack(todo', blocks)
      <3>1. CASE IsModel(rows, 0)
        <4>1. 0 \in DOMAIN rows
          BY <3>1 DEF IsModel
        <4> QED BY <2>1, <2>2, <3>1, <4>1, FirstVisit
      <3>2. CASE ~IsModel(rows, 0)
        BY <2>2, <3>2 DEF IsStack
      <3> QED BY <3>1, <3>2
    <2> QED BY <2>1, <2>2, <2>3 DEF WalkInv
  <1>2. CASE Drop \/ Enter
    BY <1>2, PlainStep
  <1>3. CASE ReadText \/ Attach
    BY <1>3, LeafStep
  <1>4. CASE Follow
    BY <1>4, FollowStep
  <1>5. CASE EnterElement
    BY <1>5, ElementStep
  <1>6. CASE WalkOrphans
    <2>1. UNCHANGED <<stream, doc, todo, blocks>> /\ orphans' = Unreached /\ stage' = "orphans"
      BY <1>6 DEF WalkOrphans
    <2> QED BY <2>1 DEF WalkInv, Unreached
  <1>7. CASE NextOrphan
    <2>1. PICK id \in orphans :
             /\ todo' = <<Visit(doc[id].value, 1, {id}, 0, "none")>>
             /\ orphans' = orphans \ {id}
             /\ UNCHANGED <<stream, doc, stage, blocks>>
      BY <1>7 DEF NextOrphan
    <2>2. id \in DOMAIN doc /\ IsModel(doc, id) /\ IsDocument(doc) /\ IsTree(blocks)
      BY DEF WalkInv
    <2>3. todo' \in Seq(Visits(doc)) /\ IsStack(todo', blocks)
      BY <2>1, <2>2, FirstVisit
    <2> QED BY <1>7, <2>1, <2>3 DEF WalkInv, NextOrphan
  <1>8. CASE Dedupe \/ Collapse \/ Collapsed
    <2>1. UNCHANGED walkVars /\ stage' # "read"
      BY <1>8 DEF Dedupe, Collapse, Collapsed
    <2> QED BY <2>1 DEF WalkInv, walkVars
  <1>9. CASE UNCHANGED vars
    BY <1>9 DEF WalkInv, vars, walkVars
  <1> QED BY <1>1, <1>2, <1>3, <1>4, <1>5, <1>6, <1>7, <1>8, <1>9 DEF Next

\* The walk ends: no node it has still to visit is deeper than row 0 and the rows
\* it has expanded on the way to it are high, whatever refers to what
\* (BuildOutline with Deref).
THEOREM WalkEnds == Spec => []CyclesAreCut
PROOF
  <1>1. WalkInv => CyclesAreCut
    <2> SUFFICES ASSUME WalkInv, NEW k \in DOMAIN todo
                 PROVE  todo[k].depth =< HeightOf({0}) + HeightOf(todo[k].path)
      BY DEF CyclesAreCut
    <2>1. todo[k] \in Visits(doc) /\ IsDocument(doc)
      BY DEF WalkInv
    <2>2. \A rows : HeightOf(rows) = RowHeight(doc, rows)
      BY DEF HeightOf, RowHeight, Levels
    <2>3. /\ todo[k].depth \in Nat /\ todo[k].node \in Nodes
          /\ todo[k].path \in SUBSET DOMAIN doc
          /\ todo[k].depth + Height(todo[k].node) =< RowHeight(doc, {0})
                                                       + RowHeight(doc, todo[k].path)
      BY <2>1 DEF Visits, VisitSet
    <2>4. /\ RowHeight(doc, {0}) \in Nat /\ RowHeight(doc, todo[k].path) \in Nat
          /\ Height(todo[k].node) \in Nat
      BY <2>1, <2>3, RowHeightIs, RootHeightIs
    <2>5. todo[k].depth =< RowHeight(doc, {0}) + RowHeight(doc, todo[k].path)
      BY <2>3, <2>4
    <2> QED BY <2>2, <2>5
  <1> QED BY <1>1, WalkInit, WalkStep, PTL DEF Spec

-----------------------------------------------------------------------------
(* Fewer texts.                                                            *)

\* Lists of which some are left out make a shorter list, or the same.
LEMMA FlattenFewer ==
    ASSUME NEW S, NEW all \in Seq(Seq(S)), NEW some \in Seq(Seq(S)),
           Len(some) = Len(all),
           \A n \in DOMAIN all : some[n] = all[n] \/ some[n] = <<>>
    PROVE  /\ Len(FlattenSeq(some)) =< Len(FlattenSeq(all))
           /\ Len(FlattenSeq(some)) = Len(FlattenSeq(all)) =>
                 FlattenSeq(some) = FlattenSeq(all)
PROOF
  <1> DEFINE m == Len(all)
  <1>1. m \in Nat /\ DOMAIN all = 1 .. m /\ \A n \in 1 .. m : all[n] \in Seq(S)
    OBVIOUS
  <1>2. PICK f : SoFar(S, all, f)
    BY FlattenRuns
  <1>3. PICK g : SoFar(S, some, g)
    BY FlattenRuns
  <1> DEFINE Fewer(n) == /\ Len(g[n]) =< Len(f[n])
                         /\ Len(g[n]) = Len(f[n]) => g[n] = f[n]
             T == {n \in 0 .. m : Fewer(n)}
  <1>4. /\ \A n \in 0 .. m : f[n] \in Seq(S) /\ g[n] \in Seq(S)
        /\ f[0] = <<>> /\ g[0] = <<>>
        /\ f[m] = FlattenSeq(all) /\ g[m] = FlattenSeq(some)
    BY <1>2, <1>3 DEF SoFar
  <1>5. \A k \in 0 .. m, n \in 1 .. m :
           n = k + 1 => f[n] = f[k] \o all[n] /\ g[n] = g[k] \o some[n]
    BY <1>2, <1>3 DEF SoFar
  <1>6. 0 \in T
    BY <1>1, <1>4
  <1>7. ASSUME NEW n \in 0 .. m, n < m, n \in T PROVE n + 1 \in T
    <2> DEFINE k == n + 1
               a == f[n]
               b == g[n]
               x == all[k]
    <2>1. k \in 1 .. m /\ k \in 0 .. m
      BY <1>1, <1>7
    <2>2. /\ f[k] = a \o x /\ g[k] = b \o some[k] /\ (some[k] = x \/ some[k] = <<>>)
          /\ a \in Seq(S) /\ b \in Seq(S) /\ x \in Seq(S)
          /\ Len(b) =< Len(a) /\ (Len(b) = Len(a) => b = a)
      BY <1>1, <1>4, <1>5, <1>7, <2>1
    <2> HIDE DEF k, a, b, x
    <2>3. /\ Len(a) \in Nat /\ Len(b) \in Nat /\ Len(x) \in Nat
          /\ Len(a \o x) = Len(a) + Len(x) /\ Len(b \o x) = Len(b) + Len(x)
          /\ b \o <<>> = b /\ (Len(x) = 0 => a \o x = a)
      <3>1. \A s, t \in Seq(S) : /\ Len(s) \in Nat /\ Len(s \o t) = Len(s) + Len(t)
                                 /\ s \o <<>> = s /\ (Len(s) = 0 => s = <<>>)
        OBVIOUS
      <3> QED BY <2>2, <3>1
    <2>4. Fewer(k)
      <3>1. CASE some[k] = x
        <4>1. /\ f[k] = a \o x /\ g[k] = b \o x
              /\ Len(f[k]) = Len(a) + Len(x) /\ Len(g[k]) = Len(b) + Len(x)
          BY <2>2, <2>3, <3>1
        <4>2. Len(g[k]) =< Len(f[k])
          BY <2>2, <2>3, <4>1
        <4>3. ASSUME Len(g[k]) = Len(f[k]) PROVE g[k] = f[k]
          <5>1. b = a
            BY <2>2, <2>3, <4>1, <4>3
          <5> QED BY <4>1, <5>1
        <4> QED BY <4>2, <4>3
      <3>2. CASE some[k] = <<>>
        <4>1. g[k] = b /\ Len(f[k]) = Len(a) + Len(x)
          BY <2>2, <2>3, <3>2
        <4>2. Len(g[k]) =< Len(f[k])
          BY <2>2, <2>3, <4>1
        <4>3. ASSUME Len(g[k]) = Len(f[k]) PROVE g[k] = f[k]
          <5>1. Len(x) = 0 /\ Len(b) = Len(a)
            BY <2>2, <2>3, <4>1, <4>3
          <5> QED BY <2>2, <2>3, <4>1, <5>1
        <4> QED BY <4>2, <4>3
      <3> QED BY <2>2, <3>1, <3>2
    <2> HIDE DEF Fewer
    <2> QED BY <2>1, <2>4 DEF k
  <1>8. 0 .. m \subseteq T
    <2> HIDE DEF T, m
    <2> QED BY <1>1, <1>6, <1>7, BoundedInduction
  <1>9. Fewer(m)
    <2>1. m \in 0 .. m
      BY <1>1
    <2> HIDE DEF Fewer
    <2> QED BY <1>8, <2>1
  <1> QED BY <1>4, <1>9

LEMMA FewerTexts ==
    ASSUME NEW o, IsOutline(o), NEW all, NEW some, some \subseteq all
    PROVE  /\ Len(TextsOf(o, some)) =< Len(TextsOf(o, all))
           /\ Len(TextsOf(o, some)) = Len(TextsOf(o, all)) => TextsOf(o, some) = TextsOf(o, all)
PROOF
  <1> DEFINE L == OutlineLines(o)
             a == [j \in DOMAIN o |-> IF j \in all THEN o[j].texts ELSE <<>>]
             s == [j \in DOMAIN o |-> IF j \in some THEN o[j].texts ELSE <<>>]
  <1>1. /\ Len(o) \in Nat /\ DOMAIN o = 1 .. Len(o)
        /\ \A i \in DOMAIN o : o[i].texts \in Seq(L)
    BY OutlineIs
  <1>2. <<>> \in Seq(L)
    OBVIOUS
  <1> HIDE DEF L
  <1>3. \A j \in DOMAIN o : a[j] \in Seq(L) /\ s[j] \in Seq(L)
    BY <1>1, <1>2
  <1>4. a \in Seq(Seq(L)) /\ s \in Seq(Seq(L)) /\ Len(a) = Len(s) /\ DOMAIN a = DOMAIN o
    BY <1>1, <1>3
  <1>5. \A j \in DOMAIN a : s[j] = a[j] \/ s[j] = <<>>
    OBVIOUS
  <1>6. TextsOf(o, all) = FlattenSeq(a) /\ TextsOf(o, some) = FlattenSeq(s)
    BY DEF TextsOf
  <1> HIDE DEF a, s
  <1> QED BY <1>4, <1>5, <1>6, FlattenFewer

\* Whatever lies inside a block is, or lies inside, one of its children.
LEMMA ChildTowards ==
    ASSUME NEW o, IsOutline(o), NEW k \in DOMAIN o, NEW j \in Subtree(o, k), j # k
    PROVE  \E c \in ChildSet(o, k) : c \in Subtree(o, k) \ {k} /\ j \in Subtree(o, c)
PROOF
  <1> DEFINE around == {i \in Subtree(o, k) \ {k} : j \in Subtree(o, i)}
  <1>1. Len(o) \in Nat /\ DOMAIN o = 1 .. Len(o)
    BY OutlineIs
  <1>2. \A i \in Subtree(o, k) : i \in DOMAIN o /\ i \in Nat
    BY <1>1, InSubtree
  <1>3. j \in Subtree(o, j)
    <2>1. j \in DOMAIN o /\ j \in Nat
      BY <1>2
    <2>2. j =< j /\ \A i \in DOMAIN o : j < i /\ i =< j => o[i].level > o[j].level
      BY <1>1, <2>1
    <2> QED BY <2>1, <2>2, InSubtree
  <1>4. around \subseteq Nat /\ around # {}
    BY <1>2, <1>3
  <1>5. PICK i \in around : \A h \in around : i =< h
    <2> HIDE DEF around
    <2> QED BY <1>4, LeastNatural
  <1>6. PICK p \in Subtree(o, k) : /\ p < i /\ i \in ChildSet(o, p)
                                   /\ Subtree(o, i) \subseteq Subtree(o, p)
    BY <1>5, ParentIs
  <1>7. p = k
    <2> SUFFICES ASSUME p # k PROVE FALSE
      OBVIOUS
    <2>1. p \in around
      BY <1>5, <1>6
    <2>2. i =< p /\ i \in Nat /\ p \in Nat
      BY <1>4, <1>5, <2>1
    <2> QED BY <1>6, <2>2
  <1> QED BY <1>5, <1>6, <1>7

-----------------------------------------------------------------------------
(* The clean-ups.                                                          *)

\* What collapse has kept: the root and children of what it has kept, no two of
\* them alike, all of them met, and the children of each looked at but for those
\* that are pending.
KeptInv ==
    /\ IsTree(outline) /\ DOMAIN outline = DOMAIN blocks
    /\ \A i \in DOMAIN blocks : ToSet(outline[i].texts) = ToSet(blocks[i].texts)
    /\ kept \subseteq DOMAIN outline /\ 1 \in kept
    /\ \A i \in kept \ {1} : \E p \in kept : i \in ChildSet(outline, p)
    /\ pending \in Seq(kept)
    /\ seen = {Signature(i) : i \in kept \ {1}}
    /\ \A i, j \in kept \ {1} : i # j => Signature(i) # Signature(j)
    /\ \A p \in kept : \/ p \in Members(pending)
                       \/ \A c \in ChildSet(outline, p) : Signature(c) \in seen

CollapseInv ==
    /\ stage \notin {"collapse", "done"} => seen = {}
    /\ stage \in {"collapse", "done"} => KeptInv
    /\ stage = "done" => pending = <<>>

LEMMA DedupeStep ==
    ASSUME WalkInv, CollapseInv, Dedupe
    PROVE  CollapseInv'
PROOF
  <1> DEFINE clean(b) == [b EXCEPT !.texts = FirstOfEach(@), !.headings = FirstOfEach(@),
                                   !.images = FirstOfEach(@), !.links = FirstOfEach(@)]
  <1>1. /\ outline' = [i \in DOMAIN blocks |-> clean(blocks[i])]
        /\ kept' = {1} /\ pending' = <<1>> /\ seen' = {} /\ blocks' = blocks
        /\ stage' = "collapse"
    BY DEF Dedupe, walkVars, CollapseInv
  <1>2. /\ IsTree(blocks) /\ Len(blocks) \in Nat \ {0} /\ DOMAIN blocks = 1 .. Len(blocks)
    BY TreeIs DEF WalkInv
  <1>3. ASSUME NEW b, IsBlock(b)
        PROVE  /\ IsBlock(clean(b)) /\ clean(b).level = b.level
               /\ ToSet(clean(b).texts) = ToSet(b.texts)
    <2> DEFINE t == FirstOfEach(b.texts)
    <2>1. t \in Seq(Members(b.texts)) /\ Members(t) = Members(b.texts)
      BY <1>3, FirstOfEachIs DEF IsBlock, IsList
    <2> DEFINE h == FirstOfEach(b.headings)
               i == FirstOfEach(b.images)
               l == FirstOfEach(b.links)
               b1 == [b EXCEPT !.texts = t]
               b2 == [b1 EXCEPT !.headings = h]
               b3 == [b2 EXCEPT !.images = i]
               b4 == [b3 EXCEPT !.links = l]
    <2>2. clean(b) = b4
      BY <1>3 DEF IsBlock
    <2>3. IsList(t)
      BY <2>1 DEF IsList
    <2> HIDE DEF t, h, i, l, clean
    <2>4. IsBlock(b1) /\ b1.level = b.level /\ b1.texts = t
      BY <1>3, <2>3 DEF IsBlock
    <2> HIDE DEF b1
    <2>5. IsBlock(b2) /\ b2.level = b.level /\ b2.texts = t
      BY <2>4 DEF IsBlock
    <2> HIDE DEF b2
    <2>6. IsBlock(b3) /\ b3.level = b.level /\ b3.texts = t
      BY <2>5 DEF IsBlock
    <2> HIDE DEF b3
    <2>7. IsBlock(b4) /\ b4.level = b.level /\ b4.texts = t
      BY <2>6 DEF IsBlock
    <2> HIDE DEF b4
    <2> QED BY <2>1, <2>2, <2>7, ToSetIs
  <1> HIDE DEF clean
  <1>4. \A i \in DOMAIN blocks : IsBlock(blocks[i])
    BY <1>2 DEF IsTree
  <1>5. /\ DOMAIN outline' = DOMAIN blocks
        /\ \A i \in DOMAIN blocks :
              /\ IsBlock(outline'[i]) /\ outline'[i].level = blocks[i].level
              /\ ToSet(outline'[i].texts) = ToSet(blocks[i].texts)
    BY <1>1, <1>3, <1>4
  <1>6. IsTree(outline')
    <2>1. outline' = [i \in 1 .. Len(blocks) |-> outline'[i]]
      BY <1>1, <1>2
    <2>2. IsList(outline') /\ outline' # <<>>
      <3>1. IsList(outline')
        BY <1>2, <2>1, ListIs
      <3>2. 1 \in DOMAIN outline'
        BY <1>2, <1>5
      <3> QED BY <3>1, <3>2
    <2>3. \A i \in DOMAIN outline' : IsBlock(outline'[i]) /\ (outline'[i].level = 0 <=> i = 1)
      BY <1>2, <1>5 DEF IsTree
    <2>4. ASSUME NEW i \in DOMAIN outline', i > 1
          PROVE  outline'[i].level =< outline'[i - 1].level + 1
      <3>1. i \in DOMAIN blocks /\ i - 1 \in DOMAIN blocks
        BY <1>2, <1>5, <2>4
      <3>2. blocks[i].level =< blocks[i - 1].level + 1
        BY <1>2, <2>4, <3>1 DEF IsTree
      <3> QED BY <1>5, <3>1, <3>2
    <2> QED BY <2>2, <2>3, <2>4 DEF IsTree
  <1>7. /\ pending' \in Seq({1}) /\ 1 \in Members(<<1>>) /\ 1 \in DOMAIN blocks
    BY <1>1, <1>2 DEF Members
  <1>8. KeptInv'
    BY <1>1, <1>5, <1>6, <1>7 DEF KeptInv
  <1> QED BY <1>1, <1>8 DEF CollapseInv

\* The children that are kept are new and each other's first.
LEMMA NewChildrenAre ==
    ASSUME IsOutline(outline), NEW p \in DOMAIN outline, Head(pending) = p, NEW met
    PROVE  LET new == NewChildren(met)
           IN  /\ new \in Seq(ChildSet(outline, p))
               /\ \A c \in ToSet(new) : Signature(c) \notin met
               /\ \A b, c \in ToSet(new) : b # c => Signature(b) # Signature(c)
               /\ \A c \in ChildSet(outline, p) :
                     Signature(c) \in met \cup {Signature(b) : b \in ToSet(new)}
PROOF
  <1> DEFINE C == ChildSet(outline, p)
             children == Children(outline, p)
             sigs == [k \in DOMAIN children |-> Signature(children[k])]
             at == {k \in DOMAIN children : /\ sigs[k] \notin met
                                            /\ \A a \in 1 .. (k - 1) : sigs[a] # sigs[k]}
             new == NewChildren(met)
             ids == [j \in DOMAIN outline |-> j]
  <1>1. /\ children \in Seq(C) /\ Members(children) = C
    <2>1. Len(outline) \in Nat /\ DOMAIN outline = 1 .. Len(outline)
      BY OutlineIs
    <2>2. ids \in Seq(Nat) /\ Members(ids) = DOMAIN outline
      BY <2>1 DEF Members
    <2>3. children = Only(ids, C)
      BY DEF Children
    <2>4. \A c \in C : c \in DOMAIN outline
      BY InSubtree DEF ChildSet
    <2> HIDE DEF ids, children, C
    <2>5. children \in Seq(Nat) /\ Members(children) = Members(ids) \cap C
      BY <2>2, <2>3, OnlyMembers
    <2>6. Members(children) = C
      BY <2>2, <2>4, <2>5
    <2>7. children \in Seq(Members(children))
      BY <2>5, SeqIsList DEF IsList
    <2> QED BY <2>6, <2>7
  <1>2. new = KeepAt(children, at)
    BY DEF NewChildren
  <1>3. Len(children) \in Nat /\ DOMAIN children = 1 .. Len(children) /\ at \subseteq DOMAIN children
    BY <1>1
  <1>4. \A k \in DOMAIN children : sigs[k] = Signature(children[k])
    OBVIOUS
  <1>5. \A k : k \in at <=> /\ k \in DOMAIN children /\ sigs[k] \notin met
                            /\ \A a \in 1 .. (k - 1) : sigs[a] # sigs[k]
    OBVIOUS
  <1> HIDE DEF new, at, sigs, children, C
  <1>6. new \in Seq(C) /\ Members(new) = {children[k] : k \in at}
    BY <1>1, <1>2, <1>3, KeepAtMembers
  <1>7. ToSet(new) = {children[k] : k \in at}
    BY <1>6, ToSetIs
  <1>8. \A c \in ToSet(new) : Signature(c) \notin met
    BY <1>3, <1>4, <1>5, <1>7
  <1>9. ASSUME NEW b \in ToSet(new), NEW c \in ToSet(new), b # c
        PROVE  Signature(b) # Signature(c)
    <2>1. PICK i \in at : b = children[i]
      BY <1>7
    <2>2. PICK j \in at : c = children[j]
      BY <1>7
    <2>3. i # j /\ i \in 1 .. Len(children) /\ j \in 1 .. Len(children)
      BY <1>3, <1>9, <2>1, <2>2
    <2>4. i \in 1 .. (j - 1) \/ j \in 1 .. (i - 1)
      BY <1>3, <2>3
    <2>5. sigs[i] # sigs[j]
      BY <1>5, <2>4
    <2> QED BY <1>3, <1>4, <2>1, <2>2, <2>3, <2>5
  <1>10. ASSUME NEW c \in C, Signature(c) \notin met
         PROVE  \E b \in ToSet(new) : Signature(b) = Signature(c)
    <2>1. PICK k \in DOMAIN children : children[k] = c
      BY <1>1 DEF Members
    <2> DEFINE same == {a \in DOMAIN children : sigs[a] = sigs[k]}
    <2>2. same \subseteq Nat /\ same # {}
      BY <1>3
    <2>3. PICK a \in same : \A b \in same : a =< b
      <3> HIDE DEF same
      <3> QED BY <2>2, LeastNatural
    <2>4. \A b \in 1 .. (a - 1) : sigs[b] # sigs[a]
      <3> SUFFICES ASSUME NEW b \in 1 .. (a - 1), sigs[b] = sigs[a] PROVE FALSE
        OBVIOUS
      <3>1. b \in DOMAIN children /\ b < a /\ b \in Nat /\ a \in Nat
        BY <1>3, <2>3
      <3>2. b \in same
        BY <2>3, <3>1
      <3>3. a =< b
        BY <2>3, <3>2
      <3> QED BY <3>1, <3>3
    <2>5. /\ a \in DOMAIN children /\ sigs[a] = sigs[k]
          /\ Signature(children[a]) = Signature(c)
      BY <1>4, <2>1, <2>3
    <2>6. a \in at
      BY <1>4, <1>5, <1>10, <2>1, <2>4, <2>5
    <2> QED BY <1>7, <2>5, <2>6
  <1>11. \A c \in C : Signature(c) \in met \cup {Signature(b) : b \in ToSet(new)}
    BY <1>10
  <1> QED BY <1>6, <1>8, <1>9, <1>11 DEF new, C

LEMMA CollapseStep ==
    ASSUME KeptInv, Collapse
    PROVE  KeptInv'
PROOF
  <1> DEFINE p == Head(pending)
             new == NewChildren(seen)
             C == ChildSet(outline, p)
  <1>1. /\ pending # <<>> /\ UNCHANGED <<outline, blocks>>
        /\ seen' = seen \cup {Signature(c) : c \in ToSet(new)}
        /\ kept' = kept \cup ToSet(new) /\ pending' = new \o Tail(pending)
    BY DEF Collapse, Keep, walkVars
  <1>2. /\ IsTree(outline) /\ IsOutline(outline) /\ kept \subseteq DOMAIN outline
        /\ pending \in Seq(kept)
    BY TreeIs DEF KeptInv
  <1>3. /\ p \in kept /\ Tail(pending) \in Seq(kept)
        /\ Members(pending) = {p} \cup Members(Tail(pending))
    BY <1>1, <1>2, TailMembers
  <1>4. /\ new \in Seq(C)
        /\ \A c \in ToSet(new) : Signature(c) \notin seen
        /\ \A b, c \in ToSet(new) : b # c => Signature(b) # Signature(c)
        /\ \A c \in C : Signature(c) \in seen \cup {Signature(b) : b \in ToSet(new)}
    <2>1. p \in DOMAIN outline /\ Head(pending) = p
      BY <1>2, <1>3
    <2> HIDE DEF p
    <2> QED BY <1>2, <2>1, NewChildrenAre
  <1>5. \A c \in C : c \in DOMAIN outline /\ c # 1
    <2>1. /\ \A i \in DOMAIN outline : outline[i].level \in Nat
          /\ 1 \in DOMAIN outline /\ outline[1].level = 0
      BY <1>2, TreeIs DEF IsTree
    <2>2. \A c \in Subtree(outline, p) : c \in DOMAIN outline
      BY <1>2, <1>3, InSubtree
    <2>3. \A c \in C : outline[c].level = outline[p].level + 1
      BY DEF ChildSet
    <2>4. \A c \in C : outline[c].level # 0
      BY <1>2, <1>3, <2>1, <2>3
    <2> QED BY <2>1, <2>2, <2>4 DEF ChildSet
  <1>6. \A i : Signature(i)' = Signature(i)
    BY <1>1 DEF Signature
  <1> HIDE DEF p, new, C
  <1>7. ToSet(new) = Members(new) /\ ToSet(new) \subseteq C
    <2>1. new \in Seq(C)
      BY <1>4
    <2> QED BY <2>1, ToSetIs DEF Members
  <1>8. /\ kept' \subseteq DOMAIN outline /\ 1 \in kept' /\ 1 \notin ToSet(new)
    BY <1>1, <1>5, <1>7 DEF KeptInv
  <1>9. pending' \in Seq(kept') /\ Members(pending') = ToSet(new) \cup Members(Tail(pending))
    <2> DEFINE K == kept'
               t == Tail(pending)
    <2>1. \A S, T : S \subseteq T => Seq(S) \subseteq Seq(T)
      OBVIOUS
    <2>2. kept \subseteq K /\ ToSet(new) \subseteq K
      BY <1>1
    <2>3. new \in Seq(ToSet(new))
      BY <1>4, <1>7, SeqIsList DEF IsList
    <2>4. new \in Seq(K) /\ t \in Seq(K)
      BY <1>3, <2>1, <2>2, <2>3
    <2>5. pending' = new \o t
      BY <1>1
    <2> HIDE DEF K, t
    <2>6. new \o t \in Seq(K) /\ Members(new \o t) = Members(new) \cup Members(t)
      BY <2>4, ConcatMembers
    <2> QED BY <1>7, <2>5, <2>6 DEF K, t
  <1>10. seen' = {Signature(i) : i \in kept' \ {1}}
    <2>1. seen = {Signature(i) : i \in kept \ {1}}
      BY DEF KeptInv
    <2>2. kept' \ {1} = (kept \ {1}) \cup ToSet(new)
      BY <1>1, <1>8
    <2> QED BY <1>1, <2>1, <2>2
  <1>11. ASSUME NEW i \in kept' \ {1}, NEW j \in kept' \ {1}, i # j
         PROVE  Signature(i) # Signature(j)
    <2>1. \A a \in kept \ {1} : Signature(a) \in seen
      BY DEF KeptInv
    <2>2. \A a, b \in kept \ {1} : a # b => Signature(a) # Signature(b)
      BY DEF KeptInv
    <2>3. i \in kept \ {1} \/ i \in ToSet(new)
      BY <1>1
    <2>4. j \in kept \ {1} \/ j \in ToSet(new)
      BY <1>1
    <2> QED BY <1>4, <1>11, <2>1, <2>2, <2>3, <2>4
  <1>12. ASSUME NEW q \in kept', q \notin Members(pending'), NEW c \in ChildSet(outline, q)
         PROVE  Signature(c) \in seen'
    <2>1. CASE q = p
      BY <1>1, <1>4, <1>12, <2>1 DEF C
    <2>2. CASE q # p
      <3>1. q \in kept /\ q \notin Members(pending)
        BY <1>1, <1>3, <1>9, <1>12, <2>2
      <3>2. Signature(c) \in seen
        BY <1>12, <3>1 DEF KeptInv
      <3> QED BY <1>1, <3>2
    <2> QED BY <2>1, <2>2
  <1>13. /\ IsTree(outline') /\ DOMAIN outline' = DOMAIN blocks'
         /\ \A i \in DOMAIN blocks' : ToSet(outline'[i].texts) = ToSet(blocks'[i].texts)
    BY <1>1 DEF KeptInv
  <1>14. \A i \in kept' \ {1} : \E q \in kept' : i \in ChildSet(outline', q)
    <2>1. \A i \in ToSet(new) : p \in kept' /\ i \in ChildSet(outline', p)
      BY <1>1, <1>3, <1>7 DEF C
    <2>2. \A i \in kept \ {1} : \E q \in kept' : i \in ChildSet(outline', q)
      BY <1>1 DEF KeptInv
    <2> QED BY <1>1, <2>1, <2>2
  <1>15. \A i, j \in kept' \ {1} : i # j => Signature(i)' # Signature(j)'
    BY <1>6, <1>11
  <1>16. seen' = {Signature(i)' : i \in kept' \ {1}}
    BY <1>6, <1>10
  <1>17. \A q \in kept' : \/ q \in Members(pending')
                          \/ \A c \in ChildSet(outline', q) : Signature(c)' \in seen'
    BY <1>1, <1>6, <1>12
  <1> QED BY <1>1, <1>8, <1>9, <1>13, <1>14, <1>15, <1>16, <1>17 DEF KeptInv

LEMMA CleanUpStep == WalkInv /\ CollapseInv /\ [Next]_vars => CollapseInv'
PROOF
  <1> SUFFICES ASSUME WalkInv, CollapseInv, [Next]_vars PROVE CollapseInv'
    OBVIOUS
  <1>1. CASE Read \/ Drop \/ ReadText \/ Follow \/ Enter \/ EnterElement \/ Attach
             \/ WalkOrphans \/ NextOrphan
    <2>1. stage \notin {"collapse", "done"}
      BY <1>1 DEF Read, Drop, ReadText, Follow, Enter, EnterElement, Attach, WalkOrphans,
                  NextOrphan, At, Walking
    <2>2. stage' \notin {"collapse", "done"} /\ seen' = seen
      BY <1>1, <2>1 DEF Read, Drop, ReadText, Follow, Enter, EnterElement, Attach,
                        WalkOrphans, NextOrphan, treeVars
    <2> QED BY <2>1, <2>2 DEF CollapseInv
  <1>2. CASE Dedupe
    BY <1>2, DedupeStep
  <1>3. CASE Collapse
    <2>1. stage = "collapse" /\ stage' = "collapse"
      BY <1>3 DEF Collapse
    <2>2. KeptInv'
      BY <1>3, <2>1, CollapseStep DEF CollapseInv
    <2> QED BY <2>1, <2>2 DEF CollapseInv
  <1>4. CASE Collapsed
    <2>1. /\ stage = "collapse" /\ stage' = "done" /\ pending = <<>>
          /\ UNCHANGED <<blocks, outline, kept, pending, seen>>
      BY <1>4 DEF Collapsed, walkVars, treeVars
    <2>2. KeptInv'
      BY <2>1 DEF CollapseInv, KeptInv, Signature
    <2> QED BY <2>1, <2>2 DEF CollapseInv
  <1>5. CASE UNCHANGED vars
    <2>1. UNCHANGED <<stage, blocks, outline, kept, pending, seen>>
      BY <1>5 DEF vars, walkVars, treeVars
    <2>2. KeptInv => KeptInv'
      BY <2>1 DEF KeptInv, Signature
    <2> QED BY <2>1, <2>2 DEF CollapseInv
  <1> QED BY <1>1, <1>2, <1>3, <1>4, <1>5 DEF Next

LEMMA OutlineInvariant == Spec => [](WalkInv /\ CollapseInv)
PROOF
  <1>1. Init => CollapseInv
    BY DEF Init, CollapseInv
  <1> QED BY <1>1, WalkInit, WalkStep, CleanUpStep, PTL DEF Spec

\* No two blocks that collapse leaves render the same, however far apart they
\* stand (collapse).
THEOREM NoCopyIsLeft == Spec => []CopiesAreDropped
PROOF
  <1>1. CollapseInv => CopiesAreDropped
    BY DEF CollapseInv, KeptInv, CopiesAreDropped
  <1> QED BY <1>1, OutlineInvariant, PTL

\* The clean-ups lose no text of an outline without bare wrappers.  A text of a
\* block that is kept is its own or inside a child of it, of which a copy is kept
\* that renders less than the block: among the blocks that are kept, the one that
\* renders least of those with a text that is lost would have a child with that
\* text, hence a copy that renders still less (dedupe and collapse).
THEOREM NoTextIsLost == Spec => []NothingIsLost
PROOF
  <1>1. CollapseInv => NothingIsLost
    <2> SUFFICES ASSUME CollapseInv, stage = "done", NoBareWrapper
                 PROVE  TextsInBlocks(blocks, DOMAIN blocks)
                           \subseteq TextsInBlocks(outline, kept)
      BY DEF NothingIsLost
    <2> DEFINE found == TextsInBlocks(outline, kept)
               Texts(i) == Members(AllTexts(outline, i))
               losing == {k \in kept : ~ (Texts(k) \subseteq found)}
               sizes == {Len(AllTexts(outline, k)) : k \in losing}
    <2>1. KeptInv /\ pending = <<>> /\ IsTree(outline) /\ kept \subseteq DOMAIN outline
      BY DEF CollapseInv, KeptInv
    <2>2. /\ IsOutline(outline) /\ Subtree(outline, 1) = DOMAIN outline
      BY <2>1, TreeIs
    <2>3. ASSUME NEW i
          PROVE  /\ Len(AllTexts(outline, i)) \in Nat
                 /\ Texts(i) = UNION {Members(outline[j].texts) :
                                         j \in Subtree(outline, i) \cap DOMAIN outline}
      <3>1. /\ AllTexts(outline, i) \in Seq(OutlineLines(outline))
            /\ Texts(i) = UNION {Members(outline[j].texts) :
                                    j \in Subtree(outline, i) \cap DOMAIN outline}
        BY <2>2, TextsAre DEF AllTexts
      <3> HIDE DEF Texts
      <3> QED BY <3>1
    <2>4. found = UNION {Members(outline[k].texts) : k \in kept}
      BY ToSetIs DEF TextsInBlocks
    <2> HIDE DEF found, Texts
    <2>5. losing = {}
      <3> SUFFICES ASSUME losing # {} PROVE FALSE
        OBVIOUS
      <3>1. sizes \subseteq Nat /\ sizes # {}
        BY <2>3
      <3>2. PICK n \in sizes : \A m \in sizes : n =< m
        <4> HIDE DEF sizes
        <4> QED BY <3>1, LeastNatural
      <3>3. PICK k \in losing : n = Len(AllTexts(outline, k))
        BY <3>2
      <3>4. \A h \in losing : Len(AllTexts(outline, k)) =< Len(AllTexts(outline, h))
        BY <3>2, <3>3
      <3>5. PICK x \in Texts(k) : x \notin found
        OBVIOUS
      <3>6. k \in kept /\ k \in DOMAIN outline
        BY <2>1
      <3>7. PICK j \in Subtree(outline, k) \cap DOMAIN outline : x \in Members(outline[j].texts)
        BY <2>3, <3>5
      <3>8. j # k
        BY <2>4, <3>5, <3>6, <3>7
      <3>9. PICK c \in ChildSet(outline, k) :
               c \in Subtree(outline, k) \ {k} /\ j \in Subtree(outline, c)
        BY <2>2, <3>6, <3>7, <3>8, ChildTowards
      <3>10. PICK copy \in kept \ {1} : Signature(copy) = Signature(c)
        <4>1. Signature(c) \in seen
          <5>1. k \notin Members(pending)
            BY <2>1 DEF Members
          <5> QED BY <2>1, <3>6, <3>9, <5>1 DEF KeptInv
        <4> QED BY <2>1, <4>1 DEF KeptInv
      <3>11. AllTexts(outline, copy) = AllTexts(outline, c)
        BY <3>10 DEF Signature
      <3>12. x \in Texts(c) /\ x \in Texts(copy)
        BY <2>3, <3>7, <3>9, <3>11 DEF Texts
      <3>13. copy \in losing
        BY <3>5, <3>10, <3>12
      <3>14. Len(AllTexts(outline, k)) =< Len(AllTexts(outline, c))
        BY <3>4, <3>11, <3>13
      <3>15. Subtree(outline, c) \subseteq Subtree(outline, k)
        BY <2>2, <3>6, <3>9, SubtreeNests
      <3>16. AllTexts(outline, c) = AllTexts(outline, k)
        <4>1. /\ Len(AllTexts(outline, c)) =< Len(AllTexts(outline, k))
              /\ Len(AllTexts(outline, c)) = Len(AllTexts(outline, k)) =>
                    AllTexts(outline, c) = AllTexts(outline, k)
          BY <2>2, <3>15, FewerTexts DEF AllTexts
        <4>2. Len(AllTexts(outline, c)) \in Nat /\ Len(AllTexts(outline, k)) \in Nat
          BY <2>3
        <4> QED BY <3>14, <4>1, <4>2
      <3>17. AllTexts(outline, k) = <<>>
        BY <3>6, <3>9, <3>16 DEF NoBareWrapper
      <3> QED BY <3>5, <3>17 DEF Texts, Members
    <2>6. 1 \in kept /\ Texts(1) \subseteq found
      BY <2>1, <2>5 DEF KeptInv
    <2>7. TextsInBlocks(blocks, DOMAIN blocks) \subseteq Texts(1)
      <3>1. Texts(1) = UNION {Members(outline[j].texts) : j \in DOMAIN outline}
        BY <2>2, <2>3
      <3>2. \A j \in DOMAIN blocks : /\ j \in DOMAIN outline
                                     /\ ToSet(blocks[j].texts) = Members(outline[j].texts)
        BY <2>1, ToSetIs DEF KeptInv
      <3> QED BY <3>1, <3>2 DEF TextsInBlocks
    <2> QED BY <2>6, <2>7 DEF found
  <1> QED BY <1>1, OutlineInvariant, PTL

-----------------------------------------------------------------------------
(* The shape of the tree.                                                  *)

\* The element opens a block.
Opens == EnterElement /\ node.label # NoLabel

\* The block an element opens is right inside the block that the element stands
\* in, although the tree is only a list of blocks with their levels and whatever
\* was visited in between (descend).
THEOREM BlocksOpenInside ==
    Spec => [][Opens => Len(blocks') \in ChildSet(blocks', here)]_vars
PROOF
  <1>1. ASSUME WalkInv, Opens PROVE Len(blocks') \in ChildSet(blocks', here)
    <2> DEFINE level == blocks[here].level
               b == NewBlock(level + 1, node.label)
    <2>1. todo # <<>> /\ blocks' = Append(blocks, b)
      BY <1>1 DEF Opens, EnterElement, At, Walking
    <2>2. IsTree(blocks) /\ OnRightmost(blocks, here)
      BY <1>1, <2>1, StackIs DEF WalkInv
    <2>3. level \in Nat
      BY <2>2, TreeIs DEF OnRightmost
    <2>4. IsBlock(b) /\ b.level = blocks[here].level + 1
      BY <2>3, NewBlockIs
    <2> HIDE DEF b
    <2>5. Len(blocks) + 1 \in ChildSet(blocks', here)
      BY <2>1, <2>2, <2>4, TreeGrows
    <2>6. Len(blocks') = Len(blocks) + 1
      BY <2>1, <2>2 DEF IsTree, IsList
    <2> QED BY <2>5, <2>6
  <1>2. WalkInv /\ [Next]_vars => [Opens => Len(blocks') \in ChildSet(blocks', here)]_vars
    BY <1>1
  <1> QED BY <1>2, WalkInit, WalkStep, PTL DEF Spec

\* A part of an outline that has with each block the block it is inside of is an
\* outline.
LEMMA KeepAtOutline ==
    ASSUME NEW o, IsOutline(o), NEW keep \in SUBSET DOMAIN o, 1 \in keep,
           \A i \in keep \ {1} : \E p \in keep : i \in ChildSet(o, p)
    PROVE  IsOutline(KeepAt(o, keep))
PROOF
  <1> DEFINE m == Len(o)
             S == Members(o)
             V(i) == o[i].level
             parts == [n \in DOMAIN o |-> IF n \in keep THEN <<o[n]>> ELSE <<>>]
             Upto(n) == {k \in keep : k =< n}
  <1>1. /\ m \in Nat /\ DOMAIN o = 1 .. m /\ o \in Seq(S)
        /\ \A i \in DOMAIN o : V(i) \in Nat /\ o[i].texts \in Seq(ToSet(o[i].texts))
        /\ V(1) = 0
    <2>1. /\ m \in Nat /\ DOMAIN o = 1 .. m /\ \A i \in DOMAIN o : V(i) \in Nat
      BY OutlineIs
    <2>2. o[1].level \in 0 .. 0 /\ o \in Seq(S)
      BY ToSetIs DEF IsOutline
    <2> QED BY <2>1, <2>2 DEF IsOutline
  <1> HIDE DEF S
  <1>2. parts \in Seq(Seq(S)) /\ Len(parts) = m
    <2>1. \A x \in S : <<x>> \in Seq(S)
      OBVIOUS
    <2>2. <<>> \in Seq(S)
      OBVIOUS
    <2>3. \A n \in 1 .. m : parts[n] \in Seq(S)
      BY <1>1, <2>1, <2>2
    <2> QED BY <1>1, <2>3
  <1>3. \A n \in 1 .. m : parts[n] = IF n \in keep THEN <<o[n]>> ELSE <<>>
    BY <1>1
  <1>4. KeepAt(o, keep) = FlattenSeq(parts)
    BY DEF KeepAt
  <1> HIDE DEF parts, m
  <1>5. PICK f : SoFar(S, parts, f)
    BY <1>2, FlattenRuns
  <1>6. /\ \A n \in 0 .. m : f[n] \in Seq(S)
        /\ f[0] = <<>> /\ f[m] = KeepAt(o, keep)
        /\ \A k \in 0 .. m, n \in 1 .. m : n = k + 1 => f[n] = f[k] \o parts[n]
    BY <1>2, <1>4, <1>5 DEF SoFar
  <1> DEFINE Ends(s, n) == \E g \in Upto(n) : /\ \A k \in Upto(n) : k =< g
                                              /\ s[Len(s)] = o[g]
             Steps(s) == \A a \in DOMAIN s :
                            s[a].level =< (IF a = 1 THEN 0 ELSE s[a - 1].level + 1)
             Holds(n) == Steps(f[n]) /\ (n > 0 => f[n] # <<>> /\ Ends(f[n], n))
             T == {n \in 0 .. m : Holds(n)}
  <1>7. 0 \in T
    BY <1>1, <1>6
  <1>8. ASSUME NEW n \in 0 .. m, n < m, n \in T PROVE n + 1 \in T
    <2> DEFINE j == n + 1
               s == f[n]
    <2>1. j \in 1 .. m /\ j \in 0 .. m /\ j \in DOMAIN o
      BY <1>1, <1>8
    <2>2. f[j] = s \o parts[j] /\ s \in Seq(S) /\ Steps(s) /\ (n > 0 => s # <<>> /\ Ends(s, n))
      BY <1>6, <1>8, <2>1
    <2>3. CASE j \notin keep
      <3>1. parts[j] = <<>>
        BY <1>3, <2>1, <2>3
      <3>2. f[j] = s
        BY <2>2, <3>1
      <3>3. n > 0
        BY <2>1, <2>3
      <3>4. Upto(j) = Upto(n)
        BY <1>1, <2>3
      <3>5. s # <<>> /\ Steps(s) /\ Ends(s, j)
        <4> HIDE DEF s, Steps, Upto
        <4> QED BY <2>2, <3>3, <3>4
      <3> HIDE DEF s, Steps, Ends
      <3> QED BY <2>1, <3>2, <3>5
    <2>4. CASE j \in keep
      <3> DEFINE q == Append(s, o[j])
                 l == Len(s)
      <3>1. o[j] \in S
        BY <1>1, <2>1
      <3>2. f[j] = q
        <4>1. parts[j] = <<o[j]>>
          BY <1>3, <2>1, <2>4
        <4> HIDE DEF s
        <4> QED BY <2>2, <3>1, <4>1, AppendIsConcat
      <3>3. /\ l \in Nat /\ DOMAIN s = 1 .. l /\ DOMAIN q = 1 .. l + 1 /\ Len(q) = l + 1
            /\ q # <<>> /\ \A a \in 1 .. l : q[a] = s[a]
            /\ q[l + 1] = o[j]
        <4> HIDE DEF s
        <4> QED BY <2>2, <3>1, AppendIs
      <3> HIDE DEF q, l
      <3>4. V(j) =< (IF l + 1 = 1 THEN 0 ELSE q[l].level + 1)
        <4>1. CASE n = 0
          <5>1. j = 1 /\ l = 0
            BY <1>6, <3>3, <4>1 DEF l
          <5> QED BY <1>1, <5>1
        <4>2. CASE n > 0
          <5>1. PICK g \in Upto(n) : (\A k \in Upto(n) : k =< g) /\ s[l] = o[g]
            BY <2>2, <4>2 DEF l
          <5>2. l # 0 /\ l \in 1 .. l
            <6> HIDE DEF s
            <6>1. l # 0
              BY <2>2, <4>2 DEF l
            <6> QED BY <3>3, <6>1
          <5>3. j # 1
            BY <4>2
          <5>4. PICK p \in keep : j \in ChildSet(o, p)
            BY <2>4, <5>3
          <5>5. /\ p \in DOMAIN o /\ j \in Subtree(o, p) /\ V(j) = V(p) + 1
            BY <5>4 DEF ChildSet
          <5>6. p =< j /\ \A k \in DOMAIN o : p < k /\ k =< j => V(k) > V(p)
            BY <5>5, InSubtree
          <5>7. /\ V(p) \in Nat /\ V(g) \in Nat /\ g \in DOMAIN o /\ g =< n
                /\ p \in Nat /\ g \in Nat
            BY <1>1, <5>1, <5>5
          <5>8. p # j
            BY <5>5, <5>7
          <5>9. p \in Upto(n)
            BY <5>6, <5>7, <5>8
          <5>10. p =< g
            BY <5>1, <5>9
          <5>11. V(p) =< V(g)
            <6>1. CASE p = g
              BY <5>7, <6>1
            <6>2. CASE p # g
              <7>1. p < g /\ g =< j
                BY <5>7, <5>10, <6>2
              <7> QED BY <5>6, <5>7, <7>1
            <6> QED BY <6>1, <6>2
          <5>12. q[l].level = V(g)
            BY <3>3, <5>1, <5>2
          <5>13. V(j) =< q[l].level + 1
            BY <5>5, <5>7, <5>11, <5>12
          <5> QED BY <3>3, <5>2, <5>13
        <4> QED BY <4>1, <4>2
      <3>5. Steps(q)
        <4>1. ASSUME NEW a \in DOMAIN q
              PROVE  q[a].level =< (IF a = 1 THEN 0 ELSE q[a - 1].level + 1)
          <5>1. CASE a = l + 1
            <6>1. l + 1 - 1 = l
              BY <3>3
            <6> QED BY <3>3, <3>4, <5>1, <6>1
          <5>2. CASE a # l + 1
            <6>1. a \in 1 .. l /\ a \in DOMAIN s /\ (a # 1 => a - 1 \in 1 .. l)
              BY <3>3, <4>1, <5>2
            <6> HIDE DEF s
            <6> QED BY <2>2, <3>3, <6>1
          <5> QED BY <5>1, <5>2
        <4> QED BY <4>1
      <3>6. Ends(q, j)
        <4>1. j \in Upto(j) /\ \A k \in Upto(j) : k =< j
          BY <1>1, <2>4
        <4> QED BY <3>3, <4>1
      <3> HIDE DEF Steps, Ends
      <3> QED BY <2>1, <3>2, <3>3, <3>5, <3>6
    <2> QED BY <2>3, <2>4
  <1>9. 0 .. m \subseteq T
    <2> HIDE DEF T
    <2> QED BY <1>1, <1>7, <1>8, BoundedInduction
  <1> DEFINE r == KeepAt(o, keep)
  <1>10. Steps(r)
    <2>1. m \in 0 .. m
      BY <1>1
    <2>2. Holds(m)
      <3> HIDE DEF Holds
      <3> QED BY <1>9, <2>1
    <2> HIDE DEF Steps
    <2> QED BY <1>6, <2>2
  <1>11. r \in Seq(S) /\ Members(r) = {o[i] : i \in keep}
    BY <1>1, KeepAtMembers
  <1> HIDE DEF r
  <1>12. r \in Seq(ToSet(r))
    BY <1>11, SeqIsList, ToSetIs DEF IsList
  <1>13. ASSUME NEW a \in DOMAIN r
         PROVE  r[a].level \in Nat /\ r[a].texts \in Seq(ToSet(r[a].texts))
    <2>1. PICK i \in keep : r[a] = o[i]
      BY <1>11 DEF Members
    <2> QED BY <1>1, <2>1
  <1>14. ASSUME NEW a \in DOMAIN r
         PROVE  r[a].level \in 0 .. (IF a = 1 THEN 0 ELSE r[a - 1].level + 1)
    <2>1. CASE a = 1
      <3>1. r[a].level =< 0 /\ r[a].level \in Nat
        BY <1>10, <1>13, <2>1
      <3>2. r[a].level = 0
        BY <3>1
      <3> QED BY <2>1, <3>2
    <2>2. CASE a # 1
      <3>1. a - 1 \in DOMAIN r
        BY <1>11, <2>2
      <3>2. r[a].level \in Nat /\ r[a - 1].level \in Nat /\ r[a].level =< r[a - 1].level + 1
        BY <1>10, <1>13, <2>2, <3>1
      <3> QED BY <2>2, <3>2
    <2> QED BY <2>1, <2>2
  <1>15. IsOutline(r)
    BY <1>12, <1>13, <1>14 DEF IsOutline
  <1> QED BY <1>15 DEF r

\* What BuildOutline returns.
Returned == KeepAt(outline, kept)

\* It is an outline: ProfileAssembly assumes no more of the outlines it is given
\* (FetchesAssumption).
THEOREM OutlineIsReturned == Spec => [](stage = "done" => IsOutline(Returned))
PROOF
  <1>1. CollapseInv => (stage = "done" => IsOutline(Returned))
    <2> SUFFICES ASSUME CollapseInv, stage = "done" PROVE IsOutline(Returned)
      OBVIOUS
    <2>1. /\ IsTree(outline) /\ kept \in SUBSET DOMAIN outline /\ 1 \in kept
          /\ \A i \in kept \ {1} : \E p \in kept : i \in ChildSet(outline, p)
      BY DEF CollapseInv, KeptInv
    <2>2. IsOutline(outline)
      BY <2>1, TreeIs
    <2> QED BY <2>1, <2>2, KeepAtOutline DEF Returned
  <1> QED BY <1>1, OutlineInvariant, PTL

-----------------------------------------------------------------------------
(* What the page holds.                                                    *)

\* f[k] are the places that those of start lead to in k steps.
IsAfter(d, start, f, n) ==
    f = [k \in 0 .. n |-> IF k = 0 THEN start ELSE UNION {Below(d, p) : p \in f[k - 1]}]

LEMMA AfterExists ==
    ASSUME NEW d, NEW start, NEW m \in Nat
    PROVE  \E f : IsAfter(d, start, f, m)
PROOF
  <1> DEFINE T == {n \in Nat : \E f : IsAfter(d, start, f, n)}
             B(P) == UNION {Below(d, p) : p \in P}
  <1>1. 0 \in T
    <2> DEFINE f == [k \in 0 .. 0 |-> start]
    <2>1. IsAfter(d, start, f, 0)
      BY DEF IsAfter
    <2> HIDE DEF f
    <2> QED BY <2>1
  <1>2. ASSUME NEW n \in 0 .. m, n < m, n \in T PROVE n + 1 \in T
    <2>1. PICK f : IsAfter(d, start, f, n)
      BY <1>2
    <2> DEFINE g == [k \in 0 .. n + 1 |-> IF k = 0 THEN start ELSE B(f[k - 1])]
    <2> HIDE DEF B
    <2>2. \A k \in 0 .. n : f[k] = IF k = 0 THEN start ELSE B(f[k - 1])
      BY <2>1 DEF IsAfter, B
    <2>3. ASSUME NEW k \in 0 .. n + 1
          PROVE  g[k] = IF k = 0 THEN start ELSE B(g[k - 1])
      <3>1. CASE k = 0
        BY <3>1
      <3>2. CASE k # 0
        <4>1. k - 1 \in 0 .. n /\ k - 1 \in 0 .. n + 1
          BY <3>2
        <4>2. g[k - 1] = f[k - 1]
          BY <2>2, <4>1
        <4> QED BY <3>2, <4>2
      <3> QED BY <3>1, <3>2
    <2>4. g = [k \in 0 .. n + 1 |-> g[k]]
      OBVIOUS
    <2> HIDE DEF g
    <2>5. IsAfter(d, start, g, n + 1)
      BY <2>3, <2>4 DEF IsAfter, B
    <2> QED BY <2>5
  <1>3. 0 .. m \subseteq T
    <2> HIDE DEF T
    <2> QED BY <1>1, <1>2, BoundedInduction
  <1> QED BY <1>3

\* After by its steps.
LEMMA AfterIs ==
    ASSUME NEW d, NEW start
    PROVE  /\ After(d, start)[0] = start
           /\ \A k \in 0 .. MaxDepth : k < MaxDepth =>
                 After(d, start)[k + 1] = UNION {Below(d, p) : p \in After(d, start)[k]}
PROOF
  <1> DEFINE f == CHOOSE g : IsAfter(d, start, g, MaxDepth)
  <1>1. MaxDepth \in Nat
    BY OutlineAssumption
  <1>2. IsAfter(d, start, f, MaxDepth)
    BY <1>1, AfterExists
  <1>3. After(d, start) = f
    BY DEF After, IsAfter
  <1> HIDE DEF f
  <1> DEFINE B(P) == UNION {Below(d, p) : p \in P}
  <1>4. \A k \in 0 .. MaxDepth : f[k] = IF k = 0 THEN start ELSE B(f[k - 1])
    BY <1>2 DEF IsAfter
  <1> HIDE DEF B
  <1>5. f[0] = start
    BY <1>1, <1>4
  <1>6. ASSUME NEW k \in 0 .. MaxDepth, k < MaxDepth
        PROVE  f[k + 1] = UNION {Below(d, p) : p \in f[k]}
    <2>1. k + 1 \in 0 .. MaxDepth /\ k + 1 # 0 /\ k + 1 - 1 = k
      BY <1>1, <1>6
    <2>2. f[k + 1] = B(f[k])
      BY <1>4, <2>1
    <2> QED BY <2>2 DEF B
  <1> QED BY <1>3, <1>5, <1>6

\* Where more is led from, more is led to.
LEMMA LeadsToMore ==
    ASSUME NEW d, NEW S, NEW T, S \subseteq T
    PROVE  LeadsTo(d, S) \subseteq LeadsTo(d, T)
PROOF
  <1> DEFINE U == {k \in 0 .. MaxDepth : After(d, S)[k] \subseteq After(d, T)[k]}
  <1>1. MaxDepth \in Nat
    BY OutlineAssumption
  <1>2. 0 \in U
    BY <1>1, AfterIs
  <1>3. ASSUME NEW k \in 0 .. MaxDepth, k < MaxDepth, k \in U PROVE k + 1 \in U
    <2>1. /\ After(d, S)[k + 1] = UNION {Below(d, p) : p \in After(d, S)[k]}
          /\ After(d, T)[k + 1] = UNION {Below(d, p) : p \in After(d, T)[k]}
      BY <1>3, AfterIs
    <2>2. k + 1 \in 0 .. MaxDepth
      BY <1>1, <1>3
    <2> QED BY <1>3, <2>1, <2>2
  <1>4. 0 .. MaxDepth \subseteq U
    <2> HIDE DEF U
    <2> QED BY <1>1, <1>2, <1>3, BoundedInduction
  <1> QED BY <1>4 DEF LeadsTo

\* Below by the form of the node.
LEMMA BelowIs ==
    ASSUME NEW d, NEW p
    PROVE  /\ p.node.form = "list" => Below(d, p) = Members(InMode(p.mode, p.node.items))
           /\ p.node.form = "object" =>
                 Below(d, p) = Members(InMode(p.mode, Content(p.node)))
           /\ p.node.form = "action" => Below(d, p) = Members(InMode(p.mode, p.node.slots))
           /\ p.node.form = "element" =>
                 Below(d, p) = Members(ElementContent(d, p.node, p.mode, {}))
           /\ p.node.form = "ref" =>
                 Below(d, p) = IF IsModel(d, p.node.id)
                               THEN {Place(d[p.node.id].value, p.mode)} ELSE {}
           /\ p.node.form \notin {"list", "object", "action", "element", "ref"} =>
                 Below(d, p) = {}
PROOF
  <1>1. p.node.form = "list" => Below(d, p) = Members(InMode(p.mode, p.node.items))
    BY ToSetIs DEF Below
  <1>2. p.node.form = "object" => Below(d, p) = Members(InMode(p.mode, Content(p.node)))
    BY ToSetIs DEF Below
  <1>3. p.node.form = "action" => Below(d, p) = Members(InMode(p.mode, p.node.slots))
    BY ToSetIs DEF Below
  <1>4. p.node.form = "element" =>
           Below(d, p) = Members(ElementContent(d, p.node, p.mode, {}))
    BY ToSetIs DEF Below
  <1>5. p.node.form = "ref" => Below(d, p) = IF IsModel(d, p.node.id)
                               THEN {Place(d[p.node.id].value, p.mode)} ELSE {}
    BY DEF Below
  <1>6. p.node.form \notin {"list", "object", "action", "element", "ref"} => Below(d, p) = {}
    BY DEF Below
  <1> QED BY <1>1, <1>2, <1>3, <1>4, <1>5, <1>6

Places == [node : Nodes, mode : Modes]

LEMMA SameNodesInElement ==
    ASSUME NEW d, NEW n \in Nodes, n.form = "element", NEW m \in Modes, NEW o \in Modes,
           NEW k \in DOMAIN ElementContent(d, n, m, {})
    PROVE  /\ k \in DOMAIN ElementContent(d, n, o, {})
           /\ ElementContent(d, n, o, {})[k].node = ElementContent(d, n, m, {})[k].node
PROOF
  <1> DEFINE V == Visitable(Parts(n))
             s == FromText(n)
             t == FromProps(d, n, m, {})
             u == FromProps(d, n, o, {})
  <1>1. s \in Seq(V) /\ t \in Seq(V) /\ u \in Seq(V)
    BY ElementHolds
  <1>2. ElementContent(d, n, m, {}) = s \o t /\ ElementContent(d, n, o, {}) = s \o u
    BY ElementHolds
  <1>3. DOMAIN t = DOMAIN u /\ \A a \in DOMAIN t : t[a].node = u[a].node
    BY DEF FromProps
  <1> HIDE DEF s, t, u, V
  <1>4. /\ Len(s) \in Nat /\ Len(t) \in Nat /\ DOMAIN t = 1 .. Len(t)
        /\ Len(u) \in Nat /\ DOMAIN u = 1 .. Len(u)
    BY <1>1
  <1>5. Len(t) = Len(u)
    <2>1. 1 .. Len(t) = 1 .. Len(u)
      BY <1>3, <1>4
    <2> HIDE DEF s
    <2>2. ~ (Len(t) < Len(u))
      <3>1. Len(t) < Len(u) => Len(u) \in 1 .. Len(u) /\ Len(u) \notin 1 .. Len(t)
        BY <1>4
      <3> QED BY <2>1, <3>1
    <2>3. ~ (Len(u) < Len(t))
      <3>1. Len(u) < Len(t) => Len(t) \in 1 .. Len(t) /\ Len(t) \notin 1 .. Len(u)
        BY <1>4
      <3> QED BY <2>1, <3>1
    <2> DEFINE a == Len(t)
               b == Len(u)
    <2>4. a \in Nat /\ b \in Nat /\ ~ (a < b) /\ ~ (b < a)
      BY <1>4, <2>2, <2>3
    <2> HIDE DEF a, b
    <2>5. a = b
      BY <2>4
    <2> QED BY <2>5 DEF a, b
  <1>6. /\ DOMAIN (s \o t) = 1 .. Len(s) + Len(t) /\ DOMAIN (s \o u) = 1 .. Len(s) + Len(u)
        /\ \A a \in 1 .. Len(s) + Len(t) :
              /\ (s \o t)[a] = IF a =< Len(s) THEN s[a] ELSE t[a - Len(s)]
              /\ (s \o u)[a] = IF a =< Len(s) THEN s[a] ELSE u[a - Len(s)]
    <2>1. /\ DOMAIN (s \o t) = 1 .. Len(s) + Len(t)
          /\ \A a \in 1 .. Len(s) + Len(t) :
                (s \o t)[a] = IF a =< Len(s) THEN s[a] ELSE t[a - Len(s)]
      BY <1>1, ConcatProperties
    <2>2. /\ DOMAIN (s \o u) = 1 .. Len(s) + Len(u)
          /\ \A a \in 1 .. Len(s) + Len(u) :
                (s \o u)[a] = IF a =< Len(s) THEN s[a] ELSE u[a - Len(s)]
      BY <1>1, ConcatProperties
    <2> QED BY <1>5, <2>1, <2>2
  <1>7. k \in 1 .. Len(s) + Len(t) /\ k \in 1 .. Len(s) + Len(u)
    BY <1>2, <1>5, <1>6
  <1>8. k > Len(s) => k - Len(s) \in DOMAIN t
    BY <1>4, <1>7
  <1> QED BY <1>2, <1>3, <1>6, <1>7, <1>8

\* Which nodes are one step on does not depend on the mode.
LEMMA SameNodesBelow ==
    ASSUME NEW d, NEW p \in Places, NEW q \in Places, p.node = q.node, NEW x \in Below(d, p)
    PROVE  \E y \in Below(d, q) : y.node = x.node
PROOF
  <1> DEFINE n == p.node
  <1>1. \A nodes, m : /\ DOMAIN InMode(m, nodes) = DOMAIN nodes
                      /\ \A k \in DOMAIN nodes : InMode(m, nodes)[k].node = nodes[k]
    BY DEF InMode
  <1>2. \A nodes : x \in Members(InMode(p.mode, nodes)) =>
           \E y \in Members(InMode(q.mode, nodes)) : y.node = x.node
    <2> SUFFICES ASSUME NEW nodes, x \in Members(InMode(p.mode, nodes))
                 PROVE  \E y \in Members(InMode(q.mode, nodes)) : y.node = x.node
      OBVIOUS
    <2>1. PICK k \in DOMAIN nodes : x = InMode(p.mode, nodes)[k]
      BY <1>1 DEF Members
    <2>2. InMode(q.mode, nodes)[k] \in Members(InMode(q.mode, nodes))
      BY <1>1 DEF Members
    <2> QED BY <1>1, <2>1, <2>2
  <1>3. CASE n.form = "list"
    BY <1>2, <1>3, BelowIs
  <1>4. CASE n.form = "object"
    BY <1>2, <1>4, BelowIs
  <1>5. CASE n.form = "action"
    BY <1>2, <1>5, BelowIs
  <1>7. CASE n.form = "ref"
    <2>1. IsModel(d, n.id) /\ x = Place(d[n.id].value, p.mode)
          /\ Place(d[n.id].value, q.mode) \in Below(d, q)
      BY <1>7, BelowIs
    <2> QED BY <2>1 DEF Place
  <1>8. CASE n.form \notin {"list", "object", "action", "element", "ref"}
    BY <1>8, BelowIs
  <1>6. CASE n.form = "element"
    <2> DEFINE E(m) == ElementContent(d, n, m, {})
    <2>1. x \in Members(E(p.mode)) /\ Below(d, q) = Members(E(q.mode))
      BY <1>6, BelowIs
    <2>2. PICK k \in DOMAIN E(p.mode) : x = E(p.mode)[k]
      BY <2>1 DEF Members
    <2>3. k \in DOMAIN E(q.mode) /\ E(q.mode)[k].node = E(p.mode)[k].node
      <3>1. n \in Nodes /\ p.mode \in Modes /\ q.mode \in Modes
        BY DEF Places
      <3> QED BY <1>6, <2>2, <3>1, SameNodesInElement
    <2> HIDE DEF E
    <2>4. E(q.mode)[k] \in Members(E(q.mode))
      BY <2>3 DEF Members
    <2> QED BY <2>1, <2>2, <2>3, <2>4
  <1> QED BY <1>3, <1>4, <1>5, <1>6, <1>7, <1>8

-----------------------------------------------------------------------------
(* What the walk has met.                                                  *)

\* A visit is of a place, so many steps from where the walk came in.
PlaceOf(v) == Place(v.node, v.mode)
Pair(v) == <<PlaceOf(v), v.depth>>

\* What was met: h are the visits that are over, t those to come.
Met(h, t) == h \cup {Pair(v) : v \in Members(t)}

\* Place q was met after k steps, or a circle led back to its node earlier.
Reaches(d, met, q, k) ==
    \E x \in met : /\ x[1].node = q.node /\ x[2] =< k
                   /\ ~IsCyclic(d) => x = <<q, k>>

Sound(d, start, met) ==
    \A x \in met : x[2] =< MaxDepth => x[1] \in After(d, start)[x[2]]

Closed(d, h, met) ==
    \A x \in h : \A q \in Below(d, x[1]) :
        x[2] < MaxDepth => Reaches(d, met, q, x[2] + 1)

\* The rows on the path of visit v were met before it and lead to it.
OnPath(d, met, v) ==
    v.depth =< MaxDepth =>
        \A id \in v.path :
            /\ IsModel(d, id)
            /\ \E x \in met : x[1].node = d[id].value /\ x[2] =< v.depth
            /\ \E m \in Modes : \E k \in 0 .. v.depth :
                  PlaceOf(v) \in After(d, {Place(d[id].value, m)})[k]

Begin(d) == Start(d, {0} \cup (DOMAIN d \ Referenced(d)))

Progress(d, h, t) ==
    /\ h \subseteq Places \X (0 .. MaxDepth)
    /\ Sound(d, Begin(d), Met(h, t))
    /\ Closed(d, h, Met(h, t))
    /\ \A v \in Members(t) : OnPath(d, Met(h, t), v)

\* Visit v is left for those of new: for all that is below it, unless it is of a
\* row on its own path.
LeftFor(d, v, new) ==
    /\ \A w \in Members(new) :
          /\ PlaceOf(w) \in Below(d, PlaceOf(v)) /\ w.depth = v.depth + 1
          /\ \A id \in w.path \ v.path : IsModel(d, id) /\ w.node = d[id].value
    /\ \/ \A q \in Below(d, PlaceOf(v)) : \E w \in Members(new) : PlaceOf(w) = q
       \/ v.node.form = "ref" /\ v.node.id \in v.path

\* What is over after a visit that is not too deep.
Over(h, v) == IF v.depth =< MaxDepth THEN h \cup {Pair(v)} ELSE h

\* A visit that is not too deep stays met.
LEMMA MetStays ==
    ASSUME NEW d, NEW t \in Seq(Visits(d)), t # <<>>, NEW new \in Seq(Visits(d)), NEW h
    PROVE  /\ Met(Over(h, Head(t)), new \o Tail(t))
                 \subseteq Met(h, t) \cup {Pair(w) : w \in Members(new)}
           /\ {Pair(w) : w \in Members(new)} \subseteq Met(Over(h, Head(t)), new \o Tail(t))
           /\ \A x \in Met(h, t) :
                 x[2] =< MaxDepth => x \in Met(Over(h, Head(t)), new \o Tail(t))
           /\ Members(new \o Tail(t)) = Members(new) \cup Members(Tail(t))
           /\ Members(t) = {Head(t)} \cup Members(Tail(t))
           /\ new \o Tail(t) \in Seq(Visits(d)) /\ Head(t) \in Visits(d)
PROOF
  <1> DEFINE W == Visits(d)
             v == Head(t)
             rest == Tail(t)
  <1> HIDE DEF W
  <1>1. /\ v \in W /\ rest \in Seq(W) /\ Members(t) = {v} \cup Members(rest)
    BY TailMembers DEF W
  <1>2. Members(new \o rest) = Members(new) \cup Members(rest) /\ new \o rest \in Seq(W)
    BY <1>1, ConcatMembers DEF W
  <1> HIDE DEF v, rest
  <1>3. Pair(v)[2] = v.depth
    BY DEF Pair
  <1>4. \A x \in Met(h, t) : x[2] =< MaxDepth => x \in Met(Over(h, v), new \o rest)
    BY <1>1, <1>2, <1>3 DEF Met, Over
  <1>5. Met(Over(h, v), new \o rest) \subseteq Met(h, t) \cup {Pair(w) : w \in Members(new)}
    BY <1>1, <1>2 DEF Met, Over
  <1>6. {Pair(w) : w \in Members(new)} \subseteq Met(Over(h, v), new \o rest)
    BY <1>2 DEF Met
  <1> QED BY <1>1, <1>2, <1>4, <1>5, <1>6 DEF v, rest, W

LEMMA VisitIs ==
    ASSUME NEW d, NEW v \in Visits(d)
    PROVE  /\ v.node \in Nodes /\ v.path \in SUBSET DOMAIN d /\ v.depth \in Nat
           /\ v.mode \in Modes /\ PlaceOf(v) \in Places
           /\ PlaceOf(v).node = v.node /\ PlaceOf(v).mode = v.mode
           /\ Pair(v)[1] = PlaceOf(v) /\ Pair(v)[2] = v.depth
PROOF
  BY DEF Visits, VisitSet, PlaceOf, Pair, Place, Places

\* What is below a place is led to.
LEMMA SoundStep ==
    ASSUME NEW d, NEW start, NEW t \in Seq(Visits(d)), t # <<>>, NEW new \in Seq(Visits(d)),
           NEW h, Sound(d, start, Met(h, t)), Head(t).depth =< MaxDepth => LeftFor(d, Head(t), new),
           Head(t).depth > MaxDepth => new = <<>>
    PROVE  Sound(d, start, Met(Over(h, Head(t)), new \o Tail(t)))
PROOF
  <1> DEFINE v == Head(t)
             M == Met(h, t)
             more == {Pair(w) : w \in Members(new)}
  <1>1. MaxDepth \in Nat
    BY OutlineAssumption
  <1>2. Met(Over(h, v), new \o Tail(t)) \subseteq M \cup more /\ v \in Visits(d)
    BY MetStays
  <1>3. Pair(v) \in M
    <2>1. v \in Members(t)
      BY MetStays
    <2> QED BY <2>1 DEF Met
  <1>4. ASSUME NEW w \in Members(new), w.depth =< MaxDepth
        PROVE  PlaceOf(w) \in After(d, start)[w.depth]
    <2>1. v.depth \in Nat /\ Pair(v)[1] = PlaceOf(v) /\ Pair(v)[2] = v.depth
      BY <1>2, VisitIs
    <2>2. v.depth =< MaxDepth
      <3>1. CASE v.depth > MaxDepth
        <4>1. Members(<<>>) = {}
          BY DEF Members
        <4> QED BY <3>1, <4>1
      <3> QED BY <1>1, <2>1, <3>1
    <2>3. PlaceOf(w) \in Below(d, PlaceOf(v)) /\ w.depth = v.depth + 1
      BY <2>2 DEF LeftFor
    <2>4. PlaceOf(v) \in After(d, start)[v.depth]
      BY <1>3, <2>1, <2>2 DEF Sound
    <2>5. v.depth \in 0 .. MaxDepth /\ v.depth < MaxDepth
      BY <1>1, <1>4, <2>1, <2>3
    <2> HIDE DEF v
    <2>6. After(d, start)[v.depth + 1] = UNION {Below(d, p) : p \in After(d, start)[v.depth]}
      BY <2>5, AfterIs
    <2> QED BY <2>3, <2>4, <2>6
  <1>5. \A w \in Members(new) : Pair(w)[1] = PlaceOf(w) /\ Pair(w)[2] = w.depth
    BY DEF Pair
  <1> HIDE DEF v, M
  <1> QED BY <1>2, <1>4, <1>5 DEF Sound, M, v

\* The circle on which a visit of a row on its own path was cut.
LEMMA CutIs ==
    ASSUME NEW d, NEW met, NEW v \in Visits(d), v.node.form = "ref", v.node.id \in v.path,
           v.depth =< MaxDepth, OnPath(d, met, v), Sound(d, Begin(d), met), Pair(v) \in met
    PROVE  /\ IsCyclic(d)
           /\ \A q \in Below(d, PlaceOf(v)) :
                 \E x \in met : x[1].node = q.node /\ x[2] =< v.depth
PROOF
  <1> DEFINE id == v.node.id
             p == PlaceOf(v)
  <1>1. MaxDepth \in Nat /\ v.depth \in Nat /\ v.depth \in 0 .. MaxDepth
    BY OutlineAssumption, VisitIs
  <1>2. /\ IsModel(d, id)
        /\ \E x \in met : x[1].node = d[id].value /\ x[2] =< v.depth
        /\ \E m \in Modes : \E k \in 0 .. v.depth :
              p \in After(d, {Place(d[id].value, m)})[k]
    BY DEF OnPath
  <1>3. p \in OnPage(d)
    <2>1. p \in After(d, Begin(d))[v.depth]
      BY VisitIs DEF Sound
    <2> QED BY <1>1, <2>1 DEF OnPage, LeadsTo, Begin
  <1>4. PICK m \in Modes, k \in 0 .. v.depth : p \in After(d, {Place(d[id].value, m)})[k]
    BY <1>2
  <1>5. p \in LeadsTo(d, {Place(d[id].value, m)})
    <2>1. k \in 0 .. MaxDepth
      BY <1>1
    <2> QED BY <1>4, <2>1 DEF LeadsTo
  <1>6. p.node = v.node /\ p.mode = v.mode
    BY VisitIs
  <1>7. IsCyclic(d)
    BY <1>2, <1>3, <1>5, <1>6 DEF IsCyclic
  <1>8. \A q \in Below(d, p) : q.node = d[id].value
    <2>1. Below(d, p) = {Place(d[id].value, p.mode)}
      BY <1>2, <1>6, BelowIs
    <2> QED BY <2>1 DEF Place
  <1> QED BY <1>2, <1>7, <1>8

\* A step of the walk keeps what is known of it.
LEMMA ProgressStep ==
    ASSUME NEW d, NEW t \in Seq(Visits(d)), t # <<>>, NEW new \in Seq(Visits(d)), NEW h,
           Progress(d, h, t), Head(t).depth =< MaxDepth => LeftFor(d, Head(t), new),
           Head(t).depth > MaxDepth => new = <<>>
    PROVE  Progress(d, Over(h, Head(t)), new \o Tail(t))
PROOF
  <1> DEFINE v == Head(t)
             g == Over(h, v)
             M == Met(h, t)
             rest == new \o Tail(t)
             N == Met(g, rest)
  <1>1. MaxDepth \in Nat
    BY OutlineAssumption
  <1>2. /\ N \subseteq M \cup {Pair(w) : w \in Members(new)}
        /\ {Pair(w) : w \in Members(new)} \subseteq N
        /\ \A x \in M : x[2] =< MaxDepth => x \in N
        /\ Members(rest) = Members(new) \cup Members(Tail(t))
        /\ Members(t) = {v} \cup Members(Tail(t))
        /\ v \in Visits(d) /\ Members(t) \subseteq Visits(d)
    <2>1. Members(t) \subseteq Visits(d)
      BY DEF Members
    <2>2. /\ Met(Over(h, Head(t)), new \o Tail(t)) \subseteq M \cup {Pair(w) : w \in Members(new)}
          /\ {Pair(w) : w \in Members(new)} \subseteq Met(Over(h, Head(t)), new \o Tail(t))
      BY MetStays
    <2>3. \A x \in Met(h, t) :
             x[2] =< MaxDepth => x \in Met(Over(h, Head(t)), new \o Tail(t))
      BY MetStays, Zenon
    <2>4. /\ Members(new \o Tail(t)) = Members(new) \cup Members(Tail(t))
          /\ Members(t) = {Head(t)} \cup Members(Tail(t))
          /\ Head(t) \in Visits(d)
      BY MetStays
    <2> QED BY <2>1, <2>2, <2>3, <2>4
  <1>3. Sound(d, Begin(d), N)
    BY SoundStep DEF Progress
  <1>4. /\ v.depth \in Nat /\ PlaceOf(v) \in Places /\ Pair(v)[1] = PlaceOf(v)
        /\ Pair(v)[2] = v.depth /\ Pair(v) = <<PlaceOf(v), v.depth>>
        /\ Pair(v) \in M /\ OnPath(d, M, v)
    BY <1>2, VisitIs DEF Met, Progress, Pair
  <1>5. \A x \in M : x[2] \in Nat
    BY <1>1, <1>2, VisitIs DEF Met, Progress
  <1>6. g \subseteq Places \X (0 .. MaxDepth) /\ g \subseteq h \cup {Pair(v)}
        /\ (v.depth > MaxDepth => g = h)
    BY <1>1, <1>4 DEF Over, Progress
  <1>7. v.depth =< MaxDepth \/ (v.depth > MaxDepth /\ Members(new) = {})
    <2>1. Members(<<>>) = {}
      BY DEF Members
    <2> QED BY <1>1, <1>4, <2>1
  <1>14. h \subseteq Places \X (0 .. MaxDepth) /\ Closed(d, h, M) /\ Sound(d, Begin(d), M)
         /\ \A w \in Members(t) : OnPath(d, M, w)
    BY DEF Progress
  <1>15. v.depth =< MaxDepth => LeftFor(d, v, new)
    OBVIOUS
  <1> HIDE DEF v, g, M, N, rest
  <1>8. ASSUME NEW q, NEW k \in Nat, k =< MaxDepth, Reaches(d, M, q, k)
        PROVE  Reaches(d, N, q, k)
    <2>1. PICK x \in M : x[1].node = q.node /\ x[2] =< k /\ (~IsCyclic(d) => x = <<q, k>>)
      BY <1>8 DEF Reaches
    <2>2. x \in N
      BY <1>1, <1>2, <1>5, <1>8, <2>1
    <2> QED BY <2>1, <2>2 DEF Reaches
  <1>9. ASSUME NEW x \in h, NEW q \in Below(d, x[1]), x[2] < MaxDepth
        PROVE  Reaches(d, N, q, x[2] + 1)
    <2>1. x[2] \in Nat /\ x[2] + 1 =< MaxDepth
      BY <1>1, <1>9, <1>14
    <2>2. Reaches(d, M, q, x[2] + 1)
      BY <1>9, <1>14 DEF Closed
    <2> QED BY <1>8, <2>1, <2>2
  <1>10. ASSUME NEW q \in Below(d, PlaceOf(v)), v.depth < MaxDepth
         PROVE  Reaches(d, N, q, v.depth + 1)
    <2>1. LeftFor(d, v, new)
      BY <1>1, <1>4, <1>10, <1>15
    <2>2. CASE \A r \in Below(d, PlaceOf(v)) : \E w \in Members(new) : PlaceOf(w) = r
      <3>1. PICK w \in Members(new) : PlaceOf(w) = q
        BY <2>2
      <3>2. Pair(w) = <<q, v.depth + 1>> /\ Pair(w) \in N
        BY <1>2, <2>1, <3>1 DEF Pair, LeftFor
      <3>3. v.depth + 1 =< v.depth + 1
        BY <1>4
      <3> QED BY <3>2, <3>3 DEF Reaches
    <2>3. CASE v.node.form = "ref" /\ v.node.id \in v.path
      <3>1. /\ IsCyclic(d)
            /\ \E x \in M : x[1].node = q.node /\ x[2] =< v.depth
        BY <1>1, <1>2, <1>4, <1>10, <1>14, <2>3, CutIs
      <3>2. PICK x \in M : x[1].node = q.node /\ x[2] =< v.depth
        BY <3>1
      <3>3. x[2] =< MaxDepth /\ x[2] =< v.depth + 1
        BY <1>1, <1>4, <1>5, <1>10, <3>2
      <3> QED BY <1>2, <3>1, <3>2, <3>3 DEF Reaches
    <2> QED BY <2>1, <2>2, <2>3 DEF LeftFor
  <1>11. Closed(d, g, N)
    BY <1>4, <1>6, <1>9, <1>10 DEF Closed
  <1>12. ASSUME NEW w \in Members(rest)
         PROVE  OnPath(d, N, w)
    <2>1. SUFFICES ASSUME w.depth =< MaxDepth, NEW id \in w.path
                   PROVE  /\ IsModel(d, id)
                          /\ \E x \in N : x[1].node = d[id].value /\ x[2] =< w.depth
                          /\ \E m \in Modes : \E k \in 0 .. w.depth :
                                PlaceOf(w) \in After(d, {Place(d[id].value, m)})[k]
      BY DEF OnPath
    <2>2. CASE w \in Members(Tail(t))
      <3>1. w \in Members(t) /\ w.depth \in Nat
        BY <1>2, <2>2, VisitIs
      <3>2. /\ IsModel(d, id)
            /\ \E x \in M : x[1].node = d[id].value /\ x[2] =< w.depth
            /\ \E m \in Modes : \E k \in 0 .. w.depth :
                  PlaceOf(w) \in After(d, {Place(d[id].value, m)})[k]
        BY <1>14, <2>1, <3>1 DEF OnPath
      <3>3. PICK x \in M : x[1].node = d[id].value /\ x[2] =< w.depth
        BY <3>2
      <3>4. x \in N
        BY <1>1, <1>2, <1>5, <2>1, <3>1, <3>3
      <3> QED BY <3>2, <3>3, <3>4
    <2>3. CASE w \in Members(new)
      <3>1. v.depth =< MaxDepth /\ LeftFor(d, v, new)
        BY <1>7, <1>15, <2>3
      <3>2. /\ PlaceOf(w) \in Below(d, PlaceOf(v)) /\ w.depth = v.depth + 1
            /\ \A i \in w.path \ v.path : IsModel(d, i) /\ w.node = d[i].value
        BY <2>3, <3>1 DEF LeftFor
      <3>3. CASE id \in v.path
        <4>1. /\ IsModel(d, id)
              /\ \E x \in M : x[1].node = d[id].value /\ x[2] =< v.depth
              /\ \E m \in Modes : \E k \in 0 .. v.depth :
                    PlaceOf(v) \in After(d, {Place(d[id].value, m)})[k]
          BY <1>4, <3>1, <3>3 DEF OnPath
        <4>2. PICK x \in M : x[1].node = d[id].value /\ x[2] =< v.depth
          BY <4>1
        <4>3. x \in N /\ x[2] =< w.depth
          BY <1>1, <1>2, <1>4, <1>5, <2>1, <3>1, <3>2, <4>2
        <4>4. PICK m \in Modes, k \in 0 .. v.depth :
                 PlaceOf(v) \in After(d, {Place(d[id].value, m)})[k]
          BY <4>1
        <4>5. k + 1 \in 0 .. w.depth /\ k \in 0 .. MaxDepth /\ k < MaxDepth
          BY <1>1, <1>4, <2>1, <3>2, <4>4
        <4> DEFINE start == {Place(d[id].value, m)}
        <4> HIDE DEF start
        <4>6. After(d, start)[k + 1] = UNION {Below(d, p) : p \in After(d, start)[k]}
          BY <4>5, AfterIs
        <4>7. PlaceOf(w) \in After(d, start)[k + 1]
          BY <3>2, <4>4, <4>6 DEF start
        <4> QED BY <4>1, <4>2, <4>3, <4>5, <4>7 DEF start
      <3>4. CASE id \notin v.path
        <4>1. IsModel(d, id) /\ w.node = d[id].value
          BY <2>1, <3>2, <3>4
        <4>2. Pair(w) \in N /\ Pair(w)[1] = PlaceOf(w) /\ Pair(w)[2] = w.depth
          BY <1>2, <2>3 DEF Pair
        <4>3. PlaceOf(w) = Place(d[id].value, w.mode) /\ PlaceOf(w).node = d[id].value
          BY <4>1 DEF PlaceOf, Place
        <4>4. w.mode \in Modes /\ w.depth \in Nat
          <5>1. w \in Visits(d)
            BY <2>3 DEF Members
          <5> QED BY <5>1, VisitIs
        <4>5. PlaceOf(w) \in After(d, {Place(d[id].value, w.mode)})[0]
          BY <4>3, AfterIs
        <4>6. 0 \in 0 .. w.depth /\ w.depth =< w.depth
          BY <4>4
        <4> QED BY <4>1, <4>2, <4>3, <4>4, <4>5, <4>6
      <3> QED BY <3>3, <3>4
    <2> QED BY <1>2, <2>2, <2>3
  <1>13. Progress(d, g, rest)
    BY <1>3, <1>6, <1>11, <1>12 DEF Progress, N
  <1> QED BY <1>13 DEF g, rest, v

PlacesOf(h) == {x[1] : x \in h}
TextsAt(places) == {p.node.text : p \in {p \in places : IsText(p)}}

\* How far the walk where is: h are the visits that are over, t those to come,
\* left the rows of the second walk that are left.
InWalk(d, h, t, vis) ==
    /\ Sound(d, Start(d, {0}), Met(h, t))
    /\ \A p \in Start(d, {0}) : <<p, 0>> \in Met(h, t)
    /\ vis = RefIds(PlacesOf(h)) \cap DOMAIN d
    /\ \A v \in Members(t) : v.path \subseteq vis

InOrphans(d, h, t, left) ==
    /\ left \subseteq DOMAIN d \ Referenced(d)
    /\ \A p \in Start(d, ({0} \cup (DOMAIN d \ Referenced(d))) \ left) : <<p, 0>> \in Met(h, t)

Traversed(d, h, t, where, found, vis, left) ==
    /\ Progress(d, h, t)
    /\ found = TextsAt(PlacesOf(h))
    /\ where = "walk" => InWalk(d, h, t, vis)
    /\ where = "orphans" => InOrphans(d, h, t, left)

\* Texts and references of one place more.
LEMMA OneMore ==
    ASSUME NEW h, NEW x
    PROVE  /\ PlacesOf(h \cup {x}) = PlacesOf(h) \cup {x[1]}
           /\ TextsAt(PlacesOf(h) \cup {x[1]}) = TextsAt(PlacesOf(h)) \cup TextsAt({x[1]})
           /\ RefIds(PlacesOf(h) \cup {x[1]}) = RefIds(PlacesOf(h)) \cup RefIds({x[1]})
PROOF
  <1> DEFINE P == PlacesOf(h)
             y == x[1]
  <1>1. PlacesOf(h \cup {x}) = P \cup {y}
    BY DEF PlacesOf
  <1> HIDE DEF P, y
  <1>2. TextsAt(P \cup {y}) = TextsAt(P) \cup TextsAt({y})
    BY DEF TextsAt
  <1>3. RefIds(P \cup {y}) = RefIds(P) \cup RefIds({y})
    BY DEF RefIds
  <1> QED BY <1>1, <1>2, <1>3 DEF P, y

\* What a visit leaves behind, its texts and the rows it refers to included.
LEMMA TraversedStep ==
    ASSUME NEW d, NEW t \in Seq(Visits(d)), t # <<>>, NEW new \in Seq(Visits(d)), NEW h,
           NEW where, NEW found, NEW vis, NEW left, NEW found2, NEW vis2,
           Traversed(d, h, t, where, found, vis, left),
           Head(t).depth > MaxDepth => new = <<>> /\ found2 = found /\ vis2 = vis,
           Head(t).depth =< MaxDepth =>
               /\ LeftFor(d, Head(t), new)
               /\ found2 = found \cup TextsAt({PlaceOf(Head(t))})
               /\ where = "walk" =>
                     /\ vis2 = vis \cup (RefIds({PlaceOf(Head(t))}) \cap DOMAIN d)
                     /\ \A w \in Members(new) : w.path \subseteq vis2
    PROVE  Traversed(d, Over(h, Head(t)), new \o Tail(t), where, found2, vis2, left)
PROOF
  <1> DEFINE v == Head(t)
             g == Over(h, v)
             rest == new \o Tail(t)
  <1>1. Progress(d, g, rest)
    BY ProgressStep DEF Traversed
  <1>2. v \in Visits(d) /\ v.depth \in Nat /\ MaxDepth \in Nat
    BY MetStays, VisitIs, OutlineAssumption
  <1>3. /\ Members(rest) = Members(new) \cup Members(Tail(t))
        /\ Members(t) = {v} \cup Members(Tail(t))
        /\ \A x \in Met(h, t) : x[2] =< MaxDepth => x \in Met(g, rest)
    <2>1. /\ Members(new \o Tail(t)) = Members(new) \cup Members(Tail(t))
          /\ Members(t) = {Head(t)} \cup Members(Tail(t))
      BY MetStays
    <2>2. \A x \in Met(h, t) :
             x[2] =< MaxDepth => x \in Met(Over(h, Head(t)), new \o Tail(t))
      BY MetStays, Zenon
    <2> QED BY <2>1, <2>2
  <1>4. /\ PlacesOf(h \cup {Pair(v)}) = PlacesOf(h) \cup {PlaceOf(v)}
        /\ TextsAt(PlacesOf(h) \cup {PlaceOf(v)}) = TextsAt(PlacesOf(h)) \cup TextsAt({PlaceOf(v)})
        /\ RefIds(PlacesOf(h) \cup {PlaceOf(v)}) = RefIds(PlacesOf(h)) \cup RefIds({PlaceOf(v)})
    <2>1. Pair(v)[1] = PlaceOf(v)
      BY DEF Pair
    <2> QED BY <2>1, OneMore
  <1>5. Members(<<>>) = {}
    BY DEF Members
  <1>6. /\ v.depth > MaxDepth => g = h
        /\ v.depth =< MaxDepth => g = h \cup {Pair(v)}
        /\ v.depth > MaxDepth \/ v.depth =< MaxDepth
    BY <1>2 DEF Over
  <1>7. where = "walk" => Sound(d, Start(d, {0}), Met(g, rest))
    BY SoundStep DEF Traversed, InWalk
  <1>8. found = TextsAt(PlacesOf(h)) /\ (where = "walk" => InWalk(d, h, t, vis))
        /\ (where = "orphans" => InOrphans(d, h, t, left))
    BY DEF Traversed
  <1>9. /\ v.depth > MaxDepth => Members(new) = {} /\ found2 = found /\ vis2 = vis
        /\ v.depth =< MaxDepth =>
               /\ found2 = found \cup TextsAt({PlaceOf(v)})
               /\ where = "walk" =>
                     /\ vis2 = vis \cup (RefIds({PlaceOf(v)}) \cap DOMAIN d)
                     /\ \A w \in Members(new) : w.path \subseteq vis2
    BY <1>5
  <1> HIDE DEF v, g, rest
  <1>10. \A p : <<p, 0>> \in Met(h, t) => <<p, 0>> \in Met(g, rest)
    BY <1>2, <1>3
  <1>11. found2 = TextsAt(PlacesOf(g))
    BY <1>4, <1>6, <1>8, <1>9
  <1>12. where = "walk" => InWalk(d, g, rest, vis2)
    <2> SUFFICES ASSUME where = "walk" PROVE InWalk(d, g, rest, vis2)
      OBVIOUS
    <2>1. /\ \A p \in Start(d, {0}) : <<p, 0>> \in Met(g, rest)
          /\ vis = RefIds(PlacesOf(h)) \cap DOMAIN d
          /\ \A w \in Members(t) : w.path \subseteq vis
      BY <1>8, <1>10 DEF InWalk
    <2>2. vis2 = RefIds(PlacesOf(g)) \cap DOMAIN d
      BY <1>4, <1>6, <1>9, <2>1
    <2>3. \A w \in Members(rest) : w.path \subseteq vis2
      BY <1>3, <1>6, <1>9, <2>1
    <2> QED BY <1>7, <2>1, <2>2, <2>3 DEF InWalk
  <1>13. where = "orphans" => InOrphans(d, g, rest, left)
    BY <1>8, <1>10 DEF InOrphans
  <1>14. Traversed(d, g, rest, where, found2, vis2, left)
    BY <1>1, <1>11, <1>12, <1>13 DEF Traversed
  <1> QED BY <1>14 DEF g, rest, v

\* All that is met is a place.
LEMMA BelowInPlaces ==
    ASSUME NEW d, IsDocument(d), NEW p \in Places
    PROVE  Below(d, p) \subseteq Places
PROOF
  <1> DEFINE n == p.node
  <1>1. n \in Nodes /\ p.mode \in Modes /\ Parts(n) \subseteq Nodes
    BY DEF Places
  <1>2. \A nodes \in Seq(Nodes) : Members(InMode(p.mode, nodes)) \subseteq Places
    BY <1>1 DEF InMode, Members, Places
  <1>3. CASE n.form = "list"
    BY <1>1, <1>2, <1>3, BelowIs
  <1>4. CASE n.form = "object"
    <2>1. n.props \in Seq(ToSet(n.props)) /\ Parts(n) = ToSet(Content(n))
      BY <1>1, <1>4 DEF Parts
    <2>2. Content(n) \in Seq(Parts(n))
      BY <2>1, ContentIs
    <2>3. Content(n) \in Seq(Nodes)
      BY <1>1, <2>2
    <2> QED BY <1>2, <1>4, <2>3, BelowIs
  <1>5. CASE n.form = "action"
    BY <1>1, <1>2, <1>5, BelowIs
  <1>6. CASE n.form = "element"
    <2>1. ElementContent(d, n, p.mode, {}) \in Seq(Visitable(Parts(n)))
      BY <1>1, <1>6, ElementContentIs
    <2>2. Visitable(Parts(n)) \subseteq Places
      BY <1>1 DEF Visitable, Places
    <2>3. Members(ElementContent(d, n, p.mode, {})) \subseteq Places
      BY <2>1, <2>2 DEF Members
    <2> QED BY <1>6, <2>3, BelowIs
  <1>7. CASE n.form = "ref"
    <2>1. IsModel(d, n.id) => Place(d[n.id].value, p.mode) \in Places
      BY <1>1 DEF IsDocument, IsModel, Place, Places
    <2> QED BY <1>7, <2>1, BelowIs
  <1>8. CASE n.form \notin {"list", "object", "action", "element", "ref"}
    BY <1>8, BelowIs
  <1> QED BY <1>3, <1>4, <1>5, <1>6, <1>7, <1>8

LEMMA AfterInPlaces ==
    ASSUME NEW d, IsDocument(d), NEW rows
    PROVE  /\ Start(d, rows) \subseteq Places
           /\ \A k \in 0 .. MaxDepth : After(d, Start(d, rows))[k] \subseteq Places
PROOF
  <1> DEFINE S == Start(d, rows)
             T == {k \in 0 .. MaxDepth : After(d, S)[k] \subseteq Places}
  <1>1. MaxDepth \in Nat
    BY OutlineAssumption
  <1>2. S \subseteq Places
    <2>1. \A id : IsModel(d, id) => Place(d[id].value, "none") \in Places
      BY DEF IsDocument, IsModel, Place, Places, Modes
    <2> QED BY <2>1 DEF Start
  <1> HIDE DEF S
  <1>3. 0 \in T
    BY <1>1, <1>2, AfterIs
  <1>4. ASSUME NEW k \in 0 .. MaxDepth, k < MaxDepth, k \in T PROVE k + 1 \in T
    <2>1. After(d, S)[k + 1] = UNION {Below(d, p) : p \in After(d, S)[k]}
      BY <1>4, AfterIs
    <2>2. \A p \in After(d, S)[k] : Below(d, p) \subseteq Places
      BY <1>4, BelowInPlaces
    <2>3. k + 1 \in 0 .. MaxDepth
      BY <1>1, <1>4
    <2> QED BY <2>1, <2>2, <2>3
  <1>5. 0 .. MaxDepth \subseteq T
    <2> HIDE DEF T
    <2> QED BY <1>1, <1>3, <1>4, BoundedInduction
  <1> QED BY <1>2, <1>5 DEF S

LEMMA RefIdsFewer ==
    ASSUME NEW P, NEW Q, \A p \in P : \E q \in Q : q.node = p.node
    PROVE  RefIds(P) \subseteq RefIds(Q)
PROOF
  BY DEF RefIds

\* At the end of the first walk builder.visited are the rows that are referred to.
LEMMA VisitedIs ==
    ASSUME NEW d, IsDocument(d), NEW h, NEW found, NEW vis, NEW left,
           Traversed(d, h, <<>>, "walk", found, vis, left)
    PROVE  vis = Referenced(d) \cap DOMAIN d
PROOF
  <1> DEFINE S == Start(d, {0})
             T == {k \in 0 .. MaxDepth :
                     \A p \in After(d, S)[k] : \E x \in h : x[1].node = p.node /\ x[2] =< k}
  <1>1. MaxDepth \in Nat
    BY OutlineAssumption
  <1>2. Met(h, <<>>) = h
    BY DEF Met, Members
  <1>3. /\ h \subseteq Places \X (0 .. MaxDepth) /\ Closed(d, h, h) /\ Sound(d, S, h)
        /\ \A p \in S : <<p, 0>> \in h
        /\ vis = RefIds(PlacesOf(h)) \cap DOMAIN d
    BY <1>2 DEF Traversed, Progress, InWalk
  <1>4. \A k \in 0 .. MaxDepth : After(d, S)[k] \subseteq Places
    BY AfterInPlaces
  <1> HIDE DEF S
  <1>5. 0 \in T
    <2>1. After(d, S)[0] = S
      BY AfterIs
    <2>2. ASSUME NEW p \in S PROVE \E x \in h : x[1].node = p.node /\ x[2] =< 0
      <3>1. <<p, 0>> \in h /\ <<p, 0>>[1].node = p.node /\ <<p, 0>>[2] = 0
        BY <1>3
      <3> DEFINE x == <<p, 0>>
      <3> HIDE DEF x
      <3>2. x[2] =< 0
        BY <3>1 DEF x
      <3> QED BY <3>1, <3>2 DEF x
    <2>3. 0 \in 0 .. MaxDepth
      BY <1>1
    <2> QED BY <2>1, <2>2, <2>3
  <1>6. ASSUME NEW k \in 0 .. MaxDepth, k < MaxDepth, k \in T PROVE k + 1 \in T
    <2>1. After(d, S)[k + 1] = UNION {Below(d, p) : p \in After(d, S)[k]}
      BY <1>6, AfterIs
    <2>2. k + 1 \in 0 .. MaxDepth
      BY <1>1, <1>6
    <2>3. ASSUME NEW q \in After(d, S)[k + 1]
          PROVE  \E z \in h : z[1].node = q.node /\ z[2] =< k + 1
      <3>1. PICK p \in After(d, S)[k] : q \in Below(d, p)
        BY <2>1
      <3>2. PICK x \in h : x[1].node = p.node /\ x[2] =< k
        BY <1>6
      <3>3. p \in Places /\ x[1] \in Places /\ x[2] \in 0 .. MaxDepth
        BY <1>3, <1>4
      <3>4. PICK y \in Below(d, x[1]) : y.node = q.node
        BY <3>1, <3>2, <3>3, SameNodesBelow
      <3>5. x[2] < MaxDepth
        BY <1>1, <1>6, <3>2, <3>3
      <3>6. Reaches(d, h, y, x[2] + 1)
        BY <1>3, <3>5 DEF Closed
      <3>7. PICK z \in h : z[1].node = y.node /\ z[2] =< x[2] + 1
        BY <3>6 DEF Reaches
      <3>8. z[2] \in 0 .. MaxDepth
        BY <1>3
      <3>9. z[2] =< k + 1
        BY <1>1, <3>2, <3>3, <3>7, <3>8
      <3> QED BY <3>4, <3>7, <3>9
    <2> QED BY <2>2, <2>3
  <1>7. 0 .. MaxDepth \subseteq T
    <2> HIDE DEF T
    <2> QED BY <1>1, <1>5, <1>6, BoundedInduction
  <1>8. \A p \in LeadsTo(d, S) : \E q \in PlacesOf(h) : q.node = p.node
    BY <1>7 DEF LeadsTo, PlacesOf
  <1>9. PlacesOf(h) \subseteq LeadsTo(d, S)
    BY <1>1, <1>3 DEF Sound, LeadsTo, PlacesOf
  <1>10. RefIds(PlacesOf(h)) = RefIds(LeadsTo(d, S))
    <2>1. RefIds(LeadsTo(d, S)) \subseteq RefIds(PlacesOf(h))
      BY <1>8, RefIdsFewer
    <2>2. RefIds(PlacesOf(h)) \subseteq RefIds(LeadsTo(d, S))
      BY <1>9, RefIdsFewer
    <2> QED BY <2>1, <2>2
  <1> QED BY <1>3, <1>10 DEF Referenced, S

\* At the end of the second walk what is found is what the page holds.
LEMMA FoundIs ==
    ASSUME NEW d, IsDocument(d), NEW h, NEW found, NEW vis,
           Traversed(d, h, <<>>, "orphans", found, vis, {})
    PROVE  /\ found \subseteq TextsInDocument(d)
           /\ ~IsCyclic(d) => TextsInDocument(d) \subseteq found
PROOF
  <1> DEFINE S == Begin(d)
             T == {k \in 0 .. MaxDepth : \A p \in After(d, S)[k] : <<p, k>> \in h}
  <1>1. MaxDepth \in Nat
    BY OutlineAssumption
  <1>2. Met(h, <<>>) = h
    BY DEF Met, Members
  <1>3. /\ h \subseteq Places \X (0 .. MaxDepth) /\ Closed(d, h, h) /\ Sound(d, S, h)
        /\ found = TextsAt(PlacesOf(h))
    BY <1>2 DEF Traversed, Progress
  <1>4. \A p \in S : <<p, 0>> \in h
    <2>1. InOrphans(d, h, <<>>, {})
      BY DEF Traversed
    <2>2. ({0} \cup (DOMAIN d \ Referenced(d))) \ {} = {0} \cup (DOMAIN d \ Referenced(d))
      OBVIOUS
    <2> QED BY <1>2, <2>1, <2>2 DEF InOrphans, Begin
  <1>5. OnPage(d) = LeadsTo(d, S) /\ TextsInDocument(d) = TextsAt(OnPage(d))
    BY DEF OnPage, Begin, TextsInDocument, TextsAt
  <1> HIDE DEF S
  <1>6. PlacesOf(h) \subseteq OnPage(d)
    BY <1>1, <1>3, <1>5 DEF Sound, LeadsTo, PlacesOf
  <1>7. found \subseteq TextsInDocument(d)
    BY <1>3, <1>5, <1>6 DEF TextsAt
  <1>8. ASSUME ~IsCyclic(d) PROVE TextsInDocument(d) \subseteq found
    <2>1. 0 \in T
      BY <1>1, <1>4, AfterIs
    <2>2. ASSUME NEW k \in 0 .. MaxDepth, k < MaxDepth, k \in T PROVE k + 1 \in T
      <3>1. After(d, S)[k + 1] = UNION {Below(d, p) : p \in After(d, S)[k]}
        BY <2>2, AfterIs
      <3>2. k + 1 \in 0 .. MaxDepth
        BY <1>1, <2>2
      <3>3. ASSUME NEW q \in After(d, S)[k + 1] PROVE <<q, k + 1>> \in h
        <4>1. PICK p \in After(d, S)[k] : q \in Below(d, p)
          BY <3>1
        <4>2. <<p, k>> \in h
          BY <2>2
        <4>3. <<p, k>>[1] = p /\ <<p, k>>[2] = k
          OBVIOUS
        <4>4. Reaches(d, h, q, k + 1)
          BY <1>3, <2>2, <4>1, <4>2, <4>3 DEF Closed
        <4> QED BY <1>8, <4>4 DEF Reaches
      <3> QED BY <3>2, <3>3
    <2>3. 0 .. MaxDepth \subseteq T
      <3> HIDE DEF T
      <3> QED BY <1>1, <2>1, <2>2, BoundedInduction
    <2>4. OnPage(d) \subseteq PlacesOf(h)
      <3>1. ASSUME NEW k \in 0 .. MaxDepth, NEW p \in After(d, S)[k] PROVE p \in PlacesOf(h)
        <4>1. <<p, k>> \in h /\ <<p, k>>[1] = p
          BY <2>3
        <4> QED BY <4>1 DEF PlacesOf
      <3> QED BY <1>5, <3>1 DEF LeadsTo
    <2> QED BY <1>3, <1>5, <2>4 DEF TextsAt
  <1> QED BY <1>7, <1>8

-----------------------------------------------------------------------------
(* The walk finds what the page holds.                                     *)

Found == TextsInBlocks(blocks, DOMAIN blocks)

ContentInv ==
    /\ stage = "read" => Found = {} /\ visited = {} /\ todo = <<>>
    /\ stage \in {"walk", "orphans"} =>
          \E h : Traversed(doc, h, todo, stage, Found, visited, orphans)
    /\ stage \in {"collapse", "done"} =>
          /\ Found \subseteq TextsInDocument(doc)
          /\ ~IsCyclic(doc) => TextsInDocument(doc) \subseteq Found

\* What one place is.
LEMMA OnePlace ==
    ASSUME NEW p
    PROVE  /\ TextsAt({p}) = IF IsText(p) THEN {p.node.text} ELSE {}
           /\ p.node.form = "ref" => RefIds({p}) = {p.node.id}
           /\ p.node.form = "element" =>
                 RefIds({p}) = IF p.node.tag.form = "ref" THEN {p.node.tag.id} ELSE {}
           /\ p.node.form \notin {"ref", "element"} => RefIds({p}) = {}
PROOF
  <1>1. TextsAt({p}) = IF IsText(p) THEN {p.node.text} ELSE {}
    BY DEF TextsAt
  <1>2. p.node.form = "ref" => RefIds({p}) = {p.node.id}
    BY DEF RefIds
  <1>3. p.node.form = "element" =>
           RefIds({p}) = IF p.node.tag.form = "ref" THEN {p.node.tag.id} ELSE {}
    BY DEF RefIds
  <1>4. p.node.form \notin {"ref", "element"} => RefIds({p}) = {}
    BY DEF RefIds
  <1> QED BY <1>1, <1>2, <1>3, <1>4

LEMMA TextsChange ==
    ASSUME NEW o, NEW i \in DOMAIN o, NEW more, NEW q, DOMAIN q = DOMAIN o,
           ToSet(q[i].texts) = ToSet(o[i].texts) \cup more,
           \A j \in DOMAIN o : j # i => q[j].texts = o[j].texts
    PROVE  TextsInBlocks(q, DOMAIN q) = TextsInBlocks(o, DOMAIN o) \cup more
PROOF
  <1> DEFINE f == [j \in DOMAIN o |-> ToSet(o[j].texts)]
             g == [j \in DOMAIN o |-> ToSet(q[j].texts)]
  <1>1. \A j \in DOMAIN o : g[j] = IF j = i THEN f[j] \cup more ELSE f[j]
    OBVIOUS
  <1>2. /\ TextsInBlocks(q, DOMAIN q) = UNION {g[j] : j \in DOMAIN o}
        /\ TextsInBlocks(o, DOMAIN o) = UNION {f[j] : j \in DOMAIN o}
    BY DEF TextsInBlocks
  <1> DEFINE D == DOMAIN o
  <1> HIDE DEF f, g, D
  <1> HIDE NodesAssumption
  <1>3. UNION {g[j] : j \in D} = (UNION {f[j] : j \in D}) \cup more
    <2>1. i \in D /\ \A j \in D : g[j] = IF j = i THEN f[j] \cup more ELSE f[j]
      BY <1>1 DEF D
    <2>2. \A y \in UNION {g[j] : j \in D} : y \in (UNION {f[j] : j \in D}) \cup more
      BY <2>1
    <2>3. \A y \in UNION {f[j] : j \in D} : y \in UNION {g[j] : j \in D}
      BY <2>1
    <2>4. \A y \in more : y \in UNION {g[j] : j \in D}
      BY <2>1
    <2> QED BY <2>2, <2>3, <2>4
  <1> QED BY <1>2, <1>3 DEF D

LEMMA TextsGrow ==
    ASSUME NEW o, IsList(o), NEW b, b.texts = <<>>, NEW q, q = Append(o, b)
    PROVE  TextsInBlocks(q, DOMAIN q) = TextsInBlocks(o, DOMAIN o)
PROOF
  <1>1. /\ DOMAIN o = 1 .. Len(o) /\ Len(o) \in Nat /\ DOMAIN q = 1 .. Len(o) + 1
        /\ \A a \in DOMAIN o : q[a] = o[a]
        /\ q[Len(o) + 1] = b
    BY ListAppend
  <1>2. DOMAIN q = DOMAIN o \cup {Len(o) + 1}
    BY <1>1
  <1>3. ToSet(b.texts) = {}
    BY DEF ToSet
  <1> QED BY <1>1, <1>2, <1>3 DEF TextsInBlocks

\* The rows on the path while the walk goes on.
LEMMA PathIs ==
    ASSUME WalkInv, ContentInv, Walking
    PROVE  /\ stage = "walk" => path \subseteq visited
           /\ ~TooDeep => \A id \in path : IsModel(doc, id)
PROOF
  <1>1. PICK h : Traversed(doc, h, todo, stage, Found, visited, orphans)
    BY DEF ContentInv, Walking
  <1>2. Head(todo) \in Members(todo) /\ Head(todo).depth \in Nat /\ MaxDepth \in Nat
    <2>1. todo[1] = Head(todo) /\ 1 \in DOMAIN todo /\ Head(todo).depth \in Nat
      BY StackIs DEF Walking
    <2> QED BY <2>1, OutlineAssumption DEF Members
  <1>3. stage = "walk" => path \subseteq visited
    BY <1>1, <1>2 DEF Traversed, InWalk, path
  <1>4. OnPath(doc, Met(h, todo), Head(todo))
    BY <1>1, <1>2 DEF Traversed, Progress
  <1>5. ~TooDeep => Head(todo).depth =< MaxDepth
    BY <1>2 DEF TooDeep
  <1> QED BY <1>3, <1>4, <1>5 DEF OnPath, path

\* The visit at the top of the stack is left for those of new.
LEMMA ContentStep ==
    ASSUME WalkInv, ContentInv, Walking, NEW new \in Seq(Visits(doc)),
           todo' = new \o Tail(todo), UNCHANGED <<doc, stage, orphans>>,
           TooDeep => new = <<>> /\ Found' = Found /\ visited' = visited,
           ~TooDeep =>
               /\ LeftFor(doc, Head(todo), new)
               /\ Found' = Found \cup TextsAt({PlaceOf(Head(todo))})
               /\ stage = "walk" =>
                     /\ visited' = visited \cup (RefIds({PlaceOf(Head(todo))}) \cap DOMAIN doc)
                     /\ \A w \in Members(new) : w.path \subseteq path \cup visited'
    PROVE  ContentInv'
PROOF
  <1>1. PICK h : Traversed(doc, h, todo, stage, Found, visited, orphans)
    BY DEF ContentInv, Walking
  <1>2. /\ todo \in Seq(Visits(doc)) /\ todo # <<>> /\ Head(todo).depth \in Nat /\ MaxDepth \in Nat
        /\ stage \in {"walk", "orphans"}
    BY StackIs, OutlineAssumption DEF Walking, WalkInv
  <1>3. Head(todo).depth > MaxDepth => new = <<>> /\ Found' = Found /\ visited' = visited
    BY DEF TooDeep
  <1>4. Head(todo).depth =< MaxDepth =>
            /\ LeftFor(doc, Head(todo), new)
            /\ Found' = Found \cup TextsAt({PlaceOf(Head(todo))})
            /\ stage = "walk" =>
                  /\ visited' = visited \cup (RefIds({PlaceOf(Head(todo))}) \cap DOMAIN doc)
                  /\ \A w \in Members(new) : w.path \subseteq visited'
    <2>1. Head(todo).depth =< MaxDepth => ~TooDeep
      BY <1>2 DEF TooDeep
    <2>2. stage = "walk" => path \subseteq visited
      BY PathIs
    <2> QED BY <2>1, <2>2
  <1> DEFINE t == todo
             f == Found
             f2 == Found'
             vis == visited
             vis2 == visited'
             left == orphans
             d == doc
             w == stage
  <1>5. Traversed(d, Over(h, Head(t)), new \o Tail(t), w, f2, vis2, left)
    <2>1. /\ t \in Seq(Visits(d)) /\ t # <<>> /\ Traversed(d, h, t, w, f, vis, left)
          /\ Head(t).depth > MaxDepth => new = <<>> /\ f2 = f /\ vis2 = vis
          /\ Head(t).depth =< MaxDepth =>
                /\ LeftFor(d, Head(t), new)
                /\ f2 = f \cup TextsAt({PlaceOf(Head(t))})
                /\ w = "walk" =>
                      /\ vis2 = vis \cup (RefIds({PlaceOf(Head(t))}) \cap DOMAIN d)
                      /\ \A x \in Members(new) : x.path \subseteq vis2
      BY <1>1, <1>2, <1>3, <1>4
    <2>2. new \in Seq(Visits(d))
      OBVIOUS
    <2> HIDE DEF t, f, f2, vis, vis2, left, d, w
    <2> QED BY <2>1, <2>2, TraversedStep
  <1>6. Traversed(doc', Over(h, Head(todo)), todo', stage', Found', visited', orphans')
    BY <1>5
  <1> QED BY <1>2, <1>6 DEF ContentInv

\* A node that is left for the nodes below it.
LEMMA LeftForBelow ==
    ASSUME WalkInv, todo # <<>>, NEW nodes \in Seq(Visitable(Parts(node))), NEW i \in Nat,
           Members(nodes) = Below(doc, PlaceOf(Head(todo))), Then(nodes, i)
    PROVE  \E new \in Seq(Visits(doc)) :
              /\ todo' = new \o Tail(todo) /\ LeftFor(doc, Head(todo), new)
              /\ \A w \in Members(new) : w.path = path
PROOF
  <1> DEFINE v == Head(todo)
             new == [k \in DOMAIN nodes |->
                       Visit(nodes[k].node, i, path, v.depth + 1, nodes[k].mode)]
  <1>1. todo' = new \o Tail(todo)
    BY DEF Then
  <1>2. new \in Seq(Visits(doc))
    <2>1. IsDocument(doc) /\ Head(todo) \in Visits(doc)
      BY StackIs DEF WalkInv
    <2>2. new = [k \in DOMAIN nodes |->
                   Visit(nodes[k].node, i, v.path, v.depth + 1, nodes[k].mode)]
      BY DEF path
    <2>3. nodes \in Seq(Visitable(Parts(v.node)))
      BY DEF node
    <2> HIDE DEF new
    <2>4. new \in Seq(Visits(doc))
      BY <2>1, <2>2, <2>3, VisitInside
    <2> QED BY <2>4
  <1>3. ASSUME NEW k \in DOMAIN nodes
        PROVE  PlaceOf(new[k]) = nodes[k] /\ new[k].depth = v.depth + 1 /\ new[k].path = path
    <2>1. new[k].node = nodes[k].node /\ new[k].mode = nodes[k].mode
          /\ new[k].depth = v.depth + 1 /\ new[k].path = path
      BY DEF Visit
    <2>2. nodes[k] \in Visitable(Parts(node))
      OBVIOUS
    <2>3. nodes[k] = Place(nodes[k].node, nodes[k].mode)
      BY <2>2 DEF Visitable, Place
    <2> HIDE DEF new
    <2> QED BY <2>1, <2>3 DEF PlaceOf
  <1>4. DOMAIN new = DOMAIN nodes
    OBVIOUS
  <1> HIDE DEF new
  <1>5. ASSUME NEW w \in Members(new)
        PROVE  /\ PlaceOf(w) \in Below(doc, PlaceOf(v)) /\ w.depth = v.depth + 1
               /\ w.path = path
    <2>1. PICK k \in DOMAIN nodes : w = new[k]
      BY <1>4 DEF Members
    <2>2. nodes[k] \in Members(nodes)
      BY DEF Members
    <2> QED BY <1>3, <2>1, <2>2
  <1>6. ASSUME NEW q \in Below(doc, PlaceOf(v)) PROVE \E w \in Members(new) : PlaceOf(w) = q
    <2>1. PICK k \in DOMAIN nodes : q = nodes[k]
      BY DEF Members
    <2>2. new[k] \in Members(new)
      BY <1>4 DEF Members
    <2> QED BY <1>3, <2>1, <2>2
  <1>7. LeftFor(doc, v, new)
    <2>1. \A w \in Members(new) : w.path \ v.path = {}
      BY <1>5 DEF path
    <2> QED BY <1>5, <1>6, <2>1 DEF LeftFor
  <1> QED BY <1>1, <1>2, <1>5, <1>7

\* The visit at the top.
LEMMA TopIs ==
    ASSUME WalkInv, todo # <<>>
    PROVE  /\ PlaceOf(Head(todo)).node = node /\ PlaceOf(Head(todo)).mode = mode
           /\ RefIds({PlaceOf(Head(todo))}) =
                 IF node.form = "ref" THEN {node.id}
                 ELSE IF node.form = "element" /\ node.tag.form = "ref" THEN {node.tag.id}
                 ELSE {}
           /\ TextsAt({PlaceOf(Head(todo))}) =
                 IF node.form = "text" /\ mode # "none" THEN {node.text} ELSE {}
PROOF
  <1> DEFINE p == PlaceOf(Head(todo))
  <1>1. p.node = node /\ p.mode = mode
    <2>1. Head(todo) \in Visits(doc)
      BY StackIs
    <2> QED BY <2>1, VisitIs DEF node, mode
  <1> HIDE DEF p
  <1>2. IsText(p) <=> node.form = "text" /\ mode # "none"
    BY <1>1 DEF IsText
  <1>3. RefIds({p}) = IF node.form = "ref" THEN {node.id}
                      ELSE IF node.form = "element" /\ node.tag.form = "ref" THEN {node.tag.id}
                      ELSE {}
    BY <1>1, OnePlace
  <1>4. TextsAt({p}) = IF node.form = "text" /\ mode # "none" THEN {node.text} ELSE {}
    BY <1>1, <1>2, OnePlace
  <1> QED BY <1>1, <1>3, <1>4 DEF p

LEMMA ContentDrop ==
    ASSUME WalkInv, ContentInv, Drop
    PROVE  ContentInv'
PROOF
  <1> DEFINE v == Head(todo)
             p == PlaceOf(v)
  <1>1. /\ Walking /\ IsDropped /\ Then(<<>>, here) /\ todo # <<>>
        /\ UNCHANGED <<doc, stage, blocks, visited, orphans>> /\ Found' = Found
    BY DEF Drop, Walking, Found
  <1>2. todo' = <<>> \o Tail(todo)
    BY <1>1 DEF Then
  <1>3. /\ p.node = node /\ p.mode = mode
        /\ RefIds({p}) = IF node.form = "ref" THEN {node.id}
                         ELSE IF node.form = "element" /\ node.tag.form = "ref" THEN {node.tag.id}
                         ELSE {}
        /\ TextsAt({p}) = IF node.form = "text" /\ mode # "none" THEN {node.text} ELSE {}
    BY <1>1, TopIs
  <1>4. Members(<<>>) = {}
    BY DEF Members
  <1>5. ASSUME ~TooDeep
        PROVE  /\ LeftFor(doc, v, <<>>) /\ TextsAt({p}) = {}
               /\ stage = "walk" => RefIds({p}) \cap DOMAIN doc \subseteq visited
    <2>1. CASE node.form = "nothing" \/ (node.form = "text" /\ mode = "none")
      <3>1. Below(doc, p) = {} /\ TextsAt({p}) = {} /\ RefIds({p}) = {}
        BY <1>3, <2>1, BelowIs
      <3> HIDE DEF p
      <3> QED BY <1>4, <3>1 DEF LeftFor, p
    <2>2. CASE node.form = "ref" /\ ~Resolves(doc, node.id, path)
      <3>1. TextsAt({p}) = {} /\ RefIds({p}) = {node.id}
        BY <1>3, <2>2
      <3>2. CASE node.id \notin DOMAIN doc
        <4>1. Below(doc, p) = {}
          BY <1>3, <2>2, <3>2, BelowIs DEF IsModel
        <4>2. RefIds({p}) \cap DOMAIN doc = {}
          BY <3>1, <3>2
        <4> HIDE DEF p
        <4> QED BY <1>4, <3>1, <4>1, <4>2 DEF LeftFor, p
      <3>3. CASE node.id \in path
        <4>1. stage = "walk" => path \subseteq visited
          BY <1>1, PathIs
        <4>2. v.node.form = "ref" /\ v.node.id \in v.path
          BY <2>2, <3>3 DEF node, path
        <4> HIDE DEF p, v
        <4> QED BY <1>4, <3>1, <3>3, <4>1, <4>2 DEF LeftFor
      <3> QED BY <2>2, <3>2, <3>3 DEF Resolves
    <2>3. \/ node.form = "nothing"
          \/ node.form = "text" /\ mode = "none"
          \/ node.form = "ref" /\ ~Resolves(doc, node.id, path)
      BY <1>1, <1>5 DEF IsDropped
    <2> HIDE DEF p, v
    <2> QED BY <2>1, <2>2, <2>3
  <1>6. <<>> \in Seq(Visits(doc))
    OBVIOUS
  <1> QED BY <1>1, <1>2, <1>4, <1>5, <1>6, ContentStep

LEMMA ContentText ==
    ASSUME WalkInv, ContentInv, ReadText
    PROVE  ContentInv'
PROOF
  <1> DEFINE p == PlaceOf(Head(todo))
             old == blocks[here]
             x == Append(old.texts, node.text)
             y == IF mode = "heading" THEN Append(old.headings, node.text) ELSE old.headings
             b == [[old EXCEPT !.texts = x] EXCEPT !.headings = y]
  <1>1. /\ Walking /\ ~TooDeep /\ node.form = "text" /\ mode # "none" /\ Then(<<>>, here)
        /\ UNCHANGED <<doc, stage, visited, orphans>> /\ todo # <<>>
    BY DEF ReadText, At, Walking, IsDropped
  <1>2. here \in DOMAIN blocks /\ IsBlock(old)
    BY <1>1, StackIs DEF WalkInv, IsTree
  <1>3. blocks' = [blocks EXCEPT ![here] = b] /\ b.texts = x
    BY <1>2 DEF ReadText, IsBlock
  <1>4. ToSet(x) = ToSet(old.texts) \cup {node.text}
    <2>1. old.texts \in Seq(Members(old.texts) \cup {node.text})
      <3>1. \A T, U : T \subseteq U => Seq(T) \subseteq Seq(U)
        OBVIOUS
      <3>2. old.texts \in Seq(Members(old.texts))
        BY <1>2 DEF IsBlock, IsList
      <3> QED BY <3>1, <3>2
    <2> DEFINE T == Members(old.texts) \cup {node.text}
    <2>2. old.texts \in Seq(T) /\ node.text \in T
      BY <2>1
    <2> HIDE DEF T
    <2>3. Members(x) = Members(old.texts) \cup {node.text}
      BY <2>2, AppendMembers
    <2> QED BY <2>3, ToSetIs
  <1> HIDE DEF b, x
  <1>5. Found' = Found \cup {node.text}
    <2> DEFINE o == blocks
               q == blocks'
               at == here
               more == {node.text}
    <2>1. /\ at \in DOMAIN o /\ DOMAIN q = DOMAIN o
          /\ ToSet(q[at].texts) = ToSet(o[at].texts) \cup more
          /\ \A j \in DOMAIN o : j # at => q[j].texts = o[j].texts
      BY <1>2, <1>3, <1>4
    <2> HIDE DEF o, q, at, more
    <2> HIDE NodesAssumption
    <2>2. TextsInBlocks(q, DOMAIN q) = TextsInBlocks(o, DOMAIN o) \cup more
      BY <2>1, TextsChange
    <2> QED BY <2>2 DEF Found, o, q, more
  <1>6. RefIds({p}) = {} /\ TextsAt({p}) = {node.text} /\ p.node = node
    BY <1>1, TopIs
  <1>7. LeftFor(doc, Head(todo), <<>>)
    <2>1. Below(doc, p) = {}
      BY <1>1, <1>6, BelowIs
    <2> QED BY <2>1 DEF LeftFor, Members
  <1>8. <<>> \in Seq(Visits(doc)) /\ todo' = <<>> \o Tail(todo) /\ Members(<<>>) = {}
    BY <1>1 DEF Then, Members
  <1> QED BY <1>1, <1>5, <1>6, <1>7, <1>8, ContentStep

LEMMA ContentAttach ==
    ASSUME WalkInv, ContentInv, Attach
    PROVE  ContentInv'
PROOF
  <1> DEFINE p == PlaceOf(Head(todo))
             old == blocks[here]
             b1 == [old EXCEPT !.images = Append(@, node.token)]
             b2 == [old EXCEPT !.links = Append(@, node.url)]
  <1>1. /\ Walking /\ ~TooDeep /\ node.form \in {"image", "link"} /\ Then(<<>>, here)
        /\ UNCHANGED <<doc, stage, visited, orphans>> /\ todo # <<>>
    BY DEF Attach, At, Walking
  <1>2. here \in DOMAIN blocks /\ IsBlock(old)
    BY <1>1, StackIs DEF WalkInv, IsTree
  <1>3. /\ blocks' = [blocks EXCEPT ![here] = b1] \/ blocks' = [blocks EXCEPT ![here] = b2]
        /\ b1.texts = old.texts /\ b2.texts = old.texts
    BY <1>2 DEF Attach, IsBlock
  <1> HIDE DEF b1, b2
  <1>4. Found' = Found
    <2> DEFINE o == blocks
               q == blocks'
               at == here
               more == {}
    <2>1. /\ at \in DOMAIN o /\ DOMAIN q = DOMAIN o
          /\ ToSet(q[at].texts) = ToSet(o[at].texts) \cup more
          /\ \A j \in DOMAIN o : j # at => q[j].texts = o[j].texts
      BY <1>2, <1>3
    <2> HIDE DEF o, q, at, more
    <2> HIDE NodesAssumption
    <2>2. TextsInBlocks(q, DOMAIN q) = TextsInBlocks(o, DOMAIN o) \cup more
      BY <2>1, TextsChange
    <2> QED BY <2>2 DEF Found, o, q, more
  <1>5. RefIds({p}) = {} /\ TextsAt({p}) = {} /\ p.node = node
    BY <1>1, TopIs
  <1>6. LeftFor(doc, Head(todo), <<>>)
    <2>1. Below(doc, p) = {}
      BY <1>1, <1>5, BelowIs
    <2> QED BY <2>1 DEF LeftFor, Members
  <1>7. <<>> \in Seq(Visits(doc)) /\ todo' = <<>> \o Tail(todo) /\ Members(<<>>) = {}
    BY <1>1 DEF Then, Members
  <1> QED BY <1>1, <1>4, <1>5, <1>6, <1>7, ContentStep

LEMMA ContentEnter ==
    ASSUME WalkInv, ContentInv, Enter
    PROVE  ContentInv'
PROOF
  <1> DEFINE p == PlaceOf(Head(todo))
  <1>1. /\ Walking /\ ~TooDeep /\ node.form \in {"list", "object", "action"} /\ todo # <<>>
        /\ UNCHANGED <<doc, stage, blocks, visited, orphans>>
    BY DEF Enter, At, Walking
  <1>2. /\ node \in Nodes /\ mode \in Modes /\ here \in Nat /\ p.node = node /\ p.mode = mode
        /\ RefIds({p}) = {} /\ TextsAt({p}) = {}
    BY <1>1, StackIs, TopIs
  <1> HIDE DEF p
  <1>3. \E nodes \in Seq(Visitable(Parts(node))) :
           Then(nodes, here) /\ Members(nodes) = Below(doc, p)
    <2>1. CASE At("list") /\ Then(InMode(mode, node.items), here)
      <3>1. node.form = "list" /\ node.items \in Seq(Nodes)
        BY <1>2, <2>1 DEF At
      <3>2. node.items \in Seq(Parts(node))
        <4>1. Parts(node) = {node.items[k] : k \in DOMAIN node.items}
          BY <3>1 DEF Parts, ToSet
        <4> QED BY <3>1, <4>1
      <3>3. Members(InMode(mode, node.items)) = Below(doc, p)
        BY <1>2, <3>1, BelowIs
      <3> QED BY <1>2, <2>1, <3>2, <3>3, InModeIs
    <2>2. CASE At("object") /\ Then(InMode(mode, Content(node)), here)
      <3>1. node.form = "object" /\ node.props \in Seq(ToSet(node.props))
        BY <1>2, <2>2 DEF At
      <3>2. Parts(node) = ToSet(Content(node))
        BY <3>1 DEF Parts
      <3>3. Content(node) \in Seq(Parts(node))
        BY <3>1, <3>2, ContentIs
      <3>4. Members(InMode(mode, Content(node))) = Below(doc, p)
        BY <1>2, <3>1, BelowIs
      <3> QED BY <1>2, <2>2, <3>3, <3>4, InModeIs
    <2>3. CASE At("action") /\ Then(InMode(mode, node.slots), here)
      <3>1. node.form = "action" /\ node.slots \in Seq(Nodes)
        BY <1>2, <2>3 DEF At
      <3>2. node.slots \in Seq(Parts(node))
        <4>1. Parts(node) = {node.slots[k] : k \in DOMAIN node.slots}
          BY <3>1 DEF Parts, ToSet
        <4> QED BY <3>1, <4>1
      <3>3. Members(InMode(mode, node.slots)) = Below(doc, p)
        BY <1>2, <3>1, BelowIs
      <3> QED BY <1>2, <2>3, <3>2, <3>3, InModeIs
    <2> QED BY <2>1, <2>2, <2>3 DEF Enter
  <1>4. PICK new \in Seq(Visits(doc)) :
              /\ todo' = new \o Tail(todo) /\ LeftFor(doc, Head(todo), new)
              /\ \A w \in Members(new) : w.path = path
    BY <1>1, <1>2, <1>3, LeftForBelow DEF p
  <1>5. Found' = Found
    BY <1>1 DEF Found
  <1> QED BY <1>1, <1>2, <1>4, <1>5, ContentStep DEF p

LEMMA ContentElement ==
    ASSUME WalkInv, ContentInv, EnterElement
    PROVE  ContentInv'
PROOF
  <1> DEFINE p == PlaceOf(Head(todo))
             content == ElementContent(doc, node, mode, path)
             tag == node.tag
             b == NewBlock(blocks[here].level + 1, node.label)
             i == IF node.label # NoLabel THEN Len(blocks) + 1 ELSE here
  <1>1. /\ Walking /\ ~TooDeep /\ node.form = "element" /\ todo # <<>>
        /\ UNCHANGED <<doc, stage, orphans>> /\ Then(content, i)
        /\ visited' = visited \cup (IF TagResolves(doc, tag, path) THEN {tag.id} ELSE {})
        /\ blocks' = IF node.label # NoLabel THEN Append(blocks, b) ELSE blocks
    BY DEF EnterElement, At, Walking
  <1>2. /\ node \in Nodes /\ mode \in Modes /\ here \in Nat /\ p.node = node /\ p.mode = mode
        /\ RefIds({p}) = (IF tag.form = "ref" THEN {tag.id} ELSE {}) /\ TextsAt({p}) = {}
    BY <1>1, StackIs, TopIs
  <1>3. i \in Nat
    <2>1. Len(blocks) \in Nat
      BY TreeIs DEF WalkInv
    <2> QED BY <1>2, <2>1
  <1>4. Found' = Found
    <2>1. IsList(blocks) /\ b.texts = <<>>
      BY DEF WalkInv, IsTree, NewBlock
    <2> HIDE DEF b
    <2>2. CASE blocks' = Append(blocks, b)
      BY <2>1, <2>2, TextsGrow DEF Found
    <2>3. CASE blocks' = blocks
      BY <2>3 DEF Found
    <2> QED BY <1>1, <2>2, <2>3
  <1>5. Members(content) = Below(doc, p)
    <2>1. \A id \in path : IsModel(doc, id)
      BY <1>1, PathIs
    <2>2. TagName(doc, tag, path) = TagName(doc, tag, {})
      BY <2>1 DEF TagName, TagResolves, Resolves
    <2>3. content = ElementContent(doc, node, mode, {})
      BY <2>2 DEF ElementContent
    <2> HIDE DEF content, p
    <2> QED BY <1>1, <1>2, <2>3, BelowIs
  <1>6. content \in Seq(Visitable(Parts(node)))
    BY <1>1, <1>2, ElementContentIs
  <1> HIDE DEF content, i
  <1>7. PICK new \in Seq(Visits(doc)) :
              /\ todo' = new \o Tail(todo) /\ LeftFor(doc, Head(todo), new)
              /\ \A w \in Members(new) : w.path = path
    BY <1>1, <1>3, <1>5, <1>6, LeftForBelow
  <1>8. stage = "walk" => visited' = visited \cup (RefIds({p}) \cap DOMAIN doc)
    <2>1. stage = "walk" => path \subseteq visited
      BY <1>1, PathIs
    <2> HIDE DEF p, tag
    <2> QED BY <1>1, <1>2, <2>1 DEF TagResolves, Resolves
  <1> QED BY <1>1, <1>2, <1>4, <1>7, <1>8, ContentStep

LEMMA ContentFollow ==
    ASSUME WalkInv, ContentInv, Follow
    PROVE  ContentInv'
PROOF
  <1> DEFINE top == Head(todo)
             p == PlaceOf(top)
             id == node.id
             v == [top EXCEPT !.node = doc[id].value, !.path = @ \cup {id}, !.depth = @ + 1]
             new == IF IsModel(doc, id) THEN <<v>> ELSE <<>>
             W == Visits(doc)
  <1>1. /\ Walking /\ ~TooDeep /\ node.form = "ref" /\ todo # <<>> /\ id \in DOMAIN doc
        /\ UNCHANGED <<doc, stage, blocks, orphans>> /\ visited' = visited \cup {id}
        /\ todo' = new \o Tail(todo)
    BY DEF Follow, At, Walking, IsDropped, Resolves
  <1>2. /\ p.node = node /\ p.mode = mode /\ RefIds({p}) = {id} /\ TextsAt({p}) = {}
    BY <1>1, TopIs
  <1>3. Found' = Found
    BY <1>1 DEF Found
  <1>4. /\ v.node = doc[id].value /\ v.mode = mode /\ v.depth = top.depth + 1
        /\ v.path = path \cup {id}
    <2>1. top \in VisitSet(doc)
      BY <1>1, StackIs DEF Visits
    <2> QED BY <2>1 DEF VisitSet, mode, path
  <1>5. Below(doc, p) = IF IsModel(doc, id) THEN {Place(doc[id].value, mode)} ELSE {}
    BY <1>1, <1>2, BelowIs
  <1> HIDE DEF v, p
  <1>6. new \in Seq(W)
    <2>1. WalkInv'
      BY FollowStep
    <2>2. todo' \in Seq(W) /\ Tail(todo) \in Seq(W)
      BY <1>1, <2>1, StackIs DEF WalkInv
    <2>3. CASE IsModel(doc, id)
      <3>1. <<v>> \o Tail(todo) \in Seq(W)
        BY <1>1, <2>2, <2>3
      <3> HIDE DEF W
      <3> DEFINE T == W \cup {v}
      <3>2. \A T1, T2 : T1 \subseteq T2 => Seq(T1) \subseteq Seq(T2)
        OBVIOUS
      <3>3. <<v>> \in Seq(T) /\ Tail(todo) \in Seq(T)
        BY <2>2, <3>2
      <3> HIDE DEF T
      <3>4. Members(<<v>> \o Tail(todo)) = Members(<<v>>) \cup Members(Tail(todo))
        BY <3>3, ConcatMembers
      <3>5. v \in Members(<<v>>)
        <4>1. DOMAIN <<v>> = {1} /\ <<v>>[1] = v
          OBVIOUS
        <4> QED BY <4>1 DEF Members
      <3>6. v \in W
        <4>1. Members(<<v>> \o Tail(todo)) \subseteq W
          BY <3>1 DEF Members
        <4> QED BY <3>4, <3>5, <4>1
      <3> QED BY <2>3, <3>6
    <2>4. CASE ~IsModel(doc, id)
      BY <2>4
    <2> QED BY <2>3, <2>4
  <1>7. /\ IsModel(doc, id) => Members(new) = {v}
        /\ ~IsModel(doc, id) => Members(new) = {}
    <2>1. DOMAIN <<v>> = {1} /\ <<v>>[1] = v /\ DOMAIN <<>> = {}
      OBVIOUS
    <2> QED BY <2>1 DEF Members
  <1> HIDE DEF new
  <1>8. LeftFor(doc, top, new)
    <2>1. IsModel(doc, id) => PlaceOf(v) = Place(doc[id].value, mode)
      BY <1>4 DEF PlaceOf
    <2>2. \A w \in Members(new) :
             /\ PlaceOf(w) \in Below(doc, p) /\ w.depth = top.depth + 1
             /\ \A i \in w.path \ top.path : IsModel(doc, i) /\ w.node = doc[i].value
      BY <1>4, <1>5, <1>7, <2>1 DEF path
    <2>3. \A q \in Below(doc, p) : \E w \in Members(new) : PlaceOf(w) = q
      BY <1>5, <1>7, <2>1
    <2> QED BY <2>2, <2>3 DEF LeftFor, p
  <1>9. /\ visited' = visited \cup (RefIds({p}) \cap DOMAIN doc)
        /\ \A w \in Members(new) : w.path \subseteq path \cup visited'
    BY <1>1, <1>2, <1>4, <1>7
  <1> QED BY <1>1, <1>2, <1>3, <1>6, <1>8, <1>9, ContentStep DEF p

\* Where the walks begin.
LEMMA ContentInit == Init => ContentInv
PROOF
  <1> SUFFICES ASSUME Init PROVE ContentInv
    OBVIOUS
  <1>1. DOMAIN blocks = {1} /\ blocks[1].texts = <<>> /\ stage = "read" /\ visited = {}
        /\ todo = <<>>
    BY DEF Init, NewBlock
  <1>2. Found = {}
    <2>1. ToSet(<<>>) = {}
      BY DEF ToSet
    <2> QED BY <1>1, <2>1 DEF Found, TextsInBlocks
  <1> QED BY <1>1, <1>2 DEF ContentInv

LEMMA OneVisit ==
    ASSUME NEW v, NEW h
    PROVE  /\ Members(<<v>>) = {v} /\ Members(<<>>) = {}
           /\ Met(h, <<v>>) = h \cup {Pair(v)} /\ Met(h, <<>>) = h
PROOF
  <1>1. Members(<<v>>) = {v} /\ Members(<<>>) = {}
    <2>1. DOMAIN <<v>> = {1} /\ <<v>>[1] = v /\ DOMAIN <<>> = {}
      OBVIOUS
    <2> QED BY <2>1 DEF Members
  <1> QED BY <1>1 DEF Met

\* A visit of a row from which a walk starts.
LEMMA ComesIn ==
    ASSUME NEW d, NEW id, IsModel(d, id), NEW h, Progress(d, h, <<>>), NEW v,
           v.path \in {{}, {id}}, Pair(v) = <<Place(d[id].value, "none"), 0>>,
           Place(d[id].value, "none") \in Begin(d)
    PROVE  Progress(d, h, <<v>>)
PROOF
  <1> DEFINE x == Pair(v)
  <1>1. v.depth = 0 /\ PlaceOf(v) = Place(d[id].value, "none")
    BY DEF Pair
  <1>2. Members(<<v>>) = {v} /\ Members(<<>>) = {}
    BY OneVisit
  <1>3. Met(h, <<v>>) = h \cup {x} /\ Met(h, <<>>) = h
    BY OneVisit
  <1>5. x[1] = Place(d[id].value, "none") /\ x[2] = 0 /\ MaxDepth \in Nat
        /\ x[1].node = d[id].value
    BY OutlineAssumption DEF Place
  <1> HIDE DEF x
  <1>4. /\ h \subseteq Places \X (0 .. MaxDepth) /\ Sound(d, Begin(d), h) /\ Closed(d, h, h)
    BY <1>3 DEF Progress
  <1>6. Sound(d, Begin(d), h \cup {x})
    <2>1. x[1] \in After(d, Begin(d))[x[2]]
      BY <1>5, AfterIs
    <2> QED BY <1>4, <2>1 DEF Sound
  <1>7. Closed(d, h, h \cup {x})
    BY <1>4 DEF Closed, Reaches
  <1>8. OnPath(d, h \cup {x}, v)
    <2> SUFFICES ASSUME NEW i \in v.path
                 PROVE  /\ IsModel(d, i)
                        /\ \E y \in h \cup {x} : y[1].node = d[i].value /\ y[2] =< v.depth
                        /\ \E m \in Modes : \E k \in 0 .. v.depth :
                              PlaceOf(v) \in After(d, {Place(d[i].value, m)})[k]
      BY DEF OnPath
    <2>1. i = id
      OBVIOUS
    <2>2. x \in h \cup {x} /\ x[1].node = d[i].value /\ x[2] =< v.depth
      BY <1>1, <1>5, <2>1
    <2>3. PlaceOf(v) \in After(d, {Place(d[i].value, "none")})[0]
      BY <1>1, <2>1, AfterIs
    <2>4. "none" \in Modes /\ 0 \in 0 .. v.depth
      BY <1>1 DEF Modes
    <2> QED BY <2>1, <2>2, <2>3, <2>4
  <1> QED BY <1>2, <1>3, <1>4, <1>6, <1>7, <1>8 DEF Progress

LEMMA ContentRead ==
    ASSUME WalkInv, ContentInv, Read
    PROVE  ContentInv'
PROOF
  <1> DEFINE d == ParseDocument(stream)
             v == Visit(d[0].value, 1, {}, 0, "none")
             t == IF IsModel(d, 0) THEN <<v>> ELSE <<>>
  <1>1. /\ doc' = d /\ stage' \in {"notFlight", "walk"} /\ stage = "read"
        /\ todo' = t /\ UNCHANGED <<blocks, visited, orphans>>
    BY DEF Read
  <1>2. Found' = {} /\ visited' = {}
    BY <1>1 DEF ContentInv, Found
  <1>3. IsDocument(d)
    BY DocumentIs DEF WalkInv
  <1> HIDE DEF d
  <1>4. PlacesOf({}) = {} /\ TextsAt({}) = {} /\ RefIds({}) = {} /\ Members(<<>>) = {}
    BY DEF PlacesOf, TextsAt, RefIds, Members
  <1>5. Progress(d, {}, <<>>)
    BY <1>4 DEF Progress, Sound, Closed, Met
  <1>6. Start(d, {0}) = IF IsModel(d, 0) THEN {Place(d[0].value, "none")} ELSE {}
    BY DEF Start
  <1>7. Progress(d, {}, t) /\ InWalk(d, {}, t, {})
    <2>1. CASE IsModel(d, 0)
      <3>1. Place(d[0].value, "none") \in Begin(d)
        BY <2>1 DEF Begin, Start
      <3>3. v.path = {} /\ Pair(v) = <<Place(d[0].value, "none"), 0>>
        BY DEF Visit, Pair, PlaceOf, Place
      <3> HIDE DEF v
      <3> DEFINE x == <<Place(d[0].value, "none"), 0>>
      <3>4. x[1] = Place(d[0].value, "none") /\ x[2] = 0
        OBVIOUS
      <3> HIDE DEF x
      <3>5. Met({}, <<v>>) = {x} /\ Members(<<v>>) = {v}
        <4>1. /\ Met({}, <<v>>) = {} \cup {Pair(v)} /\ Members(<<v>>) = {v}
          BY OneVisit
        <4>2. Pair(v) = x
          BY <3>3 DEF x
        <4> QED BY <4>1, <4>2
      <3>6. Sound(d, Start(d, {0}), {x})
        BY <1>6, <2>1, <3>4, AfterIs DEF Sound
      <3>7. InWalk(d, {}, <<v>>, {})
        BY <1>4, <1>6, <2>1, <3>3, <3>5, <3>6 DEF InWalk, x
      <3>8. Progress(d, {}, <<v>>)
        BY <1>5, <2>1, <3>1, <3>3, ComesIn
      <3> QED BY <2>1, <3>7, <3>8
    <2>2. CASE ~IsModel(d, 0)
      BY <1>4, <1>5, <1>6, <2>2 DEF InWalk, Sound, Met
    <2> QED BY <2>1, <2>2
  <1>8. \A left : Traversed(d, {}, t, "walk", {}, {}, left)
    BY <1>4, <1>7 DEF Traversed
  <1> HIDE DEF t
  <1>9. stage' = "walk" => Traversed(doc', {}, todo', stage', Found', visited', orphans')
    BY <1>1, <1>2, <1>8
  <1> QED BY <1>1, <1>9 DEF ContentInv

\* The rows of the second walk.
Parked(d) == {id \in DOMAIN d \ {0} : IsModel(d, id) /\ id \notin Referenced(d)}

LEMMA ContentOrphans ==
    ASSUME WalkInv, ContentInv, WalkOrphans
    PROVE  ContentInv' /\ orphans' = Parked(doc)
PROOF
  <1> DEFINE d == doc
  <1>1. /\ stage = "walk" /\ todo = <<>> /\ stage' = "orphans" /\ orphans' = Unreached
        /\ UNCHANGED <<doc, todo, blocks, visited>>
    BY DEF WalkOrphans
  <1>2. PICK h : Traversed(d, h, <<>>, "walk", Found, visited, orphans)
    BY <1>1 DEF ContentInv
  <1>3. visited = Referenced(d) \cap DOMAIN d
    BY <1>2, VisitedIs DEF WalkInv
  <1>4. Unreached = Parked(d)
    BY <1>3 DEF Unreached, Parked
  <1>5. Found' = Found
    BY <1>1 DEF Found
  <1> HIDE DEF d
  <1>6. Start(d, ({0} \cup (DOMAIN d \ Referenced(d))) \ Parked(d)) \subseteq Start(d, {0})
    <2>1. \A id \in ({0} \cup (DOMAIN d \ Referenced(d))) \ Parked(d) : IsModel(d, id) => id = 0
      BY DEF Parked
    <2> QED BY <2>1 DEF Start
  <1>7. InOrphans(d, h, <<>>, Parked(d))
    <2>1. Parked(d) \subseteq DOMAIN d \ Referenced(d)
      BY DEF Parked
    <2>2. \A p \in Start(d, {0}) : <<p, 0>> \in Met(h, <<>>)
      BY <1>2 DEF Traversed, InWalk
    <2> QED BY <1>6, <2>1, <2>2 DEF InOrphans
  <1>8. Traversed(d, h, <<>>, "orphans", Found, visited, Parked(d))
    BY <1>2, <1>7 DEF Traversed
  <1>9. Traversed(doc', h, todo', stage', Found', visited', orphans')
    BY <1>1, <1>4, <1>5, <1>8 DEF d
  <1> QED BY <1>1, <1>4, <1>9 DEF ContentInv, d

LEMMA ContentNext ==
    ASSUME WalkInv, ContentInv, NextOrphan
    PROVE  ContentInv'
PROOF
  <1> DEFINE d == doc
             left == orphans
  <1>1. stage = "orphans" /\ todo = <<>> /\ UNCHANGED <<doc, stage, blocks, visited>>
    BY DEF NextOrphan
  <1>2. PICK id \in orphans :
             /\ todo' = <<Visit(doc[id].value, 1, {id}, 0, "none")>>
             /\ orphans' = orphans \ {id}
    BY DEF NextOrphan
  <1>3. PICK h : Traversed(d, h, <<>>, "orphans", Found, visited, left)
    BY <1>1 DEF ContentInv
  <1> DEFINE v == Visit(d[id].value, 1, {id}, 0, "none")
             x == <<Place(d[id].value, "none"), 0>>
  <1>4. IsModel(d, id) /\ id \in left
    BY DEF WalkInv
  <1>5. Found' = Found /\ todo' = <<v>> /\ orphans' = left \ {id}
    BY <1>1, <1>2 DEF Found
  <1>6. v.path = {id} /\ Pair(v) = x
    BY DEF Visit, Pair, PlaceOf, Place
  <1> HIDE DEF d, left, v
  <1>7. Progress(d, h, <<>>) /\ InOrphans(d, h, <<>>, left) /\ Found = TextsAt(PlacesOf(h))
    BY <1>3 DEF Traversed
  <1>8. Place(d[id].value, "none") \in Begin(d)
    BY <1>4, <1>7 DEF Begin, Start, InOrphans
  <1>9. Progress(d, h, <<v>>)
    BY <1>4, <1>6, <1>7, <1>8, ComesIn
  <1>10. InOrphans(d, h, <<v>>, left \ {id})
    <2> DEFINE R == {0} \cup (DOMAIN d \ Referenced(d))
    <2>1. Met(h, <<v>>) = Met(h, <<>>) \cup {x}
      BY <1>6, OneVisit
    <2>2. /\ left \subseteq DOMAIN d \ Referenced(d)
          /\ \A p \in Start(d, R \ left) : <<p, 0>> \in Met(h, <<>>)
      BY <1>7 DEF InOrphans
    <2>3. Start(d, R \ (left \ {id})) \subseteq Start(d, R \ left) \cup {Place(d[id].value, "none")}
      BY DEF Start
    <2>4. \A p \in Start(d, R \ (left \ {id})) : <<p, 0>> \in Met(h, <<v>>)
      BY <2>1, <2>2, <2>3
    <2> QED BY <2>2, <2>4 DEF InOrphans
  <1>11. Traversed(d, h, <<v>>, "orphans", Found, visited, left \ {id})
    BY <1>7, <1>9, <1>10 DEF Traversed
  <1>12. Traversed(doc', h, todo', stage', Found', visited', orphans')
    BY <1>1, <1>5, <1>11 DEF d
  <1> QED BY <1>1, <1>12 DEF ContentInv

LEMMA ContentNextStep == WalkInv /\ ContentInv /\ [Next]_vars => ContentInv'
PROOF
  <1> SUFFICES ASSUME WalkInv, ContentInv, [Next]_vars PROVE ContentInv'
    OBVIOUS
  <1>1. CASE Read
    BY <1>1, ContentRead
  <1>2. CASE Drop
    BY <1>2, ContentDrop
  <1>3. CASE ReadText
    BY <1>3, ContentText
  <1>4. CASE Follow
    BY <1>4, ContentFollow
  <1>5. CASE Enter
    BY <1>5, ContentEnter
  <1>6. CASE EnterElement
    BY <1>6, ContentElement
  <1>7. CASE Attach
    BY <1>7, ContentAttach
  <1>8. CASE WalkOrphans
    BY <1>8, ContentOrphans
  <1>9. CASE NextOrphan
    BY <1>9, ContentNext
  <1>10. CASE Dedupe
    <2>1. /\ stage = "orphans" /\ todo = <<>> /\ orphans = {} /\ stage' = "collapse"
          /\ UNCHANGED <<doc, blocks>>
      BY <1>10 DEF Dedupe, walkVars
    <2>2. PICK h : Traversed(doc, h, <<>>, "orphans", Found, visited, {})
      BY <2>1 DEF ContentInv
    <2>3. /\ Found \subseteq TextsInDocument(doc)
          /\ ~IsCyclic(doc) => TextsInDocument(doc) \subseteq Found
      BY <2>2, FoundIs DEF WalkInv
    <2>4. Found' = Found
      BY <2>1 DEF Found
    <2> QED BY <2>1, <2>3, <2>4 DEF ContentInv
  <1>11. CASE Collapse \/ Collapsed
    <2>1. stage = "collapse" /\ stage' \in {"collapse", "done"} /\ UNCHANGED <<doc, blocks>>
      BY <1>11 DEF Collapse, Collapsed, walkVars
    <2>2. Found' = Found
      BY <2>1 DEF Found
    <2> QED BY <2>1, <2>2 DEF ContentInv
  <1>12. CASE UNCHANGED vars
    <2>1. UNCHANGED <<doc, stage, todo, blocks, visited, orphans>>
      BY <1>12 DEF vars, walkVars
    <2>2. Found' = Found
      BY <2>1 DEF Found
    <2> QED BY <2>1, <2>2 DEF ContentInv
  <1> QED BY <1>1, <1>2, <1>3, <1>4, <1>5, <1>6, <1>7, <1>8, <1>9, <1>10, <1>11, <1>12 DEF Next

LEMMA ContentInvariant == Spec => [](WalkInv /\ ContentInv)
PROOF
  <1>1. Init => WalkInv /\ ContentInv
    BY WalkInit, ContentInit
  <1>2. (WalkInv /\ ContentInv) /\ [Next]_vars => (WalkInv /\ ContentInv)'
    BY WalkStep, ContentNextStep
  <1> QED BY <1>1, <1>2, PTL DEF Spec

\* What the walk has read when it ends is the text of the page: nothing that is no
\* text, whatever the references of the document, and all of it when no row leads
\* back to itself (BuildOutline, descend, descendString, Deref).
THEOREM PageTextIsFound == Spec => []ContentIsFound
PROOF
  <1>1. ContentInv => ContentIsFound
    BY DEF ContentInv, ContentIsFound, Found
  <1> QED BY <1>1, ContentInvariant, PTL

\* The second walk takes the rows that row 0 does not lead to within MaxDepth steps,
\* and no other: although the first cuts a row on its own path, what it has visited
\* when it ends are just the rows that are referred to (BuildOutline, the rows parked
\* outside the tree).
THEOREM ParkedRowsAreWalked == Spec => [][WalkOrphans => orphans' = Parked(doc)]_vars
PROOF
  <1>1. WalkInv /\ ContentInv /\ [Next]_vars => [WalkOrphans => orphans' = Parked(doc)]_vars
    BY ContentOrphans
  <1> QED BY <1>1, ContentInvariant, PTL DEF Spec
=============================================================================
