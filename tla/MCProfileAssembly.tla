------------------------- MODULE MCProfileAssembly --------------------------
(***************************************************************************)
(* Two families of fetches.  In the first the shell and two cards meet:    *)
(* they were fetched, are garbage or could not be fetched, and a card that *)
(* parsed holds a section, the first card up to two.  In the second one    *)
(* card holds one section, and the blocks inside it have every shape up to *)
(* four blocks.                                                            *)
(***************************************************************************)
EXTENDS ProfileAssembly

CONSTANTS x, y, typedX, noise, heading, detail  \* lines

TwoCards == <<"above", "below">>

Noise    == {noise}
Headings == {heading}
Details  == {detail}
Bare     == [line \in {x, y, typedX, noise, heading, detail} |->
                 IF line = typedX THEN x ELSE line]

Block(level, key, texts) ==
    [level |-> level, key |-> key, chrome |-> FALSE, texts |-> texts]

Root == Block(0, NoKey, <<>>)
Parsed(sections) == [ok |-> TRUE, blocks |-> <<Root>> \o sections]
Garbage == [ok |-> FALSE, blocks |-> NoOutline]

\* A card inside an outer block of the same section; rows in a wrapper; one
\* flat list; tabs of their own for the interests.
Sections1 ==
    {<<Block(1, "about", <<heading>>)>>,
     <<Block(1, "about", <<heading, x>>)>>,
     <<Block(1, "featured", <<x>>)>>,
     <<Block(1, "experience", <<heading>>)>>,
     <<Block(1, "experience", <<heading, x, y>>)>>,
     <<Block(1, "experience", <<>>), Block(2, "experience", <<heading>>),
       Block(3, NoKey, <<y>>), Block(3, NoKey, <<x>>), Block(3, NoKey, <<y>>)>>,
     <<Block(1, "education", <<heading>>), Block(2, NoKey, <<noise>>),
       Block(3, NoKey, <<x>>), Block(3, NoKey, <<y>>)>>,
     <<Block(1, "interests", <<typedX>>), Block(1, "interests", <<x>>)>>,
     <<Block(1, "skills", <<noise, detail, x, detail, y, x>>)>>,
     <<Block(1, "languages", <<heading>>), Block(2, NoKey, <<y, x>>)>>}

OneSection  == {Garbage, Parsed(<<>>)} \cup {Parsed(s) : s \in Sections1}
TwoSections == OneSection \cup {Parsed(s \o t) : s, t \in Sections1}

\* The shell renders the top card, and an interests card without entries.
ShellCard == Parsed(<<Block(1, NoKey, <<x>>), Block(1, "interests", <<heading>>)>>)

Fetch(answer) ==
    [cards  |-> (Shell :> ShellCard) @@ answer,
     failed |-> ToSet(CardOrder) \ DOMAIN answer]

\* The levels of n blocks inside a block at level one.
Shapes(n) ==
    {s \in [1 .. n -> 2 .. (n + 1)] :
        \A k \in 1 .. n : s[k] =< (IF k = 1 THEN 1 ELSE s[k - 1]) + 1}

Filled(n, texts, chrome) ==
    {[k \in 1 .. n |-> [level |-> s[k], key |-> NoKey, chrome |-> c[k], texts |-> t[k]]] :
        s \in Shapes(n), t \in [1 .. n -> texts], c \in [1 .. n -> chrome]}

Inside == Filled(3, {<<>>, <<x>>, <<y, x>>, <<noise>>}, BOOLEAN)
             \cup Filled(4, {<<>>, <<x>>, <<y, x>>}, {FALSE})

ManyFetches ==
    {Fetch("above" :> a @@ "below" :> b) : a \in TwoSections, b \in OneSection}
    \cup {Fetch(c :> a) : c \in ToSet(CardOrder), a \in OneSection}
    \cup {Fetch(<<>>)}
    \cup {Fetch("above" :> Parsed(<<Block(1, "experience", <<y>>)>> \o inside)) :
             inside \in Inside}
=============================================================================
