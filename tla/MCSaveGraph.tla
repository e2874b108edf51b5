----------------------------- MODULE MCSaveGraph -----------------------------
(***************************************************************************)
(* Small graphs for module SaveGraph: one, two or six factbases, so that   *)
(* quarters are empty, of one factbase and of three, with and without      *)
(* qualities, with a quality twice, with a link whose value is in the      *)
(* upper half of the Keyvalue and with no fact at all; and up to four      *)
(* edges of three classes, so that a half is empty, of one and of two.     *)
(***************************************************************************)
EXTENDS SaveGraph

Strings == << "a", "b", "c" >>

\* Two qualities and three links, the last of them out of range.
Word1 == EncodeQuality(Strings, 0, "a", "b")
Word2 == EncodeQuality(Strings, 1, "a", "b")
Link  == EncodeTopology(Strings, 0, 1, BIDIRECTION, "a", "b")
Far   == EncodeTopology(Strings, 0, 1, BIDIRECTION, "a", "c")

Item(quals, topos) == [quals |-> quals, topos |-> topos]

Full == Item(<< Word1, Word2 >>, << Link >>)

Kinds ==
  {Full, Item(<< Word1 >>, << Far >>), Item(<< >>, << Link >>),
   Item(<< >>, << >>), Item(<< Word1, Word1 >>, << >>)}

\* The factbases of the last quarter vary, and one that has one of its own.
ItemLists ==
  {<< Full >>}
    \cup {<< Full, a >> : a \in Kinds}
    \cup {<< Full, a, Full, b, c, Full >> : a \in {Full, Item(<< >>, << Link >>)},
                                            b \in Kinds, c \in Kinds}

Edge(from, to, exploit, perm) ==
  [from |-> from, to |-> to, exploit |-> exploit, perm |-> perm]

EdgeLists ==
  LET a == Edge(0, 1, 0, << 0 >>)
      alike == Edge(0, 1, 0, << 1 >>)
      b == Edge(1, 0, 1, << 0, 1 >>)
      c == Edge(0, 1, 1, << 1, 1 >>)
  IN  {<< a >>, << a, alike, b >>, << a, b, c, alike >>}

\* Only a graph of one state has no edge.  What is drawn does not depend on the
\* items.
MCGraphs ==
  LET graph_of(items, edges, draw) ==
        [items |-> items, edges |-> edges, strings |-> Strings, should_graph |-> draw]
  IN  {graph_of(<< Full >>, << >>, TRUE)}
        \cup {graph_of(<< Full, Full >>, edges, TRUE) : edges \in EdgeLists}
        \cup {graph_of(items, edges, FALSE) :
                items \in ItemLists \ {<< Full >>}, edges \in EdgeLists}

=============================================================================
