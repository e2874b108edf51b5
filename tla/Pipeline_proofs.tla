---------------------------- MODULE Pipeline_proofs ----------------------------
(***************************************************************************)
(* The way of a graph through the database and back, for every model and   *)
(* all widths of the fields.  Four parts: how a fact comes through its     *)
(* encoding; why what is saved is a graph that SaveGraph_proofs is about;  *)
(* what the rows of a factbase are, read at any moment of the saving; and  *)
(* the invariant of the composition, PInv.                                 *)
(*                                                                         *)
(* PInv has the invariants of the generator and of the saving in it, and   *)
(* relates the decoder to both: once it has the strings, which are saved   *)
(* last, they are the model's, no state or item can be added any more, and *)
(* what it has printed is what the items of the states say.                *)
(***************************************************************************)
EXTENDS Pipeline, AGGen_proofs

-----------------------------------------------------------------------------
(* The way of a fact through its encoding.                                 *)

LEMMA LowerHalf ==
  ASSUME NEW span \in Nat \ {0}, NEW n \in Nat, n < span \div 2
  PROVE  Decoder!Signed(n % span, span) = n
<1>1. n % span = n
  OBVIOUS
<1> QED
  BY <1>1 DEF Decoder!Signed

LEMMA UpperHalf ==
  ASSUME NEW span \in Nat \ {0}, NEW n \in Nat, span \div 2 <= n, n < span
  PROVE  Decoder!Signed(n % span, span) < 0
<1>1. n % span = n
  BY FieldKept
<1> QED
  BY <1>1 DEF Decoder!Signed

\* The bit-fields of a fresh fact that fits, as the decoder reads them.
LEMMA QualityDecoded ==
  ASSUME NEW strings \in Seq(STRING), NEW asset \in Nat, NEW name, NEW value,
         Known(strings, name), Known(strings, value),
         asset < AssetSpan \div 2,
         KeyvalueAt(strings, name) < AttrSpan \div 2,
         KeyvalueAt(strings, value) < ValueSpan \div 2
  PROVE  Decoder!DecodedQuality(EncodeQuality(strings, asset, name, value))
           = [asset |-> asset, attr |-> KeyvalueAt(strings, name),
              val |-> KeyvalueAt(strings, value)]
<1> DEFINE w == EncodeQuality(strings, asset, name, value)
<1>1. /\ w[1] = asset % AssetSpan
      /\ w[2] = KeyvalueAt(strings, name) % AttrSpan
      /\ w[3] = KeyvalueAt(strings, value) % ValueSpan
  BY DEF EncodeQuality
<1>2. Decoder!Signed(w[1], AssetSpan) = asset
  BY <1>1, LowerHalf, SpanAssumption
<1>3. Decoder!Signed(w[2], AttrSpan) = KeyvalueAt(strings, name)
  BY <1>1, LowerHalf, KeyvalueAtNat, SpanAssumption
<1>4. Decoder!Signed(w[3], ValueSpan) = KeyvalueAt(strings, value)
  BY <1>1, LowerHalf, KeyvalueAtNat, SpanAssumption
<1> HIDE DEF w
<1> QED
  BY <1>2, <1>3, <1>4 DEF Decoder!DecodedQuality, w

LEMMA TopologyDecoded ==
  ASSUME NEW strings \in Seq(STRING), NEW from \in Nat, NEW to \in Nat,
         NEW dir \in Directions, NEW property, NEW value,
         Known(strings, property), Known(strings, value),
         from < AssetSpan \div 2, to < AssetSpan \div 2,
         KeyvalueAt(strings, property) < PropSpan \div 2,
         KeyvalueAt(strings, value) < ValueSpan \div 2
  PROVE  Decoder!DecodedTopology(EncodeTopology(strings, from, to, dir, property, value))
           = [from_asset |-> from, to_asset |-> to,
              property |-> KeyvalueAt(strings, property),
              value |-> KeyvalueAt(strings, value)]
<1> DEFINE w == EncodeTopology(strings, from, to, dir, property, value)
<1>1. /\ w[1] = from % AssetSpan
      /\ w[2] = to % AssetSpan
      /\ w[3] = dir + 4 * (KeyvalueAt(strings, property) % PropSpan)
      /\ w[4] = KeyvalueAt(strings, value) % ValueSpan
  BY DEF EncodeTopology
<1>2. /\ Decoder!Signed(w[1], AssetSpan) = from
      /\ Decoder!Signed(w[2], AssetSpan) = to
  BY <1>1, LowerHalf, SpanAssumption
<1>3. Decoder!Signed((w[3] \div 4) % PropSpan, PropSpan) = KeyvalueAt(strings, property)
  <2> DEFINE n == KeyvalueAt(strings, property)
  <2>1. n \in Nat
    BY KeyvalueAtNat
  <2>2. ASSUME NEW m \in Nat
        PROVE  ((dir + 4 * (m % PropSpan)) \div 4) % PropSpan = m % PropSpan
    BY PropertyFieldKept, SpanAssumption
  <2>3. w[3] = dir + 4 * (n % PropSpan)
    BY <1>1
  <2> HIDE DEF w, n
  <2>4. (w[3] \div 4) % PropSpan = n % PropSpan
    BY <2>1, <2>2, <2>3
  <2> QED
    BY <2>1, <2>4, LowerHalf, SpanAssumption DEF n
<1>4. Decoder!Signed(w[4], ValueSpan) = KeyvalueAt(strings, value)
  BY <1>1, LowerHalf, KeyvalueAtNat, SpanAssumption
<1> HIDE DEF w
<1> QED
  BY <1>2, <1>3, <1>4 DEF Decoder!DecodedTopology, w

\* find_one_impl prints the quality that Quality::encode was given, as long as
\* each of its three numbers is in the lower half of its field.
THEOREM QualityComesBack ==
  ASSUME NEW strings \in Seq(STRING), NEW asset \in Nat, NEW name, NEW value,
         Known(strings, name), Known(strings, value),
         asset < AssetSpan \div 2,
         KeyvalueAt(strings, name) < AttrSpan \div 2,
         KeyvalueAt(strings, value) < ValueSpan \div 2
  PROVE  Decoder!PrintedQuality(strings, EncodeQuality(strings, asset, name, value))
           = [asset |-> asset, name |-> name, value |-> value]
<1> DEFINE w == EncodeQuality(strings, asset, name, value)
<1>1. Decoder!DecodedQuality(w) =
        [asset |-> asset, attr |-> KeyvalueAt(strings, name), val |-> KeyvalueAt(strings, value)]
  BY QualityDecoded
<1>2. /\ strings[KeyvalueAt(strings, name) + 1] = name
      /\ strings[KeyvalueAt(strings, value) + 1] = value
  BY StringAtPosition
<1> HIDE DEF w
<1> QED
  BY <1>1, <1>2 DEF Decoder!PrintedQuality, w

\* The same of a link, which is printed without its direction.
THEOREM TopologyComesBack ==
  ASSUME NEW strings \in Seq(STRING), NEW from \in Nat, NEW to \in Nat,
         NEW dir \in Directions, NEW property, NEW value,
         Known(strings, property), Known(strings, value),
         from < AssetSpan \div 2, to < AssetSpan \div 2,
         KeyvalueAt(strings, property) < PropSpan \div 2,
         KeyvalueAt(strings, value) < ValueSpan \div 2
  PROVE  Decoder!PrintedTopology(strings,
                         EncodeTopology(strings, from, to, dir, property, value))
           = [from |-> from, to |-> to, property |-> property, value |-> value]
<1> DEFINE w == EncodeTopology(strings, from, to, dir, property, value)
<1>1. Decoder!DecodedTopology(w) =
        [from_asset |-> from, to_asset |-> to, property |-> KeyvalueAt(strings, property),
         value |-> KeyvalueAt(strings, value)]
  BY TopologyDecoded
<1>2. /\ strings[KeyvalueAt(strings, property) + 1] = property
      /\ strings[KeyvalueAt(strings, value) + 1] = value
  BY StringAtPosition
<1> HIDE DEF w
<1> QED
  BY <1>1, <1>2 DEF Decoder!PrintedTopology, w

\* A string whose number is in the upper half of the field of a value, or an
\* asset in the upper half of its own, is never printed as another: the
\* decoder reads before its vectors.
THEOREM UpperHalfIsOutside ==
  ASSUME NEW strings \in Seq(STRING), NEW asset \in Nat, NEW name, NEW value,
         Known(strings, name), Known(strings, value), NEW id,
         \/ AssetSpan \div 2 <= asset /\ asset < AssetSpan
         \/ /\ ValueSpan \div 2 <= KeyvalueAt(strings, value)
            /\ KeyvalueAt(strings, value) < ValueSpan
  PROVE  ~ Decoder!WithinVectors([id |-> id, type |-> "quality",
                          f |-> EncodeQuality(strings, asset, name, value)])
<1> DEFINE w == EncodeQuality(strings, asset, name, value)
<1>1. /\ w[1] = asset % AssetSpan
      /\ w[3] = KeyvalueAt(strings, value) % ValueSpan
  BY DEF EncodeQuality
<1>2. Decoder!Signed(w[1], AssetSpan) < 0 \/ Decoder!Signed(w[3], ValueSpan) < 0
  BY <1>1, UpperHalf, KeyvalueAtNat, SpanAssumption
<1> HIDE DEF w
<1>3. Decoder!DecodedQuality(w).asset < 0 \/ Decoder!DecodedQuality(w).val < 0
  BY <1>2 DEF Decoder!DecodedQuality
<1>4. \/ ~ Decoder!InVector({Decoder!DecodedQuality(w).asset}, instance.assets)
      \/ ~ Decoder!InVector({Decoder!DecodedQuality(w).attr, Decoder!DecodedQuality(w).val}, Len(str_vector))
  BY <1>3 DEF Decoder!InVector
<1> QED
  BY <1>4 DEF Decoder!WithinVectors, w

-----------------------------------------------------------------------------
(***************************************************************************)
(* The saving.  What SaveGraph_proofs shows of it holds for every set of   *)
(* graphs that can be saved, and so for the set of all of them; the        *)
(* definitions that Pipeline and those proofs use are the same.            *)
(***************************************************************************)
SavedFacts == [quals : Seq(Word), topos : Seq(Word)]

AllGraphs ==
  {g \in [items : Seq(SavedFacts),
          edges : Seq([from : Nat, to : Nat, exploit : Nat, perm : Seq(Nat) \ {<< >>}]),
          strings : Seq(STRING), should_graph : BOOLEAN] : Saver!IsGraph(g)}

Saving == INSTANCE SaveGraph_proofs WITH Graphs <- AllGraphs

LEMMA SameToSet == \A s : Saver!ToSet(s) = Saving!ToSet(s)
BY DEF Saver!ToSet, Saving!ToSet

LEMMA SameToSet2 == \A s : Saver!ToSet(s) = ToSet(s)
BY DEF Saver!ToSet, ToSet

LEMMA SameFlatten == \A s : Saver!FlattenSeq(s) = Saving!FlattenSeq(s)
BY DEF Saver!FlattenSeq, Saving!FlattenSeq

LEMMA SameCardinality == \A S : Saver!Cardinality(S) = Saving!Cardinality(S)
BY DEF Saver!Cardinality, Saving!Cardinality

LEMMA SameSeqs == \A S : Saver!SetToSeqs(S) = Saving!SetToSeqs(S)
BY SameCardinality DEF Saver!SetToSeqs, Saving!SetToSeqs

LEMMA SameIsGraph == \A g : Saver!IsGraph(g) <=> Saving!IsGraph(g)
<1>1. \A w : Saver!Storable(w) <=> Saving!Storable(w)
  BY DEF Saver!Storable, Saving!Storable
<1>2. \A g : Saver!Factbases(g) = Saving!Factbases(g)
  BY DEF Saver!Factbases, Saving!Factbases
<1>3. Saver!Word = Saving!Word
  BY DEF Saver!Word, Saving!Word
<1> QED
  BY <1>1, <1>2, <1>3, SameToSet DEF Saver!IsGraph, Saving!IsGraph

LEMMA GraphsAssumed == Saving!GraphAssumption
BY SameIsGraph DEF AllGraphs, Saving!GraphAssumption

LEMMA SavingKeeps == Saving!IInv /\ [Saving!Next]_(Saving!svars) => Saving!IInv'
BY Saving!Inductive, GraphsAssumed, SpanAssumption

LEMMA SameClient == Saver!Client <=> Saving!Client
<1>1. Saver!Answered <=> Saving!Answered
  BY DEF Saver!Answered, Saving!Answered
<1>2. Saver!ExecFailed <=> Saving!ExecFailed
  BY DEF Saver!ExecFailed, Saving!ExecFailed
<1>3. \A a, b : Saver!graph_init(a, b) = Saving!graph_init(a, b)
  BY SameCardinality DEF Saver!graph_init, Saving!graph_init
<1>4. Saver!Send <=> Saving!Send
  BY <1>1, <1>2 DEF Saver!Send, Saving!Send
<1>5. Saver!Abort <=> Saving!Abort
  BY <1>1, <1>2 DEF Saver!Abort, Saving!Abort
<1>6. Saver!Return <=> Saving!Return
  BY <1>1, <1>2, <1>3 DEF Saver!Return, Saving!Return
<1> QED
  BY <1>4, <1>5, <1>6 DEF Saver!Client, Saving!Client

LEMMA SameServer == Saver!Server <=> Saving!Server
<1>1. \A tables, table : Saver!Ids(tables, table) = Saving!Ids(tables, table)
  BY DEF Saver!Ids, Saving!Ids
<1>2. \A rows : Saver!NoDuplicates(rows) <=> Saving!NoDuplicates(rows)
  BY DEF Saver!NoDuplicates, Saving!NoDuplicates
<1>3. \A w : Saver!Storable(w) <=> Saving!Storable(w)
  BY DEF Saver!Storable, Saving!Storable
<1>4. \A tables, st : Saver!Allowed(tables, st) <=> Saving!Allowed(tables, st)
  BY <1>1, <1>2, <1>3, SameToSet DEF Saver!Allowed, Saving!Allowed
<1>5. \A tables, st : Saver!Inserted(tables, st) = Saving!Inserted(tables, st)
  BY SameToSet DEF Saver!Inserted, Saving!Inserted
<1>6. ASSUME NEW st PROVE Saver!InTransaction(st) <=> Saving!InTransaction(st)
  BY <1>4, <1>5 DEF Saver!InTransaction, Saving!InTransaction
<1>7. Saver!Execute <=> Saving!Execute
  BY <1>6 DEF Saver!Execute, Saving!Execute
<1>8. Saver!Disconnect <=> Saving!Disconnect
  BY DEF Saver!Disconnect, Saving!Disconnect
<1> QED
  BY <1>7, <1>8 DEF Saver!Server, Saving!Server

LEMMA SameKillAndLose == (Saver!Kill <=> Saving!Kill) /\ (Saver!Lose <=> Saving!Lose)
BY DEF Saver!Kill, Saving!Kill, Saver!Lose, Saving!Lose

LEMMA SameUnique == \A g : Saver!UniqueEdges(g) = Saving!UniqueEdges(g)
<1>1. \A a, b : Saver!SameClass(a, b) <=> Saving!SameClass(a, b)
  BY DEF Saver!SameClass, Saving!SameClass
<1> QED
  BY <1>1 DEF Saver!UniqueEdges, Saving!UniqueEdges

LEMMA SameProgram == \A g, order : Saver!Program(g, order) = Saving!Program(g, order)
<1>1. \A table, rows, w : Saver!Insert(table, rows, w) = Saving!Insert(table, rows, w)
  BY DEF Saver!Insert, Saving!Insert
<1>2. Saver!BEGIN = Saving!BEGIN /\ Saver!COMMIT = Saving!COMMIT
  BY DEF Saver!BEGIN, Saving!BEGIN, Saver!COMMIT, Saving!COMMIT
<1>3. \A g, k : Saver!Quarter(g, k) = Saving!Quarter(g, k)
  BY DEF Saver!Quarter, Saving!Quarter
<1>4. \A type, id, s : Saver!ItemRows(type, id, s) = Saving!ItemRows(type, id, s)
  BY DEF Saver!ItemRows, Saving!ItemRows
<1>5. \A g : Saver!SaveFactbases(g) = Saving!SaveFactbases(g)
  BY <1>1, <1>2 DEF Saver!SaveFactbases, Saving!SaveFactbases
<1>6. \A g, k : Saver!SaveItems(g, k) = Saving!SaveItems(g, k)
  <2>1. \A I : Saver!Min(I) = Saving!Min(I)
    BY DEF Saver!Min, Saving!Min
  <2> SUFFICES ASSUME NEW g, NEW k PROVE Saver!SaveItems(g, k) = Saving!SaveItems(g, k)
    OBVIOUS
  <2>2. Saver!Quarter(g, k) = Saving!Quarter(g, k)
    BY <1>3
  <2> QED
    BY <1>1, <1>2, <1>4, <2>1, <2>2, SameFlatten
    DEF Saver!SaveItems, Saving!SaveItems, Saver!SelectInSeq, Saving!SelectInSeq
<1>7. \A order, k : Saver!Half(order, k) = Saving!Half(order, k)
  BY DEF Saver!Half, Saving!Half
<1>8. \A g, j : Saver!EdgeRow(g, j) = Saving!EdgeRow(g, j)
  BY DEF Saver!EdgeRow, Saving!EdgeRow
<1>9. \A g, j : Saver!BindingRows(g, j) = Saving!BindingRows(g, j)
  BY DEF Saver!BindingRows, Saving!BindingRows
<1>10. \A g, half : Saver!EdgeInserts(g, half) = Saving!EdgeInserts(g, half)
  BY <1>1, <1>8, <1>9, SameFlatten DEF Saver!EdgeInserts, Saving!EdgeInserts
<1>11. \A g, order, k : Saver!SaveHalf(g, order, k) = Saving!SaveHalf(g, order, k)
  BY <1>2, <1>7, <1>10 DEF Saver!SaveHalf, Saving!SaveHalf
<1>12. \A g : Saver!SaveKeyvalue(g) = Saving!SaveKeyvalue(g)
  BY <1>1, <1>2 DEF Saver!SaveKeyvalue, Saving!SaveKeyvalue
<1>13. \A g : Saver!SaveAllItems(g) = Saving!SaveAllItems(g)
  BY <1>6 DEF Saver!SaveAllItems, Saving!SaveAllItems
<1>14. \A g, order : Saver!SaveEdges(g, order) = Saving!SaveEdges(g, order)
  BY <1>11 DEF Saver!SaveEdges, Saving!SaveEdges
<1>15. \A g, order : Saver!save_ag_to_db(g, order) = Saving!save_ag_to_db(g, order)
  BY <1>5, <1>12, <1>13, <1>14 DEF Saver!save_ag_to_db, Saving!save_ag_to_db
<1>16. Saver!fetch_graph_info = Saving!fetch_graph_info
  BY DEF Saver!fetch_graph_info, Saving!fetch_graph_info, Saver!Select, Saving!Select
<1> QED
  BY <1>15, <1>16 DEF Saver!Program, Saving!Program

LEMMA SameLost ==
  /\ \A g, k : Saver!FactbasesOf(g, k) = Saving!FactbasesOf(g, k)
  /\ \A g, k : Saver!Lost(g, k) <=> Saving!Lost(g, k)
<1>1. \A g, k : Saver!Quarter(g, k) = Saving!Quarter(g, k)
  BY DEF Saver!Quarter, Saving!Quarter
<1>2. \A g, k : Saver!FactbasesOf(g, k) = Saving!FactbasesOf(g, k)
  BY <1>1, SameToSet DEF Saver!FactbasesOf, Saving!FactbasesOf
<1>3. \A rows : Saver!NoDuplicates(rows) <=> Saving!NoDuplicates(rows)
  BY DEF Saver!NoDuplicates, Saving!NoDuplicates
<1>4. \A w : Saver!Storable(w) <=> Saving!Storable(w)
  BY DEF Saver!Storable, Saving!Storable
<1>5. \A g, fb : Saver!HasQualities(g, fb) <=> Saving!HasQualities(g, fb)
  BY DEF Saver!HasQualities, Saving!HasQualities
<1>6. \A g, fb : Saver!HasTopologies(g, fb) <=> Saving!HasTopologies(g, fb)
  BY DEF Saver!HasTopologies, Saving!HasTopologies
<1>7. ASSUME NEW g, NEW k PROVE Saver!Lost(g, k) <=> Saving!Lost(g, k)
  BY <1>2, <1>3, <1>4, <1>5, <1>6, SameToSet DEF Saver!Lost, Saving!Lost
<1> QED
  BY <1>2, <1>7

-----------------------------------------------------------------------------
(* The graph that is saved is one that can be.                             *)

EncodedAs(S, E) == \A x \in S : x.encoded \in E

Encodings(facts) == [j \in DOMAIN facts |-> facts[j].encoded]

LEMMA EncodingsTyped ==
  ASSUME NEW S, NEW E, EncodedAs(S, E), NEW facts \in Seq(S)
  PROVE  /\ Encodings(facts) \in Seq(E)
         /\ \A word \in ToSet(Encodings(facts)) : word \in E
<1> DEFINE f == [j \in DOMAIN facts |-> facts[j].encoded]
<1>1. Len(facts) \in Nat /\ DOMAIN facts = 1 .. Len(facts)
  BY LengthTyped
<1>2. \A j \in DOMAIN facts : facts[j].encoded \in E
  BY ElementTyped DEF EncodedAs
<1>3. f \in [1 .. Len(facts) -> E]
  BY <1>1, <1>2
<1> HIDE DEF f
<1>4. f \in Seq(E)
  BY <1>1, <1>3, MapSeq
<1>5. \A word \in ToSet(f) : word \in E
  BY <1>1, <1>3 DEF ToSet
<1> QED
  BY <1>4, <1>5 DEF f, Encodings

LEMMA SavedItemsTyped ==
  ASSUME NEW ns \in NetworkStateType
  PROVE  /\ SavedItems(ns) \in SavedFacts
         /\ \A word \in Saver!ToSet(SavedItems(ns).quals) : Saver!Storable(word)
<1>1. ns.qualities \in Seq(QualityType) /\ ns.topologies \in Seq(TopologyType)
  BY DEF NetworkStateType
<1>2. EncodedAs(QualityType, QualityWord) /\ EncodedAs(TopologyType, Word)
  BY DEF EncodedAs, QualityType, TopologyType
<1>3. /\ SavedItems(ns).quals \in Seq(QualityWord) /\ SavedItems(ns).topos \in Seq(Word)
      /\ \A word \in ToSet(SavedItems(ns).quals) : word \in QualityWord
  <2>1. SavedItems(ns) = [quals |-> Encodings(ns.qualities),
                          topos |-> Encodings(ns.topologies)]
    BY DEF SavedItems, Encodings
  <2>2. /\ Encodings(ns.qualities) \in Seq(QualityWord)
        /\ \A word \in ToSet(Encodings(ns.qualities)) : word \in QualityWord
    BY <1>1, <1>2, EncodingsTyped
  <2>3. Encodings(ns.topologies) \in Seq(Word)
    BY <1>1, <1>2, EncodingsTyped
  <2> QED
    BY <2>1, <2>2, <2>3
<1>4. SavedItems(ns) \in SavedFacts
  <2>1. SavedItems(ns).quals \in Seq(Word)
    BY <1>3 DEF QualityWord
  <2>2. SavedItems(ns) = [quals |-> SavedItems(ns).quals, topos |-> SavedItems(ns).topos]
    BY DEF SavedItems
  <2> QED
    BY <1>3, <2>1, <2>2 DEF SavedFacts
<1>5. 0 < ValueSpan \div 2
  BY SpanAssumption
<1>6. \A word \in QualityWord : Saver!Storable(word)
  BY <1>5 DEF QualityWord, Saver!Storable
<1> QED
  BY <1>3, <1>4, <1>6, SameToSet2

LEMMA ResultIsGraph ==
  ASSUME IInv
  PROVE  Result(FALSE) \in AllGraphs
<1> DEFINE g == Result(FALSE)
<1>1. /\ factbases \in Seq(NetworkStateType) /\ edges \in Seq(EdgeType)
      /\ instance \in Instances
  BY DEF IInv, TypeOK
<1>2. /\ g.items = [i \in DOMAIN factbases |-> SavedItems(factbases[i])]
      /\ g.edges = [k \in DOMAIN edges |-> SavedEdge(edges[k])]
      /\ g.strings = instance.facts /\ g.should_graph = FALSE
      /\ g = [items |-> g.items, edges |-> g.edges, strings |-> g.strings,
              should_graph |-> g.should_graph]
  BY DEF Result
<1> HIDE DEF g
<1>3. /\ Len(factbases) \in Nat /\ DOMAIN factbases = 1 .. Len(factbases)
      /\ Len(edges) \in Nat /\ DOMAIN edges = 1 .. Len(edges)
  BY <1>1, LengthTyped
<1>4. g.items \in [1 .. Len(factbases) -> SavedFacts]
  BY <1>1, <1>2, <1>3, SavedItemsTyped, ElementTyped
<1>5. /\ g.items \in Seq(SavedFacts) /\ Len(g.items) = Len(factbases)
      /\ \A i \in DOMAIN g.items : \A word \in Saver!ToSet(g.items[i].quals) : Saver!Storable(word)
  <2>1. g.items \in Seq(SavedFacts)
    BY <1>3, <1>4, MapSeq
  <2>2. Len(g.items) = Len(factbases)
    BY <1>3, <1>4, <2>1
  <2> QED
    BY <1>1, <1>2, <1>3, <1>4, <2>1, <2>2, SavedItemsTyped, ElementTyped
<1>6. ASSUME NEW k \in DOMAIN edges
      PROVE  SavedEdge(edges[k]) \in [from : Ids, to : Ids, exploit : Nat,
                                      perm : Seq(Nat) \ {<< >>}]
  <2>1. /\ edges[k].from \in Ids /\ edges[k].to \in Ids
        /\ edges[k].perm \in Seq(Nat) \ {<< >>}
        /\ edges[k].exploit \in Nat \ {0}
    BY EdgesHaveAssets
  <2>2. edges[k].exploit - 1 \in Nat
    BY <2>1
  <2> QED
    BY <2>1, <2>2 DEF SavedEdge
<1>7. Ids = Saver!Factbases(g) /\ Ids \subseteq Nat
  BY <1>3, <1>5 DEF Ids, Saver!Factbases
<1>8. /\ g.edges \in Seq([from : Ids, to : Ids, exploit : Nat, perm : Seq(Nat) \ {<< >>}])
      /\ g.edges \in Seq([from : Nat, to : Nat, exploit : Nat, perm : Seq(Nat) \ {<< >>}])
  <2> DEFINE E == [from : Ids, to : Ids, exploit : Nat, perm : Seq(Nat) \ {<< >>}]
             F == [from : Nat, to : Nat, exploit : Nat, perm : Seq(Nat) \ {<< >>}]
  <2>1. E \subseteq F
    BY <1>7
  <2>2. \A k \in DOMAIN edges : SavedEdge(edges[k]) \in E
    BY <1>6
  <2> HIDE DEF E, F
  <2>3. g.edges \in [1 .. Len(edges) -> E] /\ g.edges \in [1 .. Len(edges) -> F]
    BY <1>2, <1>3, <2>1, <2>2
  <2>4. g.edges \in Seq(E) /\ g.edges \in Seq(F)
    BY <1>3, <2>3, MapSeq
  <2> QED
    BY <2>4 DEF E, F
<1>9. g.strings \in Seq(STRING)
  BY <1>1, <1>2, InstancesAssumption DEF InstanceType
<1>10. Saver!Word = Word
  BY DEF Saver!Word, Word
<1>11. Saver!IsGraph(g)
  BY <1>2, <1>5, <1>7, <1>8, <1>9, <1>10 DEF Saver!IsGraph, SavedFacts
<1> QED
  BY <1>2, <1>5, <1>8, <1>9, <1>11 DEF AllGraphs, g

-----------------------------------------------------------------------------
(***************************************************************************)
(* What decode makes of the tables, once the keyvalues are among them.     *)
(***************************************************************************)
LEMMA StringsRead ==
  ASSUME NEW facts \in Seq(STRING),
         db["keyvalue"] = {[id |-> i - 1, property |-> facts[i]] : i \in DOMAIN facts}
  PROVE  Decoder!KeyvalueStrings = facts
<1> DEFINE n == Len(facts)
           rows == Decoder!KeyvalueRows
           f == [i \in 1 .. n |-> [id |-> i - 1, property |-> facts[i]]]
<1>1. n \in Nat /\ DOMAIN facts = 1 .. n
  BY LengthTyped
<1>2. rows = {[id |-> i - 1, property |-> facts[i]] : i \in 1 .. n}
  BY <1>1 DEF Decoder!KeyvalueRows
<1> HIDE DEF n, rows
<1>3. f \in [1 .. n -> rows] /\ \A row \in rows : \E i \in 1 .. n : f[i] = row
  BY <1>2
<1>4. \A i \in 1 .. n : f[i].id = i - 1 /\ f[i].property = facts[i] /\ f[i] \in rows
  BY <1>3
<1> HIDE DEF f
<1>5. ASSUME NEW i \in 1 .. n, NEW j \in 1 .. n, f[i] = f[j] PROVE i = j
  <2>1. i - 1 = j - 1
    BY <1>4, <1>5
  <2> QED
    BY <1>1, <2>1
<1>6. f \in Injection(1 .. n, rows) /\ f \in Surjection(1 .. n, rows)
  BY <1>3, <1>5 DEF Injection, IsInjective, Surjection
<1>7. IsFiniteSet(1 .. n) /\ Cardinality(1 .. n) = n
  <2>1. Cardinality(1 .. n) = IF 1 > n THEN 0 ELSE n - 1 + 1
    BY <1>1, FS_Interval
  <2>2. IsFiniteSet(1 .. n)
    BY <1>1, FS_Interval
  <2> QED
    BY <1>1, <2>1, <2>2
<1>8. Cardinality(rows) = n
  BY <1>6, <1>7, FS_Surjection
<1>9. Decoder!Cardinality(rows) = Cardinality(rows)
  BY DEF Decoder!Cardinality, Cardinality
<1>10. ASSUME NEW i \in 1 .. n
       PROVE  (CHOOSE row \in rows : row.id = i - 1).property = facts[i]
  <2>1. ASSUME NEW row \in rows, row.id = i - 1 PROVE row = f[i]
    <3>1. PICK j \in 1 .. n : f[j] = row
      BY <1>3
    <3>2. j - 1 = i - 1
      BY <1>4, <2>1, <3>1
    <3>3. j = i
      BY <1>1, <3>2
    <3> QED
      BY <3>1, <3>3
  <2>2. f[i] \in rows /\ f[i].id = i - 1
    BY <1>4
  <2>3. (CHOOSE row \in rows : row.id = i - 1) = f[i]
    BY <2>1, <2>2
  <2> QED
    BY <1>4, <2>3
<1>11. Decoder!KeyvalueStrings = [i \in 1 .. n |-> facts[i]]
  <2>1. Decoder!KeyvalueStrings =
          [i \in 1 .. n |-> (CHOOSE row \in rows : row.id = i - 1).property]
    BY <1>8, <1>9 DEF Decoder!KeyvalueStrings, rows
  <2> QED
    BY <1>10, <2>1
<1>12. facts = [i \in 1 .. n |-> facts[i]]
  BY <1>1
<1> QED
  BY <1>11, <1>12

LEMMA NoStringsRead ==
  ASSUME db["keyvalue"] = {}
  PROVE  Decoder!KeyvalueStrings = << >>
<1>1. db["keyvalue"] = {[id |-> i - 1, property |-> << >>[i]] : i \in DOMAIN << >>}
  OBVIOUS
<1>2. << >> \in Seq(STRING)
  OBVIOUS
<1> QED
  BY <1>1, <1>2, StringsRead

LEMMA LastRead ==
  ASSUME NEW n \in Nat \ {0}, Decoder!FactbaseIds = 0 .. n - 1
  PROVE  Decoder!FactbaseIds # {} /\ Decoder!Max(Decoder!FactbaseIds) = n - 1
<1> DEFINE S == 0 .. n - 1
<1>1. n - 1 \in S /\ \A y \in S : n - 1 >= y
  OBVIOUS
<1>2. \A x \in S : (\A y \in S : x >= y) => x = n - 1
  OBVIOUS
<1> HIDE DEF S
<1>3. (CHOOSE x \in S : \A y \in S : x >= y) = n - 1
  BY <1>1, <1>2
<1> QED
  BY <1>1, <1>3 DEF Decoder!Max, S

-----------------------------------------------------------------------------
(* The items of a state, and what decode prints of them.                   *)

ItemOf(type, i, fact) == [id |-> i, f |-> fact.encoded, type |-> type]

LEMMA ItemsOfState ==
  ASSUME IInv, NEW i \in Ids
  PROVE  Saver!Items(Result(FALSE), i) =
           {ItemOf("quality", i, q) : q \in ToSet(Node(i).qualities)}
             \cup {ItemOf("topology", i, t) : t \in ToSet(Node(i).topologies)}
<1>1. factbases \in Seq(NetworkStateType)
  BY DEF IInv, TypeOK
<1>2. i + 1 \in DOMAIN factbases /\ Node(i) = factbases[i + 1]
  BY <1>1 DEF Ids, Node
<1>3. Result(FALSE).items[i + 1] = SavedItems(Node(i))
  BY <1>2 DEF Result
<1>4. ASSUME NEW type, NEW facts
      PROVE  Saver!ToSet(Saver!ItemRows(type, i, Encodings(facts)))
               = {ItemOf(type, i, fact) : fact \in ToSet(facts)}
  BY DEF Saver!ToSet, Saver!ItemRows, Encodings, ItemOf, ToSet
<1>5. /\ SavedItems(Node(i)).quals = Encodings(Node(i).qualities)
      /\ SavedItems(Node(i)).topos = Encodings(Node(i).topologies)
  BY DEF SavedItems, Encodings
<1> QED
  BY <1>3, <1>4, <1>5 DEF Saver!Items

LEMMA StateOfModel ==
  ASSUME IInv, FactsOfModel, NEW i \in Ids
  PROVE  /\ instance \in Instances /\ instance.facts \in Seq(STRING) /\ instance.assets \in Nat
         /\ \A q \in ToSet(Node(i).qualities) :
              /\ q \in QualityType /\ q.asset \in 0 .. instance.assets - 1
              /\ Known(instance.facts, q.name) /\ Known(instance.facts, q.value)
         /\ \A t \in ToSet(Node(i).topologies) :
              /\ t \in TopologyType
              /\ t.from \in 0 .. instance.assets - 1 /\ t.to \in 0 .. instance.assets - 1
              /\ Known(instance.facts, t.property) /\ Known(instance.facts, t.value)
<1>1. instance \in Instances /\ instance.assets \in Nat
  BY InstancesAssumption DEF IInv, TypeOK, InstanceType
<1>2. /\ instance.facts \in Seq(STRING)
      /\ \A f \in QualitiesOf(instance) :
           Known(instance.facts, f.name) /\ Known(instance.facts, f.value)
      /\ \A f \in LinksOf(instance) :
           Known(instance.facts, f.property) /\ Known(instance.facts, f.value)
  BY <1>1, ModelStrings
<1>3. Node(i) \in ModelStates(instance)
  <2>1. i + 1 \in DOMAIN factbases
    BY DEF FactsOfModel, Ids
  <2> QED
    BY <2>1, ElementTyped DEF FactsOfModel, Node
<1>4. /\ Node(i).qualities \in Seq(ModelQualities(instance))
      /\ Node(i).topologies \in Seq(ModelTopologies(instance))
  BY <1>3 DEF ModelStates, StatesOver
<1>5. ASSUME NEW q \in ToSet(Node(i).qualities)
      PROVE  /\ q \in QualityType /\ q.asset \in 0 .. instance.assets - 1
             /\ Known(instance.facts, q.name) /\ Known(instance.facts, q.value)
  <2>1. q \in ModelQualities(instance)
    BY <1>4, ToSetElement
  <2>2. q \in QualityType /\ q.asset < instance.assets /\ q.asset \in Nat
    BY <2>1 DEF ModelQualities, QualityType
  <2>3. q.asset \in 0 .. instance.assets - 1
    BY <1>1, <2>2
  <2>4. Known(instance.facts, q.name) /\ Known(instance.facts, q.value)
    BY <1>2, <2>1 DEF ModelQualities
  <2> QED
    BY <2>2, <2>3, <2>4
<1>6. ASSUME NEW t \in ToSet(Node(i).topologies)
      PROVE  /\ t \in TopologyType
             /\ t.from \in 0 .. instance.assets - 1 /\ t.to \in 0 .. instance.assets - 1
             /\ Known(instance.facts, t.property) /\ Known(instance.facts, t.value)
  <2>1. t \in ModelTopologies(instance)
    BY <1>4, ToSetElement
  <2>2. /\ t \in TopologyType /\ t.from < instance.assets /\ t.to < instance.assets
        /\ t.from \in Nat /\ t.to \in Nat
    BY <2>1 DEF ModelTopologies, TopologyType
  <2>3. t.from \in 0 .. instance.assets - 1 /\ t.to \in 0 .. instance.assets - 1
    BY <1>1, <2>2
  <2>4. Known(instance.facts, t.property) /\ Known(instance.facts, t.value)
    BY <1>2, <2>1 DEF ModelTopologies
  <2> QED
    BY <2>2, <2>3, <2>4
<1> QED
  BY <1>1, <1>2, <1>5, <1>6

PrintedAs(item) ==
  IF item.type = "quality" THEN Decoder!PrintedQuality(instance.facts, item.f)
                           ELSE Decoder!PrintedTopology(instance.facts, item.f)

\* What find_one_impl prints of a state.
PrintedItems(i) == {PrintedAs(item) : item \in Saver!Items(Result(FALSE), i)}

LEMMA PrintableQuality ==
  ASSUME IInv, FactsOfModel, NEW i \in Ids, Printable(Node(i)),
         NEW q \in ToSet(Node(i).qualities)
  PROVE  /\ PrintedAs(ItemOf("quality", i, q)) =
              [asset |-> q.asset, name |-> q.name, value |-> q.value]
         /\ str_vector = instance.facts => Decoder!WithinVectors(ItemOf("quality", i, q))
<1> DEFINE kv == instance.facts
           item == ItemOf("quality", i, q)
           w == EncodeQuality(kv, q.asset, q.name, q.value)
<1>1. /\ kv \in Seq(STRING) /\ q.asset \in Nat /\ q.asset \in 0 .. instance.assets - 1
      /\ Known(kv, q.name) /\ Known(kv, q.value)
  BY StateOfModel DEF QualityType
<1>2. /\ q.encoded = w
      /\ q.asset < AssetSpan \div 2
      /\ KeyvalueAt(kv, q.name) < AttrSpan \div 2
      /\ KeyvalueAt(kv, q.value) < ValueSpan \div 2
  BY DEF Printable, Fresh, Fits, FreshQuality, FitsQuality, Position
<1>3. item.type = "quality" /\ item.f = w
  BY <1>2 DEF ItemOf
<1> HIDE DEF kv, item, w
<1>4. Decoder!PrintedQuality(kv, w) = [asset |-> q.asset, name |-> q.name, value |-> q.value]
  BY <1>1, <1>2, QualityComesBack DEF w
<1>5. Decoder!DecodedQuality(w) =
        [asset |-> q.asset, attr |-> KeyvalueAt(kv, q.name), val |-> KeyvalueAt(kv, q.value)]
  BY <1>1, <1>2, QualityDecoded DEF w
<1>6. /\ KeyvalueAt(kv, q.name) \in 0 .. Len(kv) - 1
      /\ KeyvalueAt(kv, q.value) \in 0 .. Len(kv) - 1
  BY <1>1, KeyvalueAtRange
<1>7. str_vector = kv => Decoder!WithinVectors(item)
  BY <1>1, <1>3, <1>5, <1>6 DEF Decoder!WithinVectors, Decoder!InVector
<1> QED
  BY <1>3, <1>4, <1>7 DEF PrintedAs, item, kv

LEMMA PrintableTopology ==
  ASSUME IInv, FactsOfModel, NEW i \in Ids, Printable(Node(i)),
         NEW t \in ToSet(Node(i).topologies)
  PROVE  /\ PrintedAs(ItemOf("topology", i, t)) =
              [from |-> t.from, to |-> t.to, property |-> t.property, value |-> t.value]
         /\ str_vector = instance.facts => Decoder!WithinVectors(ItemOf("topology", i, t))
<1> DEFINE kv == instance.facts
           item == ItemOf("topology", i, t)
           w == EncodeTopology(kv, t.from, t.to, t.dir, t.property, t.value)
<1>1. /\ kv \in Seq(STRING) /\ t.from \in Nat /\ t.to \in Nat /\ t.dir \in Directions
      /\ t.from \in 0 .. instance.assets - 1 /\ t.to \in 0 .. instance.assets - 1
      /\ Known(kv, t.property) /\ Known(kv, t.value)
  BY StateOfModel DEF TopologyType
<1>2. t.encoded = w /\ FitsTopology(t)
  BY DEF Printable, Fresh, Fits, FreshTopology
<1>3. item.type # "quality" /\ item.f = w
  BY <1>2 DEF ItemOf
<1>4. /\ t.from < AssetSpan \div 2 /\ t.to < AssetSpan \div 2
      /\ KeyvalueAt(kv, t.property) < PropSpan \div 2
      /\ KeyvalueAt(kv, t.value) < ValueSpan \div 2
  <2>1. AssetSpan \div 2 \in Int
    BY SpanAssumption
  <2> QED
    BY <1>1, <1>2, <2>1 DEF FitsTopology, Position
<1> HIDE DEF kv, item, w
<1>5. Decoder!PrintedTopology(kv, w) =
        [from |-> t.from, to |-> t.to, property |-> t.property, value |-> t.value]
  BY <1>1, <1>4, TopologyComesBack DEF w
<1>6. Decoder!DecodedTopology(w) =
        [from_asset |-> t.from, to_asset |-> t.to, property |-> KeyvalueAt(kv, t.property),
         value |-> KeyvalueAt(kv, t.value)]
  BY <1>1, <1>4, TopologyDecoded DEF w
<1>7. /\ KeyvalueAt(kv, t.property) \in 0 .. Len(kv) - 1
      /\ KeyvalueAt(kv, t.value) \in 0 .. Len(kv) - 1
  BY <1>1, KeyvalueAtRange
<1>8. str_vector = kv => Decoder!WithinVectors(item)
  BY <1>1, <1>3, <1>6, <1>7 DEF Decoder!WithinVectors, Decoder!InVector
<1> QED
  BY <1>3, <1>5, <1>8 DEF PrintedAs, item, kv

\* A state whose facts are fresh and fit is printed as it is.
LEMMA PrintableState ==
  ASSUME IInv, FactsOfModel, NEW i \in Ids, Printable(Node(i))
  PROVE  /\ PrintedItems(i) = Shown(Node(i))
         /\ str_vector = instance.facts =>
              \A item \in Saver!Items(Result(FALSE), i) : Decoder!WithinVectors(item)
<1> DEFINE ns == Node(i)
           Q == {[asset |-> q.asset, name |-> q.name, value |-> q.value] :
                   q \in ToSet(ns.qualities)}
           T == {[from |-> t.from, to |-> t.to, property |-> t.property, value |-> t.value] :
                   t \in ToSet(ns.topologies)}
<1>1. Saver!Items(Result(FALSE), i) =
        {ItemOf("quality", i, q) : q \in ToSet(ns.qualities)}
          \cup {ItemOf("topology", i, t) : t \in ToSet(ns.topologies)}
  BY ItemsOfState
<1>2. PrintedItems(i) = Q \cup T
  <2>1. PrintedItems(i) =
          {PrintedAs(ItemOf("quality", i, q)) : q \in ToSet(ns.qualities)}
            \cup {PrintedAs(ItemOf("topology", i, t)) : t \in ToSet(ns.topologies)}
    BY <1>1 DEF PrintedItems
  <2>2. \A q \in ToSet(ns.qualities) :
          PrintedAs(ItemOf("quality", i, q))
            = [asset |-> q.asset, name |-> q.name, value |-> q.value]
    BY PrintableQuality
  <2>3. \A t \in ToSet(ns.topologies) :
          PrintedAs(ItemOf("topology", i, t))
            = [from |-> t.from, to |-> t.to, property |-> t.property, value |-> t.value]
    BY PrintableTopology
  <2> HIDE DEF ns
  <2> QED
    BY <2>1, <2>2, <2>3
<1>3. Shown(ns) = Q \cup T
  <2>1. FactsOf(ns).quals = Q
    BY DEF FactsOf, Facts!FactSet, Facts!QualityFact, Facts!Elements, ToSet
  <2>2. {[from |-> t.from, to |-> t.to, property |-> t.property, value |-> t.value] :
           t \in FactsOf(ns).links} = T
    <3>1. FactsOf(ns).links =
            {[from |-> t.from, to |-> t.to, dir |-> t.dir, property |-> t.property,
              op |-> t.op, value |-> t.value] : t \in ToSet(ns.topologies)}
      BY DEF FactsOf, Facts!FactSet, Facts!LinkFact, Facts!Elements, ToSet
    <3> DEFINE L == FactsOf(ns).links
               S == ToSet(ns.topologies)
               link(t) == [from |-> t.from, to |-> t.to, dir |-> t.dir,
                           property |-> t.property, op |-> t.op, value |-> t.value]
    <3>2. \A t : /\ link(t).from = t.from /\ link(t).to = t.to
                /\ link(t).property = t.property /\ link(t).value = t.value
      OBVIOUS
    <3>3. L = {link(t) : t \in S}
      BY <3>1
    <3> HIDE DEF L, S, link
    <3>4. {[from |-> t.from, to |-> t.to, property |-> t.property, value |-> t.value] : t \in L}
            = {[from |-> t.from, to |-> t.to, property |-> t.property, value |-> t.value] : t \in S}
      BY <3>2, <3>3
    <3> QED
      BY <3>4 DEF L, S
  <2> HIDE DEF ns, Q, T
  <2> QED
    BY <2>1, <2>2 DEF Shown
<1>4. str_vector = instance.facts =>
        \A item \in Saver!Items(Result(FALSE), i) : Decoder!WithinVectors(item)
  BY <1>1, PrintableQuality, PrintableTopology
<1> QED
  BY <1>2, <1>3, <1>4

\* A state without items has no facts.
LEMMA NoItemsNoFacts ==
  ASSUME IInv, NEW i \in Ids, Saver!Items(Result(FALSE), i) = {}
  PROVE  Shown(Node(i)) = {}
<1>1. ToSet(Node(i).qualities) = {} /\ ToSet(Node(i).topologies) = {}
  <2>1. {ItemOf("quality", i, q) : q \in ToSet(Node(i).qualities)}
          \cup {ItemOf("topology", i, t) : t \in ToSet(Node(i).topologies)} = {}
    BY ItemsOfState
  <2> QED
    BY <2>1
<1>2. FactsOf(Node(i)).quals = {} /\ FactsOf(Node(i)).links = {}
  BY <1>1 DEF FactsOf, Facts!FactSet, Facts!Elements, ToSet
<1> QED
  BY <1>2 DEF Shown

-----------------------------------------------------------------------------
(***************************************************************************)
(* What decode finds in the tables, once the keyvalues are among them: all *)
(* strings, all factbases, and of each the items, or none for a reason.    *)
(***************************************************************************)
LEMMA Tables ==
  ASSUME IInv, graph = Result(FALSE), Saving!IInv, db["keyvalue"] # {}
  PROVE  /\ Decoder!KeyvalueStrings = instance.facts
         /\ Decoder!FactbaseIds = Ids
         /\ \A i : /\ Decoder!fetch_one_factbase_items(i) # {} =>
                        /\ i \in Ids
                        /\ Decoder!fetch_one_factbase_items(i) = Saver!Items(graph, i)
                   /\ Decoder!fetch_one_factbase_items(i) = {} => NoItems(i)
<1>1. /\ db["keyvalue"] =
              {[id |-> i - 1, property |-> graph.strings[i]] : i \in DOMAIN graph.strings}
      /\ Saving!Ids(db, "factbase") = Saving!Factbases(graph)
      /\ db["factbase_item"] = UNION Saving!Content(graph).quarters
      /\ Saving!IsGraph(graph)
  BY Saving!WhenStringsAreThere, GraphsAssumed, SpanAssumption
<1>2. graph.strings = instance.facts /\ Len(graph.items) = Len(factbases)
  <2>1. DOMAIN graph.items = DOMAIN factbases /\ graph.items \in Seq(SavedFacts)
    <3>1. graph \in AllGraphs
      BY ResultIsGraph
    <3>2. graph.items = [i \in DOMAIN factbases |-> SavedItems(factbases[i])]
      BY DEF Result
    <3> QED
      BY <3>1, <3>2 DEF AllGraphs
  <2>2. factbases \in Seq(NetworkStateType)
    BY DEF IInv, TypeOK
  <2>3. Len(graph.items) = Len(factbases)
    <3> DEFINE items == graph.items
    <3>1. /\ Len(items) \in Nat /\ DOMAIN items = 1 .. Len(items)
          /\ Len(factbases) \in Nat /\ DOMAIN factbases = 1 .. Len(factbases)
      BY <2>1, <2>2, LengthTyped
    <3>2. ASSUME NEW m \in Nat, NEW n \in Nat, 1 .. m = 1 .. n PROVE m = n
      <4>1. \A j : j \in 1 .. m <=> j \in 1 .. n
        BY <3>2
      <4>2. m # 0 => m <= n
        BY <4>1
      <4>3. n # 0 => n <= m
        BY <4>1
      <4> QED
        BY <4>2, <4>3
    <3> HIDE DEF items
    <3>3. 1 .. Len(items) = 1 .. Len(factbases)
      BY <2>1, <3>1 DEF items
    <3> QED
      BY <3>1, <3>2, <3>3 DEF items
  <2>4. graph.strings = instance.facts
    BY DEF Result
  <2> QED
    BY <2>3, <2>4
<1>3. Decoder!KeyvalueStrings = instance.facts
  <2>1. instance.facts \in Seq(STRING)
    BY InstancesAssumption DEF IInv, TypeOK, InstanceType
  <2> QED
    BY <1>1, <1>2, <2>1, StringsRead
<1>4. Saving!Factbases(graph) = Ids
  BY <1>2 DEF Saving!Factbases, Ids
<1>5. Decoder!FactbaseIds = Ids
  BY <1>1, <1>4 DEF Decoder!FactbaseIds, Saving!Ids
<1>6. \A i : Saver!Items(graph, i) = Saving!Items(graph, i)
  <2>1. \A type, id, s : Saver!ItemRows(type, id, s) = Saving!ItemRows(type, id, s)
    BY DEF Saver!ItemRows, Saving!ItemRows
  <2> QED
    BY <2>1, SameToSet DEF Saver!Items, Saving!Items
<1>7. ASSUME NEW i, NEW rows, rows = Decoder!fetch_one_factbase_items(i)
      PROVE  /\ rows # {} => i \in Ids /\ rows = Saver!Items(graph, i)
             /\ rows = {} => NoItems(i)
  <2>1. rows = {row \in UNION Saving!Content(graph).quarters : row.id = i}
    BY <1>1, <1>7 DEF Decoder!fetch_one_factbase_items
  <2>2. /\ rows # {} => i \in Saving!Factbases(graph) /\ rows = Saving!Items(graph, i)
        /\ rows = {} =>
             \/ i \notin Saving!Factbases(graph)
             \/ Saving!Items(graph, i) = {}
             \/ \E k \in 0 .. 3 : i \in Saving!FactbasesOf(graph, k) /\ Saving!Lost(graph, k)
    BY <1>1, <2>1, Saving!ItemsOfFactbase, GraphsAssumed, SpanAssumption
  <2>3. ASSUME rows = {} PROVE NoItems(i)
    <3>1. CASE i \notin Ids
      BY <3>1 DEF NoItems
    <3>2. CASE i \in Ids /\ Saver!Items(Result(FALSE), i) = {}
      BY <3>2, NoItemsNoFacts DEF NoItems
    <3>3. CASE \E k \in 0 .. 3 : i \in Saver!FactbasesOf(graph, k) /\ Saver!Lost(graph, k)
      BY <3>3 DEF NoItems
    <3> QED
      BY <1>4, <1>6, <2>2, <2>3, <3>1, <3>2, <3>3, SameLost
  <2> QED
    BY <1>4, <1>6, <2>2, <2>3
<1> QED
  BY <1>3, <1>5, <1>7

-----------------------------------------------------------------------------
(***************************************************************************)
(* The inductive invariant.  Until the graph is saved, decode waits; from  *)
(* then on the graph does not change, the saving is in a state of its own  *)
(* invariant, and decode is in one of ReadInv: either it took no strings,  *)
(* and then it gets no further than the first item, or it took them all,   *)
(* and then the items of every state are in the table or never will be.    *)
(***************************************************************************)
Waiting ==
  /\ client = "waiting" /\ pc = 1 /\ inflight = << >> /\ error = FALSE
  /\ txn = "none" /\ view = Saver!EmptyTables /\ db = Saver!EmptyTables
  /\ answers = << >> /\ drawn = << >>
  /\ Decoder!Start

\* find_all is at the state index, and has printed those before it.
ReadAll ==
  /\ index \in Nat
  /\ \A k \in DOMAIN output : k - 1 \in Ids /\ output[k] = PrintedItems(k - 1)
  /\ reader \in {"items", "assets", "done"} => last = Len(factbases) - 1
  /\ reader # "done" => Len(output) = index
  /\ reader = "done" => Len(output) = Len(factbases)

\* find_one prints the state that was asked for.
ReadOne ==
  /\ reader \in {"items", "assets"} => index = opt_index /\ last = opt_index
  /\ reader # "done" => output = << >>
  /\ reader = "done" => opt_index \in Ids /\ output = << PrintedItems(opt_index) >>

ReadComplete ==
  /\ str_vector = instance.facts
  /\ output \in Seq({PrintedItems(i) : i \in Ids})
  /\ reader # "terminated"
  /\ reader = "exited" => NoItems(index)
  /\ reader = "undefined" => ~ Printable(Node(index))
  /\ reader = "assets" => index \in Ids /\ fbitems = Saver!Items(graph, index)
  /\ IF opt_index = NoIndex THEN ReadAll ELSE ReadOne

ReadInv ==
  /\ reader = "keyvalues" => str_vector = << >> /\ output = << >> /\ index = 0
  /\ reader = "max" => output = << >> /\ index = 0 /\ opt_index = NoIndex
  /\ reader = "assets" => fbitems # {}
  /\ IF str_vector = << >> THEN output = << >> /\ reader # "done" ELSE ReadComplete

Stored == str_vector # << >> => db["keyvalue"] # {}

PInv ==
  /\ IInv /\ FactsOfModel /\ factbases # << >>
  /\ \/ Waiting
     \/ /\ client # "waiting" /\ status = "done" /\ graph = Result(FALSE)
        /\ Saving!IInv /\ Stored /\ ReadInv

\* What the invariant says of the graph stays true while the graph stays.
LEMMA SameGraph ==
  ASSUME UNCHANGED vars, graph' = graph
  PROVE  /\ Ids' = Ids
         /\ \A i : Node(i)' = Node(i)
         /\ \A i : PrintedItems(i)' = PrintedItems(i)
         /\ \A i : NoItems(i)' <=> NoItems(i)
         /\ \A i : Printable(Node(i))' <=> Printable(Node(i))
         /\ Result(FALSE)' = Result(FALSE)
<1>1. instance' = instance /\ factbases' = factbases /\ edges' = edges
  BY DEF vars
<1>2. Ids' = Ids /\ \A i : Node(i)' = Node(i)
  BY <1>1 DEF Ids, Node
<1>3. Result(FALSE)' = Result(FALSE)
  BY <1>1 DEF Result
<1>4. \A i : PrintedItems(i)' = PrintedItems(i)
  <2>1. \A item : PrintedAs(item)' = PrintedAs(item)
    BY <1>1 DEF PrintedAs
  <2> QED
    BY <1>3, <2>1 DEF PrintedItems
<1>5. \A i : NoItems(i)' <=> NoItems(i)
  BY <1>2 DEF NoItems
<1>6. \A i : Printable(Node(i))' <=> Printable(Node(i))
  BY <1>1, <1>2 DEF Printable, Fresh, Fits, FreshQuality, FreshTopology, FitsQuality,
                   FitsTopology, Position
<1> QED
  BY <1>2, <1>3, <1>4, <1>5, <1>6

LEMMA SameReading ==
  ASSUME UNCHANGED vars, graph' = graph, UNCHANGED rvars
  PROVE  ReadInv' <=> ReadInv
<1>1. /\ reader' = reader /\ opt_index' = opt_index /\ str_vector' = str_vector
      /\ last' = last /\ index' = index /\ fbitems' = fbitems /\ output' = output
  BY DEF rvars
<1>2. instance' = instance /\ factbases' = factbases
  BY DEF vars
<1>3. NoItems(index)' <=> NoItems(index)
  BY <1>1, SameGraph
<1>4. Printable(Node(index))' <=> Printable(Node(index))
  BY <1>1, SameGraph
<1>5. Saver!Items(graph, index)' = Saver!Items(graph, index)
  BY <1>1
<1>6. PrintedItems(opt_index)' = PrintedItems(opt_index)
  BY <1>1, SameGraph
<1>7. {PrintedItems(i) : i \in Ids}' = {PrintedItems(i) : i \in Ids}
  BY SameGraph
<1>8. ReadAll' <=> ReadAll
  BY <1>1, <1>2, SameGraph DEF ReadAll
<1>9. ReadOne' <=> ReadOne
  BY <1>1, <1>6, SameGraph DEF ReadOne
<1>10. ReadComplete' <=> ReadComplete
  BY <1>1, <1>2, <1>3, <1>4, <1>5, <1>7, <1>8, <1>9, SameGraph DEF ReadComplete
<1> QED
  BY <1>1, <1>10 DEF ReadInv

-----------------------------------------------------------------------------
(* The steps of decode.                                                    *)

\* No item is within vectors without strings.
LEMMA NothingWithin ==
  ASSUME str_vector = << >>, NEW item
  PROVE  ~ Decoder!WithinVectors(item)
<1>1. \A a, b : ~ Decoder!InVector({a, b}, Len(str_vector))
  <2>1. Len(str_vector) = 0 /\ 0 .. 0 - 1 = {}
    OBVIOUS
  <2> QED
    BY <2>1 DEF Decoder!InVector
<1> QED
  BY <1>1 DEF Decoder!WithinVectors

\* The strings of the assets are among those of the Keyvalue.
LEMMA AssetStringsKnown ==
  ASSUME IInv
  PROVE  Decoder!AssetStrings \subseteq Decoder!ToSet(instance.facts)
<1>1. instance \in Instances
  BY DEF IInv, TypeOK
<1>2. ToSet(instance.facts) = UniqueValues(instance)
  BY <1>1, InstancesAssumption DEF WellFormed
<1>3. \A s : Decoder!ToSet(s) = ToSet(s)
  BY DEF Decoder!ToSet, ToSet
<1>4. \A q \in ToSet(instance.initial_qualities) : {q.name, q.value} \subseteq UniqueValues(instance)
  BY DEF UniqueValues
<1> QED
  BY <1>2, <1>3, <1>4 DEF Decoder!AssetStrings

WhileReading == status = "done" /\ graph = Result(FALSE) /\ Saving!IInv /\ Stored /\ ReadInv

LEMMA FetchKeyvaluesKeeps ==
  ASSUME IInv, WhileReading, UNCHANGED << vars, svars >>, Decoder!fetch_keyvalues
  PROVE  Stored' /\ ReadInv'
<1>1. /\ reader = "keyvalues" /\ str_vector' = Decoder!KeyvalueStrings
      /\ fbitems' = fbitems /\ output' = output /\ opt_index' = opt_index
      /\ \/ opt_index = NoIndex /\ reader' = "max" /\ last' = last /\ index' = index
         \/ opt_index # NoIndex /\ reader' = "items" /\ last' = opt_index /\ index' = opt_index
  BY DEF Decoder!fetch_keyvalues
<1>2. output' = << >> /\ index = 0
  BY <1>1 DEF WhileReading, ReadInv
<1>3. instance' = instance /\ db' = db
  BY DEF vars, svars
<1>4. CASE db["keyvalue"] = {}
  <2>1. str_vector' = << >>
    BY <1>1, <1>4, NoStringsRead
  <2> QED
    BY <1>1, <1>2, <2>1 DEF ReadInv, Stored
<1>5. CASE db["keyvalue"] # {}
  <2>1. str_vector' = instance.facts
    BY <1>1, <1>5, Tables DEF WhileReading
  <2>2. Stored'
    BY <1>3, <1>5 DEF Stored
  <2>3. (IF opt_index = NoIndex THEN ReadAll ELSE ReadOne)'
    <3>1. CASE opt_index = NoIndex
      BY <1>1, <1>2, <3>1 DEF ReadAll
    <3>2. CASE opt_index # NoIndex
      BY <1>1, <1>2, <3>2 DEF ReadOne
    <3> QED
      BY <1>1, <3>1, <3>2
  <2>4. ReadComplete'
    <3>1. << >> \in Seq({PrintedItems(i) : i \in Ids}')
      OBVIOUS
    <3> QED
      BY <1>1, <1>2, <1>3, <2>1, <2>3, <3>1 DEF ReadComplete
  <2> QED
    BY <1>1, <1>2, <2>2, <2>4 DEF ReadInv
<1> QED
  BY <1>4, <1>5

LEMMA GetMaxKeeps ==
  ASSUME IInv, factbases # << >>, WhileReading, UNCHANGED << vars, svars >>,
         Decoder!get_max_factbase_id
  PROVE  Stored' /\ ReadInv'
<1>1. /\ reader = "max" /\ str_vector' = str_vector
      /\ fbitems' = fbitems /\ output' = output /\ opt_index' = opt_index /\ index' = index
      /\ \/ Decoder!FactbaseIds = {} /\ reader' = "terminated" /\ last' = last
         \/ /\ Decoder!FactbaseIds # {} /\ reader' = "items"
            /\ last' = Decoder!Max(Decoder!FactbaseIds)
  BY DEF Decoder!get_max_factbase_id
<1>2. output = << >> /\ index = 0 /\ opt_index = NoIndex
  BY <1>1 DEF WhileReading, ReadInv
<1>3. instance' = instance /\ db' = db /\ factbases' = factbases
  BY DEF vars, svars
<1>4. Stored'
  BY <1>1, <1>3 DEF WhileReading, Stored
<1>5. CASE str_vector = << >>
  BY <1>1, <1>2, <1>4, <1>5 DEF ReadInv
<1>6. CASE str_vector # << >>
  <2>1. Decoder!FactbaseIds = Ids /\ str_vector = instance.facts
    BY <1>6, Tables DEF WhileReading, Stored, ReadInv, ReadComplete
  <2>2. Len(factbases) \in Nat \ {0}
    BY DEF IInv, TypeOK
  <2>3. reader' = "items" /\ last' = Len(factbases) - 1
    BY <1>1, <2>1, <2>2, LastRead DEF Ids
  <2>4. ReadAll'
    BY <1>1, <1>2, <1>3, <2>3 DEF ReadAll
  <2>5. ReadComplete'
    <3>1. << >> \in Seq({PrintedItems(i) : i \in Ids}')
      OBVIOUS
    <3> QED
      BY <1>1, <1>2, <1>3, <2>1, <2>3, <2>4, <3>1 DEF ReadComplete
  <2> QED
    BY <1>1, <1>2, <1>4, <1>6, <2>3, <2>5 DEF ReadInv
<1> QED
  BY <1>5, <1>6

LEMMA FetchItemsKeeps ==
  ASSUME IInv, WhileReading, UNCHANGED << vars, svars >>, Decoder!FetchItems
  PROVE  Stored' /\ ReadInv'
<1> DEFINE rows == Decoder!fetch_one_factbase_items(index)
<1>1. /\ reader = "items" /\ str_vector' = str_vector /\ fbitems' = rows
      /\ output' = output /\ opt_index' = opt_index /\ index' = index /\ last' = last
      /\ reader' = IF rows = {} THEN "exited" ELSE "assets"
  BY DEF Decoder!FetchItems, Decoder!ExitIfNone
<1> HIDE DEF rows
<1>2. instance' = instance /\ db' = db /\ factbases' = factbases /\ graph' = graph
  BY DEF vars, svars
<1>3. Stored'
  BY <1>1, <1>2 DEF WhileReading, Stored
<1>4. CASE str_vector = << >>
  BY <1>1, <1>3, <1>4 DEF WhileReading, ReadInv
<1>5. CASE str_vector # << >>
  <2>1. /\ rows # {} => index \in Ids /\ rows = Saver!Items(graph, index)
        /\ rows = {} => NoItems(index)
    BY <1>5, Tables DEF WhileReading, Stored, rows
  <2>2. ReadComplete
    BY <1>5 DEF WhileReading, ReadInv
  <2>3. {PrintedItems(i) : i \in Ids}' = {PrintedItems(i) : i \in Ids}
    BY <1>2, SameGraph
  <2>4. Ids' = Ids /\ (NoItems(index)' <=> NoItems(index))
    BY <1>1, <1>2, SameGraph
  <2>5. Saver!Items(graph, index)' = Saver!Items(graph, index)
    BY <1>1, <1>2
  <2>6. (IF opt_index = NoIndex THEN ReadAll ELSE ReadOne)'
    <3>1. CASE opt_index = NoIndex
      BY <1>1, <1>2, <2>2, <3>1, SameGraph DEF ReadComplete, ReadAll
    <3>2. CASE opt_index # NoIndex
      BY <1>1, <1>2, <2>2, <3>2 DEF ReadComplete, ReadOne
    <3> QED
      BY <1>1, <3>1, <3>2
  <2>7. ReadComplete'
    BY <1>1, <1>2, <2>1, <2>2, <2>3, <2>4, <2>5, <2>6 DEF ReadComplete
  <2> QED
    BY <1>1, <1>3, <1>5, <2>7 DEF ReadInv
<1> QED
  BY <1>4, <1>5

LEMMA PrintItemsKeeps ==
  ASSUME IInv, FactsOfModel, WhileReading, UNCHANGED << vars, svars >>, Decoder!PrintItems
  PROVE  Stored' /\ ReadInv'
<1> DEFINE printed == {Decoder!Printed(item) : item \in fbitems}
<1>1. /\ reader = "assets" /\ str_vector' = str_vector /\ fbitems' = fbitems
      /\ opt_index' = opt_index /\ last' = last
  BY DEF Decoder!PrintItems
<1>2. \/ /\ ~ (Decoder!AssetStrings \subseteq Decoder!ToSet(Decoder!KeyvalueStrings))
         /\ reader' = "terminated" /\ index' = index /\ output' = output
      \/ /\ \E item \in fbitems : ~ Decoder!WithinVectors(item)
         /\ reader' = "undefined" /\ index' = index /\ output' = output
      \/ /\ \A item \in fbitems : Decoder!WithinVectors(item)
         /\ output' = Append(output, printed)
         /\ reader' = IF index >= last THEN "done" ELSE "items"
         /\ index' = IF index >= last THEN index ELSE index + 1
  BY DEF Decoder!PrintItems, Decoder!AllRead
<1> HIDE DEF printed
<1>3. instance' = instance /\ db' = db /\ factbases' = factbases /\ graph' = graph
  BY DEF vars, svars
<1>4. Stored'
  BY <1>1, <1>3 DEF WhileReading, Stored
<1>5. fbitems # {}
  BY <1>1 DEF WhileReading, ReadInv
<1>6. CASE str_vector = << >>
  <2>1. ~ (\A item \in fbitems : Decoder!WithinVectors(item))
    BY <1>5, <1>6, NothingWithin
  <2> QED
    BY <1>1, <1>2, <1>4, <1>6, <2>1 DEF WhileReading, ReadInv
<1>7. CASE str_vector # << >>
  <2>1. ReadComplete
    BY <1>7 DEF WhileReading, ReadInv
  <2>2. index \in Ids /\ fbitems = Saver!Items(Result(FALSE), index) /\ str_vector = instance.facts
    BY <1>1, <2>1 DEF WhileReading, ReadComplete
  <2>3. Decoder!AssetStrings \subseteq Decoder!ToSet(Decoder!KeyvalueStrings)
    BY <1>7, AssetStringsKnown, Tables DEF WhileReading, Stored
  <2>4. {PrintedItems(i) : i \in Ids}' = {PrintedItems(i) : i \in Ids}
    BY <1>3, SameGraph
  <2>5. CASE /\ \E item \in fbitems : ~ Decoder!WithinVectors(item)
             /\ reader' = "undefined" /\ index' = index /\ output' = output
    <3>1. ~ Printable(Node(index))
      BY <2>2, <2>5, PrintableState
    <3>2. ~ Printable(Node(index))'
      BY <1>3, <2>5, <3>1, SameGraph
    <3>3. (IF opt_index = NoIndex THEN ReadAll ELSE ReadOne)'
      <4>1. CASE opt_index = NoIndex
        BY <1>1, <1>3, <2>1, <2>5, <4>1, SameGraph DEF ReadComplete, ReadAll
      <4>2. CASE opt_index # NoIndex
        BY <1>1, <1>3, <2>1, <2>5, <4>2 DEF ReadComplete, ReadOne
      <4> QED
        BY <1>1, <4>1, <4>2
    <3>4. ReadComplete'
      BY <1>1, <1>3, <2>1, <2>4, <2>5, <3>2, <3>3 DEF ReadComplete
    <3> QED
      BY <1>1, <1>4, <1>7, <2>5, <3>4 DEF ReadInv
  <2>6. CASE /\ output' = Append(output, printed)
             /\ reader' = IF index >= last THEN "done" ELSE "items"
             /\ index' = IF index >= last THEN index ELSE index + 1
    <3>1. printed = PrintedItems(index)
      <4>1. \A item : Decoder!Printed(item) = PrintedAs(item)
        BY <2>2 DEF Decoder!Printed, PrintedAs
      <4> QED
        BY <2>2, <4>1 DEF printed, PrintedItems
    <3> DEFINE P == {PrintedItems(i) : i \in Ids}
    <3>2. /\ output \in Seq(P) /\ printed \in P
      BY <2>1, <2>2, <3>1 DEF ReadComplete
    <3>3. /\ output' \in Seq(P) /\ Len(output') = Len(output) + 1
          /\ DOMAIN output' = 1 .. Len(output) + 1
          /\ \A k \in 1 .. Len(output) : output'[k] = output[k]
          /\ output'[Len(output) + 1] = printed
      <4> HIDE DEF P
      <4> QED
        BY <2>6, <3>2, Appended
    <3>4. Len(output) \in Nat /\ DOMAIN output = 1 .. Len(output)
      <4> HIDE DEF P
      <4> QED
        BY <3>2, LengthTyped
    <3>5. output' \in Seq({PrintedItems(i) : i \in Ids}')
      BY <2>4, <3>3
    <3>6. Len(factbases) \in Nat
      BY DEF IInv, TypeOK
    <3>7. ASSUME opt_index = NoIndex PROVE ReadAll'
      <4>1. ReadAll
        BY <2>1, <3>7 DEF ReadComplete
      <4>2. index \in Nat /\ Len(output) = index /\ last = Len(factbases) - 1
        BY <1>1, <4>1 DEF ReadAll
      <4>3. index <= Len(factbases) - 1
        BY <2>2, <3>6 DEF Ids
      <4>4. ASSUME NEW k \in DOMAIN output'
            PROVE  k - 1 \in Ids' /\ output'[k] = PrintedItems(k - 1)'
        <5>1. k - 1 \in Ids /\ output'[k] = PrintedItems(k - 1)
          <6>1. CASE k \in 1 .. Len(output)
            BY <3>3, <3>4, <4>1, <6>1 DEF ReadAll
          <6>2. CASE k = Len(output) + 1
            BY <2>2, <3>1, <3>3, <4>2, <6>2
          <6> QED
            BY <3>3, <3>4, <6>1, <6>2
        <5> QED
          BY <1>3, <5>1, SameGraph
      <4>5. CASE index >= last
        <5>1. index' = index /\ reader' = "done" /\ index = Len(factbases) - 1
          BY <2>6, <3>6, <4>2, <4>3, <4>5
        <5>2. Len(output') = Len(factbases')
          BY <1>3, <3>3, <3>6, <4>2, <5>1
        <5> QED
          BY <1>1, <1>3, <4>2, <4>4, <5>1, <5>2 DEF ReadAll
      <4>6. CASE ~ (index >= last)
        <5>1. index' = index + 1 /\ reader' = "items"
          BY <2>6, <4>6
        <5> QED
          BY <1>1, <1>3, <3>3, <4>2, <4>4, <5>1 DEF ReadAll
      <4> QED
        BY <4>5, <4>6
    <3>8. ASSUME opt_index # NoIndex PROVE ReadOne' /\ reader' = "done"
      <4>1. ReadOne
        BY <2>1, <3>8 DEF ReadComplete
      <4>2. index = opt_index /\ last = opt_index /\ output = << >>
        BY <1>1, <4>1 DEF ReadOne
      <4>3. index >= last
        BY <2>2, <3>6, <4>2 DEF Ids
      <4>4. output' = << PrintedItems(index) >>
        BY <2>6, <3>1, <4>2
      <4>5. PrintedItems(opt_index)' = PrintedItems(opt_index)
        BY <1>1, <1>3, SameGraph
      <4>6. Ids' = Ids
        BY <1>3, SameGraph
      <4>7. output' = << PrintedItems(opt_index)' >>
        BY <4>2, <4>4, <4>5
      <4>8. reader' = "done" /\ opt_index' \in Ids'
        BY <1>1, <2>2, <2>6, <4>2, <4>3, <4>6
      <4> QED
        BY <4>7, <4>8 DEF ReadOne
    <3>9. reader' \in {"done", "items"}
      BY <2>6
    <3>10. ReadComplete'
      BY <1>1, <1>3, <2>2, <3>5, <3>7, <3>8, <3>9 DEF ReadComplete
    <3> QED
      BY <1>1, <1>4, <1>7, <3>9, <3>10 DEF ReadInv
  <2> QED
    BY <1>2, <2>3, <2>5, <2>6
<1> QED
  BY <1>6, <1>7

LEMMA ConnectionFailsKeeps ==
  ASSUME IInv, WhileReading, UNCHANGED << vars, svars >>, Decoder!ConnectionFails
  PROVE  Stored' /\ ReadInv'
<1>1. /\ reader \in {"keyvalues", "max", "items", "assets"} /\ reader' = "aborted"
      /\ str_vector' = str_vector /\ fbitems' = fbitems /\ output' = output
      /\ opt_index' = opt_index /\ index' = index /\ last' = last
  BY DEF Decoder!ConnectionFails, Decoder!Queries
<1>2. instance' = instance /\ db' = db /\ factbases' = factbases
  BY DEF vars, svars
<1>3. Stored'
  BY <1>1, <1>2 DEF WhileReading, Stored
<1>4. CASE str_vector = << >>
  BY <1>1, <1>3, <1>4 DEF WhileReading, ReadInv
<1>5. CASE str_vector # << >>
  <2>1. ReadComplete
    BY <1>5 DEF WhileReading, ReadInv
  <2>2. {PrintedItems(i) : i \in Ids}' = {PrintedItems(i) : i \in Ids} /\ Ids' = Ids
    BY <1>2, SameGraph DEF svars
  <2>3. (IF opt_index = NoIndex THEN ReadAll ELSE ReadOne)'
    <3>1. CASE opt_index = NoIndex
      BY <1>1, <1>2, <2>1, <3>1, SameGraph DEF ReadComplete, ReadAll, svars
    <3>2. CASE opt_index # NoIndex
      BY <1>1, <1>2, <2>1, <3>2 DEF ReadComplete, ReadOne
    <3> QED
      BY <1>1, <3>1, <3>2
  <2>4. ReadComplete'
    BY <1>1, <1>2, <2>1, <2>2, <2>3 DEF ReadComplete
  <2> QED
    BY <1>1, <1>3, <1>5, <2>4 DEF ReadInv
<1> QED
  BY <1>4, <1>5

-----------------------------------------------------------------------------
(* The steps of the generator and of the saving.                           *)

LEMMA InitOfSaving == Saving!Init' => Saving!IInv'
BY Saving!InitiallyInvariant, GraphsAssumed, SpanAssumption, PTL

\* Before the first step of the generator there is a factbase, and none is taken back.
LEMMA NodesStay ==
  ASSUME IInv, Next \/ UNCHANGED vars, factbases # << >>
  PROVE  factbases' # << >>
<1>1. CASE ~ NewState
  BY <1>1, NoNewNode
<1>2. CASE NewState
  <2>1. factbases' = Append(factbases, NewNode)
    BY <1>2, NewStateEffect
  <2>2. factbases \in Seq(NetworkStateType)
    BY DEF IInv, TypeOK
  <2> QED
    BY <2>1, <2>2
<1> QED
  BY <1>1, <1>2

LEMMA GenerateKeeps ==
  ASSUME PInv, Generate
  PROVE  PInv'
<1>1. Waiting /\ Next /\ UNCHANGED << svars, rvars >>
  BY DEF Generate, PInv
<1>2. IInv' /\ FactsOfModel'
  BY <1>1, NextIInv, NextOfModel DEF PInv
<1>3. factbases' # << >>
  BY <1>1, NodesStay DEF PInv
<1>4. Waiting'
  BY <1>1 DEF Waiting, Decoder!Start, Saver!EmptyTables, Saver!Tables, svars, rvars
<1> QED
  BY <1>2, <1>3, <1>4 DEF PInv

\* The variables of the model, when another program takes a step.
LEMMA ModelStays ==
  ASSUME IInv, FactsOfModel, factbases # << >>, UNCHANGED vars
  PROVE  IInv' /\ FactsOfModel' /\ factbases' # << >> /\ status' = status
<1>1. [Next]_vars
  OBVIOUS
<1> QED
  BY <1>1, NextIInv, NextOfModel DEF vars

LEMMA SaveKeeps ==
  ASSUME PInv, Save
  PROVE  PInv'
<1>1. /\ Waiting /\ status = "done" /\ client' = "running" /\ graph' = Result(FALSE)
      /\ \E order \in SetToSeqs(Saver!UniqueEdges(graph')) :
           program' = Saver!Program(graph', order)
      /\ UNCHANGED << vars, pc, inflight, error, txn, view, db, answers, drawn, rvars >>
  BY DEF Save, PInv
<1>2. IInv' /\ FactsOfModel' /\ factbases' # << >> /\ status' = "done"
  BY <1>1, ModelStays DEF PInv
<1>3. graph' = Result(FALSE)'
  BY <1>1 DEF Result, vars
<1>4. Saving!Init'
  <2>1. graph' \in AllGraphs
    BY <1>1, ResultIsGraph DEF PInv
  <2>2. \E order \in Saving!SetToSeqs(Saving!UniqueEdges(graph')) :
          program' = Saving!Program(graph', order)
    <3>1. \A S : SetToSeqs(S) = Saving!SetToSeqs(S)
      <4>1. \A S : Cardinality(S) = Saving!Cardinality(S)
        BY DEF Cardinality, Saving!Cardinality
      <4> QED
        BY <4>1 DEF SetToSeqs, Saving!SetToSeqs
    <3> QED
      BY <1>1, <3>1, SameUnique, SameProgram
  <2>3. Saver!EmptyTables = Saving!EmptyTables
    BY DEF Saver!EmptyTables, Saving!EmptyTables, Saver!Tables, Saving!Tables
  <2>4. AllGraphs' = AllGraphs
    BY DEF AllGraphs
  <2> QED
    BY <1>1, <2>1, <2>2, <2>3, <2>4 DEF Waiting, Saving!Init
<1>5. Saving!IInv'
  BY <1>4, InitOfSaving
<1>6. Stored' /\ ReadInv'
  BY <1>1 DEF Waiting, Decoder!Start, Stored, ReadInv, rvars
<1> QED
  BY <1>1, <1>2, <1>3, <1>5, <1>6 DEF PInv

LEMMA SaveStepKeeps ==
  ASSUME PInv, client # "waiting",
         Saver!Client \/ Saver!Server \/ Saver!Kill \/ Saver!Lose,
         UNCHANGED << vars, rvars >>
  PROVE  PInv'
<1>1. WhileReading /\ IInv /\ FactsOfModel /\ factbases # << >>
  BY DEF PInv, Waiting, WhileReading
<1>2. Saving!Next
  BY SameClient, SameServer, SameKillAndLose DEF Saving!Next
<1>3. Saving!IInv'
  BY <1>1, <1>2, SavingKeeps DEF WhileReading
<1>4. graph' = graph /\ client' # "waiting"
  <2>1. client \in {"running", "done", "aborted", "killed"}
    BY <1>1, Saving!Typed, GraphsAssumed, SpanAssumption DEF WhileReading, Saving!TypeOK
  <2> QED
    BY <1>2 DEF Saving!Next, Saving!Client, Saving!Send, Saving!Abort, Saving!Return,
                Saving!Kill, Saving!Server, Saving!Execute, Saving!Disconnect,
                Saving!Lose, Saving!Disconnected, Saving!svars
<1>5. db["keyvalue"] \subseteq db'["keyvalue"]
  <2>1. Saving!TypeOK
    BY <1>1, Saving!Typed, GraphsAssumed, SpanAssumption DEF WhileReading
  <2>2. "keyvalue" \in Saving!Tables
    BY DEF Saving!Tables
  <2> QED
    BY <1>2, <2>1, <2>2, Saving!TablesKept, GraphsAssumed, SpanAssumption
<1>6. Stored'
  BY <1>1, <1>5 DEF WhileReading, Stored, rvars
<1>7. ReadInv'
  BY <1>1, <1>4, SameReading DEF WhileReading
<1>8. Result(FALSE)' = Result(FALSE)
  BY <1>4, SameGraph
<1>9. IInv' /\ FactsOfModel' /\ factbases' # << >> /\ status' = status
  BY <1>1, ModelStays
<1> QED
  BY <1>1, <1>3, <1>4, <1>6, <1>7, <1>8, <1>9 DEF PInv, WhileReading

LEMMA ReadStepKeeps ==
  ASSUME PInv, client # "waiting", Decoder!Read \/ Decoder!ConnectionFails,
         UNCHANGED << vars, svars >>
  PROVE  PInv'
<1>1. WhileReading /\ IInv /\ FactsOfModel /\ factbases # << >>
  BY DEF PInv, Waiting, WhileReading
<1>2. Stored' /\ ReadInv'
  BY <1>1, FetchKeyvaluesKeeps, GetMaxKeeps, FetchItemsKeeps, PrintItemsKeeps,
     ConnectionFailsKeeps DEF Decoder!Read
<1>3. IInv' /\ FactsOfModel' /\ factbases' # << >> /\ status' = status
  BY <1>1, ModelStays
<1>4. Saving!IInv'
  <2>1. UNCHANGED Saving!svars
    BY DEF svars, Saving!svars
  <2> QED
    BY <1>1, <2>1, SavingKeeps DEF WhileReading
<1>5. graph' = graph /\ client' = client
  BY DEF svars
<1>6. Result(FALSE)' = Result(FALSE)
  BY <1>5, SameGraph
<1> QED
  BY <1>1, <1>2, <1>3, <1>4, <1>5, <1>6 DEF PInv, WhileReading

LEMMA NothingKeeps ==
  ASSUME PInv, UNCHANGED allvars
  PROVE  PInv'
<1>1. UNCHANGED vars /\ UNCHANGED svars /\ UNCHANGED rvars
  BY DEF allvars
<1>2. IInv' /\ FactsOfModel' /\ factbases' # << >> /\ status' = status
  BY <1>1, ModelStays DEF PInv
<1>3. CASE Waiting
  <2>1. Waiting'
    BY <1>1, <1>3 DEF Waiting, Decoder!Start, Saver!EmptyTables, Saver!Tables, svars, rvars
  <2> QED
    BY <1>2, <2>1 DEF PInv
<1>4. CASE client # "waiting" /\ WhileReading
  <2>1. graph' = graph /\ client' = client /\ db' = db
    BY <1>1 DEF svars
  <2>2. ReadInv'
    BY <1>1, <1>4, <2>1, SameReading DEF WhileReading
  <2>3. Stored'
    BY <1>1, <1>4, <2>1 DEF WhileReading, Stored, rvars
  <2>4. Result(FALSE)' = Result(FALSE)
    BY <1>1, <2>1, SameGraph
  <2>5. Saving!IInv'
    <3>1. UNCHANGED Saving!svars
      BY <1>1 DEF svars, Saving!svars
    <3> QED
      BY <1>4, <3>1, SavingKeeps DEF WhileReading
  <2> QED
    BY <1>2, <1>4, <2>1, <2>2, <2>3, <2>4, <2>5 DEF PInv, WhileReading
<1> QED
  BY <1>3, <1>4 DEF PInv, WhileReading

LEMMA InitPInv == PInit => PInv
<1> SUFFICES ASSUME PInit PROVE PInv
  OBVIOUS
<1>1. Init /\ Waiting
  BY DEF PInit, Waiting
<1>2. IInv /\ FactsOfModel
  BY <1>1, InitIInv, InitOfModel
<1>3. factbases # << >>
  BY <1>1 DEF Init, Ctor
<1> QED
  BY <1>1, <1>2, <1>3 DEF PInv

LEMMA NextPInv == PInv /\ [PNext]_allvars => PInv'
<1> SUFFICES ASSUME PInv, [PNext]_allvars PROVE PInv'
  OBVIOUS
<1>1. CASE Generate
  BY <1>1, GenerateKeeps
<1>2. CASE Save
  BY <1>2, SaveKeeps
<1>3. CASE \/ SaveStep(Saver!Client) \/ SaveStep(Saver!Server)
           \/ SaveStep(Saver!Kill) \/ SaveStep(Saver!Lose)
  BY <1>3, SaveStepKeeps DEF SaveStep
<1>4. CASE ReadStep(Decoder!Read) \/ ReadStep(Decoder!ConnectionFails)
  BY <1>4, ReadStepKeeps DEF ReadStep
<1>5. CASE Ended \/ UNCHANGED allvars
  BY <1>5, NothingKeeps DEF Ended
<1> QED
  BY <1>1, <1>2, <1>3, <1>4, <1>5 DEF PNext

-----------------------------------------------------------------------------
(***************************************************************************)
(* The results.  All of them are about a decode at any moment of a saving  *)
(* that may be killed, lose its server or have quarters of the items       *)
(* refused.                                                                *)
(***************************************************************************)

\* Generator, saving and decode, stepping in any order, keep PInv.
THEOREM PipelineInvariance == PSpec => []PInv
<1> QED
  BY InitPInv, NextPInv, PTL DEF PSpec

\* A decode that comes to its end took all strings and printed every state.
THEOREM EndedDecodeSawAll == PSpec => []DoneMeansComplete
<1>1. PInv => DoneMeansComplete
  <2> SUFFICES ASSUME PInv, reader = "done"
               PROVE  /\ str_vector = instance.facts
                      /\ opt_index = NoIndex => Len(output) = Len(factbases)
    BY DEF DoneMeansComplete
  <2>1. ReadComplete
    BY DEF PInv, Waiting, Decoder!Start, ReadInv
  <2>2. CASE opt_index = NoIndex
    BY <2>1, <2>2 DEF ReadComplete, ReadAll
  <2> QED
    BY <2>1, <2>2 DEF ReadComplete
<1> QED
  BY <1>1, PipelineInvariance, PTL

\* decode fails for the reasons FailuresExplained lists, and no others.
THEOREM DecodeFailsForAReason == PSpec => []FailuresExplained
<1>1. PInv => FailuresExplained
  BY DEF PInv, Waiting, Decoder!Start, ReadInv, ReadComplete, FailuresExplained
<1> QED
  BY <1>1, PipelineInvariance, PTL

\* What decode prints of a state whose facts are fresh and fit are its facts,
\* all of them and no others, whatever failed before.
THEOREM DecodePrintsTheFacts == PSpec => []PrintedFaithful
<1>1. PInv => PrintedFaithful
  <2> SUFFICES ASSUME PInv, NEW k \in DOMAIN output, Printable(PrintedState(k))
               PROVE  output[k] = Shown(PrintedState(k))
    BY DEF PrintedFaithful
  <2>1. ReadComplete
    <3>1. output # << >>
      OBVIOUS
    <3> QED
      BY <3>1 DEF PInv, Waiting, Decoder!Start, ReadInv
  <2>2. CASE opt_index = NoIndex
    <3>1. k - 1 \in Ids /\ output[k] = PrintedItems(k - 1) /\ PrintedState(k) = Node(k - 1)
      BY <2>1, <2>2 DEF ReadComplete, ReadAll, PrintedState
    <3> QED
      BY <3>1, PrintableState DEF PInv
  <2>3. CASE opt_index # NoIndex
    <3>1. /\ opt_index \in Ids /\ output = << PrintedItems(opt_index) >>
          /\ PrintedState(k) = Node(opt_index)
      BY <2>1, <2>3 DEF ReadComplete, ReadOne, PrintedState
    <3>2. output[k] = PrintedItems(opt_index)
      BY <3>1
    <3> QED
      BY <3>1, <3>2, PrintableState DEF PInv
  <2> QED
    BY <2>2, <2>3
<1> QED
  BY <1>1, PipelineInvariance, PTL

=============================================================================
