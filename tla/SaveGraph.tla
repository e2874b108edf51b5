------------------------------ MODULE SaveGraph ------------------------------
(***************************************************************************)
(* save_ag_to_db over the connection of db.h, the server it talks to, and  *)
(* the picture of the saved graph that option -g asks for.                 *)
(*                                                                         *)
(* The client opens a transaction with exec, which waits for the answer,   *)
(* and sends the inserts and the COMMIT with execAsync, which waits only   *)
(* for what it sent before and never looks at an answer.  An insert that   *)
(* fails leaves the transaction failed, its COMMIT is then a rollback, and *)
(* the client goes on as if nothing had happened.                          *)
(*                                                                         *)
(* Factbases and edges count from 0, as their ids do; sequences from 1.    *)
(***************************************************************************)
EXTENDS Facts, FiniteSets

CONSTANT
  Graphs   \* what generate can return, reduced to what is saved: items, a
           \* sequence of [quals, topos] sequences of encodings; edges, a
           \* sequence of [from, to, exploit, perm]; strings, those of the
           \* Keyvalue; and should_graph, whether option -g was given

VARIABLES
  graph,     \* the graph to be saved
  program,   \* the statements made of it
  pc,        \* the next statement
  client,    \* "running", "done", "aborted", "killed"
  inflight,  \* the statement the server has not answered: << >> or << st >>
  error,     \* the server answered the last statement with an error
  txn,       \* "none", "open", "failed", or, when the connection is gone,
             \* "closed" by the client or "lost"
  view,      \* the tables as the open transaction sees them
  db,        \* the tables as committed
  answers,   \* the rows that the queries gave
  drawn      \* what the file of -g shows: << >> or << picture >>

svars == << graph, program, pc, client, inflight, error, txn, view, db,
            answers, drawn >>

-----------------------------------------------------------------------------
(***************************************************************************)
(* The graphs.  An edge is between factbases of the graph and has assets:  *)
(* an exploit without parameters has no conditions and changes nothing.    *)
(* An encoding is written without a sign, and one with its highest bit set *)
(* is out of the range of BIGINT; a quality never has it set, for the      *)
(* highest quarter of its encoding is unused.                              *)
(***************************************************************************)
Factbases(g) == 0 .. Len(g.items) - 1

Storable(word) == word[4] < ValueSpan \div 2

IsGraph(g) ==
  /\ g.items \in Seq([quals : Seq(Word), topos : Seq(Word)])
  /\ \A i \in DOMAIN g.items : \A word \in ToSet(g.items[i].quals) : Storable(word)
  /\ g.edges \in Seq([from : Factbases(g), to : Factbases(g), exploit : Nat,
                      perm : Seq(Nat) \ {<< >>}])
  /\ g.strings \in Seq(STRING)
  /\ g.should_graph \in BOOLEAN

ASSUME GraphAssumption == \A g \in Graphs : IsGraph(g)

-----------------------------------------------------------------------------
(***************************************************************************)
(* The statements.  An insert that the server cannot parse is one that is  *)
(* not well formed.                                                        *)
(***************************************************************************)
BEGIN == [call |-> "exec", op |-> "begin"]
COMMIT == [call |-> "async", op |-> "commit"]

Select(table) == [call |-> "exec", op |-> "select", table |-> table]

Insert(table, rows, wellformed) ==
  [call |-> "async", op |-> "insert", table |-> table, rows |-> rows,
   wellformed |-> wellformed]

Tables == {"factbase", "factbase_item", "edge", "edge_asset_binding", "keyvalue"}

SaveFactbases(g) ==
  << BEGIN,
     Insert("factbase", [i \in 1 .. Len(g.items) |-> [id |-> i - 1]], TRUE),
     COMMIT >>

(***************************************************************************)
(* The k-th quarter of the factbases; the last takes what is left over.    *)
(* The rows of all its qualities come before those of all its topologies,  *)
(* but the row without a comma before it is that of the first fact met     *)
(* factbase by factbase.                                                   *)
(***************************************************************************)
\* A variant that leaves out what is left over.
QuarterCut(g, k) ==
  LET n == Len(g.items) \div 4 IN [j \in 1 .. n |-> j + k * n]

Quarter(g, k) ==
  LET n == Len(g.items) \div 4
  IN  [j \in 1 .. n + (IF k = 3 THEN Len(g.items) % 4 ELSE 0) |-> j + k * n]

ItemRows(type, id, encodings) ==
  [i \in DOMAIN encodings |-> [id |-> id, f |-> encodings[i], type |-> type]]

SaveItems(g, k) ==
  LET chunk == Quarter(g, k)
      quals == FlattenSeq([j \in DOMAIN chunk |->
                 ItemRows("quality", chunk[j] - 1, g.items[chunk[j]].quals)])
      topos == FlattenSeq([j \in DOMAIN chunk |->
                 ItemRows("topology", chunk[j] - 1, g.items[chunk[j]].topos)])
      first == SelectInSeq(chunk, LAMBDA i : g.items[i].quals \o g.items[i].topos # << >>)
  IN  << BEGIN,
         Insert("factbase_item", quals \o topos,
                /\ first # 0
                /\ quals # << >> => g.items[chunk[first]].quals # << >>),
         COMMIT >>

(***************************************************************************)
(* The edges are saved in two halves, one edge of each from, to and        *)
(* exploit: the first one entered in the unordered_map eq, which is then   *)
(* read in some order.                                                     *)
(***************************************************************************)
SameClass(e1, e2) ==
  e1.from = e2.from /\ e1.to = e2.to /\ e1.exploit = e2.exploit

\* Two variants of eq: without the merging, and with the last edge kept.
AllEdges(g) == DOMAIN g.edges

LastOfClass(g) ==
  {j \in DOMAIN g.edges :
     \A i \in DOMAIN g.edges : SameClass(g.edges[i], g.edges[j]) => i <= j}

UniqueEdges(g) ==
  {j \in DOMAIN g.edges : \A i \in 1 .. j - 1 : ~ SameClass(g.edges[i], g.edges[j])}

\* The k-th half of the unique edges read in the given order.
Half(order, k) ==
  LET n == Len(order) \div 2
  IN  IF k = 0 THEN SubSeq(order, 1, n) ELSE SubSeq(order, n + 1, Len(order))

\* A variant that numbers the edges from 1.
EdgeRowFromOne(g, j) ==
  [id |-> j, from |-> g.edges[j].from, to |-> g.edges[j].to,
   exploit |-> g.edges[j].exploit]

EdgeRow(g, j) ==
  [id |-> j - 1, from |-> g.edges[j].from, to |-> g.edges[j].to,
   exploit |-> g.edges[j].exploit]

\* get_asset_query gives nothing for an exploit without parameters, and the
\* commas around nothing are an error.
BindingRows(g, j) ==
  [i \in DOMAIN g.edges[j].perm |->
     [id |-> j - 1, param |-> i - 1, asset |-> g.edges[j].perm[i]]]

EdgeInserts(g, half) ==
  << Insert("edge", [i \in DOMAIN half |-> EdgeRow(g, half[i])], half # << >>),
     Insert("edge_asset_binding",
            FlattenSeq([i \in DOMAIN half |-> BindingRows(g, half[i])]),
            half # << >> /\ \A i \in DOMAIN half : g.edges[half[i]].perm # << >>) >>

\* A variant with a transaction for each of the two inserts.
SaveHalfTwice(g, order, k) ==
  LET inserts == EdgeInserts(g, Half(order, k))
  IN  << BEGIN, inserts[1], COMMIT, BEGIN, inserts[2], COMMIT >>

SaveHalf(g, order, k) ==
  << BEGIN >> \o EdgeInserts(g, Half(order, k)) \o << COMMIT >>

SaveKeyvalue(g) ==
  << BEGIN,
     Insert("keyvalue",
            [i \in DOMAIN g.strings |-> [id |-> i - 1, property |-> g.strings[i]]],
            g.strings # << >>),
     COMMIT >>

SaveAllItems(g) ==
  SaveItems(g, 0) \o SaveItems(g, 1) \o SaveItems(g, 2) \o SaveItems(g, 3)

SaveEdges(g, order) ==
  IF g.edges = << >> THEN << >> ELSE SaveHalf(g, order, 0) \o SaveHalf(g, order, 1)

\* Two variants: the keyvalues first, and no COMMIT after the items.
KeyvalueFirst(g, order) ==
  SaveKeyvalue(g) \o SaveFactbases(g) \o SaveAllItems(g) \o SaveEdges(g, order)

ItemsUncommitted(g, order) ==
  SaveFactbases(g) \o SubSeq(SaveAllItems(g), 1, 11)
    \o SaveEdges(g, order) \o SaveKeyvalue(g)

save_ag_to_db(g, order) ==
  SaveFactbases(g) \o SaveAllItems(g) \o SaveEdges(g, order) \o SaveKeyvalue(g)

(***************************************************************************)
(* Option -g: fetch_graph_info asks for the ids of the factbases and for   *)
(* the edges, both in the order of their ids.  graph_init makes the n-th   *)
(* id the n-th vertex, and an edge whose end it does not know an edge at   *)
(* the first vertex; write_graphviz prints the numbers of the vertices and *)
(* the exploits of the edges.                                              *)
(***************************************************************************)
fetch_graph_info == << Select("factbase"), Select("edge") >>

Program(g, order) ==
  save_ag_to_db(g, order) \o (IF g.should_graph THEN fetch_graph_info ELSE << >>)

graph_init(factbase_rows, edge_rows) ==
  LET ids == {row.id : row \in factbase_rows}
      vertex_map(fid) ==
        IF fid \in ids THEN Cardinality({i \in ids : i < fid}) ELSE 0
  IN  [vertices |-> 0 .. Cardinality(ids) - 1,
       edges    |-> {[index   |-> row.id,
                      from    |-> vertex_map(row.from),
                      to      |-> vertex_map(row.to),
                      exploit |-> row.exploit] : row \in edge_rows}]

-----------------------------------------------------------------------------
EmptyTables == [table \in Tables |-> {}]

Init ==
  /\ graph \in Graphs
  /\ \E order \in SetToSeqs(UniqueEdges(graph)) : program = Program(graph, order)
  /\ pc = 1
  /\ client = "running"
  /\ inflight = << >>
  /\ error = FALSE
  /\ txn = "none"
  /\ view = EmptyTables
  /\ db = EmptyTables
  /\ answers = << >>
  /\ drawn = << >>

(***************************************************************************)
(* The client.  Both exec and execAsync first take the answers to what was *)
(* sent before; exec takes its own answer too, so its error is seen before *)
(* the next statement is sent, and DB::exec then calls abort.              *)
(***************************************************************************)
Answered == client = "running" /\ inflight = << >>

ExecFailed == pc > 1 /\ program[pc - 1].call = "exec" /\ error

Send ==
  /\ Answered /\ ~ ExecFailed
  /\ pc <= Len(program)
  /\ pc' = pc + 1
  /\ IF txn = "lost"
     THEN error' = TRUE /\ UNCHANGED inflight
     ELSE inflight' = << program[pc] >> /\ UNCHANGED error
  /\ UNCHANGED << graph, program, client, txn, view, db, answers, drawn >>

Abort ==
  /\ Answered /\ ExecFailed
  /\ client' = "aborted"
  /\ UNCHANGED << graph, program, pc, inflight, error, txn, view, db, answers,
                  drawn >>

\* save_ag_to_db returns, and main after it, without waiting for the last
\* COMMIT; with -g, main draws what the two queries gave.
Return ==
  /\ client = "running"
  /\ pc > Len(program)
  /\ client' = "done"
  /\ \/ /\ ~ graph.should_graph
        /\ UNCHANGED drawn
     \/ /\ graph.should_graph
        /\ Answered /\ ~ ExecFailed
        /\ drawn' = << graph_init(answers[1], answers[2]) >>
  /\ UNCHANGED << graph, program, pc, inflight, error, txn, view, db, answers >>

\* The process is killed; what it sent last may not have reached the server.
Kill ==
  /\ client = "running"
  /\ client' = "killed"
  /\ inflight' \in {inflight, << >>}
  /\ UNCHANGED << graph, program, pc, error, txn, view, db, answers, drawn >>

-----------------------------------------------------------------------------
(***************************************************************************)
(* The server, with the keys, references and types of schema.sql.  A       *)
(* statement that is allowed is carried out: nothing else makes the server *)
(* refuse.                                                                 *)
(***************************************************************************)
NoDuplicates(rows) == \A i, k \in DOMAIN rows : rows[i] = rows[k] => i = k

Ids(tables, table) == {row.id : row \in tables[table]}

Allowed(tables, st) ==
  /\ st.wellformed
  /\ st.table # "edge_asset_binding" =>
       NoDuplicates(st.rows) /\ ToSet(st.rows) \cap tables[st.table] = {}
  /\ st.table = "factbase_item" =>
       \A row \in ToSet(st.rows) : row.id \in Ids(tables, "factbase") /\ Storable(row.f)
  /\ st.table = "edge" =>
       \A row \in ToSet(st.rows) : {row.from, row.to} \subseteq Ids(tables, "factbase")
  /\ st.table = "edge_asset_binding" =>
       \A row \in ToSet(st.rows) : row.id \in Ids(tables, "edge")

Inserted(tables, st) == [tables EXCEPT ![st.table] = @ \cup ToSet(st.rows)]

\* Outside a transaction a BEGIN starts one, and an insert is committed at
\* once.
InTransaction(st) ==
  \/ /\ st.op = "begin"
     /\ txn' = IF txn = "none" THEN "open" ELSE txn
     /\ view' = IF txn = "none" THEN db ELSE view
     /\ error' = (txn = "failed")
     /\ UNCHANGED << db, answers >>
  \/ /\ st.op = "commit"
     /\ txn' = "none"
     /\ db' = IF txn = "open" THEN view ELSE db
     /\ view' = db'
     /\ error' = FALSE
     /\ UNCHANGED answers
  \/ /\ st.op = "insert"
     /\ txn # "failed" /\ Allowed(view, st)
     /\ view' = Inserted(view, st)
     /\ db' = IF txn = "none" THEN view' ELSE db
     /\ error' = FALSE
     /\ UNCHANGED << txn, answers >>
  \/ /\ st.op = "insert"
     /\ txn = "failed" \/ ~ Allowed(view, st)
     /\ txn' = IF txn = "open" THEN "failed" ELSE txn
     /\ error' = TRUE
     /\ UNCHANGED << view, db, answers >>
  \/ /\ st.op = "select"
     /\ answers' = IF txn = "failed" THEN answers ELSE Append(answers, view[st.table])
     /\ error' = (txn = "failed")
     /\ UNCHANGED << txn, view, db >>

Execute ==
  /\ inflight # << >>
  /\ InTransaction(inflight[1])
  /\ inflight' = << >>
  /\ UNCHANGED << graph, program, pc, client, drawn >>

\* The server sees that the client has gone, and rolls back.
Disconnect ==
  /\ client # "running"
  /\ inflight = << >>
  /\ txn \notin {"closed", "lost"}
  /\ txn' = "closed"
  /\ view' = db
  /\ UNCHANGED << graph, program, pc, client, inflight, error, db, answers, drawn >>

(***************************************************************************)
(* The server restarts or the network fails.  What it had not answered is  *)
(* answered with an error; the client tries no new connection.             *)
(***************************************************************************)
Lose ==
  /\ txn \notin {"closed", "lost"}
  /\ txn' = "lost"
  /\ view' = db
  /\ inflight' = << >>
  /\ error' = (error \/ inflight # << >>)
  /\ UNCHANGED << graph, program, pc, client, db, answers, drawn >>

Disconnected ==
  /\ client # "running" /\ txn \in {"closed", "lost"}
  /\ UNCHANGED svars

Client == Send \/ Abort \/ Return

Server == Execute \/ Disconnect

Next == Client \/ Kill \/ Server \/ Lose \/ Disconnected

Spec == Init /\ [][Next]_svars /\ WF_svars(Client) /\ WF_svars(Server)

-----------------------------------------------------------------------------
TypeOK ==
  /\ pc \in 1 .. Len(program) + 1
  /\ client \in {"running", "done", "aborted", "killed"}
  /\ Len(inflight) <= 1 /\ ToSet(inflight) \subseteq ToSet(program)
  /\ error \in BOOLEAN
  /\ txn \in {"none", "open", "failed", "closed", "lost"}
  /\ DOMAIN view = Tables /\ DOMAIN db = Tables
  /\ \A table \in Tables : db[table] \subseteq view[table]
  /\ Ids(view, "factbase") \cup Ids(view, "factbase_item") \subseteq Factbases(graph)
  /\ Ids(view, "edge") \subseteq 0 .. Len(graph.edges) - 1

\* Whenever the process ends and whatever failed, an edge in the database has
\* all of its own assets there, and no others are there.
EdgesWithBindings ==
  db["edge_asset_binding"] =
    UNION {ToSet(BindingRows(graph, id + 1)) : id \in Ids(db, "edge")}

\* The edges saved are the first recorded from their state, to theirs, with
\* their exploit: no two of them alike, none in the place of an earlier one.
FirstEdges ==
  \A row \in db["edge"] : \A i \in DOMAIN graph.edges :
    SameClass(row, graph.edges[i]) => row.id <= i - 1

(***************************************************************************)
(* A quarter of the items is lost when a factbase holds a fact twice, for  *)
(* the primary key of factbase_item refuses it; when a fact is out of the  *)
(* range of its column; when its factbases hold no fact at all; and when a *)
(* factbase without qualities comes before one that has some and no other  *)
(* with qualities comes first.                                             *)
(***************************************************************************)
FactbasesOf(g, k) == {i - 1 : i \in ToSet(Quarter(g, k))}

HasQualities(g, fb) == g.items[fb + 1].quals # << >>
HasTopologies(g, fb) == g.items[fb + 1].topos # << >>

Lost(g, k) ==
  \/ \E fb \in FactbasesOf(g, k) :
       \/ ~ NoDuplicates(g.items[fb + 1].quals)
       \/ ~ NoDuplicates(g.items[fb + 1].topos)
       \/ \E word \in ToSet(g.items[fb + 1].topos) : ~ Storable(word)
  \/ \E with \in FactbasesOf(g, k) : \E without \in FactbasesOf(g, k) :
       /\ HasQualities(g, with)
       /\ without < with /\ HasTopologies(g, without)
       /\ \A fb \in FactbasesOf(g, k) : fb <= without => ~ HasQualities(g, fb)

Items(g, fb) ==
  ToSet(ItemRows("quality", fb, g.items[fb + 1].quals))
    \cup ToSet(ItemRows("topology", fb, g.items[fb + 1].topos))

(***************************************************************************)
(* The saving implements GraphStore: whatever is killed, lost or refused,  *)
(* the database goes from one to the next of its states, with the quarters *)
(* that are refused left out of what is to be stored.                      *)
(***************************************************************************)
Attack(g, j) == [edge |-> EdgeRow(g, j), assets |-> ToSet(BindingRows(g, j))]

Content(g) ==
  [states   |-> Factbases(g),
   quarters |-> {UNION {Items(g, fb) : fb \in FactbasesOf(g, k)} :
                   k \in {q \in 0 .. 3 : ~ Lost(g, q)}},
   attacks  |-> {Attack(g, j) : j \in UniqueEdges(g)},
   strings  |-> ToSet(g.strings)]

Store == INSTANCE GraphStore WITH
  content <- Content(graph),
  states  <- Ids(db, "factbase"),
  facts   <- db["factbase_item"],
  attacks <- {[edge |-> row,
               assets |-> {a \in db["edge_asset_binding"] : a.id = row.id}] :
                row \in db["edge"]},
  strings <- {row.property : row \in db["keyvalue"]}

ImplementsGraphStore == Store!Spec

\* What is in the database says what else is: items mean that all factbases
\* are there; edges, that the items are; and the keyvalues, that everything
\* is, except for quarters that are refused.
SavedInOrder == Store!InOrder

\* Whatever failed before it, a picture shows the graph as it was generated:
\* every state, and one edge for the attacks alike, between the right states.
DrawnFaithful ==
  \A k \in DOMAIN drawn :
    /\ drawn[k].vertices = Factbases(graph)
    /\ \A e \in drawn[k].edges : SameClass(e, graph.edges[e.index + 1])
    /\ \A i \in DOMAIN graph.edges :
         Cardinality({e \in drawn[k].edges : SameClass(e, graph.edges[i])}) = 1

\* The client always comes to an end; and unless it is killed or loses the
\* server, what it sent is committed: a quarter that fails does not stop what
\* comes after it.
Completes ==
  /\ <>(client # "running")
  /\ <>(\/ client = "killed" \/ txn = "lost"
        \/ client = "done" /\ txn = "closed" /\ db["keyvalue"] # {})

=============================================================================
