# Verification of the attack graph generator

`ag_gen` reads a network model and a list of exploit patterns, imports both
into a PostgreSQL database, fetches them back, generates the graph of all
states that exploits can bring the network into, and saves that graph.  A
second program, `decode`, reads a saved graph back and prints its facts.  This
directory holds TLA+ modules for it, TLC configurations that check them on
small instances, and TLAPS proofs.  Paths below are relative to the
repository's root, whose C++ lies under `src/`.

Contents: 1 inventory; 2 modules and how they follow the code; 3 runs;
4 theorems; 5 what is not modelled; 6 findings; 7 plan.

## 1. Inventory

`ag_gen` does everything in order, in one thread (`main.cpp`).  Concurrency
exists between that process and the database server, which works on what
`execAsync` sent while the client prepares the next statement, and which may
fail, or lose its client, at any moment; and between it and `decode`, which may
be started while a graph is being saved.  What makes the program hard is
elsewhere: containers and counters kept in step by hand, facts merged by
hashes, list positions used as identities, a graph and a model saved in
several transactions, errors that nobody looks at, and encodings that are
written unsigned, stored signed and read back in signed pieces.

**Attack graph generator** (`src/ag_gen/ag_gen.cpp`, `edge.cpp`,
`exploit.cpp`, `assetgroup.h`).
State: `frontier` (a deque), `hash_map` (hash to id), `instance.factbases`,
`instance.factbase_items`, `instance.edges`, the static counters
`Factbase::current_id` and `Edge::edge_current_id`.
Operations: the constructor, and `generate`, a loop in a loop: take a state off
the frontier, find the exploits and asset groups that apply, apply each to a
copy, and add, link or drop the result.
Interacts with: Odometer (permutations of assets), NetworkState (facts),
Keyvalue (numbers for strings); its result goes to the saving of the graph.
Hard: the deque pops at the back and fills at the front; a new state is
numbered, inserted in the map, the deque and two vectors in seven lines;
exploits undo one another; a string without a number throws.
Correct when: every state that exploits reach is a node, once; every applicable
exploit is an edge, once; edges join the states they should; it ends.

**Network states and factbases** (`network_state.cpp`, `factbase.cpp`).
State: a vector of qualities, a vector of topologies, an id.
Operations: find, add, update and delete of either kind, `hash`.
Hard: update changes all matches and may produce a fact twice, delete removes
the first match; the hash is over sets, the items saved are the vectors.
Correct when: equal hashes mean equal facts, and facts held twice or encoded
late change nothing that can be seen.

**Qualities, topologies, Keyvalue** (`quality.cpp`, `topology.cpp`,
`keyvalue.h`).
State: names and values, an encoding computed once; the numbered strings.
Operations: constructors, `encode`, `operator==`, `set_value`, `operator[]`.
Hard: bit-fields cut what does not fit; `set_value` leaves the encoding stale;
`Topology::operator==` is not symmetric.
Correct when: the encodings of different facts of one model differ.

**Odometer** (`odometer.h`).
State: the permutation in hand, a reference to it, the digit looked at.
Operations: its constructor, whose loop fills `all`.
Hard: a break in the middle, no digits, no values, `K - 1` of an unsigned.
Correct when: every permutation is there once, in the order of counting.

**Hashtable** (`hash.c`).
State: an array of chains, its size, a count.
Operations: `init`, `add` with `rehash`, `get`.
Hard: the last node of a chain is not compared, so keys repeat; `rehash` adds to
a table that could itself need a rehash, and keeps the count it had.
Correct when: a name gives the position it was first added with.

**Import and reading of the models** (`main.cpp`, `build_sql.c`,
`db_functions.cpp`, `str_array.c`, `asset.cpp`).
State: the parsed files, two strings of commands, the tables of the models, the
objects read back.
Operations: `parse_nm`, `parse_xp`, `import_models`, `fetch_all_*`.
Interacts with: the parsers (lists), Hashtable (names to positions), the server
(keys and references of `schema.sql`); hands the generator its instance.
Hard: two transactions, after either of which the process can be killed; tables
that outlive a run; rows grouped by comparing with the row before; lists that
are NULL when empty.
Correct when: the model generated from is the one in the two files, and the
database never holds a mixture of two runs.

**Saving of the graph** (`save_ag_to_db` in `db_functions.cpp`, `db.h`,
`schema.sql`).
State: the statements sent and not answered, the server's transaction, the
tables.
Operations: `exec` (waits for the answer), `execAsync` (does not), eight
transactions: factbases, four quarters of items, two halves of edges, keyvalues.
Hard: answers nobody reads, a COMMIT that is a rollback, kills and lost
connections in between, empty quarters and halves.
Correct when: whatever is in the database is a graph cut off between two parts,
and an edge is never without its assets.

**Decode tool** (`tools/decode.cpp`).
State: the strings taken at the start, the factbase being read, its items, what
was written so far.
Operations: `main`, `find_all`, `find_one`, `find_one_impl`; a query of the
database each for the strings, the largest id, the items of a factbase, and
again the strings and the assets.
Interacts with: the database only, at whatever state a saving has left it.
Hard: queries that see different moments of a saving; signed bit-fields; indexes
nobody checks; an exit at the first factbase without items; an exception when
there is none.
Correct when: what it prints of a state are that state's facts, and when it ends
without an error it has printed the whole graph.

**Graph for graphviz** (`fetch_graph_info`, `graph_init`, `graph_ag`).
State: the graph built from the rows of two queries.
Interacts with: the saving, whose last answers nobody has looked at when the
queries are made.
Correct when: the picture shows the states and the attacks generated, whatever
of its items could be saved.

**Keyvalue table and unique values** (`fetch_unique_values`, `fetch_keyvalues`,
`fetch_kv`).
What strings are numbered, and where the numbers are stored for `decode`.  The
table is the last thing saved and the first thing `decode` reads.

Smaller or passive parts: **Asset** (a name and its qualities), **parsers**
(bison and flex, lists only), **start-up and options** (`-n`, `-x`, `-g`, `-c`;
`-b`, `-d` and `-r` are accepted and change nothing that is built by default),
**cycle removal** (`remove_cycles`, never called), **Redis variant** (not compiled by default),
**lists, vectors, string arrays, memory** (plain containers), **database
scripts**, **unused queries**, **tests and examples**.  `PROJECT.json` lists all
of them with what is modelled and why the rest is not, and 34 hazards, each at
its line with the properties that would notice it going wrong.

## 2. Modules and how they follow the code

`PROJECT.json` maps every definition that models code to the lines it stands
for.  Definitions named `...FromOne`, `Never...`, `...Twice` and the like,
introduced by "a variant that ...", are mistakes one could make; no action uses
them, and each is there to show that a property notices it.

### The generator

    Facts <- NetworkState <-+
                            +- AGGen <- AGGenGraph <- AGGenClaims <- MCAGGen
    Odometer <- OdometerLoop|             |
        ^-------------------+             +- INSTANCE FactSets, AttackGraph

- `Facts`: Keyvalue, the two kinds of facts, their equality and their encoding
  as four 16-bit quarters of a word, each field cut to its width (`% AssetSpan`
  and so on).  `QualityEq` and `TopologyEq` follow the two `operator==`, the
  second with its asymmetry.
- `NetworkState`: the two vectors, `add_`, `update_`, `delete_` of both kinds
  with first and all matches as in the code, binding of parameterized facts,
  applicability, the postconditions in their order, and `hash`.  `Digest`
  stands for `boost::hash_combine` over the ordered words.
- `Odometer`: `Perms(N, K)`, what the odometer holds when it is constructed,
  by arithmetic; `OdometerLoop`: the constructor's loop, one action per way an
  iteration can go, checked to arrive at `Perms`.
- `AGGen`: the constructor is `Init`.  An iteration of the outer loop is
  `FetchState`, an iteration of the loop over `appl_exploits` is one of
  `NoChange` (`continue`), `NewState` (the hash is new) and `KnownState`; each
  does all of what its branch does.  `appl_exploits` is the set of moves left,
  taken in the order of the vector.  `factbases` and `factbase_items` always
  receive the same and are one variable.  `Abort` is the exception that
  `Keyvalue::operator[]` throws and nobody catches.  A sequence number in TLA+
  is one more than the code's, ids count from 0 in both.
- `FactSets` says what an exploit means on sets of facts, with no vector, first
  match or encoding; `AttackGraph` is the promise: the graph of all fact sets,
  explored in any order, complete before it is called complete.  `AGGenGraph`
  instantiates both: a node is mapped to its set of facts, an edge to a link
  between two sets.
- `AGGenClaims`: three statements of the repository that the code does not keep.
- `MCAGGen`: a library of seven exploits that between them add, update and
  delete facts of both kinds, undo and shadow each other, have no parameter,
  and need a string that may have no number; and the sets of instances.

### Before and after the generator

    ModelImport <- MCModelImport
    HashTable                        INSTANCE StringIds
    Facts <- SaveGraph <- MCSaveGraph        INSTANCE GraphStore
    Facts <- Decode
    AGGenGraph <- Pipeline <- MCPipeline     INSTANCE SaveGraph, Decode

- `HashTable` (`hash.c`) implements `StringIds`, the promise that a name has the
  position it was first added with.  The hash function is a variable that never
  changes, so a run takes all of them.  An add is one action, the rehash it
  may begin with included.
- `ModelImport`: the runs of the program on one database.  A run goes through
  its phases in the order of `main`: parse both files, import each in one
  transaction, read the tables back, generate and save.  `Kill` may come in any
  phase, `Clear` (`clear_db.sh`) between runs.  Tables are sequences of rows,
  because the code relies on the order they come back in.  `Chosen` is the loop
  that appends the facts of one kind and passes over the others.  Names are found with
  `Index`, the first position, which is what `HashTable` is proved to give.
  `End("crash")` is a NULL or missing comma dereferenced, `"exit"` an explicit
  exit, `"abort"` a database error.
- `SaveGraph`: `save_ag_to_db` as a list of statements, a client that sends them
  by `exec` and `execAsync`, and a server (modelled from how the code uses it:
  transactions, keys, references).  At most one statement is under way, as
  `execAsync` takes the answers to the last one before it sends the next.
  `Kill` ends the client with or without the statement under way delivered;
  `Lose` ends the connection.  Formatting of SQL appears only where it decides
  whether the server can parse a statement (`wellformed`), and the range of a
  column where an encoding can leave it (`Storable`).  With `-g` the two queries
  of `fetch_graph_info` follow, and `Return` draws what they gave.
- `GraphStore` is what the saving promises to a reader, without statements,
  transactions or errors: states, then facts, then attacks, then strings; each
  part only on top of the complete parts before it, attacks with their assets,
  and nothing taken back.  `SaveGraph` instantiates it, with the quarters that
  the server refuses left out of what is to be stored.
- `Decode`: the reader, one action per query; `PrintItems` is the last part of
  `find_one_impl`, the indexing of `assets` and `str_vector` included: a read
  beyond them is `"undefined"`, after which nothing is said.  `Signed` is the
  sign that a bit-field of type `int` gives its highest bit.
- `Pipeline` composes `AGGenGraph`, `SaveGraph` and `Decode`: `Save` hands what
  `generate` returns to the saving (`Result`: the encodings made by the
  constructors, the edges, the Keyvalue), and saver and reader then take their
  steps in any order on the one variable they share, `db`.
- `MCSaveGraph`, `MCPipeline`, `MCModelImport`: the small instances, and a
  statement of the repository that the code does not keep in each of the last
  two.

`ModelImport.WellFormedModel` establishes what `AGGen` assumes of its instances
(`WellFormed`): assets and parameters are in range, as far as the names in the
files are declared and exploits of one name have equally many parameters.
`Pipeline` joins the generator to the saving, on the few models of `MCPipeline`;
`save_graph` on its own takes graphs that are larger and worse than those: a
factbase with no fact, with one fact twice (`claim_items` exhibits such a one)
or with a fact out of range.  An edge always has an asset: an exploit without
parameters has no conditions, since every condition needs one, and changes
nothing.

## 3. Runs

| Run | What it shows |
|---|---|
| `odometer_loop` | the constructor's loop gives every permutation, ascending, none skipped, for 0 to 3 parameters and 0 to 4 assets |
| `aggen_invariants` | the bookkeeping of `generate` and what it means: one node per hash and found under it, the deque is a queue and nodes are in breadth-first order, edges are real moves, none is missed and none recorded twice, merging by hash neither confuses fact sets nor changes what can happen next |
| `aggen_refines` | the generator implements `AttackGraph` and always ends |
| `hash_table` | the table gives first positions, counts its nodes, stays near its load factor, keeps copies of a key together |
| `model_import` | tables are the work of one run; the generator's model is that of the files, in range; what becomes of names that are not declared and of exploits that share one |
| `save_graph` | after any kill, loss or refused insert the database is a state of `GraphStore` and goes on as it allows; edges have their own assets and no others, and no two are alike; a picture shows the whole graph although a part of it was refused; undisturbed, the saving completes |
| `pipeline` | generated, saved and read back at any moment of the saving: what `decode` prints are the facts generated; a `decode` that comes to its end saw the whole graph; each way it fails has its cause; started after the saving it ends, or is stopped by one of these causes |
| `claim_preconditions`, `claim_items`, `claim_new_states`, `claim_all_items`, `claim_grammar` | statements of comments, schema, usage text and grammar that the code violates (section 6) |

Bounds, and why they are enough:

- `aggen_*`: two assets, so that permutations of 0, 1 and 2 parameters have
  groups with equal and different assets; every pair of the seven exploits in
  both orders from two initial sets of qualities, with and without a link
  (`PairInstances`), models with directed links and links from an asset to
  itself (`OddInstances`), and every triple (`TripleInstances`).
  `aggen_invariants` takes all three, `aggen_refines` the pairs.  The largest
  graphs have between twenty and thirty nodes, and every branch of the loops is
  taken in them.  Since
  `generate` is deterministic and has no counter that could overflow at this
  size, what more assets add is more of the same merging; the bookkeeping
  is proved for all sizes.  The meaning is compared where links are
  bidirectional: with directed ones `TopologyEq` departs from any meaning, see
  `claim_preconditions`.
- `Digest` is the identity in the runs: they assume that no two word lists of
  one model collide in 64 bits.  The theorems hold for every `Digest`, three of them
  for models without collisions.
- `odometer_loop`: `MaxN = 3`, `MaxK = 4`; zero and one of each are included,
  three digits have carries over one and two places.
- `hash_table`: tables of 1 and 2 slots, three names, six adds: two rehashes,
  keys repeated before and after them, every combination of collisions modulo
  1 to 11.  The real sizes 7 and 101 only delay the first rehash.
- `model_import`: nine networks and fourteen exploit files, among them empty
  lists, repeated, undeclared and out-of-order names (shared by exploits next to
  each other and apart, with as many parameters and with more), unknown directions and
  actions, duplicate keys; `MaxRuns = 2`, as a run meets a database only
  through what the tables hold and a second run already finds every kind of
  remainder.
- `save_graph`: one, two or six factbases (quarters that are empty, of one, of
  three with the rest of the division), zero, one, three or four edges (halves
  empty, of one, of two), in every order the unordered map can give them.
  Fields of an encoding are two bits wide, so that the third of three strings reaches the upper
  half of a value, which a `BIGINT` cannot hold.
- `pipeline`: fields of two to four bits for the same reason: with two to
  five strings numbered in different orders, a link's property, its value and a quality's value each are in the
  upper half of its field once.  Graphs of up to four states: quarters of
  one, and a state without facts.  `decode` is asked for all states, for state
  1 and for state 7, which no graph has.  One reader is enough, since readers
  change nothing.

Fairness:

- `AGGen` and `OdometerLoop`: weak fairness of `Next`.  Both are loops of a single thread without
  waiting, so a step that is possible is taken.
- `SaveGraph`: weak fairness of the client's statements and, separately, of the
  server's answers.  The client has nothing to wait for but an answer, and a
  server that got a statement and is not lost answers it.  `Kill` and `Lose`
  have no fairness: they need not happen.
- `Pipeline`: the same for the saving, and weak fairness of the generator and
  of `decode`, each a process of its own that waits for nothing but answers.
  `ConnectionFails` has none.
- The other modules state no liveness.

## 4. Theorems

Each module `X_proofs` is about module `X`; `Induction` holds what they share:
induction and recursion over 0 .. n, sequences, and where the elements of
`FlattenSeq` come from, all proved from the least element of a set of naturals.
A theorem named like a property's promise states that property of
`PROJECT.json`, for every value of the constants that the assumptions below
allow.  These modules prove all 29 invariants that the runs check, two of them
for models of which something is assumed in the theorem, two of the three
refinements, and the safety part of the third; the rest is named at the end.

**`AGGen_proofs`** (every set of models, every `Digest`, every width of the
fields).  `TypeCorrect`; `Invariance`, from which follow `HashMapExact`
(`OneNodePerHash`), `FrontierIsQueue` (`OldestFirst`), `EdgesAreSteps`
(`EdgesSound`) and `GraphIsClosed` (`NothingMissed`); and, with a second
invariant, `EdgesAreDistinct` (`OneEdgePerMove`) and `SearchIsBreadthFirst`
(`ShortestFirst`).

`IInv` is the conjunction of `TypeOK` and the first four.  None of the four is
inductive alone.  That an edge starts where it should needs the state in hand to
be the node it claims to be, which is `OldestFirst`; that it ends where it
should needs the map's entry for a hash to be the node with that hash, which is
`OneNodePerHash`; and that a move tried is recorded under the right
node, which `NothingMissed` is about, needs `EdgesSound` and both.
`OneNodePerHash` in turn needs from `TypeOK` that the keys of the map are the
hashes of the factbases and no others.  The order of the proof follows this:
types (with the lemmas that a successor of a typed state is typed, for which
every postcondition's strings have numbers because `fetch_unique_values` asks
for them), the map, the queue, the edges, the moves; in each, one step per
action.

`GInv` adds what the order of the edges is (`EdgeOrderKept`): they are made in
the order in which states are expanded, a move that has an edge from the state
in hand is no longer among the moves left, and every node but the first has an
edge that discovered it, from an older node and before any edge to a younger
one.  Two edges alike would be one move tried twice, or two moves with the same
permutation, and no two entries of an odometer are equal.  For breadth-first
order, follow the discovering edges back: ages along them decrease, and the
levels of nodes can therefore only grow with their ids.

Then what the nodes and edges mean.  `FactsOfModel` (`StatesAreOfModel`) says that
every vector holds facts the model can write: names, values and assets come
from its initial facts and postconditions, encodings have the form of their
kind.  Since numbers within their fields tell any two facts apart
(`QualitiesToldApart`, `TopologiesToldApart`, for every Keyvalue and every width
above one), equal hashes mean equal facts:

- `EdgesLeadToTheFacts` (`EdgesFaithful`) is about models of which
  `ToldApart(instance)` holds: its numbers are within their fields; no two
  states over its facts collide (`Digest` gives different results for different
  words); no link has the value that is numbered 0; links have one
  operation.  Each is what the code needs.  `hash` appends the words of links to
  those of qualities with nothing in between, so a link whose value is number 0
  has the word of a quality, which `claim_new_states` turns into a lost state;
  and the operation is not part of an encoding.
- `MergingIsSound` (`MergeSound`) also needs `DeletesSingle` and `NoLoops`:
  `delete_` erases the first match and leaves a second, so that two vectors with
  the same facts may become different.  What an exploit deletes must be in a vector once.
  That is so if it is so of the initial facts and no update makes one fact out
  of two; and if links are deleted, all go both ways and none is from an asset
  to itself, since otherwise `TopologyEq` is not symmetric and a delete may erase
  another link than the one it names.  The invariant is `SingleInGraph`.
- `StepsOfAttackGraph`: under `PlainModel` (the above, and all links go both
  ways) and as long as no exploit adds a link from an asset to itself, a search
  of a vector finds what `FactSets` looks for, a postcondition changes the
  vector's facts as it changes sets, and a step of the generator is one of
  `AttackGraph` or leaves it alone.  The graph is complete when `generate`
  returns: the part that takes `NothingMissed`, every asset group being an entry
  of the odometer, and `PlainInGraph`.  This is `ImplementsAttackGraph` without
  its fairness.

These hypotheses hold of the runs' instances as follows.  All of
`PairInstances`, `TripleInstances` and `OddInstances` satisfy `ToldApart`; the
instance of `claim_new_states` does not.  `PlainModel` and `NoLoops` hold of
188 of the 196 pairs, all but those that delete links and update them (`Cut`
with `Flap`), and of 307 of the 343 triples.  Where they do not hold the runs
still find `MergeSound` and `ImplementsAttackGraph` true: the conditions are
sufficient, and simple to read off a model, but not necessary.

And that it ends, as far as it can be said without fairness.  The facts of a model
have finitely many words, so `OneNodePerHash` bounds the graph, collisions or not
(`NodesAreBounded`); and every step of `generate` makes the triple `Left` less: the
nodes that can still be made, the states in the deque, the moves in the vector
(`EveryStepIsProgress`).

**`Odometer_proofs`** (every `N`, every `K > 0`).  The entries of `Perms(N, K)` give
each parameter an asset (`ReadingIsPermutation`), and every assignment of
assets is an entry (`EveryPermutationIsRead`): the digits of a number are read
off and put together again by induction over the parameters.

**`OdometerLoop_proofs`** (every number of parameters and of assets, none
included).  `LoopInvariance` says which reading the loop is at and that
`last_perm` and the digits agree with it; `LoopTypeCorrect`, `LoopRepeatsNone`,
`LoopSkipsNone` and `LoopIsComplete` are the four invariants of the run.  The
point that is not obvious is the exit: while the loop runs there is a reading
left, so its condition can only end a loop that never began, and the break comes
at the last reading and at no other, because only there would counting on carry
out of the highest digit.

**`HashTable_proofs`** (every set of names, hash function, initial size and
number of adds).  `LoadStaysBounded`: a table is never more than one node over
its load factor, so `rehash` has no reason to rehash the table it fills.
`TypeCorrect`; `UsedStaysExact`; `CopiesStayAdjacent`; and `Refinement`, the
table implements `StringIds`.  All rest on what `rehash` keeps: it meets the
nodes chain after chain, so two nodes of one name reach their new chain one
after the other and in their old order; `add_hashtable` would drop a node only
if an earlier one of its name were not the last of its chain, which adjacency
excludes.  Hence the count taken over stays right and the first node of a name
stays first.

**`SaveGraph_proofs`** (every set of graphs, every order of the unordered map,
any kill, lost connection or refused insert).  The statements are laid out in
one of two ways (with and without `-g`), each part at a fixed position.  The
rows the transaction sees, the rows committed, and whether the transaction has
failed are plain functions of the number n of statements answered (`Written`,
`Committed`, `Refused`).  `IInv` (`Invariance`) says that what the server holds
is given by them for some n, and that the client is at n or one ahead.  Each
invariant is then a fact about functions: `TypeCorrect`, `AttacksStayBound`
(`EdgesWithBindings`), `FirstEdgesKept` (`FirstEdges`), `SavingInOrder`
(`SavedInOrder`), `PicturesFaithful` (`DrawnFaithful`).  Two lemmas carry most of
it: the four quarters together are all of the items, and the two halves all of
the edges, for every number of either.  `Refinement` maps every step to
`GraphStore`: a COMMIT that succeeds adds one whole part, all else stutters.
What the abstract store promises is thereby true of the database:
`NothingElseSaved` (only parts of the graph are ever there, states and strings
all or none) and `NothingTakenBack` (what a reader has seen stays true).

**`ModelImport_proofs`** (every set of networks and exploit files, any number of
runs).  The invariant (`Invariance`): the tables hold nothing, or all of
one network and then perhaps all of one exploit file, each written by one run;
past its imports a run has found them empty, so they are its own; and what it
has read back so far is what they hold.  Inductive because every import that
succeeds has a row with id 0: a second one violates a key, and an empty command
string is refused.  From it: `TypeCorrect`, `DatabaseOfOneRun` (`OneRun`),
`ModelReadAsWritten` (`ReadAsWritten`) and `ModelWellFormed` (`WellFormedModel`).
The last two need what grouping rows by the id before gives: rows of an id that
stand together are read back whole (`CollectedPart`), which holds when exploits
have names of their own; and in any case no row is read under the id of
another (`CollectedRows`), which is enough for the ranges.  `ModelWellFormed` is what
`AGGen` assumes of its instances; it has declared names, and exploits of one name
with one number of parameters, among its premises, for nothing in the code
refuses the others: a parameter that is not declared reaches the generator as -1
(`ReadAsWritten`), and the first exploit of a name gets the conditions of the last
unbroken row of exploits with that name, numbered by their own parameters
(`SharedNamesPooled`, which is only model-checked).

**`Pipeline_proofs`** (every model, every width of the fields, any order of the
steps of generator, saving and `decode`; kills, lost connections and refused
quarters included).  It begins with a single fact: a quality or a link whose
numbers are in the lower halves of their fields is printed by `decode` as it was
encoded (`QualityComesBack`, `TopologyComesBack`); an asset or a value in the
upper half makes `decode` index outside its vectors and is never printed as
another (`UpperHalfIsOutside`).  They need that a string's number leads back to it
even if the Keyvalue held it twice, and that the direction, two bits below the
property, does not reach into it.  Then the composition: what `generate` returns is
a graph of the kind that `SaveGraph_proofs` is about, so its invariant is taken
over by instantiation; and `PInv` (`PipelineInvariance`) joins it to `IInv`, to
`FactsOfModel` and to what `decode` knows.  Either `decode` took no strings, and
gets no further than its first items; or it took all of them, and then the
transactions before the strings' have ended: the number of states and the
items of each state can no longer change, and what is printed so far is what
they say.  From it `EndedDecodeSawAll` (`DoneMeansComplete`),
`DecodeFailsForAReason` (`FailuresExplained`) and `DecodePrintsTheFacts`
(`PrintedFaithful`).  An earlier form of `FailuresExplained` blamed a read beyond a
vector on facts that do not fit only.  It could not be proved and is false: the
encoding of an updated quality is stale, and the old value may not fit while the
new one does.  `UserOnLinux` in `MCPipeline` is such a model.

Assumptions on constants, each evaluated by TLC on the instances of the runs:
`SpanAssumption` (fields have at least one value, that of a value at least two); `InstancesAssumption`
(well-formed models, see `ModelWellFormed`); `BoundAssumption` (the
bounds of the odometer's run are naturals); `HashAssumption` (table sizes are
positive); `GraphAssumption` (edges join factbases of the graph and have assets,
no quality's encoding has its highest bit set); `ImportAssumption` (files
have the shape the parsers build, and a missing file is not a file).

Only model-checked: liveness under fairness, which the prover cannot handle:
`Termination` (of which `EveryStepIsProgress` is the part without fairness), the
fairness of `ImplementsAttackGraph`, `Completes` and `ReadBack`; and `EdgesFaithful`, `MergeSound` and `ImplementsAttackGraph` on
those instances that the hypotheses above exclude; and `SharedNamesPooled`,
which is about appending as many lists as exploits share a name.  What a
definition written with `RECURSIVE` computes is out of its reach too; there is
none here.

## 5. What is not modelled

- Collisions of `boost::hash_combine`: the runs exclude them, and the three
  theorems about meaning have their absence among the hypotheses, for the states of
  one model; the others hold with collisions too.  What a collision would cost
  is a state merged with another; `MergeSound` and `EdgesFaithful` would then be
  false.
- More attributes, values or assets than the fields of an encoding hold.  The
  widths are constants and the cut is modelled, but the runs stay below it, so
  no property says what comes of it; the theorems about meaning exclude it by
  `ToldApart`.
- `remove_cycles`, `ag_visitor` and `delete_edges`: no path of the program
  reaches them.  Option `-d` sets a flag that nobody reads.
- What `decode` does with its command line and with `config.ini`: it asks for a
  section with keys that the repository's `config.ini` does not have, and
  `Decode` begins where one was written that does.  The order of the facts
  within a factbase, given by two priority queues, is left out; `output[k]` is a
  set.  What happens after a read beyond a vector is undefined behaviour, and
  the model stops there.
- The Redis variant: another constructor and a hash map in Redis, not built by
  default, and `generate` never looks at it.
- Tokens and rules of the two parsers (generated code, no state of their own);
  the text of SQL; buffers, lists and vectors; reading of options and of
  `config.ini`; output to the terminal.
- Two runs of `ag_gen` on one database at the same time: nothing in the program
  provides for it, and the scripts run one after the other.  A second run after
  the first does not save either: its import is refused until the database is
  cleared (`model_import`).

## 6. Findings

Each is a violation run whose trace TLC prints.

- `claim_new_states`: a quality and a link can have the same word, and `hash`
  does not say where the words of the qualities end; an exploit that exchanges
  one for the other gives a state with the hash of the one before, which is
  taken for no change.  The state and all that follows from it are missing,
  where the comment at `ag_gen.cpp:128` has every new state pushed.
- `claim_preconditions`: a stored link that is directed equals every link that
  shares its source or its target, so an exploit is applied without its link
  precondition; the comment at `ag_gen.cpp:124` says all are checked.  (By the
  same comparison, a link that is added may be taken to exist.)
- `claim_items`: after an update and an add of the value it replaced, a factbase
  has two items with one encoding, against the primary key in `schema.sql:10`;
  the insert of its quarter of the items fails, and nobody notices.
- `claim_all_items`: after an update, the encoding saved is that of the old
  value, and `decode` prints that one: of all items, which `decode.cpp:24`
  promises, the changed one is not found.  Nothing has failed on the way.  (Two
  other ways to lose items are in `pipeline`: `decode` exits at a state without
  facts, and at one whose quarter of the items was refused.)
- `claim_grammar`: empty lists, which the grammars in `docs/` allow, crash
  `parse_nm` and `parse_xp`.

## 7. Plan

Done, in this order: the generator with its facts, states and odometer; its
abstract graph; the proofs of its bookkeeping; the hashtable; saving; import;
the picture; the abstract store; `decode`; the composition of generator, saving
and `decode`; the proofs of the round trip of an encoding, of the order of the
graph's edges, of the odometer's loop, of the hashtable and its refinement, of the
saving and its refinement, and of the import; those of the composition; and those of
what the generated graph means, with the steps of its refinement.

Left to prove: `MergeSound` for models that delete what they also update, where
an invariant about which facts can become alike would be needed in place of
`DeletesSingle`; and, should the prover come to handle fairness, `Termination`
from `EveryStepIsProgress`, as lexicographic descents of natural numbers end.

To be modelled, should the code come to use it: the Redis constructor, which does
not enter the initial state into the map, and `remove_cycles`, which uses the
descriptors of edges it has removed.
