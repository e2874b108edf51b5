------------------------------ MODULE Pipeline ------------------------------
(***************************************************************************)
(* The way of a graph: ag_gen generates it (AGGenGraph) and saves it       *)
(* (SaveGraph), and decode reads it back (Decode), at any time after the   *)
(* generation and as often in between the statements of the saving as it   *)
(* likes.  The two programs share nothing but the database.  While a graph *)
(* is generated the database does not change, so a reader that came        *)
(* earlier would see what one at the beginning of the saving sees.         *)
(***************************************************************************)
EXTENDS AGGenGraph

CONSTANTS
  NoIndex,   \* decode: option -i was not given
  Indexes    \* decode: the factbases that -i may ask for

ASSUME IndexAssumption == NoIndex \notin Indexes /\ Indexes \subseteq Int

VARIABLES
  graph, program, pc, client, inflight, error, txn, view, db, answers, drawn,
  reader, opt_index, str_vector, last, index, fbitems, output

Saver == INSTANCE SaveGraph WITH Graphs <- {}

Decoder == INSTANCE Decode WITH model <- instance

svars == << graph, program, pc, client, inflight, error, txn, view, db, answers,
            drawn >>

rvars == << reader, opt_index, str_vector, last, index, fbitems, output >>

allvars == << vars, svars, rvars >>

-----------------------------------------------------------------------------
\* What save_ag_to_db takes of the instance that generate returns: the
\* encodings the facts were constructed with, the edges and the Keyvalue.
\* Exploits count from 0 in the database.
SavedItems(ns) ==
  [quals |-> [i \in DOMAIN ns.qualities |-> ns.qualities[i].encoded],
   topos |-> [i \in DOMAIN ns.topologies |-> ns.topologies[i].encoded]]

SavedEdge(e) ==
  [from |-> e.from, to |-> e.to, exploit |-> e.exploit - 1, perm |-> e.perm]

Result(draw) ==
  [items        |-> [i \in DOMAIN factbases |-> SavedItems(factbases[i])],
   edges        |-> [k \in DOMAIN edges |-> SavedEdge(edges[k])],
   strings      |-> instance.facts,
   should_graph |-> draw]

PInit ==
  /\ Init
  /\ graph = << >>
  /\ program = << >>
  /\ pc = 1
  /\ client = "waiting"
  /\ inflight = << >>
  /\ error = FALSE
  /\ txn = "none"
  /\ view = Saver!EmptyTables
  /\ db = Saver!EmptyTables
  /\ answers = << >>
  /\ drawn = << >>
  /\ Decoder!Start

Generate ==
  /\ client = "waiting"
  /\ Next
  /\ UNCHANGED << svars, rvars >>

\* main: generate has returned, and save_ag_to_db is called.
Save ==
  /\ client = "waiting"
  /\ status = "done"
  /\ client' = "running"
  /\ graph' = Result(FALSE)
  /\ \E order \in SetToSeqs(Saver!UniqueEdges(graph')) :
       program' = Saver!Program(graph', order)
  /\ UNCHANGED << vars, pc, inflight, error, txn, view, db, answers, drawn,
                  rvars >>

SaveStep(A) ==
  /\ client # "waiting"
  /\ A
  /\ UNCHANGED << vars, rvars >>

ReadStep(A) ==
  /\ client # "waiting"
  /\ A
  /\ UNCHANGED << vars, svars >>

\* Both programs have ended, or nothing was generated.
Ended ==
  /\ \/ status = "aborted"
     \/ client \notin {"waiting", "running"} /\ txn \in {"closed", "lost"}
          /\ reader \in Decoder!Ends
  /\ UNCHANGED allvars

PNext ==
  \/ Generate \/ Save
  \/ SaveStep(Saver!Client) \/ SaveStep(Saver!Server)
  \/ SaveStep(Saver!Kill) \/ SaveStep(Saver!Lose)
  \/ ReadStep(Decoder!Read) \/ ReadStep(Decoder!ConnectionFails)
  \/ Ended

PSpec ==
  /\ PInit /\ [][PNext]_allvars
  /\ WF_allvars(Generate \/ Save)
  /\ WF_allvars(SaveStep(Saver!Client)) /\ WF_allvars(SaveStep(Saver!Server))
  /\ WF_allvars(ReadStep(Decoder!Read))

-----------------------------------------------------------------------------
(***************************************************************************)
(* What of a state survives the way.  A fact is fresh when its encoding is *)
(* that of its present value, and no update has left an old one behind; it *)
(* fits when the signed fields of the decoder hold its numbers.            *)
(***************************************************************************)
FreshQuality(q) == q.encoded = EncodeQuality(instance.facts, q.asset, q.name, q.value)

FreshTopology(t) ==
  t.encoded = EncodeTopology(instance.facts, t.from, t.to, t.dir, t.property, t.value)

Position(str) == KeyvalueAt(instance.facts, str)

FitsQuality(q) ==
  /\ q.asset < AssetSpan \div 2
  /\ Position(q.name) < AttrSpan \div 2 /\ Position(q.value) < ValueSpan \div 2

FitsTopology(t) ==
  /\ {t.from, t.to} \subseteq 0 .. AssetSpan \div 2 - 1
  /\ Position(t.property) < PropSpan \div 2 /\ Position(t.value) < ValueSpan \div 2

Fresh(ns) ==
  /\ \A q \in ToSet(ns.qualities) : FreshQuality(q)
  /\ \A t \in ToSet(ns.topologies) : FreshTopology(t)

Fits(ns) ==
  /\ \A q \in ToSet(ns.qualities) : FitsQuality(q)
  /\ \A t \in ToSet(ns.topologies) : FitsTopology(t)

Printable(ns) == Fresh(ns) /\ Fits(ns)

\* The facts of a state as decode prints them: links without their direction.
Shown(ns) ==
  FactsOf(ns).quals
    \cup {[from |-> t.from, to |-> t.to, property |-> t.property, value |-> t.value] :
            t \in FactsOf(ns).links}

\* The state whose facts are the k-th printed.
PrintedState(k) == Node(IF opt_index = NoIndex THEN k - 1 ELSE opt_index)

(***************************************************************************)
(* Whatever decode prints, and at whatever moment of the saving it read    *)
(* it, are all the facts of that state and no others, as long as they are  *)
(* fresh and fit.                                                          *)
(***************************************************************************)
PrintedFaithful ==
  \A k \in DOMAIN output :
    Printable(PrintedState(k)) => output[k] = Shown(PrintedState(k))

(***************************************************************************)
(* A decode that comes to its end saw the whole graph: all strings, and    *)
(* every state or the one asked for.  It cannot come to its end on a graph *)
(* that is still being saved, for the strings it takes first are saved     *)
(* last.                                                                   *)
(***************************************************************************)
DoneMeansComplete ==
  reader = "done" =>
    /\ str_vector = instance.facts
    /\ opt_index = NoIndex => Len(output) = Len(factbases)

(***************************************************************************)
(* The ways decode fails, and why: an exception only when it came before   *)
(* the strings; an exit when it did, or for a state that has no facts, is  *)
(* none or whose quarter of the items was refused; a read beyond a vector  *)
(* when it came before the strings, or a fact does not fit or its stored   *)
(* encoding is an old one, whose value may not.                            *)
(***************************************************************************)
NoItems(i) ==
  \/ i \notin Ids
  \/ Shown(Node(i)) = {}
  \/ \E k \in 0 .. 3 : i \in Saver!FactbasesOf(graph, k) /\ Saver!Lost(graph, k)

FailuresExplained ==
  str_vector # << >> =>
    /\ reader # "terminated"
    /\ reader = "exited" => NoItems(index)
    /\ reader = "undefined" => ~ Printable(Node(index))

(***************************************************************************)
(* A decode that is started when the saving has ended well comes to its    *)
(* end, or is stopped by a state whose items are missing, by a fact that   *)
(* does not fit or is not fresh, or by the loss of its connection.         *)
(***************************************************************************)
ReadBack ==
  (client = "done" /\ txn = "closed" /\ reader = "keyvalues") ~>
    \/ reader \in {"done", "aborted"}
    \/ reader = "exited" /\ NoItems(index)
    \/ reader = "undefined" /\ ~ Printable(Node(index))

=============================================================================
