----------------------------- MODULE AGGenGraph -----------------------------
(***************************************************************************)
(* Properties of the graph that AGGen builds that go beyond its own        *)
(* bookkeeping: what the nodes and edges mean in terms of fact sets, and   *)
(* that the generator implements module AttackGraph.  Nodes and edges are  *)
(* only ever appended, so a property of every edge is stated of the graph  *)
(* that generate returns.                                                  *)
(***************************************************************************)
EXTENDS AGGen

Facts == INSTANCE FactSets

FactsOf(ns) == Facts!FactSet(ns.qualities, ns.topologies)

\* The state that the postconditions gave when the edge was made.
Outcome(e) ==
  ApplyPostconds(instance.facts, Node(e.from), instance.exploits[e.exploit], e.perm)

(***************************************************************************)
(* A breadth-first search: the ids order the nodes by the least number of  *)
(* exploits that reach them from the initial state, which is the length of *)
(* the path along the edges that discovered them (the order of pop_back    *)
(* and emplace_front in generate).                                         *)
(***************************************************************************)
Discovery(i) == SelectInSeq(edges, LAMBDA e : e.to = i)

ShortestFirst ==
  status = "done" =>
  LET level[i \in Ids] ==
        IF i = 0 THEN 0 ELSE level[edges[Discovery(i)].from] + 1
  IN  /\ \A i \in Ids \ {0} : Discovery(i) # 0 /\ edges[Discovery(i)].from < i
      /\ \A i \in Ids \ {0} : level[i - 1] <= level[i]
      /\ \A e \in ToSet(edges) : level[e.to] <= level[e.from] + 1

(***************************************************************************)
(* One edge per attack step: no exploit is recorded twice from the same    *)
(* node with the same asset group.                                         *)
(***************************************************************************)
OneEdgePerMove ==
  status = "done" => \A k, l \in DOMAIN edges :
    /\ edges[k].from = edges[l].from
    /\ edges[k].exploit = edges[l].exploit
    /\ edges[k].perm = edges[l].perm
    => k = l

(***************************************************************************)
(* Equal hashes mean equal facts: the state that an edge's exploit gave    *)
(* has the very facts of the node the edge ends in, so encode and hash     *)
(* tell apart all fact sets that a model can produce.                      *)
(***************************************************************************)
EdgesFaithful ==
  status = "done" => \A e \in ToSet(edges) : FactsOf(Outcome(e)) = FactsOf(Node(e.to))

(***************************************************************************)
(* Merging by hash is sound: a state that generate dropped because its     *)
(* hash was known allows the same moves as the node kept in its place, and *)
(* each of them leads to the same facts.                                   *)
(***************************************************************************)
MergeSound ==
  status = "done" => \A e \in ToSet(edges) :
    LET dropped == Outcome(e)
        kept == Node(e.to)
    IN  /\ Moves(instance, dropped) = Moves(instance, kept)
        /\ \A m \in Moves(instance, kept) :
             FactsOf(Successor(instance, dropped, m)) =
             FactsOf(Successor(instance, kept, m))

\* generate always comes to an end: it returns, or it is aborted.
Termination == <>(status # "generating")

-----------------------------------------------------------------------------
(* The generator implements AttackGraph: nodes and edges stand for fact    *)
(* sets and links between them.                                            *)

LinkOf(e) ==
  [source  |-> FactsOf(Node(e.from)),
   exploit |-> e.exploit,
   group   |-> e.perm,
   target  |-> FactsOf(Node(e.to))]

Graph == INSTANCE AttackGraph WITH
  Models  <- Instances,
  model   <- instance,
  nodes   <- {FactsOf(ns) : ns \in ToSet(factbases)},
  links   <- {LinkOf(e) : e \in ToSet(edges)},
  outcome <- CASE status = "generating" -> "running"
               [] status = "done"       -> "complete"
               [] status = "aborted"    -> "failed"

\* The vectors, the queue and the hashes compute the graph of fact sets, and
\* all of it by the time generate returns.
ImplementsAttackGraph == Graph!Spec

=============================================================================
