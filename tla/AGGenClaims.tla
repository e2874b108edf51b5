---------------------------- MODULE AGGenClaims ----------------------------
(***************************************************************************)
(* What the repository's comments and its database schema say of the       *)
(* generated graph and the code does not do.  Each is refuted by a run.    *)
(***************************************************************************)
EXTENDS AGGenGraph

\* The link is stored, in either orientation if it is bidirectional.
Stored(topologies, u) ==
  \E t \in ToSet(topologies) :
    /\ << t.property, t.op, t.value, t.dir >> = << u.property, u.op, u.value, u.dir >>
    /\ \/ << t.from, t.to >> = << u.from, u.to >>
       \/ u.dir = BIDIRECTION /\ << t.from, t.to >> = << u.to, u.from >>

Bound(e, pt) == BindTopology(instance.facts, e.perm, pt)

\* ag_gen.cpp, step 3d: "Check if ALL generated preconditions are present in
\* the current factbase."  A stored link that is not bidirectional counts as
\* every link that shares its source or its target.
PreconditionsPresent ==
  \A e \in ToSet(edges) : \A p \in ToSet(instance.exploits[e.exploit].preconds_t) :
    Stored(Node(e.from).topologies, Bound(e, p))

\* schema.sql: PRIMARY KEY (factbase_id, f, type) of factbase_item, where f is
\* the stored encoding of a fact: the items of one factbase differ in it.  An
\* update leaves the encoding of the old value behind, and adding the old
\* value again repeats it.
ItemsUnique ==
  \A ns \in ToSet(factbases) :
    /\ \A i, j \in DOMAIN ns.qualities :
         ns.qualities[i].encoded = ns.qualities[j].encoded => i = j
    /\ \A i, j \in DOMAIN ns.topologies :
         ns.topologies[i].encoded = ns.topologies[j].encoded => i = j

\* ag_gen.cpp, step 5: "Push the new network state onto the frontier to be
\* expanded later."  Whatever a move of a node gives is a node, so the graph
\* returned is closed.  One seed runs through the words of the qualities and
\* on through those of the topologies, so a quality can be exchanged for a
\* topology with the same word and the hash, and with it generate, takes the
\* state for the one it started from.
NewStatesPushed ==
  status = "done" =>
    \A ns \in ToSet(factbases) : \A m \in Moves(instance, ns) :
      \E node \in ToSet(factbases) :
        FactsOf(node) = FactsOf(Successor(instance, ns, m))

=============================================================================
