---------------------------- MODULE AttackGraph ----------------------------
(***************************************************************************)
(* What the generator promises, without its vectors, hashes, ids and       *)
(* queue: the graph of all fact sets that the exploits can produce from    *)
(* the initial one.  A node is a set of facts; nodes may be explored in    *)
(* any order; the graph may be called complete only when every applicable  *)
(* exploit of every node is a link or changes nothing.  The one excuse for *)
(* giving up is a precondition with a string that occurs in no fact and in *)
(* no postcondition.                                                       *)
(***************************************************************************)
EXTENDS FactSets

CONSTANT Models   \* assets, initial facts and exploits, see AGGen

VARIABLES model, nodes, links, outcome

avars == << model, nodes, links, outcome >>

-----------------------------------------------------------------------------
Init ==
  /\ model \in Models
  /\ nodes = {Start(model)}
  /\ links = {}
  /\ outcome = "running"

Link(node, i, group) ==
  [source |-> node, exploit |-> i, group |-> group,
   target |-> Result(node, model.exploits[i], group)]

Explore ==
  /\ outcome = "running"
  /\ \E node \in nodes, i \in DOMAIN model.exploits :
       \E group \in Groups(model, model.exploits[i]) :
         LET link == Link(node, i, group)
         IN  /\ Applies(node, model.exploits[i], group)
             /\ link.target # node
             /\ nodes' = nodes \cup {link.target}
             /\ links' = links \cup {link}
  /\ UNCHANGED << model, outcome >>

Complete ==
  /\ outcome = "running"
  /\ \A node \in nodes, i \in DOMAIN model.exploits :
       \A group \in Groups(model, model.exploits[i]) :
         Applies(node, model.exploits[i], group) =>
           LET link == Link(node, i, group)
           IN  link.target = node \/ link \in links
  /\ outcome' = "complete"
  /\ UNCHANGED << model, nodes, links >>

GiveUp ==
  /\ outcome = "running"
  /\ HasUnknownPrecondition(model)
  /\ outcome' = "failed"
  /\ UNCHANGED << model, nodes, links >>

Next == Explore \/ Complete \/ GiveUp

Spec == Init /\ [][Next]_avars /\ WF_avars(Next)

=============================================================================
