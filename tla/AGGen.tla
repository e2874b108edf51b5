------------------------------- MODULE AGGen -------------------------------
(***************************************************************************)
(* The attack graph generator: the constructor AGGen::AGGen (without       *)
(* Redis) and the loop of AGGen::generate.  The generator takes the oldest *)
(* state off the frontier, finds every exploit and asset group that        *)
(* applies to it, applies them one after another, and merges a resulting   *)
(* state with an earlier one when their hashes are equal.                  *)
(*                                                                         *)
(* instance.factbases and instance.factbase_items always receive the same  *)
(* facts under the same id and are one variable here.                      *)
(*                                                                         *)
(* FoundBarLastExploit, RotatedIfStuck, BackEdge, NeverMet, NotInserted    *)
(* and EmplacedBack are mistakes one could make in the code: nothing uses  *)
(* them but the experiments that show what the properties would notice.    *)
(***************************************************************************)
EXTENDS NetworkState, Odometer

CONSTANT
  Instances   \* the models the generator may be given

VARIABLES
  instance,       \* assets, initial facts, exploits and the Keyvalue
  factbases,      \* the nodes generated so far, in the order of their ids
  edges,          \* the edges generated so far, in the order of their ids
  frontier,       \* the states not expanded yet; new ones enter at the front
  hash_map,       \* from hashes to factbase ids
  current_id,     \* Factbase::current_id
  current_state,  \* the state being expanded (unread before the first one)
  appl_exploits,  \* <<exploit, permutation>> positions left to apply to it
  status          \* "generating", "done" or "aborted"

vars == << instance, factbases, edges, frontier, hash_map, current_id,
           current_state, appl_exploits, status >>

-----------------------------------------------------------------------------
InstanceType ==
  [assets             : Nat,
   initial_qualities  : Seq(QualityType),
   initial_topologies : Seq(TopologyType),
   exploits           : Seq(ExploitType),
   facts              : Seq(STRING)]

\* fetch_unique_values: what the Keyvalue is populated with.  The
\* preconditions of the exploits are not asked for.
UniqueValues(inst) ==
  LET quals  == ToSet(inst.initial_qualities)
      topos  == ToSet(inst.initial_topologies)
      postsq == UNION {ToSet(ex.postconds_q) : ex \in ToSet(inst.exploits)}
      postst == UNION {ToSet(ex.postconds_t) : ex \in ToSet(inst.exploits)}
  IN  {q.name : q \in quals} \cup {q.value : q \in quals}
        \cup {p.fact.name : p \in postsq} \cup {p.fact.value : p \in postsq}
        \cup {p.fact.property : p \in postst} \cup {p.fact.value : p \in postst}
        \cup {t.property : t \in topos} \cup {t.value : t \in topos}

(***************************************************************************)
(* The models considered: the Keyvalue is what the database returns, the   *)
(* facts are about assets there are, as the references of schema.sql have  *)
(* it, and the exploits name no parameter they do not have.                *)
(***************************************************************************)
WellFormed(inst) ==
  /\ ToSet(inst.facts) = UniqueValues(inst)
  /\ IsInjective(inst.facts)
  /\ \A q \in ToSet(inst.initial_qualities) : q.asset < inst.assets
  /\ \A t \in ToSet(inst.initial_topologies) :
       t.from < inst.assets /\ t.to < inst.assets
  /\ \A ex \in ToSet(inst.exploits) :
       /\ \A p \in ToSet(ex.preconds_q) : p.param < ex.num_params
       /\ \A p \in ToSet(ex.postconds_q) : p.fact.param < ex.num_params
       /\ \A p \in ToSet(ex.preconds_t) :
            p.from_param < ex.num_params /\ p.to_param < ex.num_params
       /\ \A p \in ToSet(ex.postconds_t) :
            p.fact.from_param < ex.num_params /\ p.fact.to_param < ex.num_params

ASSUME InstancesAssumption ==
  \A inst \in Instances : inst \in InstanceType /\ WellFormed(inst)

-----------------------------------------------------------------------------
(* A move is a pair of positions: in the list of exploits, and in the      *)
(* permutations the odometer has for the exploit's number of parameters.   *)

od_map(inst, num_params) == Perms(num_params, inst.assets)

Exploit(inst, m) == inst.exploits[m[1]]

AssetGroup(inst, m) == od_map(inst, Exploit(inst, m).num_params)[m[2]]

Candidates(inst) ==
  UNION {{i} \X DOMAIN od_map(inst, inst.exploits[i].num_params) :
           i \in DOMAIN inst.exploits}

Moves(inst, ns) ==
  {m \in Candidates(inst) :
     Applicable(inst.facts, ns, Exploit(inst, m), AssetGroup(inst, m))}

Successor(inst, ns, m) ==
  ApplyPostconds(inst.facts, ns, Exploit(inst, m), AssetGroup(inst, m))

\* The vector of applicable exploits is filled, and read, in this order.
Before(m, o) == m[1] < o[1] \/ (m[1] = o[1] /\ m[2] < o[2])

NextMove == CHOOSE m \in appl_exploits :
              \A o \in appl_exploits \ {m} : Before(m, o)

(***************************************************************************)
(* Binding a precondition looks its strings up in the Keyvalue.  A string  *)
(* that no fact and no postcondition has makes at() throw, for the first   *)
(* permutation already, and nothing catches the exception.                 *)
(***************************************************************************)
Throws(inst) ==
  \E m \in Candidates(inst) :
    \/ \E p \in ToSet(Exploit(inst, m).preconds_q) :
         ~ Known(inst.facts, p.name) \/ ~ Known(inst.facts, p.value)
    \/ \E p \in ToSet(Exploit(inst, m).preconds_t) :
         ~ Known(inst.facts, p.property) \/ ~ Known(inst.facts, p.value)

HashOf(ns) == Hash(instance.facts, ns)

-----------------------------------------------------------------------------
Ctor(inst) ==
  LET init_state == [id         |-> 0,
                     qualities  |-> inst.initial_qualities,
                     topologies |-> inst.initial_topologies]
  IN  /\ instance = inst
      /\ factbases = << init_state >>
      /\ hash_map = [h \in {Hash(inst.facts, init_state)} |-> 0]
      /\ frontier = << init_state >>
      /\ current_state = init_state

Init ==
  /\ \E inst \in Instances : Ctor(inst)
  /\ edges = << >>
  /\ current_id = 1
  /\ appl_exploits = {}
  /\ status = "generating"

\* The moves found for the oldest state of the frontier.
FoundBarLastExploit == {m \in Moves(instance, Last(frontier)) :
                          m[1] < Len(instance.exploits)}

Found == Moves(instance, Last(frontier))

\* The frontier without it.
RotatedIfStuck == IF Found = {} THEN << Last(frontier) >> \o Front(frontier)
                  ELSE Front(frontier)

Remaining == Front(frontier)

\* The oldest state leaves the frontier and the moves it allows are found.
FetchState ==
  /\ status = "generating"
  /\ appl_exploits = {}
  /\ frontier # << >>
  /\ ~ Throws(instance)
  /\ current_state' = Last(frontier)
  /\ frontier' = Remaining
  /\ appl_exploits' = Found
  /\ UNCHANGED << instance, factbases, edges, hash_map, current_id, status >>

\* The same, for a model with a precondition the Keyvalue does not know.
Abort ==
  /\ status = "generating"
  /\ appl_exploits = {}
  /\ frontier # << >>
  /\ Throws(instance)
  /\ current_state' = Last(frontier)
  /\ frontier' = Front(frontier)
  /\ status' = "aborted"
  /\ UNCHANGED << instance, factbases, edges, hash_map, current_id,
                  appl_exploits >>

\* One iteration of the inner loop: the next move is applied to a copy of
\* current_state.
new_state == Successor(instance, current_state, NextMove)

hash_num == HashOf(new_state)

TakeMove ==
  /\ status = "generating"
  /\ appl_exploits # {}
  /\ appl_exploits' = appl_exploits \ {NextMove}
  /\ UNCHANGED << instance, current_state, status >>

BackEdge(id) ==
  [id      |-> Len(edges),
   from    |-> id,
   to      |-> current_state.id,
   exploit |-> NextMove[1],
   perm    |-> AssetGroup(instance, NextMove)]

EdgeTo(id) ==
  [id      |-> Len(edges),
   from    |-> current_state.id,
   to      |-> id,
   exploit |-> NextMove[1],
   perm    |-> AssetGroup(instance, NextMove)]

\* The postconditions change nothing: no edge.
NoChange ==
  /\ TakeMove
  /\ hash_num = HashOf(current_state)
  /\ UNCHANGED << factbases, edges, hash_map, frontier, current_id >>

NeverMet == TRUE

\* hash_map.find(hash_num) == hash_map.end()
NotMet == hash_num \notin DOMAIN hash_map

\* new_state with the next id.
NewNode == [new_state EXCEPT !.id = current_id]

NotInserted == hash_map

Inserted == [h \in DOMAIN hash_map \cup {hash_num} |->
               IF h = hash_num THEN current_id ELSE hash_map[h]]

EmplacedBack == Append(frontier, NewNode)

EmplacedFront == << NewNode >> \o frontier

\* A hash not met before: a new factbase and an edge to it.
NewState ==
  /\ TakeMove
  /\ hash_num # HashOf(current_state)
  /\ NotMet
  /\ current_id' = current_id + 1
  /\ factbases' = Append(factbases, NewNode)
  /\ hash_map' = Inserted
  /\ frontier' = EmplacedFront
  /\ edges' = Append(edges, EdgeTo(current_id))

\* A hash met before: an edge to the factbase that has it.
KnownState ==
  /\ TakeMove
  /\ hash_num # HashOf(current_state)
  /\ ~ NotMet
  /\ edges' = Append(edges, EdgeTo(hash_map[hash_num]))
  /\ UNCHANGED << factbases, hash_map, frontier, current_id >>

Finish ==
  /\ status = "generating"
  /\ appl_exploits = {}
  /\ frontier = << >>
  /\ status' = "done"
  /\ UNCHANGED << instance, factbases, edges, frontier, hash_map, current_id,
                  current_state, appl_exploits >>

\* generate has returned, or the process is gone.
Stopped ==
  /\ status # "generating"
  /\ UNCHANGED vars

Next == FetchState \/ Abort \/ NoChange \/ NewState \/ KnownState \/ Finish \/ Stopped

Spec == Init /\ [][Next]_vars /\ WF_vars(Next)

-----------------------------------------------------------------------------
EdgeType ==
  [id : Nat, from : Nat, to : Nat, exploit : Nat, perm : Seq(Nat)]

\* The variables have their types (AGGen and AGGenInstance in ag_gen.h).
TypeOK ==
  /\ instance \in Instances
  /\ factbases \in Seq(NetworkStateType)
  /\ edges \in Seq(EdgeType)
  /\ frontier \in Seq(NetworkStateType)
  /\ DOMAIN hash_map = {HashOf(factbases[i]) : i \in DOMAIN factbases}
  /\ \A h \in DOMAIN hash_map : hash_map[h] \in Nat
  /\ current_id \in Nat
  /\ current_state \in NetworkStateType
  /\ appl_exploits \subseteq Candidates(instance)
  /\ status \in {"generating", "done", "aborted"}

Node(id) == factbases[id + 1]
Ids == 0 .. Len(factbases) - 1

\* How many states have left the frontier.
Popped == Len(factbases) - Len(frontier)

(***************************************************************************)
(* hash_map is exact: the factbases are numbered without a gap, the hash   *)
(* of each leads back to it, so no two nodes have the same hash and every  *)
(* later lookup finds the one node there is.                               *)
(***************************************************************************)
OneNodePerHash ==
  /\ current_id = Len(factbases)
  /\ \A i \in Ids : /\ Node(i).id = i
                    /\ HashOf(Node(i)) \in DOMAIN hash_map
                    /\ hash_map[HashOf(Node(i))] = i

(***************************************************************************)
(* Popping at the back and emplacing at the front make the deque a queue:  *)
(* it holds exactly the newest nodes, newest first, each one once, so the  *)
(* nodes are expanded in the order of their ids and none is skipped; the   *)
(* state in hand is the last that was popped.                              *)
(***************************************************************************)
OldestFirst ==
  /\ Popped >= 0
  /\ \A k \in DOMAIN frontier : frontier[k] = Node(Len(factbases) - k)
  /\ Popped > 0 => current_state = Node(Popped - 1)
  /\ appl_exploits # {} => Popped > 0

(***************************************************************************)
(* Every edge is a real attack step: the exploit applies to the source     *)
(* with that asset group, its postconditions lead to the target's hash,    *)
(* and the two ends differ; and the moves left are moves of the state in   *)
(* hand, even after some of them have been applied to copies of it.        *)
(***************************************************************************)
EdgeOf(e, i, m) ==
  /\ e.from = i
  /\ e.exploit = m[1]
  /\ e.perm = AssetGroup(instance, m)

EdgeSound(e) ==
  /\ e.from \in Ids /\ e.to \in Ids /\ e.from # e.to
  /\ \E m \in Moves(instance, Node(e.from)) :
       /\ EdgeOf(e, e.from, m)
       /\ HashOf(Successor(instance, Node(e.from), m)) = HashOf(Node(e.to))

EdgesSound ==
  /\ \A k \in DOMAIN edges : edges[k].id = k - 1 /\ EdgeSound(edges[k])
  /\ appl_exploits \subseteq Moves(instance, current_state)

(***************************************************************************)
(* Nothing is missed: of a state that was expanded, every move that        *)
(* applies and changes the hash is an edge; of the state in hand, every    *)
(* move that is not among those left to apply.  Once the generator is done *)
(* this says that the graph is closed under all moves of all its nodes.    *)
(***************************************************************************)
Explored(i, m) ==
  \/ HashOf(Successor(instance, Node(i), m)) = HashOf(Node(i))
  \/ \E k \in DOMAIN edges : EdgeOf(edges[k], i, m)

NothingMissed ==
  /\ status # "aborted" =>
       \A i \in 0 .. Popped - 1 :
         \A m \in Moves(instance, Node(i)) :
           Explored(i, m) \/ (i = Popped - 1 /\ m \in appl_exploits)
  /\ status = "done" => Popped = Len(factbases) /\ appl_exploits = {}

=============================================================================
