---------------------------- MODULE NetworkState ----------------------------
(***************************************************************************)
(* A NetworkState is a Factbase: an id and two vectors, of qualities and   *)
(* of topologies.  This module has the operations the generator performs   *)
(* on one, the exploits that drive them, and the factbase's hash.          *)
(***************************************************************************)
EXTENDS Facts

CONSTANT
  Digest(_)   \* what hash_combine makes of a sequence of words

-----------------------------------------------------------------------------
NetworkStateType ==
  [id : Nat, qualities : Seq(QualityType), topologies : Seq(TopologyType)]

Actions == {"add", "update", "delete"}

ParameterizedQuality == [param : Nat, name : STRING, value : STRING]

ParameterizedTopology ==
  [from_param : Nat, to_param : Nat, dir : Directions, property : STRING,
   op : STRING, value : STRING]

ExploitType ==
  [num_params  : Nat,
   preconds_q  : Seq(ParameterizedQuality),
   preconds_t  : Seq(ParameterizedTopology),
   postconds_q : Seq([action : Actions, fact : ParameterizedQuality]),
   postconds_t : Seq([action : Actions, fact : ParameterizedTopology])]

-----------------------------------------------------------------------------
(* Factbase searches: std::find with the stored element on the left of ==. *)

FirstQuality(ns, q) ==
  SelectInSeq(ns.qualities, LAMBDA r : QualityEq(r, q))

FirstTopology(ns, t) ==
  SelectInSeq(ns.topologies, LAMBDA u : TopologyEq(u, t))

FindQuality(ns, q)  == \E i \in DOMAIN ns.qualities : QualityEq(ns.qualities[i], q)
FindTopology(ns, t) == \E i \in DOMAIN ns.topologies : TopologyEq(ns.topologies[i], t)

AddQuality(ns, q) ==
  IF FindQuality(ns, q) THEN ns
  ELSE [ns EXCEPT !.qualities = Append(@, q)]

AddTopology(ns, t) ==
  IF FindTopology(ns, t) THEN ns
  ELSE [ns EXCEPT !.topologies = Append(@, t)]

(* set_value changes the value and leaves the stored encoding as it was;   *)
(* every element that matches is changed, even into a copy of another.     *)

UpdateQuality(ns, q) ==
  [ns EXCEPT !.qualities =
     [i \in DOMAIN @ |->
        IF @[i].asset = q.asset /\ @[i].name = q.name
        THEN [@[i] EXCEPT !.value = q.value]
        ELSE @[i]]]

UpdateTopology(ns, t) ==
  [ns EXCEPT !.topologies =
     [i \in DOMAIN @ |->
        IF @[i].from = t.from /\ @[i].to = t.to /\ @[i].property = t.property
        THEN [@[i] EXCEPT !.value = t.value]
        ELSE @[i]]]

(* Only the first element that equals the argument is erased.              *)

DeleteQuality(ns, q) ==
  IF FindQuality(ns, q)
  THEN [ns EXCEPT !.qualities = RemoveAt(@, FirstQuality(ns, q))]
  ELSE ns

DeleteTopology(ns, t) ==
  IF FindTopology(ns, t)
  THEN [ns EXCEPT !.topologies = RemoveAt(@, FirstTopology(ns, t))]
  ELSE ns

ChangeQuality(ns, action, q) ==
  CASE action = "add"    -> AddQuality(ns, q)
    [] action = "update" -> UpdateQuality(ns, q)
    [] action = "delete" -> DeleteQuality(ns, q)

ChangeTopology(ns, action, t) ==
  CASE action = "add"    -> AddTopology(ns, t)
    [] action = "update" -> UpdateTopology(ns, t)
    [] action = "delete" -> DeleteTopology(ns, t)

-----------------------------------------------------------------------------
(* A parameterized fact with the assets of a permutation put in.           *)

BindQuality(kv, perm, pq) ==
  Quality(kv, perm[pq.param + 1], pq.name, pq.value)

BindTopology(kv, perm, pt) ==
  Topology(kv, perm[pt.from_param + 1], perm[pt.to_param + 1],
           pt.dir, pt.property, pt.op, pt.value)

\* A variant that forgets the topologies.
QualitiesFound(kv, ns, ex, perm) ==
  \A i \in DOMAIN ex.preconds_q :
    FindQuality(ns, BindQuality(kv, perm, ex.preconds_q[i]))

\* The exploit applies to this asset group: every precondition is found.
Applicable(kv, ns, ex, perm) ==
  /\ \A i \in DOMAIN ex.preconds_q :
       FindQuality(ns, BindQuality(kv, perm, ex.preconds_q[i]))
  /\ \A i \in DOMAIN ex.preconds_t :
       FindTopology(ns, BindTopology(kv, perm, ex.preconds_t[i]))

(***************************************************************************)
(* The state after the first n postconditions of the exploit: the quality  *)
(* postconditions in their order, then the topology postconditions.        *)
(***************************************************************************)
NumPostconds(ex) == Len(ex.postconds_q) + Len(ex.postconds_t)

ApplyPostcond(kv, ns, ex, perm, n) ==
  LET lenq == Len(ex.postconds_q)
  IN  IF n <= lenq
      THEN LET pc == ex.postconds_q[n]
           IN  ChangeQuality(ns, pc.action, BindQuality(kv, perm, pc.fact))
      ELSE LET pc == ex.postconds_t[n - lenq]
           IN  ChangeTopology(ns, pc.action, BindTopology(kv, perm, pc.fact))

ApplyPostconds(kv, ns, ex, perm) ==
  LET after[n \in 0 .. NumPostconds(ex)] ==
        IF n = 0 THEN ns ELSE ApplyPostcond(kv, after[n - 1], ex, perm, n)
  IN  after[NumPostconds(ex)]

-----------------------------------------------------------------------------
(***************************************************************************)
(* Factbase::hash.  The facts are encoded afresh, not read from encoded;   *)
(* two ordered sets drop repeated words; one seed runs through the words   *)
(* of the qualities and on through those of the topologies.                *)
(***************************************************************************)
QualityWords(kv, ns) ==
  {EncodeQuality(kv, q.asset, q.name, q.value) : q \in ToSet(ns.qualities)}

TopologyWords(kv, ns) ==
  {EncodeTopology(kv, t.from, t.to, t.dir, t.property, t.value) :
     t \in ToSet(ns.topologies)}

Ascending(W) ==
  [i \in 1 .. Cardinality(W) |->
     CHOOSE w \in W : Cardinality({v \in W : WordLess(v, w)}) = i - 1]

Hash(kv, ns) ==
  Digest(Ascending(QualityWords(kv, ns)) \o Ascending(TopologyWords(kv, ns)))

=============================================================================
