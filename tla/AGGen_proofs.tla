---------------------------- MODULE AGGen_proofs ----------------------------
(***************************************************************************)
(* What holds of the generator for every set of models.                    *)
(*                                                                         *)
(*   IInv   the type invariant and the bookkeeping of AGGen, inductive.    *)
(*   GInv   strengthens IInv by the order of the graph's edges: no edge is *)
(*          made twice, and the search is breadth-first.                   *)
(*   FactsOfModel                                                          *)
(*          every vector holds facts the model can write, so that they can *)
(*          be told apart by number, and by hash if the hash is: an edge   *)
(*          leads to the facts its exploit gave.                           *)
(*   SingleInGraph, PlainInGraph                                           *)
(*          the vectors change as the sets of their facts do, from which   *)
(*          come the merging of states and the steps of AttackGraph.       *)
(*                                                                         *)
(* The graph is bounded, and every step leaves less to do.                 *)
(***************************************************************************)
EXTENDS AGGenGraph, Odometer_proofs, TLAPS

-----------------------------------------------------------------------------
(***************************************************************************)
(* Network states.  Their operations keep their type: facts that were      *)
(* encodable stay facts, and the id is untouched.                          *)
(***************************************************************************)

LEMMA KeyvalueAtRange ==
  ASSUME NEW kv \in Seq(STRING), NEW str, Known(kv, str)
  PROVE  /\ KeyvalueAt(kv, str) \in 0 .. Len(kv) - 1
         /\ kv[KeyvalueAt(kv, str) + 1] = str
<1>1. \E i \in 0 .. Len(kv) - 1 :
        kv[i + 1] = str /\ \A k \in i + 2 .. Len(kv) : kv[k] # str
  BY LastMatch DEF Known
<1> QED
  BY <1>1 DEF KeyvalueAt

LEMMA KeyvalueAtNat ==
  ASSUME NEW kv \in Seq(STRING), NEW str, Known(kv, str)
  PROVE  KeyvalueAt(kv, str) \in Nat
<1>1. KeyvalueAt(kv, str) \in 0 .. Len(kv) - 1
  BY KeyvalueAtRange
<1> QED
  BY <1>1

\* The number of a string leads back to the string, also when the Keyvalue
\* holds it more than once.
LEMMA StringAtPosition ==
  ASSUME NEW kv \in Seq(STRING), NEW str, Known(kv, str)
  PROVE  kv[KeyvalueAt(kv, str) + 1] = str
BY KeyvalueAtRange

LEMMA FieldKept ==
  ASSUME NEW span \in Nat \ {0}, NEW n \in Nat, n < span
  PROVE  n % span = n
OBVIOUS

\* The direction lies below the property and does not disturb it.
LEMMA PropertyField ==
  ASSUME NEW dir \in Directions, NEW n \in Nat
  PROVE  (dir + 4 * n) \div 4 = n
BY DEF Directions, FORWARD, BACKWARD, BIDIRECTION

LEMMA PropertyFieldKept ==
  ASSUME NEW dir \in Directions, NEW n \in Nat, NEW span \in Nat \ {0}
  PROVE  ((dir + 4 * (n % span)) \div 4) % span = n % span
<1>1. n % span \in Nat /\ n % span < span
  OBVIOUS
<1>2. (dir + 4 * (n % span)) \div 4 = n % span
  BY <1>1, PropertyField
<1> QED
  BY <1>1, <1>2, FieldKept

\* The low bits of a number are a number.
LEMMA LowBits ==
  ASSUME NEW x \in Nat, NEW span \in Nat \ {0}
  PROVE  x % span \in Nat
OBVIOUS

LEMMA DirectionBits ==
  ASSUME NEW dir \in Directions, NEW n \in Nat
  PROVE  dir + 4 * n \in Nat
BY DEF Directions, FORWARD, BACKWARD, BIDIRECTION

LEMMA WordTyped ==
  ASSUME NEW a \in Nat, NEW b \in Nat, NEW c \in Nat, NEW d \in Nat
  PROVE  << a, b, c, d >> \in Word
BY DEF Word

LEMMA ZeroNat == 0 \in Nat
OBVIOUS

LEMMA QualityTyped ==
  ASSUME NEW kv \in Seq(STRING), NEW asset \in Nat,
         NEW name \in STRING, NEW value \in STRING,
         Known(kv, name), Known(kv, value)
  PROVE  Quality(kv, asset, name, value) \in QualityType
<1>1. asset % AssetSpan \in Nat
  BY LowBits, SpanAssumption
<1>2. KeyvalueAt(kv, name) % AttrSpan \in Nat
  BY KeyvalueAtNat, LowBits, SpanAssumption
<1>3. KeyvalueAt(kv, value) % ValueSpan \in Nat
  BY KeyvalueAtNat, LowBits, SpanAssumption
<1>4. EncodeQuality(kv, asset, name, value) \in Word
  BY <1>1, <1>2, <1>3, Zenon, WordTyped, ZeroNat DEF EncodeQuality
<1>5. EncodeQuality(kv, asset, name, value)[4] = 0
  BY DEF EncodeQuality
<1>6. EncodeQuality(kv, asset, name, value) \in QualityWord
  BY <1>4, <1>5, Zenon DEF QualityWord
<1> QED
  BY <1>6 DEF Quality, QualityType

LEMMA TopologyTyped ==
  ASSUME NEW kv \in Seq(STRING), NEW from \in Nat, NEW to \in Nat,
         NEW dir \in Directions, NEW property \in STRING, NEW op \in STRING,
         NEW value \in STRING, Known(kv, property), Known(kv, value)
  PROVE  Topology(kv, from, to, dir, property, op, value) \in TopologyType
<1>1. from % AssetSpan \in Nat /\ to % AssetSpan \in Nat
  BY LowBits, SpanAssumption
<1>2. KeyvalueAt(kv, property) % PropSpan \in Nat
  BY KeyvalueAtNat, LowBits, SpanAssumption
<1>3. dir + 4 * (KeyvalueAt(kv, property) % PropSpan) \in Nat
  BY <1>2, DirectionBits
<1>4. KeyvalueAt(kv, value) % ValueSpan \in Nat
  BY KeyvalueAtNat, LowBits, SpanAssumption
<1>5. EncodeTopology(kv, from, to, dir, property, value) \in Word
  BY <1>1, <1>3, <1>4, WordTyped DEF EncodeTopology
<1> QED
  BY <1>5 DEF Topology, TopologyType

-----------------------------------------------------------------------------
(* Facts told apart, which the merging of states by hash relies on.        *)

\* Two strings with the same number are the same.
LEMMA SameNumber ==
  ASSUME NEW kv \in Seq(STRING), NEW a, NEW b, Known(kv, a), Known(kv, b),
         KeyvalueAt(kv, a) = KeyvalueAt(kv, b)
  PROVE  a = b
BY StringAtPosition

\* Quality::encode gives different qualities different words when their numbers
\* are within their fields.
THEOREM QualitiesToldApart ==
  ASSUME NEW kv \in Seq(STRING), NEW a1 \in Nat, NEW a2 \in Nat,
         a1 < AssetSpan, a2 < AssetSpan,
         NEW n1, NEW n2, NEW v1, NEW v2,
         \A str \in {n1, n2} : Known(kv, str) /\ KeyvalueAt(kv, str) < AttrSpan,
         \A str \in {v1, v2} : Known(kv, str) /\ KeyvalueAt(kv, str) < ValueSpan,
         EncodeQuality(kv, a1, n1, v1) = EncodeQuality(kv, a2, n2, v2)
  PROVE  a1 = a2 /\ n1 = n2 /\ v1 = v2
<1>1. /\ a1 % AssetSpan = a2 % AssetSpan
      /\ KeyvalueAt(kv, n1) % AttrSpan = KeyvalueAt(kv, n2) % AttrSpan
      /\ KeyvalueAt(kv, v1) % ValueSpan = KeyvalueAt(kv, v2) % ValueSpan
  BY DEF EncodeQuality
<1>2. a1 = a2
  BY <1>1, FieldKept, SpanAssumption
<1>3. KeyvalueAt(kv, n1) = KeyvalueAt(kv, n2)
  BY <1>1, FieldKept, KeyvalueAtNat, SpanAssumption
<1>4. KeyvalueAt(kv, v1) = KeyvalueAt(kv, v2)
  BY <1>1, FieldKept, KeyvalueAtNat, SpanAssumption
<1> QED
  BY <1>2, <1>3, <1>4, SameNumber

\* Topology::encode likewise, direction included.
THEOREM TopologiesToldApart ==
  ASSUME NEW kv \in Seq(STRING),
         NEW f1 \in Nat, NEW f2 \in Nat, NEW t1 \in Nat, NEW t2 \in Nat,
         f1 < AssetSpan, f2 < AssetSpan, t1 < AssetSpan, t2 < AssetSpan,
         NEW d1 \in Directions, NEW d2 \in Directions,
         NEW p1, NEW p2, NEW v1, NEW v2,
         \A str \in {p1, p2} : Known(kv, str) /\ KeyvalueAt(kv, str) < PropSpan,
         \A str \in {v1, v2} : Known(kv, str) /\ KeyvalueAt(kv, str) < ValueSpan,
         EncodeTopology(kv, f1, t1, d1, p1, v1) = EncodeTopology(kv, f2, t2, d2, p2, v2)
  PROVE  f1 = f2 /\ t1 = t2 /\ d1 = d2 /\ p1 = p2 /\ v1 = v2
<1>1. /\ f1 % AssetSpan = f2 % AssetSpan
      /\ t1 % AssetSpan = t2 % AssetSpan
      /\ d1 + 4 * (KeyvalueAt(kv, p1) % PropSpan) = d2 + 4 * (KeyvalueAt(kv, p2) % PropSpan)
      /\ KeyvalueAt(kv, v1) % ValueSpan = KeyvalueAt(kv, v2) % ValueSpan
  BY DEF EncodeTopology
<1>2. f1 = f2 /\ t1 = t2
  BY <1>1, FieldKept, SpanAssumption
<1>3. KeyvalueAt(kv, v1) = KeyvalueAt(kv, v2)
  BY <1>1, FieldKept, KeyvalueAtNat, SpanAssumption
<1>4. KeyvalueAt(kv, p1) = KeyvalueAt(kv, p2) /\ d1 = d2
  <2>1. /\ KeyvalueAt(kv, p1) % PropSpan = KeyvalueAt(kv, p1)
        /\ KeyvalueAt(kv, p2) % PropSpan = KeyvalueAt(kv, p2)
    BY FieldKept, KeyvalueAtNat, SpanAssumption
  <2>2. KeyvalueAt(kv, p1) \in Nat /\ KeyvalueAt(kv, p2) \in Nat
    BY KeyvalueAtNat
  <2>3. d1 + 4 * KeyvalueAt(kv, p1) = d2 + 4 * KeyvalueAt(kv, p2)
    BY <1>1, <2>1
  <2>4. (d1 + 4 * KeyvalueAt(kv, p1)) \div 4 = KeyvalueAt(kv, p1)
    BY <2>2, PropertyField
  <2>5. (d2 + 4 * KeyvalueAt(kv, p2)) \div 4 = KeyvalueAt(kv, p2)
    BY <2>2, PropertyField
  <2>6. KeyvalueAt(kv, p1) = KeyvalueAt(kv, p2)
    BY <2>3, <2>4, <2>5
  <2> QED
    BY <2>2, <2>3, <2>6 DEF Directions, FORWARD, BACKWARD, BIDIRECTION
<1> QED
  BY <1>2, <1>3, <1>4, SameNumber

-----------------------------------------------------------------------------
(* The operations of a factbase.                                           *)

LEMMA FirstQualityRange ==
  ASSUME NEW Q, NEW ns, ns.qualities \in Seq(Q), NEW q, FindQuality(ns, q)
  PROVE  FirstQuality(ns, q) \in 1 .. Len(ns.qualities)
<1> DEFINE I == {i \in 1 .. Len(ns.qualities) : QualityEq(ns.qualities[i], q)}
<1>2. Len(ns.qualities) \in Nat /\ DOMAIN ns.qualities = 1 .. Len(ns.qualities)
  OBVIOUS
<1>3. I # {} /\ I \in SUBSET (1 .. Len(ns.qualities))
  BY <1>2 DEF FindQuality
<1>4. FirstQuality(ns, q) = Min(I)
  BY <1>3 DEF FirstQuality, SelectInSeq
<1> HIDE DEF I
<1> QED
  BY <1>2, <1>3, <1>4, FirstMatch

LEMMA FirstTopologyRange ==
  ASSUME NEW T, NEW ns, ns.topologies \in Seq(T), NEW t, FindTopology(ns, t)
  PROVE  FirstTopology(ns, t) \in 1 .. Len(ns.topologies)
<1> DEFINE I == {i \in 1 .. Len(ns.topologies) : TopologyEq(ns.topologies[i], t)}
<1>2. Len(ns.topologies) \in Nat /\ DOMAIN ns.topologies = 1 .. Len(ns.topologies)
  OBVIOUS
<1>3. I # {} /\ I \in SUBSET (1 .. Len(ns.topologies))
  BY <1>2 DEF FindTopology
<1>4. FirstTopology(ns, t) = Min(I)
  BY <1>3 DEF FirstTopology, SelectInSeq
<1> HIDE DEF I
<1> QED
  BY <1>2, <1>3, <1>4, FirstMatch

(***************************************************************************)
(* The states whose facts are of certain kinds.  A change that brings in   *)
(* no fact and no value of another kind leads from one to another.         *)
(***************************************************************************)
\* A fact of the kind stays one with this value.
Takes(Q, value) == \A x \in Q : [x EXCEPT !.value = value] \in Q

StatesOver(Q, T) == [id : Nat, qualities : Seq(Q), topologies : Seq(T)]

\* Every change to the qualities keeps a state a state, and its id.
LEMMA ChangeQualityOver ==
  ASSUME NEW Q, NEW T, NEW ns \in StatesOver(Q, T), NEW action \in Actions,
         NEW q \in Q, Takes(Q, q.value)
  PROVE  /\ ChangeQuality(ns, action, q) \in StatesOver(Q, T)
         /\ ChangeQuality(ns, action, q).id = ns.id
<1>1. ns.qualities \in Seq(Q) /\ Len(ns.qualities) \in Nat
  BY DEF StatesOver
<1>2. ASSUME NEW s \in Seq(Q)
      PROVE  /\ [ns EXCEPT !.qualities = s] \in StatesOver(Q, T)
             /\ [ns EXCEPT !.qualities = s].id = ns.id
  BY <1>2 DEF StatesOver
<1>3. CASE action = "add"
  <2>1. Append(ns.qualities, q) \in Seq(Q)
    BY <1>1
  <2> QED
    BY <1>3, <1>2, <2>1 DEF ChangeQuality, AddQuality
<1>4. CASE action = "update"
  <2> DEFINE s == [i \in DOMAIN ns.qualities |->
                     IF ns.qualities[i].asset = q.asset /\ ns.qualities[i].name = q.name
                     THEN [ns.qualities[i] EXCEPT !.value = q.value]
                     ELSE ns.qualities[i]]
  <2>1. ASSUME NEW i \in 1 .. Len(ns.qualities)
        PROVE  /\ ns.qualities[i] \in Q
               /\ [ns.qualities[i] EXCEPT !.value = q.value] \in Q
    BY <1>1 DEF Takes
  <2>2. s \in [1 .. Len(ns.qualities) -> Q]
    BY <1>1, <2>1
  <2>3. s \in Seq(Q)
    BY <1>1, <2>2, MapSeq
  <2>4. ChangeQuality(ns, action, q) = [ns EXCEPT !.qualities = s]
    <3>1. ChangeQuality(ns, action, q) = UpdateQuality(ns, q)
      BY <1>4 DEF ChangeQuality
    <3> QED
      BY <3>1, Zenon DEF UpdateQuality
  <2> HIDE DEF s
  <2> QED
    BY <1>2, <2>3, <2>4
<1>5. CASE action = "delete"
  <2>1. CASE FindQuality(ns, q)
    <3>1. RemoveAt(ns.qualities, FirstQuality(ns, q)) \in Seq(Q)
      BY <1>1, <2>1, FirstQualityRange, RemoveAtSeq
    <3> QED
      BY <1>5, <1>2, <2>1, <3>1 DEF ChangeQuality, DeleteQuality
  <2>2. CASE ~ FindQuality(ns, q)
    BY <1>5, <2>2 DEF ChangeQuality, DeleteQuality
  <2> QED
    BY <2>1, <2>2
<1> QED
  BY <1>3, <1>4, <1>5 DEF Actions

\* The same for the topologies.
LEMMA ChangeTopologyOver ==
  ASSUME NEW Q, NEW T, NEW ns \in StatesOver(Q, T), NEW action \in Actions,
         NEW t \in T, Takes(T, t.value)
  PROVE  /\ ChangeTopology(ns, action, t) \in StatesOver(Q, T)
         /\ ChangeTopology(ns, action, t).id = ns.id
<1>1. ns.topologies \in Seq(T) /\ Len(ns.topologies) \in Nat
  BY DEF StatesOver
<1>2. ASSUME NEW s \in Seq(T)
      PROVE  /\ [ns EXCEPT !.topologies = s] \in StatesOver(Q, T)
             /\ [ns EXCEPT !.topologies = s].id = ns.id
  BY <1>2 DEF StatesOver
<1>3. CASE action = "add"
  <2>1. Append(ns.topologies, t) \in Seq(T)
    BY <1>1
  <2> QED
    BY <1>3, <1>2, <2>1 DEF ChangeTopology, AddTopology
<1>4. CASE action = "update"
  <2> DEFINE s == [i \in DOMAIN ns.topologies |->
                     IF /\ ns.topologies[i].from = t.from
                        /\ ns.topologies[i].to = t.to
                        /\ ns.topologies[i].property = t.property
                     THEN [ns.topologies[i] EXCEPT !.value = t.value]
                     ELSE ns.topologies[i]]
  <2>1. ASSUME NEW i \in 1 .. Len(ns.topologies)
        PROVE  /\ ns.topologies[i] \in T
               /\ [ns.topologies[i] EXCEPT !.value = t.value] \in T
    BY <1>1 DEF Takes
  <2>2. s \in [1 .. Len(ns.topologies) -> T]
    BY <1>1, <2>1
  <2>3. s \in Seq(T)
    BY <1>1, <2>2, MapSeq
  <2>4. ChangeTopology(ns, action, t) = [ns EXCEPT !.topologies = s]
    <3>1. ChangeTopology(ns, action, t) = UpdateTopology(ns, t)
      BY <1>4 DEF ChangeTopology
    <3> QED
      BY <3>1, Zenon DEF UpdateTopology
  <2> HIDE DEF s
  <2> QED
    BY <1>2, <2>3, <2>4
<1>5. CASE action = "delete"
  <2>1. CASE FindTopology(ns, t)
    <3>1. RemoveAt(ns.topologies, FirstTopology(ns, t)) \in Seq(T)
      BY <1>1, <2>1, FirstTopologyRange, RemoveAtSeq
    <3> QED
      BY <1>5, <1>2, <2>1, <3>1 DEF ChangeTopology, DeleteTopology
  <2>2. CASE ~ FindTopology(ns, t)
    BY <1>5, <2>2 DEF ChangeTopology, DeleteTopology
  <2> QED
    BY <2>1, <2>2
<1> QED
  BY <1>3, <1>4, <1>5 DEF Actions

-----------------------------------------------------------------------------
(***************************************************************************)
(* What AGGen is given of an exploit: its postconditions name parameters   *)
(* it has, and strings that the Keyvalue has.                              *)
(***************************************************************************)
Usable(kv, ex) ==
  /\ ex \in ExploitType
  /\ \A i \in DOMAIN ex.postconds_q :
       LET f == ex.postconds_q[i].fact
       IN  f.param < ex.num_params /\ Known(kv, f.name) /\ Known(kv, f.value)
  /\ \A i \in DOMAIN ex.postconds_t :
       LET f == ex.postconds_t[i].fact
       IN  /\ f.from_param < ex.num_params /\ f.to_param < ex.num_params
           /\ Known(kv, f.property) /\ Known(kv, f.value)

LEMMA ParamBound ==
  ASSUME NEW m \in Nat, NEW perm \in [1 .. m -> Nat],
         NEW p \in Nat, p < m
  PROVE  perm[p + 1] \in Nat
OBVIOUS

\* An exploit, bound to an asset group, brings in facts and values of these kinds.
Keeps(Q, T, kv, ex, perm) ==
  /\ \A i \in DOMAIN ex.postconds_q :
       LET q == BindQuality(kv, perm, ex.postconds_q[i].fact)
       IN  q \in Q /\ Takes(Q, q.value)
  /\ \A i \in DOMAIN ex.postconds_t :
       LET t == BindTopology(kv, perm, ex.postconds_t[i].fact)
       IN  t \in T /\ Takes(T, t.value)

LEMMA ApplyPostcondOver ==
  ASSUME NEW Q, NEW T, NEW kv, NEW ex \in ExploitType, NEW perm,
         Keeps(Q, T, kv, ex, perm),
         NEW ns \in StatesOver(Q, T), NEW n \in 1 .. NumPostconds(ex)
  PROVE  /\ ApplyPostcond(kv, ns, ex, perm, n) \in StatesOver(Q, T)
         /\ ApplyPostcond(kv, ns, ex, perm, n).id = ns.id
<1>1. /\ ex.postconds_q \in Seq([action : Actions, fact : ParameterizedQuality])
      /\ ex.postconds_t \in Seq([action : Actions, fact : ParameterizedTopology])
  BY DEF ExploitType
<1>2. CASE n <= Len(ex.postconds_q)
  <2> DEFINE pc == ex.postconds_q[n]
             q == BindQuality(kv, perm, pc.fact)
  <2>1. n \in DOMAIN ex.postconds_q
    BY <1>1, <1>2
  <2>2. pc.action \in Actions
    <3>1. pc \in [action : Actions, fact : ParameterizedQuality]
      BY <1>1, <2>1, ElementTyped
    <3> HIDE DEF pc
    <3> QED
      BY <3>1
  <2>3. q \in Q /\ Takes(Q, q.value)
    BY <2>1, Zenon DEF Keeps
  <2>4. ApplyPostcond(kv, ns, ex, perm, n) = ChangeQuality(ns, pc.action, q)
    BY <1>2 DEF ApplyPostcond
  <2> HIDE DEF q, pc
  <2>5. /\ ChangeQuality(ns, pc.action, q) \in StatesOver(Q, T)
        /\ ChangeQuality(ns, pc.action, q).id = ns.id
    <3>1. ASSUME NEW a \in Actions, NEW x \in Q, Takes(Q, x.value)
          PROVE  /\ ChangeQuality(ns, a, x) \in StatesOver(Q, T)
                 /\ ChangeQuality(ns, a, x).id = ns.id
      BY <3>1, ChangeQualityOver
    <3> QED
      BY <2>2, <2>3, <3>1, Zenon
  <2> QED
    BY <2>4, <2>5, Zenon
<1>3. CASE ~ n <= Len(ex.postconds_q)
  <2> DEFINE k == n - Len(ex.postconds_q)
             pc == ex.postconds_t[k]
             t == BindTopology(kv, perm, pc.fact)
  <2>1. k \in DOMAIN ex.postconds_t
    <3>1. Len(ex.postconds_q) \in Nat
      BY <1>1, LengthTyped, Zenon
    <3>2. Len(ex.postconds_t) \in Nat /\ DOMAIN ex.postconds_t = 1 .. Len(ex.postconds_t)
      BY <1>1, LengthTyped, Zenon
    <3>3. n \in 1 .. Len(ex.postconds_q) + Len(ex.postconds_t)
      BY Zenon DEF NumPostconds
    <3>4. k \in 1 .. Len(ex.postconds_t)
      BY <1>3, <3>1, <3>2, <3>3, Arithmetic, Zenon
    <3> QED
      BY <3>2, <3>4, Zenon
  <2> HIDE DEF k
  <2>2. pc.action \in Actions
    <3>1. pc \in [action : Actions, fact : ParameterizedTopology]
      BY <1>1, <2>1, ElementTyped
    <3> HIDE DEF pc
    <3> QED
      BY <3>1
  <2>3. t \in T /\ Takes(T, t.value)
    BY <2>1, Zenon DEF Keeps
  <2>4. ApplyPostcond(kv, ns, ex, perm, n) = ChangeTopology(ns, pc.action, t)
    BY <1>3 DEF ApplyPostcond, k
  <2> HIDE DEF t, pc
  <2>5. /\ ChangeTopology(ns, pc.action, t) \in StatesOver(Q, T)
        /\ ChangeTopology(ns, pc.action, t).id = ns.id
    <3>1. ASSUME NEW a \in Actions, NEW x \in T, Takes(T, x.value)
          PROVE  /\ ChangeTopology(ns, a, x) \in StatesOver(Q, T)
                 /\ ChangeTopology(ns, a, x).id = ns.id
      BY <3>1, ChangeTopologyOver
    <3> QED
      BY <2>2, <2>3, <3>1, Zenon
  <2> QED
    BY <2>4, <2>5, Zenon
<1> QED
  BY <1>2, <1>3

LEMMA SetQualityValue ==
  ASSUME NEW q \in QualityType, NEW value \in STRING
  PROVE  [q EXCEPT !.value = value] \in QualityType
BY DEF QualityType

LEMMA SetTopologyValue ==
  ASSUME NEW t \in TopologyType, NEW value \in STRING
  PROVE  [t EXCEPT !.value = value] \in TopologyType
BY DEF TopologyType

LEMMA UsableKeeps ==
  ASSUME NEW kv \in Seq(STRING), NEW ex, Usable(kv, ex),
         NEW perm \in [1 .. ex.num_params -> Nat]
  PROVE  Keeps(QualityType, TopologyType, kv, ex, perm)
<1>1. /\ ex.num_params \in Nat
      /\ ex.postconds_q \in Seq([action : Actions, fact : ParameterizedQuality])
      /\ ex.postconds_t \in Seq([action : Actions, fact : ParameterizedTopology])
  BY DEF Usable, ExploitType
<1>2. ASSUME NEW i \in DOMAIN ex.postconds_q, NEW q,
             q = BindQuality(kv, perm, ex.postconds_q[i].fact)
      PROVE  q \in QualityType /\ Takes(QualityType, q.value)
  <2> DEFINE f == ex.postconds_q[i].fact
  <2>1. ex.postconds_q[i] \in [action : Actions, fact : ParameterizedQuality]
    BY <1>1, ElementTyped
  <2>2. f.param \in Nat /\ f.name \in STRING /\ f.value \in STRING
    BY <2>1 DEF ParameterizedQuality
  <2>3. f.param < ex.num_params /\ Known(kv, f.name) /\ Known(kv, f.value)
    BY DEF Usable
  <2>4. perm[f.param + 1] \in Nat
    BY <1>1, <2>2, <2>3, ParamBound
  <2>5. q = Quality(kv, perm[f.param + 1], f.name, f.value)
    BY <1>2 DEF BindQuality
  <2> HIDE DEF f
  <2>6. q \in QualityType
    BY <2>2, <2>3, <2>4, <2>5, QualityTyped
  <2>7. q.value \in STRING
    BY <2>6 DEF QualityType
  <2> QED
    BY <2>6, <2>7, SetQualityValue DEF Takes
<1>3. ASSUME NEW i \in DOMAIN ex.postconds_t, NEW t,
             t = BindTopology(kv, perm, ex.postconds_t[i].fact)
      PROVE  t \in TopologyType /\ Takes(TopologyType, t.value)
  <2> DEFINE f == ex.postconds_t[i].fact
  <2>1. ex.postconds_t[i] \in [action : Actions, fact : ParameterizedTopology]
    BY <1>1, ElementTyped
  <2>2. /\ f.from_param \in Nat /\ f.to_param \in Nat /\ f.dir \in Directions
        /\ f.property \in STRING /\ f.op \in STRING /\ f.value \in STRING
    BY <2>1 DEF ParameterizedTopology
  <2>3. /\ f.from_param < ex.num_params /\ f.to_param < ex.num_params
        /\ Known(kv, f.property) /\ Known(kv, f.value)
    BY DEF Usable
  <2>4. perm[f.from_param + 1] \in Nat /\ perm[f.to_param + 1] \in Nat
    BY <1>1, <2>2, <2>3, ParamBound
  <2>5. t = Topology(kv, perm[f.from_param + 1], perm[f.to_param + 1],
                     f.dir, f.property, f.op, f.value)
    BY <1>3 DEF BindTopology
  <2> HIDE DEF f
  <2>6. t \in TopologyType
    BY <2>2, <2>3, <2>4, <2>5, TopologyTyped
  <2>7. t.value \in STRING
    BY <2>6 DEF TopologyType
  <2> QED
    BY <2>6, <2>7, SetTopologyValue DEF Takes
<1> QED
  BY <1>2, <1>3, Zenon DEF Keeps

LEMMA NumPostcondsNat ==
  ASSUME NEW ex \in ExploitType
  PROVE  NumPostconds(ex) \in Nat
<1>1. /\ ex.postconds_q \in Seq([action : Actions, fact : ParameterizedQuality])
      /\ ex.postconds_t \in Seq([action : Actions, fact : ParameterizedTopology])
  BY DEF ExploitType
<1>2. Len(ex.postconds_q) \in Nat
  BY <1>1, LengthTyped, Zenon
<1>3. Len(ex.postconds_t) \in Nat
  BY <1>1, LengthTyped, Zenon
<1> QED
  BY <1>2, <1>3, Arithmetic, Zenon DEF NumPostconds

\* The states that the postconditions give, one after another, the last of which
\* is what applying the exploit gives.
IsRun(a, kv, ns, ex, perm) ==
  /\ a[0] = ns
  /\ \A n \in 1 .. NumPostconds(ex) : a[n] = ApplyPostcond(kv, a[n - 1], ex, perm, n)
  /\ ApplyPostconds(kv, ns, ex, perm) = a[NumPostconds(ex)]

LEMMA PostcondsApplied ==
  ASSUME NEW kv, NEW ex, NEW perm, NumPostconds(ex) \in Nat, NEW S, NEW ns \in S,
         \A n \in 1 .. NumPostconds(ex) : \A x \in S : ApplyPostcond(kv, x, ex, perm, n) \in S
  PROVE  \E a \in [0 .. NumPostconds(ex) -> S] : IsRun(a, kv, ns, ex, perm)
<1> DEFINE N == NumPostconds(ex)
           G == [n \in 1 .. N |-> [x \in S |-> ApplyPostcond(kv, x, ex, perm, n)]]
           IsAfter(f) == f = [n \in 0 .. N |->
                                IF n = 0 THEN ns
                                ELSE ApplyPostcond(kv, f[n - 1], ex, perm, n)]
           after == CHOOSE f : IsAfter(f)
<1>1. N \in Nat
  OBVIOUS
<1>2. ASSUME NEW n \in 1 .. N, NEW x \in S
      PROVE  ApplyPostcond(kv, x, ex, perm, n) \in S
  OBVIOUS
<1>3. G \in [1 .. N -> [S -> S]]
  <2> HIDE DEF N
  <2> QED
    BY <1>2
<1>4. PICK f : IsRecursion(f, S, ns, N, G)
  <2> HIDE DEF G, N
  <2> QED
    BY <1>1, <1>3, RecursionExists
<1>5. IsAfter(f)
  <2> HIDE DEF N
  <2>1. ASSUME NEW k \in 1 .. N
        PROVE  f[k] = ApplyPostcond(kv, f[k - 1], ex, perm, k)
    <3>1. f[k - 1] \in S
      BY <1>1, <1>4 DEF IsRecursion
    <3>2. f[k] = G[k][f[k - 1]]
      BY <1>4 DEF IsRecursion
    <3> QED
      BY <3>1, <3>2
  <2> HIDE DEF G
  <2> QED
    BY <1>1, <1>4, <2>1 DEF IsRecursion
<1>6. IsAfter(after)
  <2> HIDE DEF IsAfter
  <2> QED
    BY <1>5
<1> DEFINE T == {k \in 0 .. N : after[k] \in S}
<1>7. 0 .. N \subseteq T
  <2> HIDE DEF after, N
  <2>1. 0 \in T
    BY <1>1, <1>6
  <2>2. ASSUME NEW k \in 0 .. N - 1, k \in T PROVE k + 1 \in T
    <3>1. k + 1 \in 1 .. N /\ k + 1 \in 0 .. N /\ k + 1 # 0 /\ (k + 1) - 1 = k
      BY <1>1
    <3>2. after[k + 1] = ApplyPostcond(kv, after[k], ex, perm, k + 1)
      BY <1>6, <3>1
    <3> QED
      BY <3>1, <3>2, <2>2, <1>2
  <2>3. \A k \in 0 .. N - 1 : k \in T => k + 1 \in T
    BY <2>2
  <2> HIDE DEF T
  <2> QED
    BY <1>1, <2>1, <2>3, SetInduction
<1>8. ApplyPostconds(kv, ns, ex, perm) = after[N]
  BY DEF ApplyPostconds
<1>9. after \in [0 .. N -> S]
  <2>1. \A k \in 0 .. N : after[k] \in S
    <3> HIDE DEF N, after
    <3> QED
      BY <1>7
  <2>2. after = [n \in 0 .. N |-> IF n = 0 THEN ns
                                  ELSE ApplyPostcond(kv, after[n - 1], ex, perm, n)]
    <3> HIDE DEF N, after
    <3> QED
      BY <1>6
  <2> HIDE DEF N, after
  <2> QED
    BY <2>1, <2>2
<1>10. IsRun(after, kv, ns, ex, perm)
  <2>1. /\ after[0] = ns
        /\ \A n \in 1 .. N : after[n] = ApplyPostcond(kv, after[n - 1], ex, perm, n)
    <3> HIDE DEF N, after
    <3> QED
      BY <1>1, <1>6
  <2> HIDE DEF after
  <2> QED
    BY <1>8, <2>1 DEF IsRun
<1> HIDE DEF after
<1> QED
  BY <1>9, <1>10

\* What every postcondition keeps, applying the exploit keeps.
LEMMA ApplyPostcondsKeeps ==
  ASSUME NEW kv, NEW ex, NEW perm, NumPostconds(ex) \in Nat, NEW S, NEW ns \in S,
         \A n \in 1 .. NumPostconds(ex) : \A x \in S : ApplyPostcond(kv, x, ex, perm, n) \in S
  PROVE  ApplyPostconds(kv, ns, ex, perm) \in S
<1>1. PICK a \in [0 .. NumPostconds(ex) -> S] : IsRun(a, kv, ns, ex, perm)
  BY PostcondsApplied
<1>2. NumPostconds(ex) \in 0 .. NumPostconds(ex)
  OBVIOUS
<1> QED
  BY <1>1, <1>2 DEF IsRun

\* Applying an exploit to a state gives a state with the same id.
LEMMA ApplyPostcondsOver ==
  ASSUME NEW Q, NEW T, NEW kv, NEW ex \in ExploitType, NEW perm,
         Keeps(Q, T, kv, ex, perm), NEW ns \in StatesOver(Q, T)
  PROVE  /\ ApplyPostconds(kv, ns, ex, perm) \in StatesOver(Q, T)
         /\ ApplyPostconds(kv, ns, ex, perm).id = ns.id
<1> DEFINE S == {x \in StatesOver(Q, T) : x.id = ns.id}
<1>1. NumPostconds(ex) \in Nat /\ ns \in S
  BY NumPostcondsNat
<1>2. ASSUME NEW n \in 1 .. NumPostconds(ex), NEW x \in S
      PROVE  ApplyPostcond(kv, x, ex, perm, n) \in S
  BY ApplyPostcondOver
<1>3. ApplyPostconds(kv, ns, ex, perm) \in S
  <2> HIDE DEF S
  <2> QED
    BY <1>1, <1>2, ApplyPostcondsKeeps
<1> QED
  BY <1>3

LEMMA ApplyPostcondsTyped ==
  ASSUME NEW kv \in Seq(STRING), NEW ex, Usable(kv, ex),
         NEW perm \in [1 .. ex.num_params -> Nat],
         NEW ns \in NetworkStateType
  PROVE  /\ ApplyPostconds(kv, ns, ex, perm) \in NetworkStateType
         /\ ApplyPostconds(kv, ns, ex, perm).id = ns.id
<1>1. NetworkStateType = StatesOver(QualityType, TopologyType)
  BY DEF NetworkStateType, StatesOver
<1> QED
  BY <1>1, UsableKeeps, ApplyPostcondsOver DEF Usable

-----------------------------------------------------------------------------
(* Asset groups and moves.                                                 *)

\* No asset and at least one parameter: there is no permutation.
LEMMA NoAssets ==
  ASSUME NEW N \in Nat, Length(N, 0) # 0
  PROVE  N = 0
BY NoValues

\* A permutation of the odometer gives an asset to every parameter.
LEMMA PermTyped ==
  ASSUME NEW N \in Nat, NEW K \in Nat, NEW k \in DOMAIN Perms(N, K)
  PROVE  Perms(N, K)[k] \in [1 .. N -> 0 .. K - 1]
<1>1. Length(N, K) \in Nat /\ k \in 1 .. Length(N, K)
  BY LengthNat DEF Perms
<1>2. k - 1 \in Nat /\ Perms(N, K)[k] = Reading(k - 1, N, K)
  BY <1>1 DEF Perms
<1>3. CASE K = 0
  <2>1. N = 0
    BY <1>1, <1>3, NoAssets
  <2> QED
    BY <1>2, <2>1, <1>3 DEF Reading
<1>4. CASE K # 0
  <2>1. K \in Nat \ {0}
    BY <1>4
  <2>2. Reading(k - 1, N, K) \in [1 .. N -> 0 .. K - 1]
    BY <1>2, <2>1, ReadingIsPermutation
  <2> QED
    BY <1>2, <2>2
<1> QED
  BY <1>3, <1>4

LEMMA CandidateTyped ==
  ASSUME NEW inst \in Instances, NEW m \in Candidates(inst)
  PROVE  /\ m[1] \in Nat /\ m[2] \in Nat /\ m = << m[1], m[2] >>
         /\ m[1] \in DOMAIN inst.exploits
         /\ Exploit(inst, m) \in ExploitType
         /\ AssetGroup(inst, m) \in [1 .. Exploit(inst, m).num_params -> 0 .. inst.assets - 1]
         /\ AssetGroup(inst, m) \in [1 .. Exploit(inst, m).num_params -> Nat]
         /\ AssetGroup(inst, m) \in Seq(Nat)
<1>1. inst.exploits \in Seq(ExploitType) /\ inst.assets \in Nat
  BY InstancesAssumption DEF InstanceType
<1>2. PICK i \in DOMAIN inst.exploits :
        m \in {i} \X DOMAIN od_map(inst, inst.exploits[i].num_params)
  BY DEF Candidates
<1>3. m[1] = i /\ m = << m[1], m[2] >>
      /\ m[2] \in DOMAIN od_map(inst, inst.exploits[i].num_params)
  BY <1>2
<1>4. inst.exploits[i] \in ExploitType
  BY <1>1, ElementTyped
<1>5. inst.exploits[i].num_params \in Nat
  BY <1>4 DEF ExploitType
<1>6. AssetGroup(inst, m) \in [1 .. inst.exploits[i].num_params -> 0 .. inst.assets - 1]
  BY <1>1, <1>3, <1>5, PermTyped DEF AssetGroup, Exploit, od_map
<1>7. AssetGroup(inst, m) \in [1 .. inst.exploits[i].num_params -> Nat]
  BY <1>6, <1>1
<1>8. AssetGroup(inst, m) \in Seq(Nat)
  BY <1>5, <1>7, MapSeq
<1>9. i \in Nat /\ m[2] \in Nat
  <2>1. i \in Nat
    BY <1>1
  <2>2. Length(inst.exploits[i].num_params, inst.assets) \in Nat
    BY <1>1, <1>5, LengthNat
  <2>3. m[2] \in 1 .. Length(inst.exploits[i].num_params, inst.assets)
    BY <1>3 DEF od_map, Perms
  <2> QED
    BY <2>1, <2>2, <2>3
<1> QED
  BY <1>3, <1>4, <1>6, <1>7, <1>8, <1>9 DEF Exploit

\* The exploits of a model change facts that the Keyvalue can encode.
LEMMA ExploitUsable ==
  ASSUME NEW inst \in Instances, NEW m \in Candidates(inst)
  PROVE  inst.facts \in Seq(STRING) /\ Usable(inst.facts, Exploit(inst, m))
<1>1. PICK i : i \in DOMAIN inst.exploits /\ i = m[1]
  BY CandidateTyped
<1> DEFINE ex == inst.exploits[i]
<1>2. ex = Exploit(inst, m) /\ ex \in ExploitType /\ ex \in ToSet(inst.exploits)
  BY <1>1, CandidateTyped DEF Exploit, ToSet
<1>3. /\ inst.facts \in Seq(STRING)
      /\ WellFormed(inst)
      /\ ToSet(inst.facts) = UniqueValues(inst)
  BY InstancesAssumption DEF InstanceType, WellFormed
<1> HIDE DEF ex
<1>4. ASSUME NEW k \in DOMAIN ex.postconds_q
      PROVE  LET f == ex.postconds_q[k].fact
             IN  /\ f.param < ex.num_params
                 /\ Known(inst.facts, f.name) /\ Known(inst.facts, f.value)
  <2>1. ex.postconds_q[k] \in ToSet(ex.postconds_q)
    BY DEF ToSet
  <2>2. ex.postconds_q[k].fact.param < ex.num_params
    BY <1>2, <1>3, <2>1 DEF WellFormed
  <2>3. /\ ex.postconds_q[k].fact.name \in UniqueValues(inst)
        /\ ex.postconds_q[k].fact.value \in UniqueValues(inst)
    BY <1>2, <2>1 DEF UniqueValues
  <2> QED
    BY <1>3, <2>2, <2>3 DEF Known
<1>5. ASSUME NEW k \in DOMAIN ex.postconds_t
      PROVE  LET f == ex.postconds_t[k].fact
             IN  /\ f.from_param < ex.num_params /\ f.to_param < ex.num_params
                 /\ Known(inst.facts, f.property) /\ Known(inst.facts, f.value)
  <2>1. ex.postconds_t[k] \in ToSet(ex.postconds_t)
    BY DEF ToSet
  <2>2. /\ ex.postconds_t[k].fact.from_param < ex.num_params
        /\ ex.postconds_t[k].fact.to_param < ex.num_params
    BY <1>2, <1>3, <2>1 DEF WellFormed
  <2>3. /\ ex.postconds_t[k].fact.property \in UniqueValues(inst)
        /\ ex.postconds_t[k].fact.value \in UniqueValues(inst)
    BY <1>2, <2>1 DEF UniqueValues
  <2> QED
    BY <1>3, <2>2, <2>3 DEF Known
<1> QED
  BY <1>2, <1>3, <1>4, <1>5 DEF Usable

\* A move takes a state to a state with the same id.
LEMMA SuccessorTyped ==
  ASSUME NEW inst \in Instances, NEW m \in Candidates(inst),
         NEW ns \in NetworkStateType
  PROVE  Successor(inst, ns, m) \in NetworkStateType
<1>1. AssetGroup(inst, m) \in [1 .. Exploit(inst, m).num_params -> Nat]
  BY CandidateTyped
<1>2. inst.facts \in Seq(STRING) /\ Usable(inst.facts, Exploit(inst, m))
  BY ExploitUsable
<1> QED
  BY <1>1, <1>2, ApplyPostcondsTyped DEF Successor

\* Among the moves left there is one that comes before all the others.
LEMMA NextMoveIsMove ==
  ASSUME instance \in Instances, appl_exploits \subseteq Candidates(instance),
         appl_exploits # {}
  PROVE  NextMove \in appl_exploits
<1>1. ASSUME NEW m \in appl_exploits
      PROVE  m[1] \in Nat /\ m[2] \in Nat /\ m = << m[1], m[2] >>
  BY CandidateTyped
<1>2. PICK a \in {m[1] : m \in appl_exploits} :
        \A b \in {m[1] : m \in appl_exploits} : a <= b
  <2>1. {m[1] : m \in appl_exploits} \in SUBSET Nat
    BY <1>1
  <2>2. {m[1] : m \in appl_exploits} # {}
    OBVIOUS
  <2> QED
    BY <2>1, <2>2, LeastNat
<1> DEFINE B == {m \in appl_exploits : m[1] = a}
<1>3. PICK c \in {m[2] : m \in B} : \A b \in {m[2] : m \in B} : c <= b
  <2>1. {m[2] : m \in B} \in SUBSET Nat
    BY <1>1
  <2>2. {m[2] : m \in B} # {}
    <3>1. PICK x \in appl_exploits : a = x[1]
      OBVIOUS
    <3>2. x \in B
      BY <3>1
    <3> QED
      BY <3>2
  <2> HIDE DEF B
  <2> QED
    BY <2>1, <2>2, LeastNat
<1>4. PICK n \in appl_exploits : n[1] = a /\ n[2] = c
  BY <1>3
<1>5. ASSUME NEW o \in appl_exploits \ {n} PROVE Before(n, o)
  <2>1. n = << n[1], n[2] >> /\ o = << o[1], o[2] >>
    BY <1>1
  <2>2. o[1] # n[1] \/ o[2] # n[2]
    BY <2>1
  <2>3. n[1] <= o[1]
    BY <1>2, <1>4
  <2>4. o[1] = n[1] => n[2] <= o[2]
    BY <1>3, <1>4
  <2>5. n[1] \in Nat /\ n[2] \in Nat /\ o[1] \in Nat /\ o[2] \in Nat
    BY <1>1
  <2> QED
    BY <2>2, <2>3, <2>4, <2>5 DEF Before
<1> QED
  BY <1>4, <1>5 DEF NextMove

\* The hash of a state does not depend on its id.
LEMMA HashIgnoresId ==
  ASSUME NEW kv, NEW ns \in NetworkStateType, NEW id
  PROVE  Hash(kv, [ns EXCEPT !.id = id]) = Hash(kv, ns)
<1>1. /\ [ns EXCEPT !.id = id].qualities = ns.qualities
      /\ [ns EXCEPT !.id = id].topologies = ns.topologies
  BY DEF NetworkStateType
<1> QED
  BY <1>1, Zenon DEF Hash, QualityWords, TopologyWords

-----------------------------------------------------------------------------
(* Type correctness.                                                       *)

LEMMA InitTyped ==
  ASSUME Init
  PROVE  TypeOK
<1>1. PICK inst \in Instances : Ctor(inst)
  BY DEF Init
<1>2. instance = inst
  BY <1>1 DEF Ctor
<1> DEFINE init_state == [id         |-> 0,
                          qualities  |-> inst.initial_qualities,
                          topologies |-> inst.initial_topologies]
<1>3. /\ factbases = << init_state >>
      /\ hash_map = [h \in {Hash(inst.facts, init_state)} |-> 0]
      /\ frontier = << init_state >>
      /\ current_state = init_state
  BY <1>1 DEF Ctor
<1>4. init_state \in NetworkStateType
  BY InstancesAssumption DEF InstanceType, NetworkStateType
<1> HIDE DEF init_state
<1>5. /\ factbases \in Seq(NetworkStateType)
      /\ frontier \in Seq(NetworkStateType)
      /\ DOMAIN factbases = {1} /\ factbases[1] = init_state
  BY <1>3, <1>4
<1>6. DOMAIN hash_map = {HashOf(factbases[i]) : i \in DOMAIN factbases}
  BY <1>2, <1>3, <1>5 DEF HashOf
<1>7. \A h \in DOMAIN hash_map : hash_map[h] \in Nat
  BY <1>3
<1>8. /\ edges \in Seq(EdgeType)
      /\ current_id \in Nat
      /\ appl_exploits = {}
      /\ status \in {"generating", "done", "aborted"}
  BY DEF Init
<1> QED
  BY <1>2, <1>3, <1>4, <1>5, <1>6, <1>7, <1>8 DEF TypeOK

\* What the next move of a typed state gives.
LEMMA StepTyped ==
  ASSUME TypeOK, appl_exploits # {}
  PROVE  /\ NextMove \in appl_exploits
         /\ NextMove \in Candidates(instance)
         /\ new_state \in NetworkStateType
         /\ \A id \in Nat : EdgeTo(id) \in EdgeType
<1>1. NextMove \in appl_exploits /\ NextMove \in Candidates(instance)
  BY NextMoveIsMove DEF TypeOK
<1>2. new_state \in NetworkStateType
  BY <1>1, SuccessorTyped DEF TypeOK, new_state
<1>3. current_state.id \in Nat /\ Len(edges) \in Nat
  BY DEF TypeOK, NetworkStateType
<1>4. NextMove[1] \in Nat /\ AssetGroup(instance, NextMove) \in Seq(Nat)
  BY <1>1, CandidateTyped DEF TypeOK
<1>5. \A id \in Nat : EdgeTo(id) \in EdgeType
  BY <1>3, <1>4 DEF EdgeTo, EdgeType
<1> QED
  BY <1>1, <1>2, <1>5

LEMMA Appended ==
  ASSUME NEW S, NEW s \in Seq(S), NEW x \in S, NEW t, t = Append(s, x)
  PROVE  /\ t \in Seq(S)
         /\ Len(t) = Len(s) + 1
         /\ DOMAIN t = DOMAIN s \cup {Len(s) + 1}
         /\ \A i \in DOMAIN s : t[i] = s[i]
         /\ t[Len(s) + 1] = x
<1>1. t \in Seq(S) /\ Len(t) = Len(s) + 1 /\ t[Len(s) + 1] = x
  BY AppendProperties
<1>2. DOMAIN s = 1 .. Len(s) /\ DOMAIN t = 1 .. Len(t) /\ Len(s) \in Nat
  BY <1>1
<1>3. \A i \in DOMAIN s : t[i] = s[i]
  BY <1>2, AppendProperties
<1> QED
  BY <1>1, <1>2, <1>3

LEMMA Prepended ==
  ASSUME NEW S, NEW s \in Seq(S), NEW x \in S, NEW t, t = << x >> \o s
  PROVE  /\ t \in Seq(S)
         /\ Len(t) = Len(s) + 1
         /\ t[1] = x
         /\ \A k \in 2 .. Len(s) + 1 : t[k] = s[k - 1]
<1>1. << x >> \in Seq(S) /\ Len(<< x >>) = 1 /\ << x >>[1] = x
  OBVIOUS
<1>2. Len(s) \in Nat
  OBVIOUS
<1>3. t \in Seq(S) /\ Len(t) = Len(s) + 1
  BY <1>1, ConcatProperties
<1>4. t[1] = x
  BY <1>1, <1>2, ConcatProperties
<1>5. \A k \in 2 .. Len(s) + 1 : t[k] = s[k - 1]
  BY <1>1, <1>2, ConcatProperties
<1> QED
  BY <1>3, <1>4, <1>5

\* The frontier without its last state.
LEMMA FrontTyped ==
  ASSUME NEW S, NEW s \in Seq(S), s # << >>
  PROVE  /\ Len(s) \in Nat \ {0}
         /\ Last(s) \in S /\ Last(s) = s[Len(s)]
         /\ Front(s) \in Seq(S)
         /\ Len(Front(s)) = Len(s) - 1
         /\ \A k \in 1 .. Len(s) - 1 : Front(s)[k] = s[k]
<1>1. Len(s) \in Nat \ {0}
  BY EmptySeq
<1>2. Last(s) = s[Len(s)] /\ s[Len(s)] \in S
  BY <1>1 DEF Last
<1>3. /\ Front(s) \in Seq(S)
      /\ Len(Front(s)) = Len(s) - 1
      /\ \A k \in 1 .. Len(s) - 1 : Front(s)[k] = s[k]
  <2> DEFINE n == Len(s)
  <2>1. /\ SubSeq(s, 1, n - 1) \in Seq(S)
        /\ Len(SubSeq(s, 1, n - 1)) = IF 1 <= n - 1 THEN (n - 1) - 1 + 1 ELSE 0
        /\ \A k \in 1 .. (n - 1) - 1 + 1 : SubSeq(s, 1, n - 1)[k] = s[1 + k - 1]
    BY <1>1, SubSeqProperties
  <2>2. Front(s) = SubSeq(s, 1, n - 1)
    BY DEF Front
  <2>3. n \in Nat \ {0}
    BY <1>1
  <2> HIDE DEF n
  <2>4. (IF 1 <= n - 1 THEN (n - 1) - 1 + 1 ELSE 0) = n - 1
    BY <2>3
  <2>5. \A k \in 1 .. n - 1 : k \in 1 .. (n - 1) - 1 + 1 /\ 1 + k - 1 = k
    BY <2>3
  <2> QED
    BY <2>1, <2>2, <2>4, <2>5 DEF n
<1> QED
  BY <1>1, <1>2, <1>3

LEMMA FetchTyped ==
  ASSUME TypeOK, FetchState \/ Abort
  PROVE  TypeOK'
<1>1. /\ Last(frontier) \in NetworkStateType
      /\ Front(frontier) \in Seq(NetworkStateType)
  <2>1. frontier \in Seq(NetworkStateType) /\ frontier # << >>
    BY DEF TypeOK, FetchState, Abort, Found, Remaining
  <2> QED
    BY <2>1, FrontTyped
<1>2. CASE FetchState
  <2>1. appl_exploits' \subseteq Candidates(instance)
    BY <1>2 DEF FetchState, Moves, Found, Remaining
  <2> QED
    BY <1>1, <1>2, <2>1 DEF TypeOK, FetchState, HashOf, Candidates, Found, Remaining
<1>3. CASE Abort
  BY <1>1, <1>3 DEF TypeOK, Abort, HashOf, Candidates, Remaining
<1> QED
  BY <1>2, <1>3

LEMMA NewNodeTyped ==
  ASSUME TypeOK, appl_exploits # {}
  PROVE  /\ NewNode \in NetworkStateType
         /\ NewNode.id = current_id
         /\ HashOf(NewNode) = hash_num
<1>1. new_state \in NetworkStateType /\ current_id \in Nat
  BY StepTyped DEF TypeOK
<1>2. NewNode \in NetworkStateType /\ NewNode.id = current_id
  BY <1>1 DEF NewNode, NetworkStateType
<1>3. HashOf(NewNode) = hash_num
  BY <1>1, HashIgnoresId DEF NewNode, HashOf, hash_num
<1> QED
  BY <1>2, <1>3

LEMMA NewStateEffect ==
  ASSUME NewState
  PROVE  /\ appl_exploits # {}
         /\ appl_exploits' = appl_exploits \ {NextMove}
         /\ instance' = instance /\ current_state' = current_state
         /\ status' = status /\ status = "generating"
         /\ hash_num # HashOf(current_state) /\ hash_num \notin DOMAIN hash_map
         /\ current_id' = current_id + 1
         /\ factbases' = Append(factbases, NewNode)
         /\ hash_map' = [h \in DOMAIN hash_map \cup {hash_num} |->
                           IF h = hash_num THEN current_id ELSE hash_map[h]]
         /\ frontier' = << NewNode >> \o frontier
         /\ edges' = Append(edges, EdgeTo(current_id))
BY DEF NewState, TakeMove, NewNode, NotMet, Inserted, EmplacedFront

LEMMA NewStateTyped ==
  ASSUME TypeOK, NewState
  PROVE  TypeOK'
<1>1. /\ factbases \in Seq(NetworkStateType) /\ edges \in Seq(EdgeType)
      /\ frontier \in Seq(NetworkStateType)
      /\ instance \in Instances /\ current_id \in Nat
      /\ DOMAIN hash_map = {HashOf(factbases[i]) : i \in DOMAIN factbases}
      /\ \A h \in DOMAIN hash_map : hash_map[h] \in Nat
  BY DEF TypeOK
<1>2. /\ appl_exploits # {}
      /\ factbases' = Append(factbases, NewNode)
      /\ frontier' = << NewNode >> \o frontier
      /\ edges' = Append(edges, EdgeTo(current_id))
  BY NewStateEffect
<1>3. /\ NewNode \in NetworkStateType /\ HashOf(NewNode) = hash_num
      /\ EdgeTo(current_id) \in EdgeType
  BY <1>1, <1>2, NewNodeTyped, StepTyped
<1>4. /\ factbases' \in Seq(NetworkStateType)
      /\ DOMAIN factbases' = DOMAIN factbases \cup {Len(factbases) + 1}
      /\ \A i \in DOMAIN factbases : factbases'[i] = factbases[i]
      /\ factbases'[Len(factbases) + 1] = NewNode
  BY <1>1, <1>2, <1>3, Appended
<1>5. edges' \in Seq(EdgeType) /\ frontier' \in Seq(NetworkStateType)
  BY <1>1, <1>2, <1>3, Appended, Prepended
<1>6. {HashOf(factbases'[i]) : i \in DOMAIN factbases'} =
      {HashOf(factbases[i]) : i \in DOMAIN factbases} \cup {hash_num}
  BY <1>3, <1>4
<1>7. DOMAIN hash_map' = {HashOf(factbases'[i]) : i \in DOMAIN factbases'}
  BY <1>1, <1>6, NewStateEffect
<1>8. DOMAIN hash_map' = {HashOf(factbases[i]) : i \in DOMAIN factbases}'
  BY <1>7, NewStateEffect DEF HashOf
<1>9. \A h \in DOMAIN hash_map' : hash_map'[h] \in Nat
  BY <1>1, NewStateEffect
<1>10. current_id' \in Nat
  BY <1>1, NewStateEffect
<1>11. /\ instance' \in Instances
       /\ current_state' \in NetworkStateType
       /\ appl_exploits' \subseteq Candidates(instance)'
       /\ status' \in {"generating", "done", "aborted"}
  BY NewStateEffect DEF TypeOK, Candidates
<1> QED
  BY <1>4, <1>5, <1>8, <1>9, <1>10, <1>11 DEF TypeOK

LEMMA OtherStepsTyped ==
  ASSUME TypeOK, NoChange \/ KnownState \/ Finish \/ Stopped
  PROVE  TypeOK'
<1>1. CASE NoChange
  BY <1>1 DEF TypeOK, NoChange, TakeMove, HashOf, Candidates
<1>2. CASE KnownState
  <2>1. hash_map[hash_num] \in Nat /\ appl_exploits # {}
    BY <1>2 DEF TypeOK, KnownState, TakeMove, NotMet
  <2>2. EdgeTo(hash_map[hash_num]) \in EdgeType
    BY <2>1, StepTyped
  <2>3. edges' \in Seq(EdgeType)
    BY <1>2, <2>2 DEF TypeOK, KnownState, NotMet
  <2> QED
    BY <1>2, <2>3 DEF TypeOK, KnownState, TakeMove, HashOf, Candidates, NotMet
<1>3. CASE Finish
  BY <1>3 DEF TypeOK, Finish, HashOf, Candidates
<1>4. CASE Stopped
  BY <1>4 DEF TypeOK, Stopped, vars, HashOf, Candidates
<1> QED
  BY <1>1, <1>2, <1>3, <1>4

LEMMA StutterTyped ==
  ASSUME TypeOK, UNCHANGED vars
  PROVE  TypeOK'
BY DEF TypeOK, vars, HashOf, Candidates

\* Every reachable state of the generator is typed: applying an exploit to a
\* factbase gives a factbase whose facts have encodings, the next applicable
\* exploit always exists, and hash_map has the hashes of the nodes and no
\* other (generate in ag_gen.cpp).
THEOREM TypeCorrect == Spec => []TypeOK
<1>1. Init => TypeOK
  BY InitTyped
<1>2. TypeOK /\ [Next]_vars => TypeOK'
  BY FetchTyped, NewStateTyped, OtherStepsTyped, StutterTyped DEF Next
<1> QED
  BY <1>1, <1>2, PTL DEF Spec

-----------------------------------------------------------------------------
(* hash_map is exact.                                                      *)

\* The nodes there were keep their ids; the new one has the next.
LEMMA NodesKept ==
  ASSUME TypeOK, NewState
  PROVE  /\ Len(factbases) \in Nat
         /\ Len(factbases') = Len(factbases) + 1
         /\ Len(frontier') = Len(frontier) + 1
         /\ \A i \in Ids : Node(i)' = Node(i)
         /\ \A n : n = Len(factbases) => Node(n)' = NewNode
         /\ NewNode \in NetworkStateType
<1>1. /\ factbases \in Seq(NetworkStateType)
      /\ frontier \in Seq(NetworkStateType)
  BY DEF TypeOK
<1>2. /\ appl_exploits # {}
      /\ factbases' = Append(factbases, NewNode)
      /\ frontier' = << NewNode >> \o frontier
  BY NewStateEffect
<1>3. NewNode \in NetworkStateType
  BY <1>2, NewNodeTyped
<1>4. /\ Len(factbases') = Len(factbases) + 1
      /\ \A i \in DOMAIN factbases : factbases'[i] = factbases[i]
      /\ factbases'[Len(factbases) + 1] = NewNode
  BY <1>1, <1>2, <1>3, Appended
<1>5. Len(frontier') = Len(frontier) + 1
  BY <1>1, <1>2, <1>3, Prepended
<1>6. Len(factbases) \in Nat /\ DOMAIN factbases = 1 .. Len(factbases)
  BY <1>1
<1>7. ASSUME NEW i \in Ids PROVE Node(i)' = Node(i)
  <2>1. i + 1 \in DOMAIN factbases
    BY <1>6 DEF Ids
  <2> QED
    BY <1>4, <2>1 DEF Node
<1>8. \A n : n = Len(factbases) => Node(n)' = NewNode
  BY <1>4 DEF Node
<1> QED
  BY <1>3, <1>4, <1>5, <1>6, <1>7, <1>8

\* Every step but NewState leaves the nodes and their numbering alone.
LEMMA NoNewNode ==
  ASSUME Next \/ UNCHANGED vars, ~ NewState
  PROVE  /\ instance' = instance /\ factbases' = factbases
         /\ hash_map' = hash_map /\ current_id' = current_id
BY DEF Next, FetchState, Abort, NoChange, KnownState, TakeMove, Finish, Stopped, vars

LEMMA InitHash ==
  ASSUME Init
  PROVE  OneNodePerHash
<1>1. PICK inst \in Instances : Ctor(inst)
  BY DEF Init
<1>2. PICK s0 : /\ factbases = << s0 >> /\ s0.id = 0
                /\ hash_map = [h \in {Hash(inst.facts, s0)} |-> 0]
                /\ instance = inst
  BY <1>1 DEF Ctor
<1>3. Len(factbases) = 1 /\ Ids = {0} /\ Node(0) = s0
  BY <1>2 DEF Ids, Node
<1>4. current_id = 1
  BY DEF Init
<1> QED
  BY <1>2, <1>3, <1>4 DEF OneNodePerHash, HashOf

LEMMA NextHash ==
  ASSUME TypeOK, OneNodePerHash, Next \/ UNCHANGED vars
  PROVE  OneNodePerHash'
<1>1. CASE ~ NewState
  BY <1>1, NoNewNode DEF OneNodePerHash, Ids, Node, HashOf
<1>2. CASE NewState
  <2>1. /\ hash_num \notin DOMAIN hash_map
        /\ current_id' = current_id + 1
        /\ hash_map' = [h \in DOMAIN hash_map \cup {hash_num} |->
                          IF h = hash_num THEN current_id ELSE hash_map[h]]
        /\ appl_exploits # {}
        /\ instance' = instance
    BY <1>2, NewStateEffect
  <2>2. /\ Len(factbases) \in Nat
        /\ Len(factbases') = Len(factbases) + 1
        /\ \A i \in Ids : Node(i)' = Node(i)
        /\ \A n : n = Len(factbases) => Node(n)' = NewNode
    BY <1>2, NodesKept
  <2>3. current_id = Len(factbases)
    BY DEF OneNodePerHash
  <2>4. HashOf(NewNode) = hash_num /\ NewNode.id = Len(factbases)
    BY <2>1, <2>3, NewNodeTyped
  <2>5. ASSUME NEW i \in Ids
        PROVE  /\ Node(i)'.id = i
               /\ Hash(instance.facts, Node(i)') \in DOMAIN hash_map'
               /\ hash_map'[Hash(instance.facts, Node(i)')] = i
    <3>1. /\ Node(i).id = i /\ HashOf(Node(i)) \in DOMAIN hash_map
          /\ hash_map[HashOf(Node(i))] = i
      BY DEF OneNodePerHash
    <3>2. HashOf(Node(i)) # hash_num
      BY <3>1, <2>1
    <3> QED
      BY <3>1, <3>2, <2>1, <2>2 DEF HashOf
  <2>6. /\ Hash(instance.facts, NewNode) \in DOMAIN hash_map'
        /\ hash_map'[Hash(instance.facts, NewNode)] = Len(factbases)
    BY <2>1, <2>3, <2>4 DEF HashOf
  <2>7. Ids' = Ids \cup {Len(factbases)}
    BY <2>2 DEF Ids
  <2>8. ASSUME NEW i \in Ids'
        PROVE  /\ Node(i)'.id = i
               /\ HashOf(Node(i))' \in DOMAIN hash_map'
               /\ hash_map'[HashOf(Node(i))'] = i
    <3>1. CASE i \in Ids
      BY <3>1, <2>1, <2>5 DEF HashOf
    <3>2. CASE i = Len(factbases)
      <4>1. Node(i)' = NewNode
        BY <3>2, <2>2
      <4>2. HashOf(Node(i))' = Hash(instance.facts, NewNode)
        BY <4>1, <2>1 DEF HashOf
      <4> QED
        BY <3>2, <4>1, <4>2, <2>4, <2>6
    <3> QED
      BY <3>1, <3>2, <2>7
  <2> QED
    BY <2>1, <2>2, <2>3, <2>8 DEF OneNodePerHash
<1> QED
  BY <1>1, <1>2

-----------------------------------------------------------------------------
(* The frontier is a queue.                                                *)

LEMMA InitQueue ==
  ASSUME Init
  PROVE  OldestFirst
<1>1. PICK s0 : factbases = << s0 >> /\ frontier = << s0 >>
  BY DEF Init, Ctor
<1>2. Len(factbases) = 1 /\ Len(frontier) = 1 /\ DOMAIN frontier = {1}
  BY <1>1
<1>3. frontier[1] = Node(0)
  BY <1>1 DEF Node
<1>4. appl_exploits = {}
  BY DEF Init
<1> QED
  BY <1>2, <1>3, <1>4 DEF OldestFirst, Popped

\* The last state of the frontier is the oldest node not expanded yet.
LEMMA FetchPops ==
  ASSUME TypeOK, OldestFirst, FetchState \/ Abort
  PROVE  /\ Popped \in Nat /\ Popped < Len(factbases)
         /\ Popped' = Popped + 1
         /\ current_state' = Node(Popped)
<1>1. frontier # << >> /\ frontier' = Front(frontier)
      /\ current_state' = Last(frontier) /\ factbases' = factbases
  BY DEF FetchState, Abort, Found, Remaining
<1>2. factbases \in Seq(NetworkStateType) /\ frontier \in Seq(NetworkStateType)
  BY DEF TypeOK
<1>3. /\ Len(frontier) \in Nat \ {0}
      /\ Last(frontier) = frontier[Len(frontier)]
      /\ Len(Front(frontier)) = Len(frontier) - 1
      /\ Len(frontier) \in DOMAIN frontier
      /\ Len(factbases) \in Nat
  BY <1>1, <1>2, FrontTyped
<1>4. frontier[Len(frontier)] = Node(Popped)
  BY <1>3 DEF OldestFirst, Popped
<1>5. Popped \in Nat /\ Popped < Len(factbases)
  BY <1>3 DEF OldestFirst, Popped
<1>6. Popped' = Popped + 1
  BY <1>1, <1>3 DEF Popped
<1> QED
  BY <1>1, <1>3, <1>4, <1>5, <1>6

LEMMA NextQueue ==
  ASSUME TypeOK, OldestFirst, Next \/ UNCHANGED vars
  PROVE  OldestFirst'
<1>1. /\ factbases \in Seq(NetworkStateType) /\ frontier \in Seq(NetworkStateType)
      /\ Len(factbases) \in Nat /\ Len(frontier) \in Nat
      /\ DOMAIN frontier = 1 .. Len(frontier)
  BY DEF TypeOK
<1>2. CASE FetchState \/ Abort
  <2>1. factbases' = factbases /\ frontier # << >> /\ frontier' = Front(frontier)
    BY <1>2 DEF FetchState, Abort, Found, Remaining
  <2>2. /\ Len(frontier') = Len(frontier) - 1
        /\ frontier' \in Seq(NetworkStateType)
        /\ \A k \in 1 .. Len(frontier) - 1 : frontier'[k] = frontier[k]
    BY <1>1, <2>1, FrontTyped
  <2>3. DOMAIN frontier' = 1 .. Len(frontier) - 1
    BY <2>2
  <2>4. ASSUME NEW k \in DOMAIN frontier'
        PROVE  frontier'[k] = factbases'[Len(factbases') - k + 1]
    <3>1. frontier'[k] = frontier[k] /\ k \in DOMAIN frontier
      BY <1>1, <2>2, <2>3
    <3> QED
      BY <3>1, <2>1 DEF OldestFirst, Node
  <2>5. Popped \in Nat /\ Popped' = Popped + 1 /\ current_state' = Node(Popped)
    BY <1>2, FetchPops
  <2>6. current_state' = factbases'[Popped' - 1 + 1]
    BY <2>1, <2>5 DEF Node
  <2> QED
    BY <2>4, <2>5, <2>6 DEF OldestFirst, Node
<1>3. CASE NewState
  <2>1. /\ Len(factbases') = Len(factbases) + 1
        /\ Len(frontier') = Len(frontier) + 1
        /\ \A i \in Ids : Node(i)' = Node(i)
        /\ \A n : n = Len(factbases) => Node(n)' = NewNode
        /\ NewNode \in NetworkStateType
    BY <1>3, NodesKept
  <2>2. frontier' = << NewNode >> \o frontier /\ current_state' = current_state
        /\ appl_exploits # {}
    BY <1>3, NewStateEffect
  <2>3. /\ frontier' \in Seq(NetworkStateType)
        /\ frontier'[1] = NewNode
        /\ \A k \in 2 .. Len(frontier) + 1 : frontier'[k] = frontier[k - 1]
    BY <1>1, <2>1, <2>2, Prepended
  <2>4. DOMAIN frontier' = 1 .. Len(frontier) + 1
    BY <2>1, <2>3
  <2>5. Popped' = Popped /\ Popped \in Nat /\ Popped > 0
    BY <1>1, <2>1, <2>2 DEF Popped, OldestFirst
  <2>6. ASSUME NEW k \in DOMAIN frontier'
        PROVE  frontier'[k] = factbases'[Len(factbases) + 1 - k + 1]
    <3>1. CASE k = 1
      <4>1. factbases'[Len(factbases) + 1] = NewNode
        BY <2>1 DEF Node
      <4>2. Len(factbases) + 1 - k + 1 = Len(factbases) + 1
        BY <1>1, <3>1
      <4> QED
        BY <2>3, <3>1, <4>1, <4>2
    <3>2. CASE k # 1
      <4>1. k \in 2 .. Len(frontier) + 1 /\ k - 1 \in DOMAIN frontier
        BY <1>1, <2>4, <3>2
      <4>2. frontier'[k] = Node(Len(factbases) - (k - 1))
        BY <2>3, <4>1 DEF OldestFirst
      <4>3. PICK j \in Ids : j = Len(factbases) - (k - 1)
        BY <1>1, <4>1, <2>5 DEF Ids, Popped
      <4>4. factbases'[j + 1] = Node(j)
        BY <2>1 DEF Node
      <4>5. j = Len(factbases) + 1 - k
        BY <1>1, <4>1, <4>3
      <4> QED
        BY <4>2, <4>3, <4>4, <4>5
    <3> QED
      BY <3>1, <3>2
  <2>7. current_state' = factbases'[Popped - 1 + 1]
    <3>1. current_state = Node(Popped - 1)
      BY <2>5 DEF OldestFirst
    <3>2. PICK j \in Ids : j = Popped - 1
      <4>1. Popped \in Nat /\ Popped > 0
        BY <2>5
      <4>2. Popped - 1 \in Ids
        BY <1>1, <4>1 DEF Ids, Popped
      <4> QED
        BY <4>2
    <3>3. factbases'[j + 1] = Node(j)
      BY <2>1 DEF Node
    <3> QED
      BY <2>2, <3>1, <3>2, <3>3
  <2>8. current_state' = Node(Popped - 1)'
    BY <2>5, <2>7 DEF Node
  <2>9. \A k \in DOMAIN frontier' : frontier'[k] = Node(Len(factbases) - k)'
    <3>1. ASSUME NEW k \in DOMAIN frontier'
          PROVE  Len(factbases) + 1 - k + 1 = Len(factbases') - k + 1
      BY <1>1, <2>1, <2>4
    <3> QED
      BY <2>6, <3>1 DEF Node
  <2> QED
    BY <2>5, <2>8, <2>9 DEF OldestFirst
<1>4. CASE NoChange \/ KnownState
  <2>1. /\ factbases' = factbases /\ frontier' = frontier
        /\ current_state' = current_state /\ appl_exploits # {}
    BY <1>4 DEF NoChange, KnownState, TakeMove, NotMet
  <2> QED
    BY <2>1 DEF OldestFirst, Popped, Node
<1>5. CASE Finish \/ Stopped \/ UNCHANGED vars
  BY <1>5 DEF Finish, Stopped, vars, OldestFirst, Popped, Node
<1> QED
  BY <1>2, <1>3, <1>4, <1>5 DEF Next

-----------------------------------------------------------------------------
(* Edges are attack steps.                                                 *)

\* A move that is applied belongs to the node that was popped last.
LEMMA MoveInHand ==
  ASSUME TypeOK, OneNodePerHash, OldestFirst, EdgesSound, appl_exploits # {}
  PROVE  /\ Popped - 1 \in Ids
         /\ current_state = Node(Popped - 1)
         /\ current_state.id = Popped - 1
         /\ NextMove \in appl_exploits
         /\ NextMove \in Moves(instance, Node(Popped - 1))
         /\ HashOf(Successor(instance, Node(Popped - 1), NextMove)) = hash_num
         /\ \A id : /\ EdgeTo(id).id = Len(edges)
                    /\ EdgeTo(id).to = id
                    /\ EdgeOf(EdgeTo(id), Popped - 1, NextMove)
<1>1. Popped > 0 /\ Popped >= 0 /\ current_state = Node(Popped - 1)
  BY DEF OldestFirst
<1>2. Popped - 1 \in Ids
  <2>1. Len(factbases) \in Nat /\ Len(frontier) \in Nat
    BY DEF TypeOK
  <2> QED
    BY <1>1, <2>1 DEF Popped, Ids
<1>3. current_state.id = Popped - 1
  BY <1>1, <1>2 DEF OneNodePerHash
<1>4. NextMove \in appl_exploits
  BY NextMoveIsMove DEF TypeOK
<1>5. NextMove \in Moves(instance, Node(Popped - 1))
  BY <1>1, <1>4 DEF EdgesSound
<1>6. HashOf(Successor(instance, Node(Popped - 1), NextMove)) = hash_num
  BY <1>1 DEF hash_num, new_state
<1>7. \A id : /\ EdgeTo(id).id = Len(edges)
              /\ EdgeTo(id).to = id
              /\ EdgeOf(EdgeTo(id), Popped - 1, NextMove)
  BY <1>3 DEF EdgeTo, EdgeOf
<1> QED
  BY <1>1, <1>2, <1>3, <1>4, <1>5, <1>6, <1>7

\* A hash in hash_map leads to the node that has it.
LEMMA LookupExact ==
  ASSUME TypeOK, OneNodePerHash, NEW h \in DOMAIN hash_map
  PROVE  hash_map[h] \in Ids /\ HashOf(Node(hash_map[h])) = h
<1>1. PICK j \in DOMAIN factbases : h = HashOf(factbases[j])
  BY DEF TypeOK
<1>2. Len(factbases) \in Nat /\ DOMAIN factbases = 1 .. Len(factbases)
  BY DEF TypeOK
<1>3. j - 1 \in Ids /\ Node(j - 1) = factbases[j]
  BY <1>1, <1>2 DEF Ids, Node
<1>4. hash_map[h] = j - 1
  BY <1>1, <1>3 DEF OneNodePerHash
<1> QED
  BY <1>1, <1>3, <1>4

\* An edge stays sound when nodes are only appended.
LEMMA EdgeStaysSound ==
  ASSUME TypeOK, NEW e, EdgeSound(e), Next \/ UNCHANGED vars
  PROVE  EdgeSound(e)'
<1>1. CASE ~ NewState
  BY <1>1, NoNewNode DEF EdgeSound, EdgeOf, Ids, Node, HashOf
<1>2. CASE NewState
  <2>1. /\ Len(factbases) \in Nat /\ Len(factbases') = Len(factbases) + 1
        /\ Node(e.from)' = Node(e.from) /\ Node(e.to)' = Node(e.to)
    BY <1>2, NodesKept DEF EdgeSound
  <2>2. e.from \in Ids' /\ e.to \in Ids'
    BY <2>1 DEF EdgeSound, Ids
  <2>3. instance' = instance
    BY <1>2, NewStateEffect
  <2> QED
    BY <2>1, <2>2, <2>3 DEF EdgeSound, EdgeOf, HashOf
<1> QED
  BY <1>1, <1>2

\* The edge that the move in hand adds.
LEMMA NewEdgeSound ==
  ASSUME TypeOK, OneNodePerHash, OldestFirst, EdgesSound,
         NewState \/ KnownState
  PROVE  \E e \in EdgeType : /\ edges' = Append(edges, e)
                            /\ e.id = Len(edges)
                            /\ EdgeOf(e, Popped - 1, NextMove)
                            /\ EdgeSound(e)'
<1>1. appl_exploits # {} /\ hash_num # HashOf(current_state) /\ instance' = instance
  BY DEF NewState, KnownState, TakeMove, NotMet
<1> DEFINE src == Popped - 1
<1>2. /\ src \in Ids
      /\ current_state = Node(src)
      /\ NextMove \in Moves(instance, Node(src))
      /\ HashOf(Successor(instance, Node(src), NextMove)) = hash_num
      /\ \A id : /\ EdgeTo(id).id = Len(edges)
                 /\ EdgeTo(id).to = id
                 /\ EdgeOf(EdgeTo(id), src, NextMove)
  BY <1>1, MoveInHand
<1>3. \A id \in Nat : EdgeTo(id) \in EdgeType
  BY <1>1, StepTyped
<1>4. PICK s : s = src
  OBVIOUS
<1>5. PICK m : m = NextMove
  OBVIOUS
<1> HIDE DEF src
<1>6. CASE NewState
  <2>1. PICK id : id = current_id
    OBVIOUS
  <2>2. PICK e : e = EdgeTo(id)
    OBVIOUS
  <2>3. /\ Len(factbases) \in Nat /\ Len(factbases') = Len(factbases) + 1
        /\ Node(s)' = Node(s)
        /\ Node(id)' = NewNode
    BY <1>2, <1>4, <1>6, <2>1, NodesKept DEF OneNodePerHash
  <2>4. id = Len(factbases) /\ HashOf(NewNode) = hash_num
    BY <1>1, <2>1, NewNodeTyped DEF OneNodePerHash
  <2>5. e.from = s /\ e.to = id /\ e.from \in Ids' /\ e.to \in Ids' /\ e.from # e.to
    BY <1>2, <1>4, <2>2, <2>3, <2>4 DEF Ids, EdgeOf
  <2>6. /\ m \in Moves(instance, Node(s))
        /\ HashOf(Successor(instance, Node(s), m)) = hash_num
        /\ EdgeOf(e, s, m)
    BY <1>2, <1>4, <1>5, <2>2
  <2>7. /\ m \in Moves(instance', Node(e.from)')
        /\ Hash(instance'.facts, Successor(instance', Node(e.from)', m)) =
           Hash(instance'.facts, Node(e.to)')
        /\ EdgeOf(e, e.from, m)'
    BY <1>1, <2>3, <2>4, <2>5, <2>6 DEF HashOf, EdgeOf, Node
  <2>8. EdgeSound(e)'
    BY <2>5, <2>7 DEF EdgeSound, HashOf
  <2>9. edges' = Append(edges, e)
    BY <1>6, <2>1, <2>2, NewStateEffect
  <2>10. id \in Nat
    BY <2>3, <2>4
  <2>11. e \in EdgeType /\ e.id = Len(edges) /\ EdgeOf(e, Popped - 1, NextMove)
    BY <1>2, <1>3, <2>2, <2>10 DEF src
  <2> QED
    BY <2>8, <2>9, <2>11
<1>7. CASE KnownState
  <2>1. PICK id : id = hash_map[hash_num]
    OBVIOUS
  <2>2. PICK e : e = EdgeTo(id)
    OBVIOUS
  <2>3. hash_num \in DOMAIN hash_map /\ factbases' = factbases
        /\ edges' = Append(edges, e)
    BY <1>7, <2>1, <2>2 DEF KnownState, NotMet
  <2>4. id \in Ids /\ HashOf(Node(id)) = hash_num
    BY <2>1, <2>3, LookupExact
  <2>5. e.from = s /\ e.to = id /\ e.from # e.to
    BY <1>1, <1>2, <1>4, <2>2, <2>4 DEF EdgeOf
  <2>6. /\ m \in Moves(instance, Node(s))
        /\ HashOf(Successor(instance, Node(s), m)) = hash_num
        /\ EdgeOf(e, s, m)
    BY <1>2, <1>4, <1>5, <2>2
  <2>7. EdgeSound(e)
    BY <1>2, <1>4, <2>4, <2>5, <2>6 DEF EdgeSound
  <2>8. EdgeSound(e)'
    BY <1>7, <2>7, EdgeStaysSound DEF Next
  <2>9. id \in Nat
    BY <2>4 DEF Ids
  <2>10. e \in EdgeType /\ e.id = Len(edges) /\ EdgeOf(e, Popped - 1, NextMove)
    BY <1>2, <1>3, <2>2, <2>9 DEF src
  <2> QED
    BY <2>3, <2>8, <2>10
<1> QED
  BY <1>6, <1>7

\* Edges are only appended.
LEMMA EdgesGrow ==
  ASSUME TypeOK, Next \/ UNCHANGED vars
  PROVE  /\ edges \in Seq(EdgeType)
         /\ DOMAIN edges \subseteq DOMAIN edges'
         /\ \A k \in DOMAIN edges : edges'[k] = edges[k]
<1>1. edges \in Seq(EdgeType)
  BY DEF TypeOK
<1>2. CASE NewState \/ KnownState
  <2>1. current_id \in Nat /\ appl_exploits # {}
    BY <1>2 DEF TypeOK, NewState, KnownState, TakeMove, NotMet
  <2>2. PICK e \in EdgeType : edges' = Append(edges, e)
    <3>1. \A id \in Nat : EdgeTo(id) \in EdgeType
      BY <2>1, StepTyped
    <3>2. CASE NewState
      BY <2>1, <3>1, <3>2, NewStateEffect
    <3>3. CASE KnownState
      <4>1. hash_map[hash_num] \in Nat
        BY <3>3 DEF TypeOK, KnownState, NotMet
      <4> QED
        BY <3>1, <3>3, <4>1 DEF KnownState, NotMet
    <3> QED
      BY <1>2, <3>2, <3>3
  <2> QED
    BY <1>1, <2>2, Appended
<1>3. CASE ~ (NewState \/ KnownState)
  <2>1. edges' = edges
    BY <1>3 DEF Next, FetchState, Abort, NoChange, Finish, Stopped, vars, Found, Remaining
  <2> QED
    BY <1>1, <2>1
<1> QED
  BY <1>2, <1>3

LEMMA NextEdges ==
  ASSUME TypeOK, OneNodePerHash, OldestFirst, EdgesSound,
         Next \/ UNCHANGED vars
  PROVE  EdgesSound'
<1>1. ASSUME NEW k \in DOMAIN edges
      PROVE  \E e : e = edges'[k] /\ e.id = k - 1 /\ EdgeSound(e)'
  <2>1. PICK e : e = edges[k]
    OBVIOUS
  <2>2. e.id = k - 1 /\ EdgeSound(e)
    BY <2>1 DEF EdgesSound
  <2>3. edges'[k] = e
    BY <2>1, EdgesGrow
  <2>4. EdgeSound(e)'
    BY <2>2, EdgeStaysSound
  <2> QED
    BY <2>2, <2>3, <2>4
<1>2. CASE NewState \/ KnownState
  <2>1. PICK e \in EdgeType : /\ edges' = Append(edges, e)
                              /\ e.id = Len(edges)
                              /\ EdgeSound(e)'
    BY <1>2, NewEdgeSound
  <2>2. /\ DOMAIN edges' = DOMAIN edges \cup {Len(edges) + 1}
        /\ edges'[Len(edges) + 1] = e
        /\ Len(edges) \in Nat
    BY <2>1, EdgesGrow, Appended
  <2>3. ASSUME NEW k \in DOMAIN edges'
        PROVE  edges'[k].id = k - 1 /\ EdgeSound(edges[k])'
    <3>1. PICK x : x = edges'[k] /\ x.id = k - 1 /\ EdgeSound(x)'
      <4>1. CASE k \in DOMAIN edges
        BY <1>1, <4>1
      <4>2. CASE k = Len(edges) + 1
        BY <2>1, <2>2, <4>2
      <4> QED
        BY <2>2, <4>1, <4>2
    <3> QED
      BY <3>1 DEF EdgeSound, EdgeOf, HashOf, Node, Ids
  <2>4. /\ appl_exploits' \subseteq appl_exploits
        /\ instance' = instance /\ current_state' = current_state
    BY <1>2 DEF NewState, KnownState, TakeMove, NotMet
  <2>5. appl_exploits' \subseteq Moves(instance', current_state')
    BY <2>4 DEF EdgesSound
  <2> QED
    BY <2>3, <2>5 DEF EdgesSound
<1>3. CASE ~ (NewState \/ KnownState)
  <2>1. edges' = edges
    BY <1>3 DEF Next, FetchState, Abort, NoChange, Finish, Stopped, vars, Found, Remaining
  <2>2. ASSUME NEW k \in DOMAIN edges'
        PROVE  edges'[k].id = k - 1 /\ EdgeSound(edges[k])'
    <3>1. PICK x : x = edges'[k] /\ x.id = k - 1 /\ EdgeSound(x)'
      BY <1>1, <2>1
    <3> QED
      BY <3>1 DEF EdgeSound, EdgeOf, HashOf, Node, Ids
  <2>3. appl_exploits' \subseteq Moves(instance', current_state')
    <3>1. CASE FetchState
      BY <3>1 DEF FetchState, Found, Remaining
    <3>2. CASE Abort
      BY <3>2 DEF Abort, Remaining
    <3>3. CASE NoChange \/ Finish \/ Stopped \/ UNCHANGED vars
      BY <3>3 DEF EdgesSound, NoChange, TakeMove, Finish, Stopped, vars
    <3> QED
      BY <1>3, <3>1, <3>2, <3>3 DEF Next
  <2> QED
    BY <2>2, <2>3 DEF EdgesSound
<1> QED
  BY <1>2, <1>3

-----------------------------------------------------------------------------
(* Nothing is missed.                                                      *)

LEMMA ExploredStays ==
  ASSUME TypeOK, NEW i \in Ids, NEW m, Explored(i, m), Next \/ UNCHANGED vars
  PROVE  Explored(i, m)'
<1>1. Node(i)' = Node(i) /\ instance' = instance
  <2>1. CASE NewState
    BY <2>1, NodesKept, NewStateEffect
  <2>2. CASE ~ NewState
    BY <2>2, NoNewNode DEF Node
  <2> QED
    BY <2>1, <2>2
<1>2. CASE HashOf(Successor(instance, Node(i), m)) = HashOf(Node(i))
  BY <1>1, <1>2 DEF Explored, HashOf
<1>3. CASE \E k \in DOMAIN edges : EdgeOf(edges[k], i, m)
  <2>1. PICK k \in DOMAIN edges : EdgeOf(edges[k], i, m)
    BY <1>3
  <2>2. k \in DOMAIN edges' /\ edges'[k] = edges[k]
    BY EdgesGrow
  <2> QED
    BY <1>1, <2>1, <2>2 DEF Explored, EdgeOf
<1> QED
  BY <1>2, <1>3 DEF Explored

\* The move that is taken is explored by the step that takes it.
LEMMA NextMoveExplored ==
  ASSUME TypeOK, OneNodePerHash, OldestFirst, EdgesSound,
         NoChange \/ NewState \/ KnownState,
         NEW i, i = Popped - 1, NEW m, m = NextMove
  PROVE  Explored(i, m)'
<1>1. appl_exploits # {} /\ instance' = instance
  BY DEF NoChange, NewState, KnownState, TakeMove, NotMet
<1>2. CASE NoChange
  <2>1. /\ HashOf(Successor(instance, Node(i), m)) = hash_num
        /\ current_state = Node(i)
    BY <1>1, MoveInHand
  <2>2. hash_num = HashOf(current_state) /\ factbases' = factbases
    BY <1>2 DEF NoChange
  <2> QED
    BY <1>1, <2>1, <2>2 DEF Explored, HashOf, Node
<1>3. CASE NewState \/ KnownState
  <2>1. PICK e \in EdgeType : edges' = Append(edges, e) /\ EdgeOf(e, i, m)
    BY <1>3, NewEdgeSound
  <2>2. PICK k : k = Len(edges) + 1
    OBVIOUS
  <2>3. k \in DOMAIN edges' /\ edges'[k] = e
    BY <2>1, <2>2, Appended DEF TypeOK
  <2> QED
    BY <1>1, <2>1, <2>3 DEF Explored, EdgeOf
<1> QED
  BY <1>2, <1>3

LEMMA NextMissesNothing ==
  ASSUME TypeOK, OneNodePerHash, OldestFirst, EdgesSound, NothingMissed,
         Next \/ UNCHANGED vars
  PROVE  NothingMissed'
<1> DEFINE Covered(i) == \A m \in Moves(instance, Node(i)) :
                           Explored(i, m) \/ (i = Popped - 1 /\ m \in appl_exploits)
<1>1. /\ Popped \in Int /\ Popped <= Len(factbases) /\ Popped >= 0
      /\ Len(factbases) \in Nat /\ Len(frontier) \in Nat
  BY DEF TypeOK, OldestFirst, Popped
<1>2. \A i \in 0 .. Popped - 1 : i \in Ids
  BY <1>1 DEF Ids
<1>3. CASE FetchState
  <2>1. /\ Popped' = Popped + 1 /\ current_state' = Node(Popped)
        /\ factbases' = factbases /\ instance' = instance
        /\ appl_exploits = {} /\ appl_exploits' = Moves(instance, current_state')
        /\ status = "generating" /\ status' = status
    BY <1>3, FetchPops DEF FetchState, Found, Remaining
  <2>2. ASSUME NEW i \in 0 .. Popped' - 1 PROVE Covered(i)'
    <3>1. CASE i = Popped
      BY <2>1, <3>1 DEF Node
    <3>2. CASE i # Popped
      <4>1. i \in 0 .. Popped - 1 /\ i \in Ids
        BY <1>1, <1>2, <2>1, <3>2
      <4>2. \A m \in Moves(instance, Node(i)) : Explored(i, m)
        BY <2>1, <4>1 DEF NothingMissed
      <4>3. \A m \in Moves(instance, Node(i)) : Explored(i, m)'
        BY <1>3, <4>1, <4>2, ExploredStays DEF Next
      <4> QED
        BY <2>1, <4>3 DEF Node
    <3> QED
      BY <3>1, <3>2
  <2> QED
    BY <2>1, <2>2 DEF NothingMissed
<1>4. CASE Abort
  BY <1>4 DEF Abort, NothingMissed, Remaining
<1>5. CASE NoChange \/ NewState \/ KnownState
  <2>1. /\ status = "generating" /\ status' = status /\ instance' = instance
        /\ appl_exploits' = appl_exploits \ {NextMove}
    BY <1>5 DEF NoChange, NewState, KnownState, TakeMove, NotMet
  <2>2. Popped' = Popped /\ \A i \in Ids : Node(i)' = Node(i)
    <3>1. CASE NewState
      BY <1>1, <3>1, NodesKept DEF Popped
    <3>2. CASE NoChange \/ KnownState
      BY <3>2 DEF NoChange, KnownState, Popped, Node, NotMet
    <3> QED
      BY <1>5, <3>1, <3>2
  <2>3. ASSUME NEW i \in 0 .. Popped - 1, NEW m \in Moves(instance, Node(i))
        PROVE  Explored(i, m)' \/ (i = Popped - 1 /\ m \in appl_exploits')
    <3>1. CASE Explored(i, m)
      BY <1>2, <1>5, <3>1, ExploredStays DEF Next
    <3>2. CASE i = Popped - 1 /\ m = NextMove
      BY <1>5, <3>2, NextMoveExplored
    <3>3. CASE i = Popped - 1 /\ m \in appl_exploits /\ m # NextMove
      BY <2>1, <3>3
    <3> QED
      BY <2>1, <3>1, <3>2, <3>3 DEF NothingMissed
  <2>4. ASSUME NEW i \in 0 .. Popped' - 1 PROVE Covered(i)'
    <3>1. i \in 0 .. Popped - 1 /\ Node(i)' = Node(i)
      BY <1>2, <2>2
    <3> QED
      BY <2>1, <2>2, <2>3, <3>1
  <2> QED
    BY <2>1, <2>4 DEF NothingMissed
<1>6. CASE Finish \/ Stopped \/ UNCHANGED vars
  <2>1. /\ instance' = instance /\ factbases' = factbases /\ edges' = edges
        /\ frontier' = frontier /\ appl_exploits' = appl_exploits
    BY <1>6 DEF Finish, Stopped, vars
  <2>2. CASE Finish
    <3>1. status = "generating" /\ frontier = << >> /\ appl_exploits = {}
      BY <2>2 DEF Finish
    <3>2. Popped = Len(factbases)
      BY <1>1, <3>1 DEF Popped
    <3> QED
      BY <2>1, <3>1, <3>2 DEF NothingMissed, Explored, EdgeOf, HashOf, Node, Popped
  <2>3. CASE Stopped \/ UNCHANGED vars
    <3>1. status' = status
      BY <2>3 DEF Stopped, vars
    <3> QED
      BY <2>1, <3>1 DEF NothingMissed, Explored, EdgeOf, HashOf, Node, Popped
  <2> QED
    BY <1>6, <2>2, <2>3
<1> QED
  BY <1>3, <1>4, <1>5, <1>6 DEF Next

-----------------------------------------------------------------------------
(* The inductive invariant and what follows from it.                       *)

IInv ==
  /\ TypeOK
  /\ OneNodePerHash
  /\ OldestFirst
  /\ EdgesSound
  /\ NothingMissed

LEMMA InitIInv == Init => IInv
<1> SUFFICES ASSUME Init PROVE IInv
  OBVIOUS
<1>1. TypeOK /\ OneNodePerHash /\ OldestFirst
  BY InitTyped, InitHash, InitQueue
<1>2. edges = << >> /\ appl_exploits = {} /\ status = "generating"
  BY DEF Init
<1>3. Popped = 0
  <2>1. PICK s0 : factbases = << s0 >> /\ frontier = << s0 >>
    BY DEF Init, Ctor
  <2> QED
    BY <2>1 DEF Popped
<1>4. EdgesSound
  BY <1>2 DEF EdgesSound
<1>5. NothingMissed
  BY <1>2, <1>3 DEF NothingMissed
<1> QED
  BY <1>1, <1>4, <1>5 DEF IInv

LEMMA NextIInv == IInv /\ [Next]_vars => IInv'
<1> SUFFICES ASSUME IInv, Next \/ UNCHANGED vars PROVE IInv'
  OBVIOUS
<1>1. TypeOK'
  BY FetchTyped, NewStateTyped, OtherStepsTyped, StutterTyped DEF IInv, Next
<1>2. OneNodePerHash'
  BY NextHash DEF IInv
<1>3. OldestFirst'
  BY NextQueue DEF IInv
<1>4. EdgesSound'
  BY NextEdges DEF IInv
<1>5. NothingMissed'
  BY NextMissesNothing DEF IInv
<1> QED
  BY <1>1, <1>2, <1>3, <1>4, <1>5 DEF IInv

\* The conjunction of the five invariants below is inductive.
THEOREM Invariance == Spec => []IInv
  BY InitIInv, NextIInv, PTL DEF Spec

\* For every set of models, exploits and hash function: hash_map leads from
\* the hash of each factbase to its id and no two factbases have one hash
\* (AGGen's constructor and the three outcomes of the inner loop of generate).
THEOREM HashMapExact == Spec => []OneNodePerHash
<1>1. IInv => OneNodePerHash
  BY DEF IInv
<1> QED
  BY <1>1, Invariance, PTL

\* The deque used with pop_back and emplace_front is a queue: factbases are
\* expanded in the order of their ids, each once.
THEOREM FrontierIsQueue == Spec => []OldestFirst
<1>1. IInv => OldestFirst
  BY DEF IInv
<1> QED
  BY <1>1, Invariance, PTL

\* Every edge ever made is an applicable exploit whose postconditions lead
\* from its source to its target's hash.
THEOREM EdgesAreSteps == Spec => []EdgesSound
<1>1. IInv => EdgesSound
  BY DEF IInv
<1> QED
  BY <1>1, Invariance, PTL

\* When generate returns, every applicable exploit of every factbase is an
\* edge of the graph or changes no hash.
THEOREM GraphIsClosed == Spec => []NothingMissed
<1>1. IInv => NothingMissed
  BY DEF IInv
<1> QED
  BY <1>1, Invariance, PTL

-----------------------------------------------------------------------------
(***************************************************************************)
(* The facts of a model: what its initial facts and its postconditions are *)
(* about.  The states generated have no others.                            *)
(***************************************************************************)
QualitiesOf(inst) ==
  ToSet(inst.initial_qualities)
    \cup UNION {{p.fact : p \in ToSet(ex.postconds_q)} : ex \in ToSet(inst.exploits)}

LinksOf(inst) ==
  ToSet(inst.initial_topologies)
    \cup UNION {{p.fact : p \in ToSet(ex.postconds_t)} : ex \in ToSet(inst.exploits)}

ModelQualities(inst) ==
  {q \in QualityType :
     /\ q.asset < inst.assets
     /\ q.name \in {f.name : f \in QualitiesOf(inst)}
     /\ q.value \in {f.value : f \in QualitiesOf(inst)}}

ModelTopologies(inst) ==
  {t \in TopologyType :
     /\ t.from < inst.assets /\ t.to < inst.assets
     /\ t.dir \in {f.dir : f \in LinksOf(inst)}
     /\ t.property \in {f.property : f \in LinksOf(inst)}
     /\ t.op \in {f.op : f \in LinksOf(inst)}
     /\ t.value \in {f.value : f \in LinksOf(inst)}}

ModelStates(inst) == StatesOver(ModelQualities(inst), ModelTopologies(inst))

LEMMA ModelStrings ==
  ASSUME NEW inst \in Instances
  PROVE  /\ inst.facts \in Seq(STRING)
         /\ \A f \in QualitiesOf(inst) : Known(inst.facts, f.name) /\ Known(inst.facts, f.value)
         /\ \A f \in LinksOf(inst) : Known(inst.facts, f.property) /\ Known(inst.facts, f.value)
<1>1. inst.facts \in Seq(STRING) /\ ToSet(inst.facts) = UniqueValues(inst)
  BY InstancesAssumption DEF InstanceType, WellFormed
<1>2. ASSUME NEW f \in QualitiesOf(inst)
      PROVE  f.name \in UniqueValues(inst) /\ f.value \in UniqueValues(inst)
  <2>1. CASE f \in ToSet(inst.initial_qualities)
    BY <2>1 DEF UniqueValues
  <2>2. CASE \E ex \in ToSet(inst.exploits) : \E p \in ToSet(ex.postconds_q) : f = p.fact
    <3>0. PICK ex \in ToSet(inst.exploits) : \E p \in ToSet(ex.postconds_q) : f = p.fact
      BY <2>2
    <3>1. PICK p \in ToSet(ex.postconds_q) : f = p.fact
      BY <3>0
    <3>2. p \in UNION {ToSet(x.postconds_q) : x \in ToSet(inst.exploits)}
      OBVIOUS
    <3> QED
      BY <3>1, <3>2 DEF UniqueValues
  <2> QED
    BY <2>1, <2>2 DEF QualitiesOf
<1>3. ASSUME NEW f \in LinksOf(inst)
      PROVE  f.property \in UniqueValues(inst) /\ f.value \in UniqueValues(inst)
  <2>1. CASE f \in ToSet(inst.initial_topologies)
    BY <2>1 DEF UniqueValues
  <2>2. CASE \E ex \in ToSet(inst.exploits) : \E p \in ToSet(ex.postconds_t) : f = p.fact
    <3>0. PICK ex \in ToSet(inst.exploits) : \E p \in ToSet(ex.postconds_t) : f = p.fact
      BY <2>2
    <3>1. PICK p \in ToSet(ex.postconds_t) : f = p.fact
      BY <3>0
    <3>2. p \in UNION {ToSet(x.postconds_t) : x \in ToSet(inst.exploits)}
      OBVIOUS
    <3> QED
      BY <3>1, <3>2 DEF UniqueValues
  <2> QED
    BY <2>1, <2>2 DEF LinksOf
<1> QED
  BY <1>1, <1>2, <1>3 DEF Known

LEMMA BoundAsset ==
  ASSUME NEW assets \in Nat, NEW m \in Nat, NEW perm \in [1 .. m -> 0 .. assets - 1],
         NEW p \in Nat, p < m
  PROVE  perm[p + 1] \in Nat /\ perm[p + 1] < assets
<1>1. perm[p + 1] \in 0 .. assets - 1
  OBVIOUS
<1> QED
  BY <1>1

LEMMA CandidateKeeps ==
  ASSUME NEW inst \in Instances, NEW m \in Candidates(inst)
  PROVE  Keeps(ModelQualities(inst), ModelTopologies(inst), inst.facts,
               Exploit(inst, m), AssetGroup(inst, m))
<1> DEFINE ex == Exploit(inst, m)
           perm == AssetGroup(inst, m)
<1>1. /\ perm \in [1 .. ex.num_params -> 0 .. inst.assets - 1]
      /\ perm \in [1 .. ex.num_params -> Nat]
      /\ ex \in ExploitType /\ ex \in ToSet(inst.exploits) /\ inst.assets \in Nat
  BY CandidateTyped, InstancesAssumption DEF Exploit, ToSet, InstanceType
<1>2. Usable(inst.facts, ex) /\ inst.facts \in Seq(STRING)
  BY ExploitUsable
<1>3. Keeps(QualityType, TopologyType, inst.facts, ex, perm)
  BY <1>1, <1>2, UsableKeeps
<1> HIDE DEF ex, perm
<1>4. /\ ex.num_params \in Nat
      /\ ex.postconds_q \in Seq([action : Actions, fact : ParameterizedQuality])
      /\ ex.postconds_t \in Seq([action : Actions, fact : ParameterizedTopology])
  BY <1>1 DEF ExploitType
<1>5. ASSUME NEW i \in DOMAIN ex.postconds_q, NEW q,
             q = BindQuality(inst.facts, perm, ex.postconds_q[i].fact)
      PROVE  q \in ModelQualities(inst) /\ Takes(ModelQualities(inst), q.value)
  <2> DEFINE f == ex.postconds_q[i].fact
  <2>1. ex.postconds_q[i] \in [action : Actions, fact : ParameterizedQuality]
    BY <1>4, ElementTyped
  <2>2. f.param \in Nat /\ f.param < ex.num_params
    BY <1>2, <2>1 DEF ParameterizedQuality, Usable
  <2>3. f \in QualitiesOf(inst)
    BY <1>1 DEF QualitiesOf, ToSet
  <2>4. perm[f.param + 1] < inst.assets
    BY <1>1, <1>4, <2>2, BoundAsset
  <2>5. q \in QualityType /\ Takes(QualityType, q.value)
    BY <1>3, <1>5, Zenon DEF Keeps
  <2>6. q.asset = perm[f.param + 1] /\ q.name = f.name /\ q.value = f.value
    BY <1>5 DEF BindQuality, Quality
  <2> HIDE DEF f
  <2>7. q \in ModelQualities(inst)
    BY <2>3, <2>4, <2>5, <2>6 DEF ModelQualities
  <2>8. ASSUME NEW x \in ModelQualities(inst)
        PROVE  [x EXCEPT !.value = q.value] \in ModelQualities(inst)
    <3>1. x \in QualityType
      BY DEF ModelQualities
    <3>2. PICK y : y = [x EXCEPT !.value = q.value]
      OBVIOUS
    <3>3. y.asset = x.asset /\ y.name = x.name /\ y.value = q.value
      BY <3>1, <3>2 DEF QualityType
    <3>4. y \in QualityType
      BY <2>5, <3>1, <3>2 DEF Takes
    <3>5. y \in ModelQualities(inst)
      BY <2>7, <3>3, <3>4 DEF ModelQualities
    <3> QED
      BY <3>2, <3>5
  <2> QED
    BY <2>7, <2>8 DEF Takes
<1>6. ASSUME NEW i \in DOMAIN ex.postconds_t, NEW t,
             t = BindTopology(inst.facts, perm, ex.postconds_t[i].fact)
      PROVE  t \in ModelTopologies(inst) /\ Takes(ModelTopologies(inst), t.value)
  <2> DEFINE f == ex.postconds_t[i].fact
  <2>1. ex.postconds_t[i] \in [action : Actions, fact : ParameterizedTopology]
    BY <1>4, ElementTyped
  <2>2. /\ f.from_param \in Nat /\ f.from_param < ex.num_params
        /\ f.to_param \in Nat /\ f.to_param < ex.num_params
    BY <1>2, <2>1 DEF ParameterizedTopology, Usable
  <2>3. f \in LinksOf(inst)
    BY <1>1 DEF LinksOf, ToSet
  <2>4. perm[f.from_param + 1] < inst.assets /\ perm[f.to_param + 1] < inst.assets
    BY <1>1, <1>4, <2>2, BoundAsset
  <2>5. t \in TopologyType /\ Takes(TopologyType, t.value)
    BY <1>3, <1>6, Zenon DEF Keeps
  <2>6. /\ t.from = perm[f.from_param + 1] /\ t.to = perm[f.to_param + 1]
        /\ t.dir = f.dir /\ t.property = f.property /\ t.op = f.op /\ t.value = f.value
    BY <1>6 DEF BindTopology, Topology
  <2> HIDE DEF f
  <2>7. t \in ModelTopologies(inst)
    BY <2>3, <2>4, <2>5, <2>6 DEF ModelTopologies
  <2>8. ASSUME NEW x \in ModelTopologies(inst)
        PROVE  [x EXCEPT !.value = t.value] \in ModelTopologies(inst)
    <3>1. x \in TopologyType
      BY DEF ModelTopologies
    <3>2. PICK y : y = [x EXCEPT !.value = t.value]
      OBVIOUS
    <3>3. /\ y.from = x.from /\ y.to = x.to /\ y.dir = x.dir
          /\ y.property = x.property /\ y.op = x.op /\ y.value = t.value
      BY <3>1, <3>2 DEF TopologyType
    <3>4. y \in TopologyType
      BY <2>5, <3>1, <3>2 DEF Takes
    <3>5. y \in ModelTopologies(inst)
      BY <2>7, <3>3, <3>4 DEF ModelTopologies
    <3> QED
      BY <3>2, <3>5
  <2> QED
    BY <2>7, <2>8 DEF Takes
<1> QED
  BY <1>5, <1>6, Zenon DEF Keeps, ex, perm

LEMMA SuccessorOfModel ==
  ASSUME NEW inst \in Instances, NEW m \in Candidates(inst),
         NEW ns \in ModelStates(inst)
  PROVE  /\ Successor(inst, ns, m) \in ModelStates(inst)
         /\ Successor(inst, ns, m).id = ns.id
<1>1. Exploit(inst, m) \in ExploitType
  BY CandidateTyped
<1> DEFINE Q == ModelQualities(inst)
           T == ModelTopologies(inst)
<1>2. Keeps(Q, T, inst.facts, Exploit(inst, m), AssetGroup(inst, m))
  BY CandidateKeeps, Zenon
<1>3. ns \in StatesOver(Q, T)
  BY DEF ModelStates
<1> HIDE DEF Q, T
<1>4. /\ Successor(inst, ns, m) \in StatesOver(Q, T)
      /\ Successor(inst, ns, m).id = ns.id
  BY <1>1, <1>2, <1>3, ApplyPostcondsOver DEF Successor
<1> QED
  BY <1>4 DEF ModelStates, Q, T

FactsOfModel == factbases \in Seq(ModelStates(instance))

LEMMA InitOfModel ==
  ASSUME Init
  PROVE  FactsOfModel
<1>1. PICK inst \in Instances : Ctor(inst)
  BY DEF Init
<1> DEFINE init_state == [id         |-> 0,
                          qualities  |-> inst.initial_qualities,
                          topologies |-> inst.initial_topologies]
<1>2. instance = inst /\ factbases = << init_state >>
  BY <1>1 DEF Ctor
<1>3. /\ inst.initial_qualities \in Seq(QualityType)
      /\ inst.initial_topologies \in Seq(TopologyType)
      /\ inst.assets \in Nat /\ WellFormed(inst)
  BY InstancesAssumption DEF InstanceType
<1>4. ASSUME NEW i \in DOMAIN inst.initial_qualities
      PROVE  inst.initial_qualities[i] \in ModelQualities(inst)
  <2>1. /\ inst.initial_qualities[i] \in QualityType
        /\ inst.initial_qualities[i] \in ToSet(inst.initial_qualities)
    BY <1>3, ElementTyped DEF ToSet
  <2> QED
    BY <1>3, <2>1 DEF WellFormed, ModelQualities, QualitiesOf
<1>5. ASSUME NEW i \in DOMAIN inst.initial_topologies
      PROVE  inst.initial_topologies[i] \in ModelTopologies(inst)
  <2>1. /\ inst.initial_topologies[i] \in TopologyType
        /\ inst.initial_topologies[i] \in ToSet(inst.initial_topologies)
    BY <1>3, ElementTyped DEF ToSet
  <2> QED
    BY <1>3, <2>1 DEF WellFormed, ModelTopologies, LinksOf
<1>6. /\ inst.initial_qualities \in Seq(ModelQualities(inst))
      /\ inst.initial_topologies \in Seq(ModelTopologies(inst))
  BY <1>3, <1>4, <1>5
<1>7. init_state \in ModelStates(inst)
  BY <1>6 DEF ModelStates, StatesOver
<1> HIDE DEF init_state
<1> QED
  BY <1>2, <1>7 DEF FactsOfModel

LEMMA NextOfModel ==
  ASSUME IInv, FactsOfModel, Next \/ UNCHANGED vars
  PROVE  FactsOfModel'
<1>1. CASE ~ NewState
  BY <1>1, NoNewNode DEF FactsOfModel
<1>2. CASE NewState
  <2>1. /\ appl_exploits # {} /\ instance' = instance
        /\ factbases' = Append(factbases, NewNode)
    BY <1>2, NewStateEffect
  <2>2. /\ Popped - 1 \in Ids /\ current_state = Node(Popped - 1)
        /\ instance \in Instances /\ current_id \in Nat
    BY <2>1, MoveInHand DEF IInv, TypeOK
  <2>3. NextMove \in Candidates(instance)
    BY <2>1, NextMoveIsMove DEF IInv, TypeOK
  <2>4. current_state \in ModelStates(instance)
    BY <2>2 DEF FactsOfModel, Node, Ids
  <2>5. new_state \in ModelStates(instance)
    BY <2>2, <2>3, <2>4, SuccessorOfModel DEF new_state
  <2>6. NewNode \in ModelStates(instance)
    BY <2>2, <2>5 DEF NewNode, ModelStates, StatesOver
  <2> QED
    BY <2>1, <2>6 DEF FactsOfModel
<1> QED
  BY <1>1, <1>2

\* The facts of every factbase are about assets there are, and have strings that
\* the Keyvalue numbers.
THEOREM StatesAreOfModel == Spec => []FactsOfModel
<1>1. Init => FactsOfModel
  BY InitOfModel
<1>2. IInv /\ FactsOfModel /\ [Next]_vars => FactsOfModel'
  BY NextOfModel
<1> QED
  BY <1>1, <1>2, Invariance, PTL DEF Spec

\* An exploit without parameters changes nothing, and so is never an edge.
LEMMA EdgesHaveAssets ==
  ASSUME IInv, NEW k \in DOMAIN edges
  PROVE  /\ edges[k].from \in Ids /\ edges[k].to \in Ids
         /\ edges[k].perm \in Seq(Nat) \ {<< >>}
         /\ edges[k].exploit \in DOMAIN instance.exploits
         /\ edges[k].exploit \in Nat \ {0}
<1> DEFINE e == edges[k]
<1>1. EdgeSound(e)
  BY DEF IInv, EdgesSound
<1> HIDE DEF e
<1>2. /\ e.from \in Ids /\ e.to \in Ids /\ e.from # e.to
      /\ \E m \in Moves(instance, Node(e.from)) :
           /\ EdgeOf(e, e.from, m)
           /\ HashOf(Successor(instance, Node(e.from), m)) = HashOf(Node(e.to))
  BY <1>1 DEF EdgeSound
<1>3. PICK m \in Moves(instance, Node(e.from)) :
           /\ EdgeOf(e, e.from, m)
           /\ HashOf(Successor(instance, Node(e.from), m)) = HashOf(Node(e.to))
  BY <1>2
<1>4. m \in Candidates(instance) /\ instance \in Instances
  BY DEF Moves, IInv, TypeOK
<1> DEFINE ex == Exploit(instance, m)
<1>5. /\ e.exploit = m[1] /\ e.perm = AssetGroup(instance, m)
      /\ m[1] \in DOMAIN instance.exploits /\ ex \in ExploitType
      /\ e.perm \in [1 .. ex.num_params -> Nat] /\ e.perm \in Seq(Nat)
  BY <1>3, <1>4, CandidateTyped DEF EdgeOf
<1>6. Usable(instance.facts, ex)
  BY <1>4, ExploitUsable
<1>7. instance.exploits \in Seq(ExploitType)
  BY <1>4, InstancesAssumption DEF InstanceType
<1>8. ASSUME e.perm = << >> PROVE FALSE
  <2> HIDE DEF ex
  <2>1. /\ ex.num_params \in Nat
        /\ ex.postconds_q \in Seq([action : Actions, fact : ParameterizedQuality])
        /\ ex.postconds_t \in Seq([action : Actions, fact : ParameterizedTopology])
    BY <1>5 DEF ExploitType
  <2>2. ex.num_params = 0
    <3>1. DOMAIN e.perm = 1 .. ex.num_params
      BY <1>5
    <3>2. Len(e.perm) = 0
      BY <1>8
    <3>3. DOMAIN e.perm = 1 .. Len(e.perm)
      BY <1>5
    <3> QED
      BY <2>1, <3>1, <3>2, <3>3
  <2>3. ASSUME NEW i \in DOMAIN ex.postconds_q PROVE FALSE
    <3>1. ex.postconds_q[i] \in [action : Actions, fact : ParameterizedQuality]
      BY <2>1, ElementTyped
    <3>2. ex.postconds_q[i].fact.param \in Nat
      BY <3>1 DEF ParameterizedQuality
    <3> QED
      BY <1>6, <2>2, <3>2 DEF Usable
  <2>4. ASSUME NEW i \in DOMAIN ex.postconds_t PROVE FALSE
    <3>1. ex.postconds_t[i] \in [action : Actions, fact : ParameterizedTopology]
      BY <2>1, ElementTyped
    <3>2. ex.postconds_t[i].fact.from_param \in Nat
      BY <3>1 DEF ParameterizedTopology
    <3> QED
      BY <1>6, <2>2, <3>2 DEF Usable
  <2>5. Len(ex.postconds_q) = 0 /\ Len(ex.postconds_t) = 0
    <3>1. /\ Len(ex.postconds_q) \in Nat /\ DOMAIN ex.postconds_q = 1 .. Len(ex.postconds_q)
          /\ Len(ex.postconds_t) \in Nat /\ DOMAIN ex.postconds_t = 1 .. Len(ex.postconds_t)
      BY <2>1, LengthTyped, Zenon
    <3> QED
      BY <2>3, <2>4, <3>1
  <2>6. NumPostconds(ex) = 0
    BY <2>5 DEF NumPostconds
  <2>7. ApplyPostconds(instance.facts, Node(e.from), ex, e.perm) \in {Node(e.from)}
    <3> DEFINE S == {Node(e.from)}
    <3>1. NumPostconds(ex) \in Nat /\ Node(e.from) \in S
      BY <2>6
    <3>2. \A n \in 1 .. NumPostconds(ex) : \A x \in S :
            ApplyPostcond(instance.facts, x, ex, e.perm, n) \in S
      BY <2>6
    <3> HIDE DEF S
    <3>3. ApplyPostconds(instance.facts, Node(e.from), ex, e.perm) \in S
      BY <3>1, <3>2, ApplyPostcondsKeeps
    <3> QED
      BY <3>3 DEF S
  <2>8. HashOf(Node(e.from)) = HashOf(Node(e.to))
    BY <1>3, <1>5, <2>7 DEF Successor, ex
  <2>9. e.from = e.to
    BY <1>2, <2>8 DEF IInv, OneNodePerHash
  <2> QED
    BY <1>2, <2>9
<1>9. e.exploit \in Nat \ {0}
  BY <1>5, <1>7
<1> QED
  BY <1>2, <1>5, <1>8, <1>9 DEF e

-----------------------------------------------------------------------------
(***************************************************************************)
(* The order of the edges.  They are made node after node, as the nodes    *)
(* are expanded, each from a move that is then taken from the moves left;  *)
(* and a node has, before any other edge to it or to a later node, the one *)
(* that discovered it.                                                     *)
(***************************************************************************)
EdgesInOrder ==
  /\ \A k \in DOMAIN edges : edges[k].from < Popped
  /\ \A k, l \in DOMAIN edges : k < l => edges[k].from <= edges[l].from

EdgesTried ==
  /\ \A k, l \in DOMAIN edges :
       /\ edges[k].from = edges[l].from
       /\ edges[k].exploit = edges[l].exploit
       /\ edges[k].perm = edges[l].perm
       => k = l
  /\ \A k \in DOMAIN edges : \A m \in appl_exploits : ~ EdgeOf(edges[k], Popped - 1, m)

Discovers(es, k, i) ==
  /\ es[k].to = i /\ es[k].from < i
  /\ \A l \in 1 .. k - 1 : es[l].to < i

NodesDiscovered == \A i \in Ids \ {0} : \E k \in DOMAIN edges : Discovers(edges, k, i)

GInv == IInv /\ EdgesInOrder /\ EdgesTried /\ NodesDiscovered

\* No two positions of an odometer have the same permutation.
LEMMA PermsDiffer ==
  ASSUME NEW N \in Nat, NEW K \in Nat, NEW i \in DOMAIN Perms(N, K),
         NEW k \in DOMAIN Perms(N, K), Perms(N, K)[i] = Perms(N, K)[k]
  PROVE  i = k
<1>1. /\ Length(N, K) \in Nat
      /\ i \in 1 .. Length(N, K) /\ k \in 1 .. Length(N, K)
      /\ Perms(N, K)[i] = Reading(i - 1, N, K) /\ Perms(N, K)[k] = Reading(k - 1, N, K)
  BY LengthNat DEF Perms
<1>2. CASE N = 0
  <2>1. Length(0, K) = 1
    BY NoDigits
  <2> QED
    BY <1>1, <1>2, <2>1
<1>3. CASE N # 0
  <2>1. K # 0
    <3>1. N \in Nat \ {0}
      BY <1>3
    <3>2. Length(N, 0) = 0
      BY <3>1, NoValues
    <3> QED
      BY <1>1, <3>2
  <2>2. K \in Nat \ {0}
    BY <2>1
  <2>3. ASSUME NEW a \in 1 .. Length(N, K), NEW b \in 1 .. Length(N, K), a < b
        PROVE  Reading(a - 1, N, K) # Reading(b - 1, N, K)
    <3>0. PICK L \in Nat : L = Length(N, K)
      BY <1>1
    <3>1. a - 1 \in Nat /\ b - 1 \in Nat /\ a - 1 < b - 1 /\ b - 1 < Length(N, K)
      <4>1. a \in 1 .. L /\ b \in 1 .. L
        BY <3>0
      <4>2. a - 1 \in Nat /\ b - 1 \in Nat /\ a - 1 < b - 1 /\ b - 1 < L
        BY <2>3, <4>1
      <4> QED
        BY <3>0, <4>2
    <3>2. Ascends(Reading(a - 1, N, K), Reading(b - 1, N, K), N)
      BY <2>2, <3>1, ReadingsAscend
    <3>3. Reading(a - 1, N, K) \in [1 .. N -> 0 .. K - 1]
      BY <2>2, <3>1, ReadingIsPermutation
    <3>4. \A d \in 1 .. N : Reading(a - 1, N, K)[d] \in 0 .. K - 1
      BY <3>3
    <3> QED
      BY <3>2, <3>4 DEF Ascends
  <2>4. ~ (i < k) /\ ~ (k < i)
    BY <1>1, <2>3
  <2> QED
    BY <1>1, <2>4
<1> QED
  BY <1>2, <1>3

LEMMA GroupsDiffer ==
  ASSUME NEW inst \in Instances, NEW m \in Candidates(inst), NEW o \in Candidates(inst),
         m[1] = o[1], AssetGroup(inst, m) = AssetGroup(inst, o)
  PROVE  m = o
<1>1. m = << m[1], m[2] >> /\ o = << o[1], o[2] >> /\ m[1] \in DOMAIN inst.exploits
  BY CandidateTyped
<1> DEFINE n == inst.exploits[m[1]].num_params
           K == inst.assets
<1>2. n \in Nat /\ K \in Nat
  <2>1. Exploit(inst, m) \in ExploitType
    BY CandidateTyped
  <2>2. inst.assets \in Nat
    BY InstancesAssumption DEF InstanceType
  <2> QED
    BY <2>1, <2>2 DEF Exploit, ExploitType
<1>3. m[2] \in DOMAIN Perms(n, K) /\ o[2] \in DOMAIN Perms(n, K)
  BY DEF Candidates, od_map
<1>4. Perms(n, K)[m[2]] = Perms(n, K)[o[2]]
  BY DEF AssetGroup, od_map, Exploit
<1> HIDE DEF n, K
<1>5. m[2] = o[2]
  BY <1>2, <1>3, <1>4, PermsDiffer
<1> QED
  BY <1>1, <1>5

-----------------------------------------------------------------------------
(* The steps that make an edge.                                            *)

LEMMA EdgeMade ==
  ASSUME IInv, NewState \/ KnownState
  PROVE  \E e : /\ edges' = Append(edges, e)
                /\ EdgeOf(e, Popped - 1, NextMove)
                /\ NewState => e.to = Len(factbases)
<1>1. appl_exploits # {}
  BY DEF NewState, KnownState, TakeMove
<1>2. \A id : EdgeTo(id).to = id /\ EdgeOf(EdgeTo(id), Popped - 1, NextMove)
  BY <1>1, MoveInHand DEF IInv
<1>3. CASE NewState
  <2>1. edges' = Append(edges, EdgeTo(current_id))
    BY <1>3, NewStateEffect
  <2>2. current_id = Len(factbases)
    BY DEF IInv, OneNodePerHash
  <2> QED
    BY <1>2, <2>1, <2>2
<1>4. CASE KnownState /\ ~ NewState
  BY <1>2, <1>4 DEF KnownState
<1> QED
  BY <1>3, <1>4

\* What changes of the numbers when an edge is made, and what of the lists.
LEMMA MadeFrom ==
  ASSUME IInv, NewState \/ KnownState
  PROVE  /\ appl_exploits # {} /\ appl_exploits' = appl_exploits \ {NextMove}
         /\ instance' = instance
         /\ Popped \in Nat /\ Popped > 0 /\ Popped' = Popped
         /\ Len(factbases) \in Nat /\ Popped <= Len(factbases)
         /\ NextMove \in appl_exploits
         /\ appl_exploits \subseteq Candidates(instance) /\ instance \in Instances
         /\ KnownState => factbases' = factbases
         /\ NewState => Len(factbases') = Len(factbases) + 1
<1>1. /\ appl_exploits # {} /\ appl_exploits' = appl_exploits \ {NextMove}
      /\ instance' = instance
  BY DEF NewState, KnownState, TakeMove
<1>2. /\ factbases \in Seq(NetworkStateType) /\ frontier \in Seq(NetworkStateType)
      /\ Len(factbases) \in Nat /\ Len(frontier) \in Nat
      /\ appl_exploits \subseteq Candidates(instance) /\ instance \in Instances
  BY DEF IInv, TypeOK
<1>3. Popped > 0 /\ NextMove \in appl_exploits
  BY <1>1, MoveInHand DEF IInv, OldestFirst
<1>4. Popped \in Nat /\ Popped <= Len(factbases)
  BY <1>2, <1>3 DEF Popped
<1>5. CASE NewState
  <2>1. Len(factbases') = Len(factbases) + 1 /\ Len(frontier') = Len(frontier) + 1
    BY <1>5, NodesKept DEF IInv
  <2>2. Popped' = Popped
    BY <1>2, <2>1 DEF Popped
  <2>3. KnownState => factbases' = factbases
    BY DEF KnownState
  <2> QED
    BY <1>1, <1>2, <1>3, <1>4, <2>1, <2>2, <2>3
<1>6. CASE KnownState /\ ~ NewState
  <2>1. factbases' = factbases /\ Popped' = Popped
    BY <1>6 DEF KnownState, Popped
  <2> QED
    BY <1>1, <1>2, <1>3, <1>4, <1>6, <2>1
<1> QED
  BY <1>5, <1>6

LEMMA EdgesLonger ==
  ASSUME IInv, NEW e, edges' = Append(edges, e)
  PROVE  /\ Len(edges) \in Nat /\ DOMAIN edges = 1 .. Len(edges)
         /\ DOMAIN edges' = 1 .. Len(edges) + 1
         /\ \A k \in DOMAIN edges : edges'[k] = edges[k] /\ edges[k].from \in Nat
         /\ edges'[Len(edges) + 1] = e
<1>1. edges \in Seq(EdgeType)
  BY DEF IInv, TypeOK
<1>2. Len(edges) \in Nat /\ DOMAIN edges = 1 .. Len(edges)
  BY <1>1
<1>3. \A k \in DOMAIN edges : edges[k].from \in Nat
  <2>1. \A k \in DOMAIN edges : edges[k] \in EdgeType
    BY <1>1, ElementTyped
  <2> QED
    BY <2>1 DEF EdgeType
<1>4. DOMAIN edges' = 1 .. Len(edges) + 1
  BY <1>1
<1>5. \A k \in DOMAIN edges : edges'[k] = edges[k]
  BY <1>1
<1>6. edges'[Len(edges) + 1] = e
  BY <1>1
<1> QED
  BY <1>2, <1>3, <1>4, <1>5, <1>6

LEMMA MadeInOrder ==
  ASSUME GInv, NewState \/ KnownState
  PROVE  EdgesInOrder'
<1>0. IInv
  BY DEF GInv
<1>1. PICK e : edges' = Append(edges, e) /\ EdgeOf(e, Popped - 1, NextMove)
  BY <1>0, EdgeMade
<1>2. e.from = Popped - 1
  BY <1>1 DEF EdgeOf
<1>3. /\ Len(edges) \in Nat /\ DOMAIN edges = 1 .. Len(edges)
      /\ DOMAIN edges' = 1 .. Len(edges) + 1
      /\ \A k \in DOMAIN edges : edges'[k] = edges[k] /\ edges[k].from \in Nat
      /\ edges'[Len(edges) + 1] = e
  BY <1>0, <1>1, EdgesLonger
<1>4. Popped \in Nat /\ Popped' = Popped
  BY <1>0, MadeFrom
<1>5. \A k \in DOMAIN edges : edges[k].from < Popped
  BY DEF GInv, EdgesInOrder
<1>6. ASSUME NEW k \in DOMAIN edges' PROVE edges'[k].from < Popped'
  <2>1. CASE k \in DOMAIN edges
    BY <1>3, <1>4, <1>5, <2>1
  <2>2. CASE k = Len(edges) + 1
    BY <1>2, <1>3, <1>4, <2>2
  <2> QED
    BY <1>3, <2>1, <2>2
<1>7. ASSUME NEW k \in DOMAIN edges', NEW l \in DOMAIN edges', k < l
      PROVE  edges'[k].from <= edges'[l].from
  <2>1. k \in DOMAIN edges
    BY <1>3, <1>7
  <2>2. CASE l \in DOMAIN edges
    <3>1. edges[k].from <= edges[l].from
      BY <1>7, <2>1, <2>2 DEF GInv, EdgesInOrder
    <3> QED
      BY <1>3, <2>1, <2>2, <3>1
  <2>3. CASE l = Len(edges) + 1
    <3>1. edges[k].from <= Popped - 1
      BY <1>3, <1>4, <1>5, <2>1
    <3> QED
      BY <1>2, <1>3, <2>1, <2>3, <3>1
  <2> QED
    BY <1>3, <2>2, <2>3
<1> QED
  BY <1>6, <1>7 DEF EdgesInOrder

LEMMA MadeOnce ==
  ASSUME GInv, NewState \/ KnownState
  PROVE  EdgesTried'
<1>0. IInv
  BY DEF GInv
<1>1. PICK e : edges' = Append(edges, e) /\ EdgeOf(e, Popped - 1, NextMove)
  BY <1>0, EdgeMade
<1>2. /\ e.from = Popped - 1 /\ e.exploit = NextMove[1]
      /\ e.perm = AssetGroup(instance, NextMove)
  BY <1>1 DEF EdgeOf
<1>3. /\ Len(edges) \in Nat /\ DOMAIN edges = 1 .. Len(edges)
      /\ DOMAIN edges' = 1 .. Len(edges) + 1
      /\ \A k \in DOMAIN edges : edges'[k] = edges[k] /\ edges[k].from \in Nat
      /\ edges'[Len(edges) + 1] = e
  BY <1>0, <1>1, EdgesLonger
<1>4. /\ Popped' = Popped /\ instance' = instance
      /\ appl_exploits' = appl_exploits \ {NextMove} /\ NextMove \in appl_exploits
      /\ appl_exploits \subseteq Candidates(instance) /\ instance \in Instances
  BY <1>0, MadeFrom
<1>5. \A k \in DOMAIN edges : \A m \in appl_exploits : ~ EdgeOf(edges[k], Popped - 1, m)
  BY DEF GInv, EdgesTried
<1>6. \A k \in DOMAIN edges :
        ~ (/\ edges[k].from = e.from /\ edges[k].exploit = e.exploit
           /\ edges[k].perm = e.perm)
  BY <1>2, <1>4, <1>5 DEF EdgeOf
<1>7. ASSUME NEW k \in DOMAIN edges', NEW l \in DOMAIN edges',
             edges'[k].from = edges'[l].from, edges'[k].exploit = edges'[l].exploit,
             edges'[k].perm = edges'[l].perm
      PROVE  k = l
  <2>1. CASE k \in DOMAIN edges /\ l \in DOMAIN edges
    <3>1. edges'[k] = edges[k] /\ edges'[l] = edges[l]
      BY <1>3, <2>1
    <3> QED
      BY <1>7, <2>1, <3>1, Zenon DEF GInv, EdgesTried
  <2>2. CASE k \in DOMAIN edges /\ l = Len(edges) + 1
    BY <1>3, <1>6, <1>7, <2>2
  <2>3. CASE k = Len(edges) + 1 /\ l \in DOMAIN edges
    BY <1>3, <1>6, <1>7, <2>3
  <2>4. CASE k = Len(edges) + 1 /\ l = Len(edges) + 1
    BY <2>4
  <2> QED
    BY <1>3, <2>1, <2>2, <2>3, <2>4
<1>8. ASSUME NEW k \in DOMAIN edges', NEW m \in appl_exploits'
      PROVE  ~ EdgeOf(edges[k], Popped - 1, m)'
  <2>1. m \in appl_exploits /\ m # NextMove
    BY <1>4
  <2>2. EdgeOf(edges[k], Popped - 1, m)' <=> EdgeOf(edges'[k], Popped - 1, m)
    BY <1>4 DEF EdgeOf
  <2>3. CASE k \in DOMAIN edges
    BY <1>3, <1>5, <2>1, <2>2, <2>3
  <2>4. CASE k = Len(edges) + 1
    <3>1. ASSUME EdgeOf(e, Popped - 1, m) PROVE FALSE
      <4>1. m[1] = NextMove[1] /\ AssetGroup(instance, m) = AssetGroup(instance, NextMove)
        BY <1>2, <3>1 DEF EdgeOf
      <4> QED
        BY <1>4, <2>1, <4>1, GroupsDiffer
    <3> QED
      BY <1>3, <2>2, <2>4, <3>1
  <2> QED
    BY <1>3, <2>3, <2>4
<1> QED
  BY <1>7, <1>8 DEF EdgesTried

LEMMA MadeDiscovers ==
  ASSUME GInv, NewState \/ KnownState
  PROVE  NodesDiscovered'
<1>0. IInv
  BY DEF GInv
<1>1. PICK e : /\ edges' = Append(edges, e) /\ EdgeOf(e, Popped - 1, NextMove)
               /\ NewState => e.to = Len(factbases)
  BY <1>0, EdgeMade
<1>2. e.from = Popped - 1
  BY <1>1 DEF EdgeOf
<1>3. /\ Len(edges) \in Nat /\ DOMAIN edges = 1 .. Len(edges)
      /\ DOMAIN edges' = 1 .. Len(edges) + 1
      /\ \A k \in DOMAIN edges : edges'[k] = edges[k] /\ edges[k].from \in Nat
      /\ edges'[Len(edges) + 1] = e
  BY <1>0, <1>1, EdgesLonger
<1>4. /\ Popped \in Nat /\ Len(factbases) \in Nat /\ Popped <= Len(factbases)
      /\ KnownState => factbases' = factbases
      /\ NewState => Len(factbases') = Len(factbases) + 1
  BY <1>0, MadeFrom
<1>5. ASSUME NEW i \in Ids \ {0} PROVE \E k \in DOMAIN edges' : Discovers(edges', k, i)
  <2>1. PICK k \in DOMAIN edges : Discovers(edges, k, i)
    BY DEF GInv, NodesDiscovered
  <2>2. k \in DOMAIN edges' /\ edges'[k] = edges[k]
    BY <1>3
  <2>3. \A l \in 1 .. k - 1 : edges'[l] = edges[l]
    BY <1>3
  <2> QED
    BY <2>1, <2>2, <2>3 DEF Discovers
<1>6. CASE NewState
  <2>1. Discovers(edges', Len(edges) + 1, Len(factbases))
    <3>1. \A l \in DOMAIN edges : edges[l].to \in Ids
      BY DEF GInv, IInv, EdgesSound, EdgeSound
    <3>2. \A l \in 1 .. (Len(edges) + 1) - 1 : edges'[l].to < Len(factbases)
      BY <1>3, <1>4, <3>1 DEF Ids
    <3> QED
      BY <1>1, <1>2, <1>3, <1>4, <1>6, <3>2 DEF Discovers
  <2>2. Len(edges) + 1 \in DOMAIN edges'
    BY <1>3
  <2>3. \A i \in Ids' : i \in Ids \/ i = Len(factbases)
    BY <1>4, <1>6 DEF Ids
  <2> QED
    BY <1>5, <2>1, <2>2, <2>3 DEF NodesDiscovered
<1>7. CASE KnownState
  <2>1. Ids' = Ids
    BY <1>4, <1>7 DEF Ids
  <2> QED
    BY <1>5, <2>1 DEF NodesDiscovered
<1> QED
  BY <1>6, <1>7

LEMMA InitGInv ==
  ASSUME Init
  PROVE  GInv
<1>1. IInv
  BY InitIInv
<1>2. edges = << >> /\ DOMAIN edges = {}
  BY DEF Init
<1>3. Ids \ {0} = {}
  <2>1. Len(factbases) = 1
    BY DEF Init, Ctor
  <2> QED
    BY <2>1 DEF Ids
<1> QED
  BY <1>1, <1>2, <1>3 DEF GInv, EdgesInOrder, EdgesTried, NodesDiscovered

\* The other steps make no edge and no node.
LEMMA OtherStepsKeep ==
  ASSUME GInv, Next \/ UNCHANGED vars, ~ (NewState \/ KnownState)
  PROVE  EdgesInOrder' /\ EdgesTried' /\ NodesDiscovered'
<1>1. edges' = edges /\ factbases' = factbases /\ instance' = instance
  BY DEF Next, FetchState, Abort, NoChange, TakeMove, Finish, Stopped, vars
<1>2. \A k \in DOMAIN edges : edges[k].from \in Nat /\ edges[k].from < Popped
  <2>1. \A k \in DOMAIN edges : edges[k] \in EdgeType
    BY ElementTyped DEF GInv, IInv, TypeOK
  <2> QED
    BY <2>1 DEF EdgeType, GInv, EdgesInOrder
<1>3. NodesDiscovered'
  <2>1. Ids' = Ids
    BY <1>1 DEF Ids
  <2> QED
    BY <1>1, <2>1 DEF GInv, NodesDiscovered, Discovers
<1>4. CASE FetchState \/ Abort
  <2>1. Popped \in Nat /\ Popped' = Popped + 1
    BY <1>4, FetchPops DEF GInv, IInv
  <2>2. EdgesInOrder'
    BY <1>1, <1>2, <2>1 DEF GInv, EdgesInOrder
  <2>3. ASSUME NEW k \in DOMAIN edges, NEW m PROVE ~ EdgeOf(edges[k], Popped - 1, m)'
    <3>1. edges[k].from # Popped
      BY <1>2, <2>1
    <3>2. (Popped - 1)' = Popped
      BY <2>1
    <3> QED
      BY <1>1, <3>1, <3>2 DEF EdgeOf
  <2> QED
    BY <1>1, <1>3, <2>2, <2>3 DEF GInv, EdgesTried
<1>5. CASE NoChange \/ Finish \/ Stopped \/ UNCHANGED vars
  <2>1. frontier' = frontier /\ appl_exploits' \subseteq appl_exploits
    BY <1>5 DEF NoChange, TakeMove, Finish, Stopped, vars
  <2>2. Popped' = Popped
    BY <1>1, <2>1 DEF Popped
  <2>3. EdgesInOrder'
    BY <1>1, <2>2 DEF GInv, EdgesInOrder
  <2>4. ASSUME NEW k \in DOMAIN edges, NEW m \in appl_exploits'
        PROVE  ~ EdgeOf(edges[k], Popped - 1, m)'
    <3>1. ~ EdgeOf(edges[k], Popped - 1, m)
      BY <2>1 DEF GInv, EdgesTried
    <3> QED
      BY <1>1, <2>2, <3>1 DEF EdgeOf
  <2> QED
    BY <1>1, <1>3, <2>3, <2>4 DEF GInv, EdgesTried
<1> QED
  BY <1>4, <1>5 DEF Next

LEMMA NextGInv ==
  ASSUME GInv, [Next]_vars
  PROVE  GInv'
<1>1. IInv'
  BY NextIInv DEF GInv
<1>2. CASE NewState \/ KnownState
  BY <1>1, <1>2, MadeInOrder, MadeOnce, MadeDiscovers DEF GInv
<1>3. CASE ~ (NewState \/ KnownState)
  BY <1>1, <1>3, OtherStepsKeep DEF GInv
<1> QED
  BY <1>2, <1>3

-----------------------------------------------------------------------------
(* Breadth first.                                                          *)

\* Levels along parents with smaller numbers.
IsLevel(f, parent, n) ==
  /\ f \in [0 .. n -> Nat]
  /\ f[0] = 0
  /\ \A i \in 1 .. n : f[i] = f[parent[i]] + 1

LEMMA LevelsExist ==
  ASSUME NEW n \in Nat, NEW parent, \A i \in 1 .. n : parent[i] \in 0 .. i - 1
  PROVE  \E f : IsLevel(f, parent, n)
<1> DEFINE T == {m \in 0 .. n : \E f : IsLevel(f, parent, m)}
<1>1. 0 \in T
  <2>1. IsLevel([i \in 0 .. 0 |-> 0], parent, 0)
    BY DEF IsLevel
  <2> QED
    BY <2>1
<1>2. ASSUME NEW m \in 0 .. n - 1, NEW f, IsLevel(f, parent, m)
      PROVE  \E g : IsLevel(g, parent, m + 1)
  <2> DEFINE top == f[parent[m + 1]] + 1
             g == [i \in 0 .. m + 1 |-> IF i = m + 1 THEN top ELSE f[i]]
  <2>1. /\ f \in [0 .. m -> Nat] /\ f[0] = 0
        /\ \A i \in 1 .. m : f[i] = f[parent[i]] + 1
    BY <1>2 DEF IsLevel
  <2>2. m + 1 \in 1 .. n /\ parent[m + 1] \in 0 .. m
    <3>1. m + 1 \in 1 .. n
      OBVIOUS
    <3>2. parent[m + 1] \in 0 .. (m + 1) - 1
      BY <3>1
    <3> QED
      BY <3>1, <3>2
  <2>3. top \in Nat
    BY <2>1, <2>2
  <2>4. \A i \in 0 .. m : g[i] = f[i]
    OBVIOUS
  <2>5. g[m + 1] = top
    OBVIOUS
  <2>6. g \in [0 .. m + 1 -> Nat]
    <3> HIDE DEF top
    <3>1. ASSUME NEW i \in 0 .. m + 1 PROVE (IF i = m + 1 THEN top ELSE f[i]) \in Nat
      <4>1. i = m + 1 \/ i \in 0 .. m
        OBVIOUS
      <4> QED
        BY <2>1, <2>3, <4>1
    <3> QED
      BY <3>1
  <2> HIDE DEF g
  <2>7. ASSUME NEW i \in 1 .. m + 1 PROVE g[i] = g[parent[i]] + 1
    <3>1. CASE i = m + 1
      BY <2>2, <2>4, <2>5, <3>1
    <3>2. CASE i \in 1 .. m
      <4>1. parent[i] \in 0 .. i - 1
        BY <3>2
      <4>2. parent[i] \in 0 .. m /\ i \in 0 .. m
        BY <3>2, <4>1
      <4> QED
        BY <2>1, <2>4, <3>2, <4>2
    <3> QED
      BY <3>1, <3>2
  <2>8. g[0] = 0
    BY <2>1, <2>4
  <2> QED
    BY <2>6, <2>7, <2>8 DEF IsLevel
<1>3. \A m \in 0 .. n - 1 : m \in T => m + 1 \in T
  BY <1>2
<1>4. 0 .. n \subseteq T
  <2> HIDE DEF T
  <2> QED
    BY <1>1, <1>3, SetInduction
<1> QED
  BY <1>4

\* If the parents ascend, so do the levels.
LEMMA LevelsAscend ==
  ASSUME NEW n \in Nat, NEW parent, \A i \in 1 .. n : parent[i] \in 0 .. i - 1,
         \A i \in 2 .. n : parent[i - 1] <= parent[i],
         NEW f, IsLevel(f, parent, n)
  PROVE  \A i \in 0 .. n, j \in 0 .. n : i <= j => f[i] <= f[j]
<1>0. /\ f \in [0 .. n -> Nat] /\ f[0] = 0
      /\ \A i \in 1 .. n : f[i] = f[parent[i]] + 1
  BY DEF IsLevel
<1> DEFINE Monotone(m) == \A i \in 0 .. m, j \in 0 .. m : i <= j => f[i] <= f[j]
           T == {m \in 0 .. n : Monotone(m)}
<1>1. 0 \in T
  BY <1>0
<1>2. ASSUME NEW m \in 0 .. n - 1, Monotone(m) PROVE Monotone(m + 1)
  <2>1. f[m] <= f[m + 1]
    <3>1. CASE m = 0
      BY <1>0, <3>1
    <3>2. CASE m # 0
      <4>1. m \in 1 .. n /\ m + 1 \in 1 .. n /\ m + 1 \in 2 .. n /\ (m + 1) - 1 = m
        BY <3>2
      <4>2. parent[m] \in 0 .. m - 1 /\ parent[m + 1] \in 0 .. (m + 1) - 1
        BY <4>1
      <4>3. parent[(m + 1) - 1] <= parent[m + 1]
        BY <4>1
      <4>4. parent[m] \in 0 .. m /\ parent[m + 1] \in 0 .. m /\ parent[m] <= parent[m + 1]
        BY <4>1, <4>2, <4>3
      <4>5. f[parent[m]] <= f[parent[m + 1]]
        BY <1>2, <4>4
      <4>6. f[m] = f[parent[m]] + 1 /\ f[m + 1] = f[parent[m + 1]] + 1
        BY <1>0, <4>1
      <4>7. f[parent[m]] \in Nat /\ f[parent[m + 1]] \in Nat
        BY <1>0, <4>4
      <4> QED
        BY <4>5, <4>6, <4>7
    <3> QED
      BY <3>1, <3>2
  <2>2. \A i \in 0 .. m + 1 : f[i] \in Nat
    BY <1>0
  <2> TAKE i \in 0 .. m + 1, j \in 0 .. m + 1
  <2>3. CASE j \in 0 .. m
    BY <1>2, <2>3
  <2>4. CASE j = m + 1 /\ i \in 0 .. m
    <3>1. m \in 0 .. m /\ i <= m
      BY <2>4
    <3>2. f[i] <= f[m]
      BY <1>2, <2>4, <3>1
    <3>3. m \in 0 .. m + 1
      OBVIOUS
    <3> QED
      BY <2>1, <2>2, <2>4, <3>2, <3>3
  <2>5. CASE j = m + 1 /\ i = m + 1
    BY <2>2, <2>5
  <2> QED
    BY <2>3, <2>4, <2>5
<1>3. n \in T
  <2>1. \A m \in 0 .. n - 1 : m \in T => m + 1 \in T
    <3> HIDE DEF Monotone
    <3> QED
      BY <1>2
  <2> HIDE DEF T
  <2>2. 0 .. n \subseteq T
    BY <1>1, <2>1, SetInduction
  <2> QED
    BY <2>2
<1> QED
  BY <1>3

\* A function that solves the equation of the levels is one.
LEMMA LevelsTyped ==
  ASSUME NEW n \in Nat, NEW parent, \A i \in 1 .. n : parent[i] \in 0 .. i - 1,
         NEW f, f = [i \in 0 .. n |-> IF i = 0 THEN 0 ELSE f[parent[i]] + 1]
  PROVE  IsLevel(f, parent, n)
<1> DEFINE AllNat(m) == \A i \in 0 .. m : f[i] \in Nat
           T == {m \in 0 .. n : AllNat(m)}
<1>1. /\ DOMAIN f = 0 .. n
      /\ \A i \in 0 .. n : f[i] = IF i = 0 THEN 0 ELSE f[parent[i]] + 1
  <2> DEFINE F == [i \in 0 .. n |-> IF i = 0 THEN 0 ELSE f[parent[i]] + 1]
  <2>1. DOMAIN F = 0 .. n /\ \A i \in 0 .. n : F[i] = IF i = 0 THEN 0 ELSE f[parent[i]] + 1
    OBVIOUS
  <2>2. f = F
    OBVIOUS
  <2> HIDE DEF F
  <2> QED
    BY <2>1, <2>2
<1>2. f[0] = 0 /\ \A i \in 1 .. n : f[i] = f[parent[i]] + 1
  BY <1>1
<1>3. AllNat(0)
  <2>1. \A i \in 0 .. 0 : i = 0
    OBVIOUS
  <2> QED
    BY <1>2, <2>1
<1>4. ASSUME NEW m \in 0 .. n - 1, AllNat(m)
      PROVE  AllNat(m + 1)
  <2>1. m + 1 \in 1 .. n /\ (m + 1) - 1 = m
    OBVIOUS
  <2>2. parent[m + 1] \in 0 .. m
    <3>1. parent[m + 1] \in 0 .. (m + 1) - 1
      BY <2>1, Zenon
    <3> QED
      BY <3>1, <2>1
  <2>3. f[m + 1] = f[parent[m + 1]] + 1
    BY <1>2, <2>1, Zenon
  <2>4. f[parent[m + 1]] \in Nat
    BY <1>4, <2>2, Zenon
  <2>5. f[m + 1] \in Nat
    BY <2>3, <2>4
  <2>6. \A i \in 0 .. m + 1 : i = m + 1 \/ i \in 0 .. m
    OBVIOUS
  <2>7. ASSUME NEW i \in 0 .. m + 1 PROVE f[i] \in Nat
    <3>1. CASE i = m + 1
      BY <3>1, <2>5, Zenon
    <3>2. CASE i \in 0 .. m
      BY <3>2, <1>4, Zenon
    <3> QED
      BY <3>1, <3>2, <2>6
  <2> QED
    BY <2>7, Zenon
<1>5. n \in T
  <2> HIDE DEF AllNat
  <2>1. 0 \in T
    BY <1>3
  <2>2. \A m \in 0 .. n - 1 : m \in T => m + 1 \in T
    BY <1>4
  <2> HIDE DEF T
  <2>3. 0 .. n \subseteq T
    BY <2>1, <2>2, SetInduction
  <2> QED
    BY <2>3
<1>6. \A i \in 0 .. n : f[i] \in Nat
  <2>1. AllNat(n)
    <3> HIDE DEF AllNat
    <3> QED
      BY <1>5
  <2> QED
    BY <2>1
<1>7. f \in [0 .. n -> Nat]
  <2>1. f = [i \in 0 .. n |-> f[i]]
    BY <1>1
  <2> QED
    BY <1>6, <2>1
<1> QED
  BY <1>2, <1>7 DEF IsLevel

LEMMA LevelEquation ==
  ASSUME NEW n \in Nat, NEW parent, \A i \in 1 .. n : parent[i] \in 0 .. i - 1
  PROVE  \E f : f = [i \in 0 .. n |-> IF i = 0 THEN 0 ELSE f[parent[i]] + 1]
<1>1. PICK f : IsLevel(f, parent, n)
  BY LevelsExist
<1>2. f \in [0 .. n -> Nat] /\ f[0] = 0 /\ \A i \in 1 .. n : f[i] = f[parent[i]] + 1
  BY <1>1 DEF IsLevel
<1>3. \A i \in 0 .. n : f[i] = IF i = 0 THEN 0 ELSE f[parent[i]] + 1
  BY <1>2
<1>4. f = [i \in 0 .. n |-> f[i]]
  BY <1>2
<1> QED
  BY <1>3, <1>4

\* The edge that discovered a node.
FirstEdgeTo(d, i) ==
  /\ d \in DOMAIN edges /\ d # 0
  /\ edges[d].to = i
  /\ edges[d].from \in 0 .. i - 1
  /\ \A l \in DOMAIN edges : edges[l].to >= i => d <= l

LEMMA DiscoveryIs ==
  ASSUME GInv, NEW i \in Ids \ {0}
  PROVE  FirstEdgeTo(Discovery(i), i)
<1>1. PICK k \in DOMAIN edges : Discovers(edges, k, i)
  BY DEF GInv, NodesDiscovered
<1> DEFINE I == {j \in 1 .. Len(edges) : edges[j].to = i}
<1>2. edges \in Seq(EdgeType) /\ Len(edges) \in Nat /\ DOMAIN edges = 1 .. Len(edges)
  BY DEF GInv, IInv, TypeOK
<1>3. k \in I /\ I \in SUBSET (1 .. Len(edges))
  BY <1>1, <1>2 DEF Discovers
<1>4. Discovery(i) = Min(I)
  BY <1>3 DEF Discovery, SelectInSeq
<1>5. Min(I) \in I /\ \A y \in I : Min(I) <= y
  <2> HIDE DEF I
  <2> QED
    BY <1>2, <1>3, FirstMatch
<1>6. PICK d \in DOMAIN edges : d = Min(I)
  BY <1>2, <1>5
<1>7. edges[d].to = i /\ d <= k
  BY <1>3, <1>5, <1>6
<1>8. i \in Nat
  BY DEF GInv, IInv, TypeOK, Ids
<1>9. \A l \in 1 .. k - 1 : edges[l].to < i
  BY <1>1 DEF Discovers
<1>10. d = k
  <2> SUFFICES ASSUME d # k PROVE FALSE
    OBVIOUS
  <2>1. d \in 1 .. k - 1
    BY <1>2, <1>7
  <2> QED
    BY <1>7, <1>8, <1>9, <2>1
<1>11. \A l \in DOMAIN edges : edges[l].to \in Nat /\ edges[l].from \in Nat
  <2>1. \A l \in DOMAIN edges : edges[l] \in EdgeType
    BY <1>2, ElementTyped
  <2> QED
    BY <2>1 DEF EdgeType
<1>12. edges[d].from \in 0 .. i - 1
  BY <1>1, <1>8, <1>10, <1>11 DEF Discovers
<1>13. ASSUME NEW l \in DOMAIN edges, edges[l].to >= i PROVE d <= l
  <2> SUFFICES ASSUME l < d PROVE FALSE
    BY <1>2
  <2>1. l \in 1 .. k - 1
    BY <1>2, <1>10
  <2> QED
    BY <1>8, <1>9, <1>11, <1>13, <2>1
<1> QED
  BY <1>2, <1>4, <1>6, <1>7, <1>12, <1>13 DEF FirstEdgeTo

LEMMA BreadthFirst ==
  ASSUME GInv
  PROVE  ShortestFirst
<1> DEFINE n == Len(factbases) - 1
           parent == [i \in 1 .. n |-> edges[Discovery(i)].from]
           Eq(f) == f = [i \in Ids |-> IF i = 0 THEN 0 ELSE f[edges[Discovery(i)].from] + 1]
           level == CHOOSE f : Eq(f)
<1>1. Ids = 0 .. n /\ Len(factbases) \in Nat
  BY DEF Ids, GInv, IInv, TypeOK
<1>2. \A k \in DOMAIN edges : edges[k].from \in Ids /\ edges[k].to \in Ids
  BY DEF GInv, IInv, EdgesSound, EdgeSound
<1>3. \A e \in ToSet(edges) : \E k \in DOMAIN edges : e = edges[k]
  BY DEF ToSet, GInv, IInv, TypeOK
<1>4. \A i \in Ids \ {0} : FirstEdgeTo(Discovery(i), i)
  BY DiscoveryIs
<1>5. CASE Len(factbases) = 0
  <2>1. Ids = {}
    BY <1>1, <1>5
  <2> QED
    BY <1>2, <1>3, <2>1 DEF ShortestFirst
<1>6. CASE Len(factbases) # 0
  <2>1. n \in Nat
    BY <1>1, <1>6
  <2> HIDE DEF n
  <2>2. \A i \in 1 .. n : i \in Ids \ {0} /\ parent[i] = edges[Discovery(i)].from
    BY <1>1, <2>1
  <2>3. \A i \in 1 .. n : parent[i] \in 0 .. i - 1
    BY <1>4, <2>2 DEF FirstEdgeTo
  <2>4. \A k, l \in DOMAIN edges : k <= l => edges[k].from <= edges[l].from
    <3>1. \A k \in DOMAIN edges : k \in Nat /\ edges[k].from \in Nat
      BY <1>1, <1>2, <2>1 DEF GInv, IInv, TypeOK
    <3> QED
      BY <3>1 DEF GInv, EdgesInOrder
  <2>5. ASSUME NEW i \in 2 .. n PROVE parent[i - 1] <= parent[i]
    <3>1. i - 1 \in 1 .. n /\ i \in 1 .. n
      BY <2>1
    <3>2. FirstEdgeTo(Discovery(i - 1), i - 1) /\ FirstEdgeTo(Discovery(i), i)
      BY <1>4, <2>2, <3>1
    <3>3. Discovery(i - 1) <= Discovery(i)
      BY <3>2 DEF FirstEdgeTo
    <3> QED
      BY <2>2, <2>4, <3>1, <3>2, <3>3 DEF FirstEdgeTo
  <2>6. \A f : Eq(f) <=> f = [i \in 0 .. n |-> IF i = 0 THEN 0 ELSE f[parent[i]] + 1]
    <3> TAKE f
    <3>1. \A i \in 0 .. n : (IF i = 0 THEN 0 ELSE f[edges[Discovery(i)].from] + 1)
                             = (IF i = 0 THEN 0 ELSE f[parent[i]] + 1)
      <4> TAKE i \in 0 .. n
      <4>1. i # 0 => i \in 1 .. n
        BY <2>1
      <4> HIDE DEF parent
      <4> QED
        BY <2>2, <4>1
    <3> HIDE DEF parent
    <3> QED
      BY <1>1, <3>1
  <2> HIDE DEF parent
  <2>7. \E f : Eq(f)
    <3>1. \E f : f = [i \in 0 .. n |-> IF i = 0 THEN 0 ELSE f[parent[i]] + 1]
      BY <2>1, <2>3, LevelEquation
    <3> HIDE DEF Eq
    <3> QED
      BY <2>6, <3>1
  <2>8. Eq(level)
    <3> HIDE DEF Eq
    <3> QED
      BY <2>7
  <2>9. IsLevel(level, parent, n)
    <3>1. level = [i \in 0 .. n |-> IF i = 0 THEN 0 ELSE level[parent[i]] + 1]
      <4> HIDE DEF Eq, level
      <4> QED
        BY <2>6, <2>8
    <3> HIDE DEF level
    <3> QED
      BY <2>1, <2>3, <3>1, LevelsTyped
  <2>10. \A i \in 0 .. n, j \in 0 .. n : i <= j => level[i] <= level[j]
    <3> HIDE DEF level
    <3> QED
      BY <2>1, <2>3, <2>5, <2>9, LevelsAscend
  <2> HIDE DEF level
  <2>11. /\ \A i \in 0 .. n : level[i] \in Nat
         /\ level[0] = 0 /\ \A i \in 1 .. n : level[i] = level[parent[i]] + 1
    BY <2>9 DEF IsLevel
  <2>12. \A i \in Ids \ {0} : Discovery(i) # 0 /\ edges[Discovery(i)].from < i
    <3> TAKE i \in Ids \ {0}
    <3>1. i \in Nat
      BY <1>1
    <3> QED
      BY <1>4, <3>1 DEF FirstEdgeTo
  <2>13. \A i \in Ids \ {0} : level[i - 1] <= level[i]
    <3> TAKE i \in Ids \ {0}
    <3>1. i \in 0 .. n /\ i - 1 \in 0 .. n /\ i - 1 <= i
      BY <1>1, <2>1
    <3> QED
      BY <2>10, <3>1
  <2>14. ASSUME NEW e \in ToSet(edges) PROVE level[e.to] <= level[e.from] + 1
    <3>1. PICK k \in DOMAIN edges : e = edges[k]
      BY <1>3
    <3>2. e.to \in 0 .. n /\ e.from \in 0 .. n
      BY <1>1, <1>2, <3>1
    <3>3. CASE e.to = 0
      BY <2>11, <3>2, <3>3
    <3>4. CASE e.to # 0
      <4>1. e.to \in 1 .. n /\ e.to \in Ids \ {0}
        BY <1>1, <2>1, <3>2, <3>4
      <4>2. FirstEdgeTo(Discovery(e.to), e.to)
        BY <1>4, <4>1
      <4>3. Discovery(e.to) \in DOMAIN edges /\ Discovery(e.to) <= k
        BY <3>1, <3>2, <4>2 DEF FirstEdgeTo
      <4>4. parent[e.to] <= e.from
        BY <2>2, <2>4, <3>1, <4>1, <4>3
      <4>5. parent[e.to] \in 0 .. n
        <5>1. parent[e.to] \in 0 .. e.to - 1
          BY <2>3, <4>1
        <5> QED
          BY <2>1, <4>1, <5>1
      <4>6. level[parent[e.to]] <= level[e.from]
        BY <2>10, <3>2, <4>4, <4>5
      <4>7. level[e.to] = level[parent[e.to]] + 1
        BY <2>11, <4>1
      <4>8. level[parent[e.to]] \in Nat /\ level[e.from] \in Nat
        BY <2>11, <3>2, <4>5
      <4> QED
        BY <4>6, <4>7, <4>8
    <3> QED
      BY <3>3, <3>4
  <2> QED
    BY <2>12, <2>13, <2>14 DEF ShortestFirst, level
<1> QED
  BY <1>5, <1>6

-----------------------------------------------------------------------------
\* The order of the edges is kept: what is expanded, what is left to try and what
\* has been discovered are always in step with the edges made so far.
THEOREM EdgeOrderKept == Spec => []GInv
<1>1. Init => GInv
  BY InitGInv
<1>2. GInv /\ [Next]_vars => GInv'
  BY NextGInv
<1> QED
  BY <1>1, <1>2, PTL DEF Spec

\* No exploit is recorded twice from one factbase with one asset group: the vector
\* appl_exploits has each once, and no two entries of the odometer are alike.
THEOREM EdgesAreDistinct == Spec => []OneEdgePerMove
<1>1. GInv => OneEdgePerMove
  BY DEF GInv, EdgesTried, OneEdgePerMove
<1> QED
  BY EdgeOrderKept, <1>1, PTL

\* The ids order the factbases by the least number of exploits that lead to them:
\* generate is a breadth-first search although it uses a deque from both ends.
THEOREM SearchIsBreadthFirst == Spec => []ShortestFirst
<1>1. GInv => ShortestFirst
  BY BreadthFirst
<1> QED
  BY EdgeOrderKept, <1>1, PTL

-----------------------------------------------------------------------------
(***************************************************************************)
(* The words that are hashed: in ascending order, each once, so that two   *)
(* equal sequences are of equal sets of words.                             *)
(***************************************************************************)
LEMMA WordLessMeans ==
  ASSUME NEW v \in Word, NEW w \in Word
  PROVE  WordLess(v, w) <=>
           \/ v[4] < w[4]
           \/ v[4] = w[4] /\ v[3] < w[3]
           \/ v[4] = w[4] /\ v[3] = w[3] /\ v[2] < w[2]
           \/ v[4] = w[4] /\ v[3] = w[3] /\ v[2] = w[2] /\ v[1] < w[1]
<1>1. 1 .. 4 = {1, 2, 3, 4} /\ 1 + 1 .. 4 = {2, 3, 4} /\ 2 + 1 .. 4 = {3, 4}
      /\ 3 + 1 .. 4 = {4} /\ 4 + 1 .. 4 = {}
  OBVIOUS
<1> QED
  BY <1>1 DEF WordLess

LEMMA WordsOrdered ==
  ASSUME NEW u \in Word, NEW v \in Word, NEW w \in Word
  PROVE  /\ WordLess(u, v) /\ WordLess(v, w) => WordLess(u, w)
         /\ ~ WordLess(u, u)
         /\ u # v => WordLess(u, v) \/ WordLess(v, u)
<1>1. /\ \A i \in 1 .. 4 : u[i] \in Nat /\ v[i] \in Nat /\ w[i] \in Nat
      /\ 1 \in 1 .. 4 /\ 2 \in 1 .. 4 /\ 3 \in 1 .. 4 /\ 4 \in 1 .. 4
  BY DEF Word
<1>2. WordLess(u, v) /\ WordLess(v, w) => WordLess(u, w)
  BY <1>1, WordLessMeans
<1>3. ~ WordLess(u, u)
  BY <1>1, WordLessMeans
<1>4. u # v => WordLess(u, v) \/ WordLess(v, u)
  <2>1. u = v \/ u[1] # v[1] \/ u[2] # v[2] \/ u[3] # v[3] \/ u[4] # v[4]
    <3>1. 1 .. 4 = {1, 2, 3, 4}
      OBVIOUS
    <3> QED
      BY <3>1 DEF Word
  <2> QED
    BY <1>1, <2>1, WordLessMeans
<1> QED
  BY <1>2, <1>3, <1>4

\* How many words of W are before w.
Rank(W, w) == Cardinality({v \in W : WordLess(v, w)})

LEMMA RanksDiffer ==
  ASSUME NEW W \in SUBSET Word, IsFiniteSet(W), NEW v \in W, NEW w \in W, WordLess(v, w)
  PROVE  Rank(W, v) < Rank(W, w)
<1> DEFINE A == {u \in W : WordLess(u, v)}
           B == {u \in W : WordLess(u, w)}
<1>1. A \subseteq B /\ v \in B /\ v \notin A
  BY WordsOrdered
<1>2. B \subseteq W /\ A \subseteq W
  OBVIOUS
<1> HIDE DEF A, B
<1>3. IsFiniteSet(B) /\ IsFiniteSet(A)
  BY <1>2, FS_Subset
<1>4. Cardinality(A) <= Cardinality(B) /\ (Cardinality(B) = Cardinality(A) => B = A)
  BY <1>1, <1>3, FS_Subset
<1>5. Cardinality(A) \in Nat /\ Cardinality(B) \in Nat
  BY <1>3, FS_CardinalityType
<1>6. Cardinality(A) < Cardinality(B)
  BY <1>1, <1>4, <1>5
<1> QED
  BY <1>6 DEF Rank, A, B

LEMMA RankRange ==
  ASSUME NEW W \in SUBSET Word, IsFiniteSet(W), NEW w \in W
  PROVE  Rank(W, w) \in 0 .. Cardinality(W) - 1
<1> DEFINE A == {u \in W : WordLess(u, w)}
<1>1. A \subseteq W /\ w \notin A
  BY WordsOrdered
<1> HIDE DEF A
<1>2. /\ IsFiniteSet(A) /\ Cardinality(A) <= Cardinality(W)
      /\ (Cardinality(W) = Cardinality(A) => W = A)
  BY <1>1, FS_Subset
<1>3. Cardinality(A) \in Nat /\ Cardinality(W) \in Nat
  BY <1>2, FS_CardinalityType
<1>4. Cardinality(A) \in 0 .. Cardinality(W) - 1
  BY <1>1, <1>2, <1>3
<1> QED
  BY <1>4 DEF Rank, A

\* An ordered set iterates through all of its words, and no others.
LEMMA AllIterated ==
  ASSUME NEW W \in SUBSET Word, IsFiniteSet(W)
  PROVE  Ascending(W) \in Seq(Word) /\ ToSet(Ascending(W)) = W
<1> DEFINE n == Cardinality(W)
           S == 0 .. n - 1
           r == [w \in W |-> Rank(W, w)]
<1>1. n \in Nat
  BY FS_CardinalityType
<1>2. r \in [W -> S]
  BY RankRange
<1>3. ASSUME NEW v \in W, NEW w \in W, r[v] = r[w] PROVE v = w
  <2>1. Rank(W, v) = Rank(W, w)
    BY <1>3
  <2>2. v # w => WordLess(v, w) \/ WordLess(w, v)
    BY WordsOrdered
  <2>3. Rank(W, v) \in Nat /\ Rank(W, w) \in Nat
    BY <1>2
  <2> QED
    BY <2>1, <2>2, <2>3, RanksDiffer
<1>4. r \in Injection(W, S)
  <2> HIDE DEF r, S
  <2> QED
    BY <1>2, <1>3 DEF Injection, IsInjective
<1>5. IsFiniteSet(S) /\ Cardinality(S) = n
  <2> HIDE DEF n
  <2>1. IsFiniteSet(S)
    BY <1>1, FS_Interval
  <2>2. Cardinality(S) = IF 0 > n - 1 THEN 0 ELSE n - 1 - 0 + 1
    BY <1>1, FS_Interval
  <2> QED
    BY <1>1, <2>1, <2>2
<1>6. r \in Surjection(W, S)
  <2> HIDE DEF r, S
  <2> QED
    BY <1>4, <1>5, FS_Injection
<1>7. \A j \in S : \E w \in W : r[w] = j
  <2> HIDE DEF r, S
  <2> QED
    BY <1>6 DEF Surjection
<1> DEFINE f == Ascending(W)
<1>8. f = [i \in 1 .. n |-> CHOOSE w \in W : Rank(W, w) = i - 1]
  BY DEF Ascending, Rank
<1>9. ASSUME NEW i \in 1 .. n PROVE f[i] \in W /\ Rank(W, f[i]) = i - 1
  <2>1. i - 1 \in S
    BY <1>1
  <2>2. \E w \in W : Rank(W, w) = i - 1
    BY <1>7, <2>1
  <2>3. f[i] = CHOOSE w \in W : Rank(W, w) = i - 1
    BY <1>8
  <2> HIDE DEF f
  <2> QED
    BY <2>2, <2>3
<1>10. ASSUME NEW w \in W PROVE \E i \in 1 .. n : f[i] = w
  <2>1. Rank(W, w) + 1 \in 1 .. n /\ (Rank(W, w) + 1) - 1 = Rank(W, w)
    BY <1>1, RankRange
  <2> HIDE DEF f
  <2>2. f[Rank(W, w) + 1] \in W /\ Rank(W, f[Rank(W, w) + 1]) = Rank(W, w)
    BY <1>9, <2>1
  <2>3. r[f[Rank(W, w) + 1]] = r[w]
    BY <2>2
  <2>4. f[Rank(W, w) + 1] = w
    <3> HIDE DEF r
    <3> QED
      BY <1>3, <2>2, <2>3
  <2> QED
    BY <2>1, <2>4
<1> HIDE DEF n, r, S
<1>11. DOMAIN f = 1 .. n
  BY <1>8
<1>12. f \in [1 .. n -> Word]
  <2>1. \A i \in 1 .. n : f[i] \in Word
    BY <1>9
  <2>2. f = [i \in 1 .. n |-> f[i]]
    BY <1>8
  <2> HIDE DEF f
  <2> QED
    BY <2>1, <2>2
<1> HIDE DEF f
<1>13. f \in Seq(Word)
  BY <1>1, <1>12, MapSeq
<1>14. ToSet(f) = W
  BY <1>9, <1>10, <1>11 DEF ToSet
<1> QED
  BY <1>13, <1>14 DEF f

-----------------------------------------------------------------------------
(***************************************************************************)
(* Which models' facts the hash tells apart.                               *)
(***************************************************************************)
HashedWords(inst, s) ==
  Ascending(QualityWords(inst.facts, s)) \o Ascending(TopologyWords(inst.facts, s))

\* No two states over the facts of this model collide.
NoCollision(inst) ==
  \A s, t \in ModelStates(inst) :
    Digest(HashedWords(inst, s)) = Digest(HashedWords(inst, t)) =>
      HashedWords(inst, s) = HashedWords(inst, t)

\* All numbers are within their fields; no link has the value that is numbered
\* 0, which would make its word that of a quality; links differ in more than
\* their operation, which is not encoded; and the hash is free of collisions.
ToldApart(inst) ==
  /\ NoCollision(inst)
  /\ inst.assets <= AssetSpan
  /\ Len(inst.facts) <= AttrSpan /\ Len(inst.facts) <= PropSpan
  /\ Len(inst.facts) <= ValueSpan
  /\ \A f \in LinksOf(inst) : f.value # inst.facts[1]
  /\ \A f, g \in LinksOf(inst) : f.op = g.op

LEMMA ImageFinite ==
  ASSUME NEW n \in Nat, NEW T, NEW g \in [1 .. n -> T],
         \A x \in T : \E i \in 1 .. n : g[i] = x
  PROVE  IsFiniteSet(T)
<1>1. IsFiniteSet(1 .. n)
  <2>1. \A k \in Nat : IsFiniteSet(1 .. k)
    BY FS_Interval
  <2> QED
    BY <2>1
<1>2. g \in Surjection(1 .. n, T)
  BY DEF Surjection
<1> QED
  BY <1>1, <1>2, FS_Surjection

LEMMA NumberKept ==
  ASSUME NEW inst \in Instances, NEW str, Known(inst.facts, str),
         NEW span \in Nat \ {0}, Len(inst.facts) <= span
  PROVE  /\ KeyvalueAt(inst.facts, str) < span
         /\ KeyvalueAt(inst.facts, str) % span = KeyvalueAt(inst.facts, str)
         /\ KeyvalueAt(inst.facts, str) = 0 => inst.facts[1] = str
<1>1. inst.facts \in Seq(STRING)
  BY ModelStrings
<1>2. KeyvalueAt(inst.facts, str) \in 0 .. Len(inst.facts) - 1
  BY <1>1, KeyvalueAtRange
<1>3. inst.facts[KeyvalueAt(inst.facts, str) + 1] = str
  BY <1>1, StringAtPosition
<1>4. Len(inst.facts) \in Nat
  BY <1>1
<1>5. KeyvalueAt(inst.facts, str) \in Nat /\ KeyvalueAt(inst.facts, str) < span
  BY <1>2, <1>4
<1>6. KeyvalueAt(inst.facts, str) % span = KeyvalueAt(inst.facts, str)
  BY <1>5, FieldKept
<1> QED
  BY <1>3, <1>5, <1>6

\* The words of the qualities of a state of the model.
LEMMA WordsOfQualities ==
  ASSUME NEW inst \in Instances, NEW s \in ModelStates(inst)
  PROVE  /\ QualityWords(inst.facts, s) \in SUBSET QualityWord
         /\ QualityWords(inst.facts, s) \in SUBSET Word
         /\ IsFiniteSet(QualityWords(inst.facts, s))
<1> DEFINE kv == inst.facts
           word(q) == EncodeQuality(kv, q.asset, q.name, q.value)
<1>1. s.qualities \in Seq(ModelQualities(inst))
  BY DEF ModelStates, StatesOver
<1>2. ASSUME NEW q \in ModelQualities(inst)
      PROVE  word(q) \in QualityWord
  <2>1. /\ kv \in Seq(STRING) /\ q \in QualityType
        /\ Known(kv, q.name) /\ Known(kv, q.value)
    BY ModelStrings DEF ModelQualities
  <2>2. Quality(kv, q.asset, q.name, q.value) \in QualityType
    BY <2>1, QualityTyped DEF QualityType
  <2> QED
    BY <2>2 DEF Quality, QualityType
<1> DEFINE g == [i \in DOMAIN s.qualities |-> word(s.qualities[i])]
           W == QualityWords(kv, s)
<1>3. W = {word(q) : q \in ToSet(s.qualities)}
  BY DEF QualityWords
<1> HIDE DEF W, word
<1>4. W \in SUBSET QualityWord
  BY <1>1, <1>2, <1>3, ToSetElement
<1>5. IsFiniteSet(W)
  <2>1. PICK n \in Nat : DOMAIN s.qualities = 1 .. n
    BY <1>1, LengthTyped
  <2>2. \A i \in 1 .. n : g[i] \in W
    BY <1>3, <2>1 DEF ToSet
  <2>3. g \in [1 .. n -> W]
    BY <2>1, <2>2
  <2>4. \A x \in W : \E i \in 1 .. n : g[i] = x
    BY <1>3, <2>1 DEF ToSet
  <2> HIDE DEF g
  <2> QED
    BY <2>3, <2>4, ImageFinite
<1> QED
  BY <1>4, <1>5 DEF QualityWord, W

\* The words of its links, which are those of no quality.
LEMMA WordsOfLinks ==
  ASSUME NEW inst \in Instances, ToldApart(inst), NEW s \in ModelStates(inst)
  PROVE  /\ \A w \in TopologyWords(inst.facts, s) : w[4] # 0
         /\ TopologyWords(inst.facts, s) \in SUBSET Word
         /\ IsFiniteSet(TopologyWords(inst.facts, s))
<1> DEFINE kv == inst.facts
           word(t) == EncodeTopology(kv, t.from, t.to, t.dir, t.property, t.value)
<1>1. s.topologies \in Seq(ModelTopologies(inst))
  BY DEF ModelStates, StatesOver
<1>2. ASSUME NEW t \in ModelTopologies(inst)
      PROVE  word(t) \in Word /\ word(t)[4] # 0
  <2>1. /\ kv \in Seq(STRING) /\ t \in TopologyType
        /\ Known(kv, t.property) /\ Known(kv, t.value) /\ t.value # kv[1]
    BY ModelStrings DEF ModelTopologies, ToldApart
  <2>2. Topology(kv, t.from, t.to, t.dir, t.property, t.op, t.value) \in TopologyType
    BY <2>1, TopologyTyped DEF TopologyType
  <2>3. word(t) \in Word
    BY <2>2 DEF Topology, TopologyType
  <2>4. KeyvalueAt(kv, t.value) % ValueSpan # 0
    BY <2>1, NumberKept, SpanAssumption DEF ToldApart
  <2>5. word(t)[4] = KeyvalueAt(kv, t.value) % ValueSpan
    BY DEF EncodeTopology
  <2> QED
    BY <2>3, <2>4, <2>5
<1> DEFINE g == [i \in DOMAIN s.topologies |-> word(s.topologies[i])]
           W == TopologyWords(kv, s)
<1>3. W = {word(t) : t \in ToSet(s.topologies)}
  BY DEF TopologyWords
<1> HIDE DEF W, word
<1>4. W \in SUBSET Word /\ \A w \in W : w[4] # 0
  BY <1>1, <1>2, <1>3, ToSetElement
<1>5. IsFiniteSet(W)
  <2>1. PICK n \in Nat : DOMAIN s.topologies = 1 .. n
    BY <1>1, LengthTyped
  <2>2. \A i \in 1 .. n : g[i] \in W
    BY <1>3, <2>1 DEF ToSet
  <2>3. g \in [1 .. n -> W]
    BY <2>1, <2>2
  <2>4. \A x \in W : \E i \in 1 .. n : g[i] = x
    BY <1>3, <2>1 DEF ToSet
  <2> HIDE DEF g
  <2> QED
    BY <2>3, <2>4, ImageFinite
<1> QED
  BY <1>4, <1>5 DEF W

\* The elements of two sequences, one after the other.
LEMMA ConcatenatedSet ==
  ASSUME NEW S, NEW s \in Seq(S), NEW t \in Seq(S)
  PROVE  s \o t \in Seq(S) /\ ToSet(s \o t) = ToSet(s) \cup ToSet(t)
<1>1. /\ s \o t \in Seq(S) /\ Len(s \o t) = Len(s) + Len(t)
      /\ Len(s) \in Nat /\ Len(t) \in Nat
      /\ DOMAIN s = 1 .. Len(s) /\ DOMAIN t = 1 .. Len(t)
      /\ DOMAIN (s \o t) = 1 .. Len(s) + Len(t)
      /\ \A i \in 1 .. Len(s) + Len(t) :
           (s \o t)[i] = IF i <= Len(s) THEN s[i] ELSE t[i - Len(s)]
  BY ConcatProperties
<1> DEFINE u == s \o t
<1> HIDE DEF u
<1>2. ASSUME NEW i \in 1 .. Len(s) + Len(t) PROVE u[i] \in ToSet(s) \cup ToSet(t)
  <2>1. CASE i <= Len(s)
    BY <1>1, <2>1 DEF ToSet, u
  <2>2. CASE ~ (i <= Len(s))
    <3>1. i - Len(s) \in 1 .. Len(t) /\ u[i] = t[i - Len(s)]
      BY <1>1, <2>2 DEF u
    <3> QED
      BY <1>1, <3>1 DEF ToSet
  <2> QED
    BY <2>1, <2>2
<1>3. ASSUME NEW i \in 1 .. Len(s) PROVE \E j \in 1 .. Len(s) + Len(t) : u[j] = s[i]
  <2>1. i \in 1 .. Len(s) + Len(t) /\ u[i] = s[i]
    BY <1>1 DEF u
  <2> QED
    BY <2>1
<1>4. ASSUME NEW i \in 1 .. Len(t) PROVE \E j \in 1 .. Len(s) + Len(t) : u[j] = t[i]
  <2>1. i + Len(s) \in 1 .. Len(s) + Len(t) /\ ~ (i + Len(s) <= Len(s))
        /\ (i + Len(s)) - Len(s) = i
    BY <1>1
  <2>2. u[i + Len(s)] = t[i]
    BY <1>1, <2>1 DEF u
  <2> QED
    BY <2>1, <2>2
<1>5. ToSet(u) = {u[i] : i \in 1 .. Len(s) + Len(t)}
  BY <1>1 DEF ToSet, u
<1>6. ToSet(s) = {s[i] : i \in 1 .. Len(s)} /\ ToSet(t) = {t[i] : i \in 1 .. Len(t)}
  BY <1>1 DEF ToSet
<1>7. ToSet(u) = ToSet(s) \cup ToSet(t)
  BY <1>2, <1>3, <1>4, <1>5, <1>6
<1> QED
  BY <1>1, <1>7 DEF u

\* Two states of the model with the same hash have the same words.
LEMMA SameWords ==
  ASSUME NEW inst \in Instances, ToldApart(inst),
         NEW s \in ModelStates(inst), NEW t \in ModelStates(inst),
         Hash(inst.facts, s) = Hash(inst.facts, t)
  PROVE  /\ QualityWords(inst.facts, s) = QualityWords(inst.facts, t)
         /\ TopologyWords(inst.facts, s) = TopologyWords(inst.facts, t)
<1> DEFINE Q(x) == QualityWords(inst.facts, x)
           T(x) == TopologyWords(inst.facts, x)
           all(x) == Ascending(Q(x)) \o Ascending(T(x))
<1>1. ASSUME NEW x \in ModelStates(inst)
      PROVE  /\ all(x) \in Seq(Word) /\ ToSet(all(x)) = Q(x) \cup T(x)
             /\ \A w \in Q(x) : w[4] = 0
             /\ \A w \in T(x) : w[4] # 0
  <2>1. /\ Q(x) \in SUBSET QualityWord /\ Q(x) \in SUBSET Word /\ IsFiniteSet(Q(x))
        /\ T(x) \in SUBSET Word /\ IsFiniteSet(T(x)) /\ \A w \in T(x) : w[4] # 0
    BY WordsOfQualities, WordsOfLinks
  <2> HIDE DEF Q, T
  <2>2. /\ Ascending(Q(x)) \in Seq(Word) /\ ToSet(Ascending(Q(x))) = Q(x)
        /\ Ascending(T(x)) \in Seq(Word) /\ ToSet(Ascending(T(x))) = T(x)
    BY <2>1, AllIterated
  <2>3. \A w \in Q(x) : w[4] = 0
    BY <2>1 DEF QualityWord
  <2> QED
    BY <2>1, <2>2, <2>3, ConcatenatedSet
<1>2. Digest(all(s)) = Digest(all(t))
  BY DEF Hash
<1>3. all(s) = all(t)
  BY <1>2 DEF ToldApart, NoCollision, HashedWords
<1> HIDE DEF all
<1>4. Q(s) \cup T(s) = Q(t) \cup T(t)
  BY <1>1, <1>3
<1> HIDE DEF Q, T
<1>5. Q(s) = Q(t) /\ T(s) = T(t)
  BY <1>1, <1>4
<1> QED
  BY <1>5 DEF Q, T

\* So they have the same facts.
LEMMA SameHashSameFacts ==
  ASSUME NEW inst \in Instances, ToldApart(inst),
         NEW s \in ModelStates(inst), NEW t \in ModelStates(inst),
         Hash(inst.facts, s) = Hash(inst.facts, t)
  PROVE  FactsOf(s) = FactsOf(t)
<1> DEFINE kv == inst.facts
<1>1. /\ kv \in Seq(STRING) /\ inst.assets \in Nat
  BY ModelStrings, InstancesAssumption DEF InstanceType
<1>2. ASSUME NEW x \in ModelStates(inst), NEW y \in ModelStates(inst),
             QualityWords(kv, x) = QualityWords(kv, y), NEW q \in ToSet(x.qualities)
      PROVE  \E r \in ToSet(y.qualities) :
               q.asset = r.asset /\ q.name = r.name /\ q.value = r.value
  <2>1. /\ x.qualities \in Seq(ModelQualities(inst))
        /\ y.qualities \in Seq(ModelQualities(inst))
    BY DEF ModelStates, StatesOver
  <2>2. EncodeQuality(kv, q.asset, q.name, q.value) \in QualityWords(kv, y)
    BY <1>2 DEF QualityWords
  <2>3. PICK r \in ToSet(y.qualities) :
          EncodeQuality(kv, q.asset, q.name, q.value)
            = EncodeQuality(kv, r.asset, r.name, r.value)
    BY <2>2 DEF QualityWords
  <2>4. \A z \in {q, r} :
           /\ z.asset \in Nat /\ z.asset < AssetSpan
           /\ Known(kv, z.name) /\ KeyvalueAt(kv, z.name) < AttrSpan
           /\ Known(kv, z.value) /\ KeyvalueAt(kv, z.value) < ValueSpan
    <3>1. q \in ModelQualities(inst) /\ r \in ModelQualities(inst)
      BY <2>1, ToSetElement
    <3> SUFFICES ASSUME NEW z \in ModelQualities(inst)
                 PROVE  /\ z.asset \in Nat /\ z.asset < AssetSpan
                        /\ Known(kv, z.name) /\ KeyvalueAt(kv, z.name) < AttrSpan
                        /\ Known(kv, z.value) /\ KeyvalueAt(kv, z.value) < ValueSpan
      BY <3>1
    <3>2. z.asset \in Nat /\ z.asset < inst.assets /\ Known(kv, z.name) /\ Known(kv, z.value)
      BY ModelStrings DEF ModelQualities, QualityType
    <3>3. KeyvalueAt(kv, z.name) < AttrSpan /\ KeyvalueAt(kv, z.value) < ValueSpan
      BY <3>2, NumberKept, SpanAssumption DEF ToldApart
    <3>4. z.asset < AssetSpan
      BY <1>1, <3>2, SpanAssumption DEF ToldApart
    <3> QED
      BY <3>2, <3>3, <3>4
  <2>5. q.asset = r.asset /\ q.name = r.name /\ q.value = r.value
    BY <1>1, <2>3, <2>4, QualitiesToldApart
  <2> QED
    BY <2>5
<1>3. ASSUME NEW x \in ModelStates(inst), NEW y \in ModelStates(inst),
             TopologyWords(kv, x) = TopologyWords(kv, y), NEW q \in ToSet(x.topologies)
      PROVE  \E r \in ToSet(y.topologies) :
               /\ q.from = r.from /\ q.to = r.to /\ q.dir = r.dir
               /\ q.property = r.property /\ q.op = r.op /\ q.value = r.value
  <2>1. /\ x.topologies \in Seq(ModelTopologies(inst))
        /\ y.topologies \in Seq(ModelTopologies(inst))
    BY DEF ModelStates, StatesOver
  <2>2. EncodeTopology(kv, q.from, q.to, q.dir, q.property, q.value) \in TopologyWords(kv, y)
    BY <1>3 DEF TopologyWords
  <2>3. PICK r \in ToSet(y.topologies) :
          EncodeTopology(kv, q.from, q.to, q.dir, q.property, q.value)
            = EncodeTopology(kv, r.from, r.to, r.dir, r.property, r.value)
    BY <2>2 DEF TopologyWords
  <2>4. q \in ModelTopologies(inst) /\ r \in ModelTopologies(inst)
    BY <2>1, ToSetElement
  <2>5. \A z \in {q, r} :
           /\ z.from \in Nat /\ z.from < AssetSpan /\ z.to \in Nat /\ z.to < AssetSpan
           /\ z.dir \in Directions
           /\ Known(kv, z.property) /\ KeyvalueAt(kv, z.property) < PropSpan
           /\ Known(kv, z.value) /\ KeyvalueAt(kv, z.value) < ValueSpan
    <3> SUFFICES ASSUME NEW z \in ModelTopologies(inst)
                 PROVE  /\ z.from \in Nat /\ z.from < AssetSpan
                        /\ z.to \in Nat /\ z.to < AssetSpan
                        /\ z.dir \in Directions
                        /\ Known(kv, z.property) /\ KeyvalueAt(kv, z.property) < PropSpan
                        /\ Known(kv, z.value) /\ KeyvalueAt(kv, z.value) < ValueSpan
      BY <2>4
    <3>2. /\ z.from \in Nat /\ z.from < inst.assets /\ z.to \in Nat /\ z.to < inst.assets
          /\ z.dir \in Directions /\ Known(kv, z.property) /\ Known(kv, z.value)
      BY ModelStrings DEF ModelTopologies, TopologyType
    <3>3. KeyvalueAt(kv, z.property) < PropSpan /\ KeyvalueAt(kv, z.value) < ValueSpan
      BY <3>2, NumberKept, SpanAssumption DEF ToldApart
    <3>4. z.from < AssetSpan /\ z.to < AssetSpan
      BY <1>1, <3>2, SpanAssumption DEF ToldApart
    <3> QED
      BY <3>2, <3>3, <3>4
  <2>6. /\ q.from = r.from /\ q.to = r.to /\ q.dir = r.dir
        /\ q.property = r.property /\ q.value = r.value
    BY <1>1, <2>3, <2>5, TopologiesToldApart
  <2>7. q.op = r.op
    BY <2>4 DEF ModelTopologies, ToldApart
  <2> QED
    BY <2>6, <2>7
<1>4. /\ QualityWords(kv, s) = QualityWords(kv, t)
      /\ TopologyWords(kv, s) = TopologyWords(kv, t)
  BY SameWords
<1>5. FactsOf(s).quals = FactsOf(t).quals
  <2> DEFINE F(q) == Facts!QualityFact(q.asset, q.name, q.value)
  <2>1. \A q, r : q.asset = r.asset /\ q.name = r.name /\ q.value = r.value => F(q) = F(r)
    OBVIOUS
  <2>2. /\ FactsOf(s).quals = {F(q) : q \in ToSet(s.qualities)}
        /\ FactsOf(t).quals = {F(q) : q \in ToSet(t.qualities)}
    BY DEF FactsOf, Facts!FactSet, Facts!Elements, ToSet
  <2> HIDE DEF F
  <2>3. \A q \in ToSet(s.qualities) : \E r \in ToSet(t.qualities) : F(q) = F(r)
    BY <1>2, <1>4, <2>1
  <2>4. \A r \in ToSet(t.qualities) : \E q \in ToSet(s.qualities) : F(q) = F(r)
    BY <1>2, <1>4, <2>1
  <2> QED
    BY <2>2, <2>3, <2>4
<1>6. FactsOf(s).links = FactsOf(t).links
  <2> DEFINE F(q) == Facts!LinkFact(q.from, q.to, q.dir, q.property, q.op, q.value)
  <2>1. \A q, r : (/\ q.from = r.from /\ q.to = r.to /\ q.dir = r.dir
                   /\ q.property = r.property /\ q.op = r.op /\ q.value = r.value)
                  => F(q) = F(r)
    OBVIOUS
  <2>2. /\ FactsOf(s).links = {F(q) : q \in ToSet(s.topologies)}
        /\ FactsOf(t).links = {F(q) : q \in ToSet(t.topologies)}
    BY DEF FactsOf, Facts!FactSet, Facts!Elements, ToSet
  <2> HIDE DEF F
  <2>3. \A q \in ToSet(s.topologies) : \E r \in ToSet(t.topologies) : F(q) = F(r)
    BY <1>3, <1>4, <2>1
  <2>4. \A r \in ToSet(t.topologies) : \E q \in ToSet(s.topologies) : F(q) = F(r)
    BY <1>3, <1>4, <2>1
  <2> QED
    BY <2>2, <2>3, <2>4
<1>7. \A x : FactsOf(x) = [quals |-> FactsOf(x).quals, links |-> FactsOf(x).links]
  BY DEF FactsOf, Facts!FactSet
<1> QED
  BY <1>5, <1>6, <1>7

LEMMA NodeOfModel ==
  ASSUME FactsOfModel, NEW i \in Ids
  PROVE  Node(i) \in ModelStates(instance)
<1>1. i + 1 \in DOMAIN factbases
  BY DEF FactsOfModel, Ids
<1> QED
  BY <1>1, ElementTyped DEF FactsOfModel, Node

\* What an edge's exploit gave, and where the edge leads.
LEMMA OutcomeOfEdge ==
  ASSUME IInv, FactsOfModel, NEW e \in ToSet(edges)
  PROVE  /\ e.from \in Ids /\ e.to \in Ids
         /\ \E m \in Moves(instance, Node(e.from)) :
              EdgeOf(e, e.from, m) /\ Outcome(e) = Successor(instance, Node(e.from), m)
         /\ Outcome(e) \in ModelStates(instance)
         /\ Hash(instance.facts, Outcome(e)) = Hash(instance.facts, Node(e.to))
<1>1. PICK k \in DOMAIN edges : edges[k] = e
  BY DEF ToSet
<1>2. EdgeSound(e)
  BY <1>1 DEF IInv, EdgesSound
<1>3. /\ e.from \in Ids /\ e.to \in Ids
      /\ \E m \in Moves(instance, Node(e.from)) :
           /\ EdgeOf(e, e.from, m)
           /\ HashOf(Successor(instance, Node(e.from), m)) = HashOf(Node(e.to))
  BY <1>2 DEF EdgeSound
<1>4. PICK m \in Moves(instance, Node(e.from)) :
           /\ EdgeOf(e, e.from, m)
           /\ HashOf(Successor(instance, Node(e.from), m)) = HashOf(Node(e.to))
  BY <1>3
<1>5. Outcome(e) = Successor(instance, Node(e.from), m)
  BY <1>4 DEF Outcome, Successor, Exploit, EdgeOf
<1>6. m \in Candidates(instance) /\ instance \in Instances
  BY DEF Moves, IInv, TypeOK
<1>7. Outcome(e) \in ModelStates(instance)
  BY <1>3, <1>5, <1>6, NodeOfModel, SuccessorOfModel
<1> QED
  BY <1>3, <1>4, <1>5, <1>7 DEF HashOf

\* Equal hashes mean equal facts, as long as the model is one whose facts the
\* hash tells apart: every edge leads to the very facts that its exploit gave
\* (Factbase::hash, hash_map).
THEOREM EdgesLeadToTheFacts ==
  Spec => [](ToldApart(instance) => EdgesFaithful)
<1>1. ASSUME IInv, FactsOfModel, ToldApart(instance), NEW e \in ToSet(edges)
      PROVE  FactsOf(Outcome(e)) = FactsOf(Node(e.to))
  <2>1. instance \in Instances
    BY <1>1 DEF IInv, TypeOK
  <2> QED
    BY <1>1, <2>1, OutcomeOfEdge, NodeOfModel, SameHashSameFacts
<1>2. IInv /\ FactsOfModel => (ToldApart(instance) => EdgesFaithful)
  BY <1>1 DEF EdgesFaithful
<1> QED
  BY <1>2, Invariance, StatesAreOfModel, PTL

-----------------------------------------------------------------------------
(***************************************************************************)
(* What an exploit makes of the facts of a state.  Most changes are to all *)
(* the facts that match, but a delete erases the first that does; so what  *)
(* is deleted must not be in the vector twice.                             *)
(***************************************************************************)
QualityPostconds(inst) == UNION {ToSet(ex.postconds_q) : ex \in ToSet(inst.exploits)}

LinkPostconds(inst) == UNION {ToSet(ex.postconds_t) : ex \in ToSet(inst.exploits)}

Deleted(postconds) == {p.fact : p \in {r \in postconds : r.action = "delete"}}

DeletedNames(inst) == {f.name : f \in Deleted(QualityPostconds(inst))}

DeletedProperties(inst) == {f.property : f \in Deleted(LinkPostconds(inst))}

SingleQualities(inst, s) ==
  \A i, j \in DOMAIN s :
    s[i].name \in DeletedNames(inst) /\ QualityEq(s[i], s[j]) => i = j

SingleLinks(inst, s) ==
  \A i, j \in DOMAIN s : s[i].property \in DeletedProperties(inst) =>
    /\ s[i].from # s[i].to
    /\ Facts!SameLink(s[i], s[j]) => i = j

\* What is deleted is never updated, so no two facts become alike; and if links
\* are deleted, all links go both ways.
DeletesSingle(inst) ==
  /\ \A p \in QualityPostconds(inst) :
       p.action = "update" => p.fact.name \notin DeletedNames(inst)
  /\ \A p \in LinkPostconds(inst) :
       p.action = "update" => p.fact.property \notin DeletedProperties(inst)
  /\ DeletedProperties(inst) # {} => \A f \in LinksOf(inst) : f.dir = BIDIRECTION
  /\ SingleQualities(inst, inst.initial_qualities)
  /\ SingleLinks(inst, inst.initial_topologies)

\* The move connects no asset to itself, with a link of one of these properties.
LoopFree(inst, m, properties) ==
  \A p \in ToSet(Exploit(inst, m).postconds_t) :
    p.action = "add" /\ p.fact.property \in properties =>
      AssetGroup(inst, m)[p.fact.from_param + 1] # AssetGroup(inst, m)[p.fact.to_param + 1]

NoLoops(properties) ==
  \A i \in Ids : \A m \in Moves(instance, Node(i)) : LoopFree(instance, m, properties)

SingleStates(inst) ==
  {ns \in ModelStates(inst) :
     SingleQualities(inst, ns.qualities) /\ SingleLinks(inst, ns.topologies)}

QualityFactOf(q) == Facts!QualityFact(q.asset, q.name, q.value)

LinkFactOf(t) == Facts!LinkFact(t.from, t.to, t.dir, t.property, t.op, t.value)

Quals(s) == {QualityFactOf(q) : q \in ToSet(s)}

Links(s) == {LinkFactOf(t) : t \in ToSet(s)}

LEMMA FactsOfState ==
  \A ns : FactsOf(ns) = [quals |-> Quals(ns.qualities), links |-> Links(ns.topologies)]
BY DEF FactsOf, Facts!FactSet, Facts!Elements, ToSet, Quals, Links, QualityFactOf, LinkFactOf

-----------------------------------------------------------------------------
(* Sequences changed at one place, or at all.                              *)

LEMMA AppendedSet ==
  ASSUME NEW S, NEW s \in Seq(S), NEW x \in S, NEW t, t = Append(s, x)
  PROVE  ToSet(t) = ToSet(s) \cup {x}
<1>1. /\ DOMAIN t = DOMAIN s \cup {Len(s) + 1} /\ t[Len(s) + 1] = x
      /\ \A i \in DOMAIN s : t[i] = s[i]
  BY Appended
<1> QED
  BY <1>1 DEF ToSet

LEMMA RemovedAt ==
  ASSUME NEW S, NEW s \in Seq(S), NEW i \in 1 .. Len(s), NEW t, t = RemoveAt(s, i)
  PROVE  /\ t \in Seq(S)
         /\ DOMAIN t = 1 .. Len(s) - 1
         /\ \A j \in 1 .. Len(s) - 1 : t[j] = IF j < i THEN s[j] ELSE s[j + 1]
<1> DEFINE a == SubSeq(s, 1, i - 1)
           b == SubSeq(s, i + 1, Len(s))
           n == Len(s)
<1>1. n \in Nat /\ i \in Nat /\ 1 <= i /\ i <= n
  OBVIOUS
<1>2. /\ a \in Seq(S) /\ Len(a) = i - 1
      /\ \A j \in 1 .. i - 1 : a[j] = s[j]
  BY <1>1, SubSeqProperties
<1>3. /\ b \in Seq(S) /\ Len(b) = n - i
      /\ \A j \in 1 .. n - i : b[j] = s[i + j]
  <2>1. b \in Seq(S)
    BY <1>1, SubSeqProperties
  <2>2. Len(b) = n - i
    BY <1>1, SubSeqProperties
  <2>3. ASSUME NEW j \in 1 .. n - i PROVE b[j] = s[i + j]
    <3>1. i + 1 + j - 1 = i + j
      BY <1>1
    <3> QED
      BY <1>1, <3>1, SubSeqProperties
  <2> QED
    BY <2>1, <2>2, <2>3
<1>4. t = a \o b
  BY DEF RemoveAt
<1> HIDE DEF a, b, n
<1>5. /\ t \in Seq(S) /\ Len(t) = n - 1 /\ DOMAIN t = 1 .. n - 1
      /\ \A j \in 1 .. n - 1 : t[j] = IF j <= i - 1 THEN a[j] ELSE b[j - (i - 1)]
  <2>1. /\ a \o b \in Seq(S) /\ Len(a \o b) = Len(a) + Len(b)
        /\ \A j \in 1 .. Len(a) + Len(b) :
             (a \o b)[j] = IF j <= Len(a) THEN a[j] ELSE b[j - Len(a)]
    BY <1>2, <1>3, ConcatProperties
  <2>2. Len(a) + Len(b) = n - 1
    BY <1>1, <1>2, <1>3
  <2> QED
    BY <1>2, <1>4, <2>1, <2>2
<1>6. ASSUME NEW j \in 1 .. n - 1 PROVE t[j] = IF j < i THEN s[j] ELSE s[j + 1]
  <2>1. CASE j <= i - 1
    <3>1. j \in 1 .. i - 1 /\ j < i
      BY <1>1, <2>1
    <3> QED
      BY <1>2, <1>5, <2>1, <3>1
  <2>2. CASE ~ (j <= i - 1)
    <3>1. j - (i - 1) \in 1 .. n - i /\ i + (j - (i - 1)) = j + 1 /\ ~ (j < i)
      BY <1>1, <2>2
    <3> QED
      BY <1>3, <1>5, <2>2, <3>1
  <2> QED
    BY <2>1, <2>2
<1> QED
  BY <1>5, <1>6 DEF n

\* Every place but the one removed has a place in what remains, and two places
\* that remain come from two.
Remains(t, s, i, from) ==
  /\ from \in [DOMAIN t -> DOMAIN s \ {i}]
  /\ \A j \in DOMAIN t : t[j] = s[from[j]]
  /\ \A j, k \in DOMAIN t : from[j] = from[k] => j = k
  /\ \A k \in DOMAIN s \ {i} : \E j \in DOMAIN t : from[j] = k

LEMMA RemainingPlaces ==
  ASSUME NEW S, NEW s \in Seq(S), NEW i \in 1 .. Len(s), NEW t, t = RemoveAt(s, i)
  PROVE  \E from : Remains(t, s, i, from)
<1>1. /\ DOMAIN t = 1 .. Len(s) - 1 /\ DOMAIN s = 1 .. Len(s) /\ Len(s) \in Nat
      /\ \A j \in 1 .. Len(s) - 1 : t[j] = IF j < i THEN s[j] ELSE s[j + 1]
  BY RemovedAt
<1>2. PICK n \in Nat : n = Len(s)
  BY <1>1
<1> DEFINE from == [j \in 1 .. n - 1 |-> IF j < i THEN j ELSE j + 1]
<1>3. from \in [1 .. n - 1 -> (1 .. n) \ {i}]
  BY <1>2
<1>4. ASSUME NEW j \in 1 .. n - 1 PROVE t[j] = s[from[j]]
  <2>1. t[j] = IF j < i THEN s[j] ELSE s[j + 1]
    BY <1>1, <1>2
  <2> QED
    BY <2>1
<1>5. \A j, k \in 1 .. n - 1 : from[j] = from[k] => j = k
  BY <1>2
<1>6. \A k \in (1 .. n) \ {i} : \E j \in 1 .. n - 1 : from[j] = k
  <2> SUFFICES ASSUME NEW k \in (1 .. n) \ {i} PROVE \E j \in 1 .. n - 1 : from[j] = k
    OBVIOUS
  <2>1. CASE k < i
    <3>1. k \in 1 .. n - 1 /\ from[k] = k
      BY <1>2, <2>1
    <3> QED
      BY <3>1
  <2>2. CASE ~ (k < i)
    <3>1. k - 1 \in 1 .. n - 1 /\ ~ (k - 1 < i) /\ k - 1 + 1 = k
      BY <1>2, <2>2
    <3>2. from[k - 1] = k
      BY <3>1
    <3> QED
      BY <3>1, <3>2
  <2> QED
    BY <2>1, <2>2
<1> HIDE DEF from
<1>7. DOMAIN t = 1 .. n - 1 /\ DOMAIN s = 1 .. n
  BY <1>1, <1>2
<1>8. from \in [DOMAIN t -> DOMAIN s \ {i}]
  BY <1>3, <1>7
<1>9. Remains(t, s, i, from)
  BY <1>4, <1>5, <1>6, <1>7, <1>8, Zenon DEF Remains
<1> QED
  BY <1>9, Zenon

-----------------------------------------------------------------------------
(***************************************************************************)
(* What the changes do to the facts, whatever the order of the vectors.    *)
(***************************************************************************)
LEMMA QualityFacts ==
  /\ \A q, r : QualityFactOf(q) = QualityFactOf(r) <=> QualityEq(q, r)
  /\ \A q : /\ QualityFactOf(q).asset = q.asset /\ QualityFactOf(q).name = q.name
            /\ QualityFactOf(q).value = q.value
  /\ \A s, f : f \in Quals(s) <=> \E i \in DOMAIN s : f = QualityFactOf(s[i])
<1>1. \A q, r : QualityFactOf(q) = QualityFactOf(r) <=> QualityEq(q, r)
  BY DEF QualityFactOf, Facts!QualityFact, QualityEq
<1>2. \A q : /\ QualityFactOf(q).asset = q.asset /\ QualityFactOf(q).name = q.name
             /\ QualityFactOf(q).value = q.value
  BY DEF QualityFactOf, Facts!QualityFact
<1>3. \A s, f : f \in Quals(s) <=> \E i \in DOMAIN s : f = QualityFactOf(s[i])
  BY DEF Quals, ToSet
<1> QED
  BY <1>1, <1>2, <1>3

LEMMA QualityFound ==
  ASSUME NEW ns, NEW q
  PROVE  FindQuality(ns, q) <=> QualityFactOf(q) \in Quals(ns.qualities)
BY QualityFacts DEF FindQuality, QualityEq

LEMMA FirstQualityMatches ==
  ASSUME NEW Q, NEW ns, ns.qualities \in Seq(Q), NEW q, FindQuality(ns, q)
  PROVE  QualityEq(ns.qualities[FirstQuality(ns, q)], q)
<1> DEFINE I == {i \in 1 .. Len(ns.qualities) : QualityEq(ns.qualities[i], q)}
<1>2. Len(ns.qualities) \in Nat /\ DOMAIN ns.qualities = 1 .. Len(ns.qualities)
  OBVIOUS
<1>3. I # {} /\ I \in SUBSET (1 .. Len(ns.qualities))
  BY <1>2 DEF FindQuality
<1>4. FirstQuality(ns, q) = Min(I)
  BY <1>3 DEF FirstQuality, SelectInSeq
<1>5. \A i \in I : QualityEq(ns.qualities[i], q)
  OBVIOUS
<1> HIDE DEF I
<1>6. Min(I) \in I
  BY <1>2, <1>3, FirstMatch
<1> QED
  BY <1>4, <1>5, <1>6

\* Adding, updating or deleting a quality does to the set of the facts what it says.
LEMMA QualityChanged ==
  ASSUME NEW inst, NEW Q, NEW T, NEW ns \in StatesOver(Q, T),
         SingleQualities(inst, ns.qualities), Q \subseteq QualityType,
         NEW action \in Actions, NEW q \in Q,
         action = "delete" => q.name \in DeletedNames(inst),
         action = "update" => q.name \notin DeletedNames(inst),
         NEW r, r = ChangeQuality(ns, action, q)
  PROVE  /\ r.topologies = ns.topologies
         /\ Quals(r.qualities)
              = Facts!ChangeQuals(Quals(ns.qualities), action, QualityFactOf(q))
         /\ SingleQualities(inst, r.qualities)
<1> DEFINE s == ns.qualities
           S == Quals(s)
           f == QualityFactOf(q)
<1>1. s \in Seq(Q) /\ Len(s) \in Nat /\ DOMAIN s = 1 .. Len(s)
  BY DEF StatesOver
<1>2. ASSUME NEW z
      PROVE  /\ [ns EXCEPT !.qualities = z].qualities = z
             /\ [ns EXCEPT !.qualities = z].topologies = ns.topologies
  BY <1>2 DEF StatesOver
<1>3. FindQuality(ns, q) <=> f \in S
  BY QualityFound
<1>4. CASE action = "add"
  <2>1. Facts!ChangeQuals(S, action, f) = S \cup {f}
    BY <1>4 DEF Facts!ChangeQuals
  <2>2. CASE FindQuality(ns, q)
    <3>1. r = ns
      BY <1>4, <2>2 DEF ChangeQuality, AddQuality
    <3> QED
      BY <1>3, <2>1, <2>2, <3>1
  <2>3. CASE ~ FindQuality(ns, q)
    <3> DEFINE z == Append(s, q)
    <3>1. r = [ns EXCEPT !.qualities = z]
      BY <1>4, <2>3 DEF ChangeQuality, AddQuality
    <3>2. /\ DOMAIN z = DOMAIN s \cup {Len(s) + 1} /\ z[Len(s) + 1] = q
          /\ \A i \in DOMAIN s : z[i] = s[i]
      BY <1>1, Appended
    <3>3. ToSet(z) = ToSet(s) \cup {q}
      BY <1>1, AppendedSet
    <3> HIDE DEF z
    <3>4. Quals(z) = S \cup {f}
      BY <3>3 DEF Quals
    <3>5. \A i \in DOMAIN s : ~ QualityEq(s[i], q) /\ ~ QualityEq(q, s[i])
      BY <2>3 DEF FindQuality, QualityEq
    <3>6. ASSUME NEW i \in DOMAIN z, NEW j \in DOMAIN z,
                 z[i].name \in DeletedNames(inst), QualityEq(z[i], z[j])
          PROVE  i = j
      BY <3>2, <3>5, <3>6 DEF SingleQualities
    <3>7. SingleQualities(inst, z)
      BY <3>6 DEF SingleQualities
    <3>8. r.qualities = z /\ r.topologies = ns.topologies
      BY <1>2, <3>1
    <3> QED
      BY <2>1, <3>4, <3>7, <3>8
  <2> QED
    BY <2>2, <2>3
<1>5. CASE action = "update"
  <2> DEFINE z == [i \in DOMAIN ns.qualities |->
                     IF ns.qualities[i].asset = q.asset /\ ns.qualities[i].name = q.name
                     THEN [ns.qualities[i] EXCEPT !.value = q.value]
                     ELSE ns.qualities[i]]
             G(g) == IF g.asset = f.asset /\ g.name = f.name THEN f ELSE g
  <2>1. r = [ns EXCEPT !.qualities = z]
    <3>1. r = UpdateQuality(ns, q)
      BY <1>5 DEF ChangeQuality
    <3> QED
      BY <3>1, Zenon DEF UpdateQuality
  <2>2. Facts!ChangeQuals(S, action, f) = {G(g) : g \in S}
    BY <1>5 DEF Facts!ChangeQuals
  <2>3. ASSUME NEW i \in DOMAIN s
        PROVE  /\ z[i].asset = s[i].asset /\ z[i].name = s[i].name
               /\ ~ (s[i].asset = q.asset /\ s[i].name = q.name) => z[i] = s[i]
               /\ QualityFactOf(z[i]) = G(QualityFactOf(s[i]))
    <3>1. s[i] \in QualityType /\ q \in QualityType
      BY <1>1, ElementTyped
    <3>2. CASE s[i].asset = q.asset /\ s[i].name = q.name
      <4>1. z[i] = [s[i] EXCEPT !.value = q.value]
        BY <3>2
      <4> HIDE DEF z
      <4>2. z[i].asset = s[i].asset /\ z[i].name = s[i].name /\ z[i].value = q.value
        BY <3>1, <4>1 DEF QualityType
      <4>3. QualityFactOf(z[i]) = f
        BY <3>2, <4>2, QualityFacts DEF QualityEq
      <4>4. G(QualityFactOf(s[i])) = f
        BY <3>2, QualityFacts
      <4> QED
        BY <3>2, <4>2, <4>3, <4>4
    <3>3. CASE ~ (s[i].asset = q.asset /\ s[i].name = q.name)
      <4>1. z[i] = s[i]
        BY <3>3
      <4>2. G(QualityFactOf(s[i])) = QualityFactOf(s[i])
        BY <3>3, QualityFacts
      <4> QED
        BY <4>1, <4>2
    <3> QED
      BY <3>2, <3>3
  <2>4. DOMAIN z = DOMAIN s
    OBVIOUS
  <2> HIDE DEF z, G, s, f
  <2>5. Quals(z) = {G(g) : g \in S}
    <3>1. \A g : g \in Quals(z) <=> \E i \in DOMAIN s : g = G(QualityFactOf(s[i]))
      BY <2>3, <2>4, QualityFacts
    <3>2. \A g : g \in S <=> \E i \in DOMAIN s : g = QualityFactOf(s[i])
      BY QualityFacts
    <3> HIDE DEF S
    <3> QED
      BY <3>1, <3>2
  <2>6. ASSUME NEW i \in DOMAIN z, NEW j \in DOMAIN z,
               z[i].name \in DeletedNames(inst), QualityEq(z[i], z[j])
        PROVE  i = j
    <3>1. s[i].name \in DeletedNames(inst) /\ s[j].name \in DeletedNames(inst)
      BY <2>3, <2>4, <2>6 DEF QualityEq
    <3>2. z[i] = s[i] /\ z[j] = s[j]
      BY <1>5, <2>3, <2>4, <3>1
    <3> QED
      BY <2>4, <2>6, <3>1, <3>2 DEF SingleQualities, s
  <2>7. SingleQualities(inst, z)
    BY <2>6 DEF SingleQualities
  <2>8. r.qualities = z /\ r.topologies = ns.topologies
    BY <1>2, <2>1
  <2> QED
    BY <2>2, <2>5, <2>7, <2>8 DEF s, f
<1>6. CASE action = "delete"
  <2>1. Facts!ChangeQuals(S, action, f) = S \ {f}
    BY <1>6 DEF Facts!ChangeQuals
  <2>2. CASE ~ FindQuality(ns, q)
    <3>1. r = ns
      BY <1>6, <2>2 DEF ChangeQuality, DeleteQuality
    <3> QED
      BY <1>3, <2>1, <2>2, <3>1
  <2>3. CASE FindQuality(ns, q)
    <3> DEFINE k == FirstQuality(ns, q)
               z == RemoveAt(s, k)
    <3>1. r = [ns EXCEPT !.qualities = z]
      BY <1>6, <2>3 DEF ChangeQuality, DeleteQuality
    <3>2. k \in 1 .. Len(s)
      BY <1>1, <2>3, FirstQualityRange
    <3>3. QualityEq(s[k], q)
      BY <1>1, <2>3, FirstQualityMatches
    <3> HIDE DEF k
    <3>20. z = RemoveAt(s, k)
      OBVIOUS
    <3> HIDE DEF z, s
    <3>21. PICK from : Remains(z, s, k, from)
      BY <1>1, <3>2, <3>20, RemainingPlaces
    <3>4. /\ from \in [DOMAIN z -> DOMAIN s \ {k}]
          /\ \A j \in DOMAIN z : z[j] = s[from[j]]
          /\ \A j, i \in DOMAIN z : from[j] = from[i] => j = i
          /\ \A i \in DOMAIN s \ {k} : \E j \in DOMAIN z : from[j] = i
      BY <3>21 DEF Remains
    <3>5. s[k].name \in DeletedNames(inst) /\ QualityFactOf(s[k]) = f
      BY <1>6, <3>3, QualityFacts DEF QualityEq
    <3>6. k \in DOMAIN s
      BY <1>1, <3>2
    <3>7. \A i \in DOMAIN s \ {k} : QualityFactOf(s[i]) # f
      BY <3>5, <3>6, QualityFacts DEF SingleQualities, s
    <3>8. \A g : g \in Quals(z) <=> g \in S \ {f}
      <4>1. \A g : g \in Quals(z) <=> \E j \in DOMAIN z : g = QualityFactOf(s[from[j]])
        BY <3>4, QualityFacts
      <4>2. \A g : g \in S <=> \E i \in DOMAIN s : g = QualityFactOf(s[i])
        BY QualityFacts
      <4>3. \A g : g \in Quals(z) <=> \E i \in DOMAIN s \ {k} : g = QualityFactOf(s[i])
        BY <3>4, <4>1
      <4> HIDE DEF S, f
      <4> QED
        BY <3>5, <3>6, <3>7, <4>2, <4>3
    <3>9. ASSUME NEW i \in DOMAIN z, NEW j \in DOMAIN z,
                 z[i].name \in DeletedNames(inst), QualityEq(z[i], z[j])
          PROVE  i = j
      <4>1. z[i] = s[from[i]] /\ z[j] = s[from[j]] /\ from[i] \in DOMAIN s /\ from[j] \in DOMAIN s
        BY <3>4
      <4>2. from[i] = from[j]
        BY <3>9, <4>1 DEF SingleQualities, s
      <4> QED
        BY <3>4, <4>2
    <3>10. SingleQualities(inst, z)
      BY <3>9 DEF SingleQualities
    <3>11. r.qualities = z /\ r.topologies = ns.topologies
      BY <1>2, <3>1
    <3> QED
      BY <2>1, <3>8, <3>10, <3>11 DEF s
  <2> QED
    BY <2>2, <2>3
<1> QED
  BY <1>4, <1>5, <1>6 DEF Actions

\* As Facts!ChangeLinks, but with the equality that the vectors are searched by.
ChangeLinkFacts(S, action, f) ==
  CASE action = "add"    -> IF \E t \in S : TopologyEq(t, f) THEN S ELSE S \cup {f}
    [] action = "delete" -> {t \in S : ~ TopologyEq(t, f)}
    [] action = "update" -> Facts!ChangeLinks(S, action, f)

LEMMA LinkFacts ==
  /\ \A t, u : TopologyEq(LinkFactOf(t), LinkFactOf(u)) <=> TopologyEq(t, u)
  /\ \A t, u : Facts!SameLink(LinkFactOf(t), LinkFactOf(u)) <=> Facts!SameLink(t, u)
  /\ \A t : /\ LinkFactOf(t).from = t.from /\ LinkFactOf(t).to = t.to
            /\ LinkFactOf(t).dir = t.dir /\ LinkFactOf(t).property = t.property
            /\ LinkFactOf(t).op = t.op /\ LinkFactOf(t).value = t.value
  /\ \A s, f : f \in Links(s) <=> \E i \in DOMAIN s : f = LinkFactOf(s[i])
<1>1. \A t : /\ LinkFactOf(t).from = t.from /\ LinkFactOf(t).to = t.to
             /\ LinkFactOf(t).dir = t.dir /\ LinkFactOf(t).property = t.property
             /\ LinkFactOf(t).op = t.op /\ LinkFactOf(t).value = t.value
  BY DEF LinkFactOf, Facts!LinkFact
<1>2. \A t, u : TopologyEq(LinkFactOf(t), LinkFactOf(u)) <=> TopologyEq(t, u)
  BY <1>1 DEF TopologyEq
<1>3. \A t, u : Facts!SameLink(LinkFactOf(t), LinkFactOf(u)) <=> Facts!SameLink(t, u)
  BY <1>1 DEF Facts!SameLink
<1>4. \A s, f : f \in Links(s) <=> \E i \in DOMAIN s : f = LinkFactOf(s[i])
  BY DEF Links, ToSet
<1> QED
  BY <1>1, <1>2, <1>3, <1>4

LEMMA LinkFound ==
  ASSUME NEW ns, NEW u
  PROVE  FindTopology(ns, u) <=> \E t \in Links(ns.topologies) : TopologyEq(t, LinkFactOf(u))
<1>1. ASSUME NEW i \in DOMAIN ns.topologies
      PROVE  LinkFactOf(ns.topologies[i]) \in Links(ns.topologies)
  BY LinkFacts
<1>2. ASSUME FindTopology(ns, u)
      PROVE  \E t \in Links(ns.topologies) : TopologyEq(t, LinkFactOf(u))
  BY <1>1, <1>2, LinkFacts DEF FindTopology
<1>3. ASSUME NEW t \in Links(ns.topologies), TopologyEq(t, LinkFactOf(u))
      PROVE  FindTopology(ns, u)
  <2>1. PICK i \in DOMAIN ns.topologies : t = LinkFactOf(ns.topologies[i])
    BY LinkFacts
  <2> QED
    BY <1>3, <2>1, LinkFacts DEF FindTopology
<1> QED
  BY <1>2, <1>3

LEMMA FirstTopologyMatches ==
  ASSUME NEW T, NEW ns, ns.topologies \in Seq(T), NEW t, FindTopology(ns, t)
  PROVE  TopologyEq(ns.topologies[FirstTopology(ns, t)], t)
<1> DEFINE I == {i \in 1 .. Len(ns.topologies) : TopologyEq(ns.topologies[i], t)}
<1>2. Len(ns.topologies) \in Nat /\ DOMAIN ns.topologies = 1 .. Len(ns.topologies)
  OBVIOUS
<1>3. I # {} /\ I \in SUBSET (1 .. Len(ns.topologies))
  BY <1>2 DEF FindTopology
<1>4. FirstTopology(ns, t) = Min(I)
  BY <1>3 DEF FirstTopology, SelectInSeq
<1>5. \A i \in I : TopologyEq(ns.topologies[i], t)
  OBVIOUS
<1> HIDE DEF I
<1>6. Min(I) \in I
  BY <1>2, <1>3, FirstMatch
<1> QED
  BY <1>4, <1>5, <1>6

\* Two links that go both ways and equal a third one are the same link, unless
\* one of them leads from an asset to itself.
LEMMA BothEqual ==
  ASSUME NEW t, NEW v, NEW u, t.dir = BIDIRECTION, v.dir = BIDIRECTION,
         t.from # t.to, v.from # v.to, TopologyEq(t, u), TopologyEq(v, u)
  PROVE  Facts!SameLink(t, v) /\ t.property = u.property
<1>1. {t.from, t.to} = {u.from, u.to} /\ {v.from, v.to} = {u.from, u.to}
  BY DEF TopologyEq
<1> QED
  BY <1>1 DEF TopologyEq, Facts!SameLink

\* The same for the links: adding, updating or deleting one.
LEMMA LinkChanged ==
  ASSUME NEW inst, NEW Q, NEW T, NEW ns \in StatesOver(Q, T),
         SingleLinks(inst, ns.topologies), T \subseteq TopologyType,
         NEW action \in Actions, NEW u \in T,
         action = "delete" => /\ u.property \in DeletedProperties(inst)
                              /\ \A t \in T : t.dir = BIDIRECTION,
         action = "update" => u.property \notin DeletedProperties(inst),
         action = "add" /\ u.property \in DeletedProperties(inst) =>
           /\ u.from # u.to
           /\ \A t \in T : t.dir = BIDIRECTION,
         NEW r, r = ChangeTopology(ns, action, u)
  PROVE  /\ r.qualities = ns.qualities
         /\ Links(r.topologies)
              = ChangeLinkFacts(Links(ns.topologies), action, LinkFactOf(u))
         /\ SingleLinks(inst, r.topologies)
<1> DEFINE s == ns.topologies
           S == Links(s)
           f == LinkFactOf(u)
           D == DeletedProperties(inst)
<1>1. s \in Seq(T) /\ Len(s) \in Nat /\ DOMAIN s = 1 .. Len(s)
  BY DEF StatesOver
<1>2. ASSUME NEW z
      PROVE  /\ [ns EXCEPT !.topologies = z].topologies = z
             /\ [ns EXCEPT !.topologies = z].qualities = ns.qualities
  BY <1>2 DEF StatesOver
<1>3. FindTopology(ns, u) <=> \E t \in S : TopologyEq(t, f)
  BY LinkFound
<1>4. CASE action = "add"
  <2>1. CASE FindTopology(ns, u)
    <3>1. r = ns
      BY <1>4, <2>1 DEF ChangeTopology, AddTopology
    <3>2. ChangeLinkFacts(S, action, f) = S
      BY <1>3, <1>4, <2>1 DEF ChangeLinkFacts
    <3> QED
      BY <3>1, <3>2
  <2>2. CASE ~ FindTopology(ns, u)
    <3> DEFINE z == Append(s, u)
    <3>1. r = [ns EXCEPT !.topologies = z]
      BY <1>4, <2>2 DEF ChangeTopology, AddTopology
    <3>2. /\ DOMAIN z = DOMAIN s \cup {Len(s) + 1} /\ z[Len(s) + 1] = u
          /\ \A i \in DOMAIN s : z[i] = s[i]
      BY <1>1, Appended
    <3>3. ToSet(z) = ToSet(s) \cup {u}
      <4> HIDE DEF s, z
      <4> QED
        BY <3>2 DEF ToSet
    <3>4. ChangeLinkFacts(S, action, f) = S \cup {f}
      BY <1>3, <1>4, <2>2 DEF ChangeLinkFacts
    <3> HIDE DEF z
    <3>5. Links(z) = S \cup {f}
      BY <3>3 DEF Links
    <3>6. ASSUME u.property \in D, NEW i \in DOMAIN s
          PROVE  ~ Facts!SameLink(s[i], u) /\ ~ Facts!SameLink(u, s[i])
      <4>1. s[i].dir = BIDIRECTION
        BY <1>1, <1>4, <3>6, ElementTyped
      <4>2. ~ TopologyEq(s[i], u)
        BY <2>2, <3>6 DEF FindTopology
      <4> HIDE DEF s
      <4>3. Facts!SameLink(s[i], u) <=> Facts!SameLink(u, s[i])
        BY DEF Facts!SameLink
      <4>4. Facts!SameLink(s[i], u) => TopologyEq(s[i], u)
        BY <4>1 DEF Facts!SameLink, TopologyEq
      <4> QED
        BY <4>2, <4>3, <4>4
    <3>10. u.property \in D => u.from # u.to
      BY <1>4
    <3>7. ASSUME NEW i \in DOMAIN z, z[i].property \in D
          PROVE  /\ z[i].from # z[i].to
                 /\ \A j \in DOMAIN z : Facts!SameLink(z[i], z[j]) => i = j
      <4>1. CASE i \in DOMAIN s
        <5>1. z[i] = s[i]
          BY <3>2, <4>1
        <5>2. ASSUME NEW j \in DOMAIN z, Facts!SameLink(z[i], z[j]) PROVE i = j
          <6>1. z[j].property \in D
            BY <3>7, <5>2 DEF Facts!SameLink
          <6>2. j \in DOMAIN s
            BY <3>2, <3>6, <4>1, <5>1, <5>2, <6>1
          <6> QED
            BY <3>2, <3>7, <4>1, <5>1, <5>2, <6>2 DEF SingleLinks
        <5> QED
          BY <3>7, <4>1, <5>1, <5>2 DEF SingleLinks
      <4>2. CASE i = Len(s) + 1
        <5>1. z[i] = u
          BY <3>2, <4>2
        <5> QED
          BY <3>2, <3>6, <3>7, <3>10, <4>2, <5>1
      <4> QED
        BY <3>2, <4>1, <4>2
    <3>8. SingleLinks(inst, z)
      BY <3>7 DEF SingleLinks
    <3>9. r.topologies = z /\ r.qualities = ns.qualities
      BY <1>2, <3>1
    <3> QED
      BY <3>4, <3>5, <3>8, <3>9
  <2> QED
    BY <2>1, <2>2
<1>5. CASE action = "update"
  <2> DEFINE Hit(t) == t.from = u.from /\ t.to = u.to /\ t.property = u.property
             z == [i \in DOMAIN ns.topologies |->
                     IF /\ ns.topologies[i].from = u.from
                        /\ ns.topologies[i].to = u.to
                        /\ ns.topologies[i].property = u.property
                     THEN [ns.topologies[i] EXCEPT !.value = u.value]
                     ELSE ns.topologies[i]]
             G(g) == IF << g.from, g.to, g.property >> = << f.from, f.to, f.property >>
                     THEN [g EXCEPT !.value = f.value] ELSE g
  <2>1. r = [ns EXCEPT !.topologies = z]
    <3>1. r = UpdateTopology(ns, u)
      BY <1>5 DEF ChangeTopology
    <3> QED
      BY <3>1, Zenon DEF UpdateTopology
  <2>2. ChangeLinkFacts(S, action, f) = {G(g) : g \in S}
    BY <1>5 DEF ChangeLinkFacts, Facts!ChangeLinks
  <2>3. ASSUME NEW i \in DOMAIN s
        PROVE  /\ z[i].from = s[i].from /\ z[i].to = s[i].to
               /\ z[i].property = s[i].property
               /\ ~ Hit(s[i]) => z[i] = s[i]
               /\ LinkFactOf(z[i]) = G(LinkFactOf(s[i]))
    <3>1. s[i] \in TopologyType /\ u \in TopologyType
      BY <1>1, ElementTyped
    <3>2. CASE Hit(s[i])
      <4>1. z[i] = [s[i] EXCEPT !.value = u.value]
        BY <3>2
      <4> HIDE DEF z
      <4>2. /\ z[i].from = s[i].from /\ z[i].to = s[i].to /\ z[i].dir = s[i].dir
            /\ z[i].property = s[i].property /\ z[i].op = s[i].op /\ z[i].value = u.value
        BY <3>1, <4>1 DEF TopologyType
      <4>3. LinkFactOf(z[i]) = [LinkFactOf(s[i]) EXCEPT !.value = u.value]
        BY <4>2 DEF LinkFactOf, Facts!LinkFact
      <4>4. G(LinkFactOf(s[i])) = [LinkFactOf(s[i]) EXCEPT !.value = f.value]
        BY <3>2, LinkFacts
      <4>5. f.value = u.value
        BY LinkFacts
      <4> HIDE DEF G, f
      <4> QED
        BY <3>2, <4>2, <4>3, <4>4, <4>5
    <3>3. CASE ~ Hit(s[i])
      <4>1. z[i] = s[i]
        BY <3>3
      <4>2. G(LinkFactOf(s[i])) = LinkFactOf(s[i])
        BY <3>3, LinkFacts
      <4> QED
        BY <4>1, <4>2
    <3> QED
      BY <3>2, <3>3
  <2>4. DOMAIN z = DOMAIN s
    OBVIOUS
  <2> HIDE DEF z, G, s, f
  <2>5. Links(z) = {G(g) : g \in S}
    <3>1. \A g : g \in Links(z) <=> \E i \in DOMAIN s : g = G(LinkFactOf(s[i]))
      BY <2>3, <2>4, LinkFacts
    <3>2. \A g : g \in S <=> \E i \in DOMAIN s : g = LinkFactOf(s[i])
      BY LinkFacts
    <3> HIDE DEF S
    <3> QED
      BY <3>1, <3>2
  <2>6. ASSUME NEW i \in DOMAIN z, z[i].property \in D
        PROVE  /\ z[i].from # z[i].to
               /\ \A j \in DOMAIN z : Facts!SameLink(z[i], z[j]) => i = j
    <3>1. z[i] = s[i] /\ s[i].property \in D
      BY <1>5, <2>3, <2>4, <2>6
    <3>2. \A j \in DOMAIN z : Facts!SameLink(z[i], z[j]) => z[j] = s[j] /\ s[j].property \in D
      BY <1>5, <2>3, <2>4, <2>6 DEF Facts!SameLink
    <3> QED
      BY <2>4, <2>6, <3>1, <3>2 DEF SingleLinks, s
  <2>7. SingleLinks(inst, z)
    BY <2>6 DEF SingleLinks
  <2>8. r.topologies = z /\ r.qualities = ns.qualities
    BY <1>2, <2>1
  <2> QED
    BY <2>2, <2>5, <2>7, <2>8 DEF s, f
<1>6. CASE action = "delete"
  <2>1. ChangeLinkFacts(S, action, f) = {t \in S : ~ TopologyEq(t, f)}
    BY <1>6 DEF ChangeLinkFacts
  <2>2. CASE ~ FindTopology(ns, u)
    <3>1. r = ns
      BY <1>6, <2>2 DEF ChangeTopology, DeleteTopology
    <3>2. {t \in S : ~ TopologyEq(t, f)} = S
      BY <1>3, <2>2
    <3> QED
      BY <2>1, <3>1, <3>2
  <2>3. CASE FindTopology(ns, u)
    <3> DEFINE k == FirstTopology(ns, u)
               z == RemoveAt(s, k)
    <3>1. r = [ns EXCEPT !.topologies = z]
      BY <1>6, <2>3 DEF ChangeTopology, DeleteTopology
    <3>2. k \in 1 .. Len(s)
      BY <1>1, <2>3, FirstTopologyRange
    <3>3. TopologyEq(s[k], u)
      BY <1>1, <2>3, FirstTopologyMatches
    <3> HIDE DEF k
    <3>20. z = RemoveAt(s, k)
      OBVIOUS
    <3>0. \A i \in DOMAIN s : s[i].dir = BIDIRECTION
      BY <1>1, <1>6, ElementTyped
    <3> HIDE DEF z, s
    <3>21. PICK from : Remains(z, s, k, from)
      BY <1>1, <3>2, <3>20, RemainingPlaces
    <3>4. /\ from \in [DOMAIN z -> DOMAIN s \ {k}]
          /\ \A j \in DOMAIN z : z[j] = s[from[j]]
          /\ \A j, i \in DOMAIN z : from[j] = from[i] => j = i
          /\ \A i \in DOMAIN s \ {k} : \E j \in DOMAIN z : from[j] = i
      BY <3>21 DEF Remains
    <3>5. k \in DOMAIN s /\ s[k].property \in D
      BY <1>1, <1>6, <3>0, <3>2, <3>3 DEF TopologyEq
    <3>6. ASSUME NEW i \in DOMAIN s, i # k PROVE ~ TopologyEq(s[i], u)
      <4>1. SUFFICES ASSUME TopologyEq(s[i], u) PROVE FALSE
        OBVIOUS
      <4>2. s[i].property \in D
        BY <1>6, <3>0, <4>1 DEF TopologyEq
      <4>3. s[i].from # s[i].to /\ s[k].from # s[k].to
        BY <3>5, <4>2 DEF SingleLinks, s
      <4>4. Facts!SameLink(s[k], s[i])
        BY <3>0, <3>3, <3>5, <4>1, <4>3, BothEqual
      <4> QED
        BY <3>5, <3>6, <4>4 DEF SingleLinks, s
    <3>7. TopologyEq(LinkFactOf(s[k]), f) /\ \A i \in DOMAIN s \ {k} : ~ TopologyEq(LinkFactOf(s[i]), f)
      BY <3>3, <3>6, LinkFacts
    <3>8. \A g : g \in Links(z) <=> g \in {t \in S : ~ TopologyEq(t, f)}
      <4>1. \A g : g \in Links(z) <=> \E j \in DOMAIN z : g = LinkFactOf(s[from[j]])
        BY <3>4, LinkFacts
      <4>2. \A g : g \in S <=> \E i \in DOMAIN s : g = LinkFactOf(s[i])
        BY LinkFacts
      <4>3. \A g : g \in Links(z) <=> \E i \in DOMAIN s \ {k} : g = LinkFactOf(s[i])
        BY <3>4, <4>1
      <4> HIDE DEF S, f
      <4> QED
        BY <3>5, <3>7, <4>2, <4>3
    <3>9. ASSUME NEW i \in DOMAIN z, z[i].property \in D
          PROVE  /\ z[i].from # z[i].to
                 /\ \A j \in DOMAIN z : Facts!SameLink(z[i], z[j]) => i = j
      <4>1. z[i] = s[from[i]] /\ from[i] \in DOMAIN s
        BY <3>4
      <4>2. \A j \in DOMAIN z : z[j] = s[from[j]] /\ from[j] \in DOMAIN s
        BY <3>4
      <4>3. /\ s[from[i]].from # s[from[i]].to
            /\ \A j \in DOMAIN z : Facts!SameLink(z[i], z[j]) => from[i] = from[j]
        BY <3>9, <4>1, <4>2 DEF SingleLinks, s
      <4> QED
        BY <3>4, <4>1, <4>3
    <3>10. SingleLinks(inst, z)
      BY <3>9 DEF SingleLinks
    <3>11. r.topologies = z /\ r.qualities = ns.qualities
      BY <1>2, <3>1
    <3> QED
      BY <2>1, <3>8, <3>10, <3>11 DEF s
  <2> QED
    BY <2>2, <2>3
<1> QED
  BY <1>4, <1>5, <1>6 DEF Actions

\* What a postcondition does to the facts of a state.
PostcondOnFacts(kv, F, ex, perm, n) ==
  LET lenq == Len(ex.postconds_q)
      q == ex.postconds_q[n]
      t == ex.postconds_t[n - lenq]
  IN  IF n <= lenq
      THEN [quals |-> Facts!ChangeQuals(F.quals, q.action,
                                        QualityFactOf(BindQuality(kv, perm, q.fact))),
            links |-> F.links]
      ELSE [quals |-> F.quals,
            links |-> ChangeLinkFacts(F.links, t.action,
                                      LinkFactOf(BindTopology(kv, perm, t.fact)))]

LEMMA PostcondByFacts ==
  ASSUME NEW inst \in Instances, DeletesSingle(inst), NEW m \in Candidates(inst),
         LoopFree(inst, m, DeletedProperties(inst)),
         NEW ns \in SingleStates(inst), NEW n \in 1 .. NumPostconds(Exploit(inst, m)),
         NEW r, r = ApplyPostcond(inst.facts, ns, Exploit(inst, m), AssetGroup(inst, m), n)
  PROVE  /\ r \in SingleStates(inst)
         /\ FactsOf(r) = PostcondOnFacts(inst.facts, FactsOf(ns), Exploit(inst, m),
                                         AssetGroup(inst, m), n)
<1> DEFINE ex == Exploit(inst, m)
           perm == AssetGroup(inst, m)
           kv == inst.facts
           Q == ModelQualities(inst)
           T == ModelTopologies(inst)
<1>1. /\ ex \in ExploitType /\ ex \in ToSet(inst.exploits)
      /\ Keeps(Q, T, kv, ex, perm)
  BY CandidateTyped, CandidateKeeps, Zenon DEF Exploit, ToSet
<1>2. /\ ex.postconds_q \in Seq([action : Actions, fact : ParameterizedQuality])
      /\ ex.postconds_t \in Seq([action : Actions, fact : ParameterizedTopology])
  BY <1>1 DEF ExploitType
<1>3. /\ ns \in StatesOver(Q, T)
      /\ SingleQualities(inst, ns.qualities) /\ SingleLinks(inst, ns.topologies)
  BY DEF SingleStates, ModelStates
<1>4. Q \subseteq QualityType /\ T \subseteq TopologyType
  BY DEF ModelQualities, ModelTopologies
<1> HIDE DEF ex, perm, kv, Q, T
<1>5. r \in StatesOver(Q, T)
  BY <1>1, <1>3, ApplyPostcondOver DEF ex, perm, kv
<1>6. CASE n <= Len(ex.postconds_q)
  <2> DEFINE pc == ex.postconds_q[n]
             q == BindQuality(kv, perm, pc.fact)
  <2>1. n \in DOMAIN ex.postconds_q
    BY <1>2, <1>6
  <2>2. pc \in [action : Actions, fact : ParameterizedQuality]
    BY <1>2, <2>1, ElementTyped
  <2>3. pc \in QualityPostconds(inst)
    BY <1>1, <2>1 DEF QualityPostconds, ToSet
  <2>4. q \in Q
    BY <1>1, <2>1, Zenon DEF Keeps
  <2>5. q.name = pc.fact.name
    BY DEF BindQuality, Quality
  <2>6. r = ChangeQuality(ns, pc.action, q)
    BY <1>6 DEF ApplyPostcond, ex, perm, kv
  <2>7. PostcondOnFacts(kv, FactsOf(ns), ex, perm, n)
          = [quals |-> Facts!ChangeQuals(FactsOf(ns).quals, pc.action, QualityFactOf(q)),
             links |-> FactsOf(ns).links]
    BY <1>6 DEF PostcondOnFacts
  <2> HIDE DEF pc, q
  <2>8. pc.action \in Actions
    BY <2>2
  <2>9. pc.action = "delete" => q.name \in DeletedNames(inst)
    BY <2>3, <2>5 DEF DeletedNames, Deleted
  <2>10. pc.action = "update" => q.name \notin DeletedNames(inst)
    BY <2>3, <2>5 DEF DeletesSingle
  <2>11. /\ r.topologies = ns.topologies
         /\ Quals(r.qualities)
              = Facts!ChangeQuals(Quals(ns.qualities), pc.action, QualityFactOf(q))
         /\ SingleQualities(inst, r.qualities)
    BY <1>3, <1>4, <2>4, <2>6, <2>8, <2>9, <2>10, QualityChanged
  <2>12. r \in SingleStates(inst)
    BY <1>3, <1>5, <2>11 DEF SingleStates, ModelStates, Q, T
  <2>13. /\ FactsOf(r) = [quals |-> Quals(r.qualities), links |-> Links(r.topologies)]
         /\ FactsOf(ns).quals = Quals(ns.qualities) /\ FactsOf(ns).links = Links(ns.topologies)
    BY FactsOfState
  <2> QED
    BY <2>7, <2>11, <2>12, <2>13 DEF ex, perm, kv
<1>7. CASE ~ n <= Len(ex.postconds_q)
  <2> DEFINE k == n - Len(ex.postconds_q)
             pc == ex.postconds_t[k]
             u == BindTopology(kv, perm, pc.fact)
  <2>1. k \in DOMAIN ex.postconds_t
    <3>1. Len(ex.postconds_q) \in Nat
      BY <1>2, LengthTyped, Zenon
    <3>2. Len(ex.postconds_t) \in Nat /\ DOMAIN ex.postconds_t = 1 .. Len(ex.postconds_t)
      BY <1>2, LengthTyped, Zenon
    <3>3. n \in 1 .. Len(ex.postconds_q) + Len(ex.postconds_t)
      BY Zenon DEF NumPostconds, ex
    <3>4. k \in 1 .. Len(ex.postconds_t)
      BY <1>7, <3>1, <3>2, <3>3, Arithmetic, Zenon
    <3> QED
      BY <3>2, <3>4, Zenon
  <2>6. r = ChangeTopology(ns, pc.action, u)
    BY <1>7 DEF ApplyPostcond, ex, perm, kv
  <2>7. PostcondOnFacts(kv, FactsOf(ns), ex, perm, n)
          = [quals |-> FactsOf(ns).quals,
             links |-> ChangeLinkFacts(FactsOf(ns).links, pc.action, LinkFactOf(u))]
    BY <1>7 DEF PostcondOnFacts
  <2> HIDE DEF k
  <2>2. pc \in [action : Actions, fact : ParameterizedTopology]
    BY <1>2, <2>1, ElementTyped
  <2>3. pc \in LinkPostconds(inst)
    BY <1>1, <2>1 DEF LinkPostconds, ToSet
  <2>4. u \in T
    BY <1>1, <2>1, Zenon DEF Keeps
  <2>5. /\ u.property = pc.fact.property
        /\ u.from = perm[pc.fact.from_param + 1] /\ u.to = perm[pc.fact.to_param + 1]
    BY DEF BindTopology, Topology
  <2>14. pc \in ToSet(ex.postconds_t)
    BY <2>1 DEF ToSet
  <2> HIDE DEF pc, u
  <2>8. pc.action \in Actions
    BY <2>2
  <2>9. u.property \in DeletedProperties(inst) => \A t \in T : t.dir = BIDIRECTION
    <3>1. DeletedProperties(inst) # {} => \A f \in LinksOf(inst) : f.dir = BIDIRECTION
      BY DEF DeletesSingle
    <3> QED
      BY <3>1 DEF T, ModelTopologies
  <2>10. /\ pc.action = "delete" => u.property \in DeletedProperties(inst)
         /\ pc.action = "update" => u.property \notin DeletedProperties(inst)
         /\ pc.action = "add" /\ u.property \in DeletedProperties(inst) => u.from # u.to
    <3>1. pc.action = "delete" => u.property \in DeletedProperties(inst)
      BY <2>3, <2>5 DEF DeletedProperties, Deleted
    <3>2. pc.action = "update" => u.property \notin DeletedProperties(inst)
      BY <2>3, <2>5 DEF DeletesSingle
    <3>3. pc.action = "add" /\ u.property \in DeletedProperties(inst) => u.from # u.to
      BY <2>5, <2>14 DEF LoopFree, ex, perm
    <3> QED
      BY <3>1, <3>2, <3>3
  <2>11. /\ r.qualities = ns.qualities
         /\ Links(r.topologies)
              = ChangeLinkFacts(Links(ns.topologies), pc.action, LinkFactOf(u))
         /\ SingleLinks(inst, r.topologies)
    BY <1>3, <1>4, <2>4, <2>6, <2>8, <2>9, <2>10, LinkChanged
  <2>12. r \in SingleStates(inst)
    BY <1>3, <1>5, <2>11 DEF SingleStates, ModelStates, Q, T
  <2>13. /\ FactsOf(r) = [quals |-> Quals(r.qualities), links |-> Links(r.topologies)]
         /\ FactsOf(ns).quals = Quals(ns.qualities) /\ FactsOf(ns).links = Links(ns.topologies)
    BY FactsOfState
  <2> QED
    BY <2>7, <2>11, <2>12, <2>13 DEF ex, perm, kv
<1> QED
  BY <1>6, <1>7

\* States with the same facts have the same successors, as far as the facts go.
LEMMA SuccessorByFacts ==
  ASSUME NEW inst \in Instances, DeletesSingle(inst), NEW m \in Candidates(inst),
         LoopFree(inst, m, DeletedProperties(inst)),
         NEW s \in SingleStates(inst), NEW t \in SingleStates(inst),
         FactsOf(s) = FactsOf(t)
  PROVE  /\ Successor(inst, s, m) \in SingleStates(inst)
         /\ FactsOf(Successor(inst, s, m)) = FactsOf(Successor(inst, t, m))
<1> DEFINE ex == Exploit(inst, m)
           perm == AssetGroup(inst, m)
           kv == inst.facts
           N == NumPostconds(ex)
           S == SingleStates(inst)
           Step(F, n) == PostcondOnFacts(kv, F, ex, perm, n)
<1>1. N \in Nat
  BY CandidateTyped, NumPostcondsNat
<1>2. ASSUME NEW n \in 1 .. N, NEW x \in S
      PROVE  /\ ApplyPostcond(kv, x, ex, perm, n) \in S
             /\ FactsOf(ApplyPostcond(kv, x, ex, perm, n)) = Step(FactsOf(x), n)
  BY PostcondByFacts
<1>3. /\ Successor(inst, s, m) = ApplyPostconds(kv, s, ex, perm)
      /\ Successor(inst, t, m) = ApplyPostconds(kv, t, ex, perm)
  BY DEF Successor
<1>4. ASSUME NEW x \in S
      PROVE  \E a \in [0 .. N -> S] : IsRun(a, kv, x, ex, perm)
  <2> HIDE DEF S, ex, perm, kv
  <2> QED
    BY <1>1, <1>2, PostcondsApplied DEF N
<1>5. s \in S /\ t \in S
  OBVIOUS
<1> HIDE DEF S, ex, perm, kv, Step
<1>6. PICK a \in [0 .. N -> S] : IsRun(a, kv, s, ex, perm)
  BY <1>4, <1>5
<1>7. PICK b \in [0 .. N -> S] : IsRun(b, kv, t, ex, perm)
  BY <1>4, <1>5
<1>8. /\ a[0] = s /\ b[0] = t
      /\ \A n \in 1 .. N : /\ a[n] = ApplyPostcond(kv, a[n - 1], ex, perm, n)
                           /\ b[n] = ApplyPostcond(kv, b[n - 1], ex, perm, n)
      /\ Successor(inst, s, m) = a[N] /\ Successor(inst, t, m) = b[N]
  BY <1>3, <1>6, <1>7, Zenon DEF IsRun
<1> HIDE DEF N
<1> DEFINE K == {k \in 0 .. N : FactsOf(a[k]) = FactsOf(b[k])}
<1>9. 0 .. N \subseteq K
  <2>1. 0 \in K
    BY <1>1, <1>8
  <2>2. ASSUME NEW k \in 0 .. N - 1, k \in K PROVE k + 1 \in K
    <3>1. k + 1 \in 1 .. N /\ k + 1 \in 0 .. N /\ k \in 0 .. N /\ (k + 1) - 1 = k
      BY <1>1
    <3>2. /\ a[k + 1] = ApplyPostcond(kv, a[k], ex, perm, k + 1)
          /\ b[k + 1] = ApplyPostcond(kv, b[k], ex, perm, k + 1)
      BY <1>8, <3>1
    <3>3. a[k] \in S /\ b[k] \in S
      BY <1>6, <1>7, <3>1
    <3>4. /\ FactsOf(a[k + 1]) = Step(FactsOf(a[k]), k + 1)
          /\ FactsOf(b[k + 1]) = Step(FactsOf(b[k]), k + 1)
      BY <1>2, <3>1, <3>2, <3>3
    <3> QED
      BY <2>2, <3>1, <3>4
  <2>3. \A k \in 0 .. N - 1 : k \in K => k + 1 \in K
    BY <2>2
  <2> HIDE DEF K
  <2> QED
    BY <1>1, <2>1, <2>3, SetInduction
<1>10. N \in 0 .. N
  BY <1>1
<1> QED
  BY <1>6, <1>8, <1>9, <1>10 DEF S

\* And the same moves: a precondition is looked for among the facts.
LEMMA MovesByFacts ==
  ASSUME NEW inst, NEW s, NEW t, FactsOf(s) = FactsOf(t)
  PROVE  Moves(inst, s) = Moves(inst, t)
<1>1. Quals(s.qualities) = Quals(t.qualities) /\ Links(s.topologies) = Links(t.topologies)
  <2>1. /\ FactsOf(s).quals = Quals(s.qualities) /\ FactsOf(t).quals = Quals(t.qualities)
        /\ FactsOf(s).links = Links(s.topologies) /\ FactsOf(t).links = Links(t.topologies)
    BY FactsOfState
  <2> QED
    BY <2>1
<1>2. /\ \A q : FindQuality(s, q) <=> FindQuality(t, q)
      /\ \A u : FindTopology(s, u) <=> FindTopology(t, u)
  BY <1>1, QualityFound, LinkFound
<1>3. \A kv, ex, perm : Applicable(kv, s, ex, perm) <=> Applicable(kv, t, ex, perm)
  BY <1>2 DEF Applicable
<1> QED
  BY <1>3 DEF Moves

-----------------------------------------------------------------------------
\* The nodes there are now will still be there.
LEMMA NodesRemain ==
  ASSUME TypeOK, Next \/ UNCHANGED vars
  PROVE  /\ instance' = instance /\ Ids \subseteq Ids'
         /\ \A i \in Ids : Node(i)' = Node(i)
<1>1. CASE ~ NewState
  <2>1. instance' = instance /\ factbases' = factbases
    BY <1>1, NoNewNode
  <2> QED
    BY <2>1 DEF Ids, Node
<1>2. CASE NewState
  <2>1. /\ Len(factbases) \in Nat /\ Len(factbases') = Len(factbases) + 1
        /\ \A i \in Ids : Node(i)' = Node(i)
    BY <1>2, NodesKept
  <2>2. instance' = instance
    BY <1>2, NewStateEffect
  <2> QED
    BY <2>1, <2>2 DEF Ids
<1> QED
  BY <1>1, <1>2

LEMMA LoopsRemain ==
  ASSUME TypeOK, Next \/ UNCHANGED vars, NEW P, NoLoops(P)'
  PROVE  NoLoops(P)
<1>1. /\ instance' = instance /\ Ids \subseteq Ids'
      /\ \A i \in Ids : Node(i)' = Node(i)
  BY NodesRemain
<1>2. ASSUME NEW i \in Ids, NEW m \in Moves(instance, Node(i))
      PROVE  LoopFree(instance, m, P)
  <2>1. i \in Ids' /\ Node(i)' = Node(i)
    BY <1>1
  <2>2. \A n \in Moves(instance, Node(i))' : LoopFree(instance', n, P)
    BY <2>1 DEF NoLoops
  <2>3. Moves(instance, Node(i))' = Moves(instance, Node(i))
    BY <1>1, <2>1 DEF Moves, Candidates
  <2> QED
    BY <1>1, <2>2, <2>3
<1> QED
  BY <1>2 DEF NoLoops

\* No factbase has twice what some exploit deletes.
SingleInGraph == factbases \in Seq(SingleStates(instance))

LEMMA InitSingle ==
  ASSUME Init, DeletesSingle(instance)
  PROVE  SingleInGraph
<1>1. PICK inst \in Instances : Ctor(inst)
  BY DEF Init
<1>2. PICK x : /\ instance = inst /\ factbases = << x >>
               /\ x.qualities = inst.initial_qualities
               /\ x.topologies = inst.initial_topologies
  BY <1>1 DEF Ctor
<1>3. factbases \in Seq(ModelStates(instance))
  BY InitOfModel DEF FactsOfModel
<1>4. x \in ModelStates(instance)
  BY <1>2, <1>3
<1>5. x \in SingleStates(instance)
  BY <1>2, <1>4 DEF SingleStates, DeletesSingle
<1> QED
  BY <1>2, <1>5 DEF SingleInGraph

LEMMA NextSingle ==
  ASSUME IInv, FactsOfModel, SingleInGraph, DeletesSingle(instance),
         NoLoops(DeletedProperties(instance)), Next \/ UNCHANGED vars
  PROVE  SingleInGraph'
<1>1. CASE ~ NewState
  BY <1>1, NoNewNode DEF SingleInGraph
<1>2. CASE NewState
  <2>1. /\ appl_exploits # {} /\ instance' = instance
        /\ factbases' = Append(factbases, NewNode)
    BY <1>2, NewStateEffect
  <2>2. /\ Popped - 1 \in Ids /\ current_state = Node(Popped - 1)
        /\ instance \in Instances /\ current_id \in Nat
    BY <2>1, MoveInHand DEF IInv, TypeOK
  <2>3. NextMove \in Candidates(instance)
    BY <2>1, NextMoveIsMove DEF IInv, TypeOK
  <2>4. current_state \in SingleStates(instance)
    BY <2>2 DEF SingleInGraph, Node, Ids
  <2>8. LoopFree(instance, NextMove, DeletedProperties(instance))
    <3>1. NextMove \in Moves(instance, Node(Popped - 1))
      BY <2>1, <2>2, NextMoveIsMove DEF IInv, TypeOK, EdgesSound
    <3> QED
      BY <2>2, <3>1 DEF NoLoops
  <2>5. new_state \in SingleStates(instance)
    BY <2>2, <2>3, <2>4, <2>8, SuccessorByFacts DEF new_state
  <2>6. /\ NewNode \in ModelStates(instance) /\ NewNode.qualities = new_state.qualities
        /\ NewNode.topologies = new_state.topologies
    BY <2>2, <2>5 DEF NewNode, SingleStates, ModelStates, StatesOver
  <2>7. NewNode \in SingleStates(instance)
    BY <2>5, <2>6 DEF SingleStates
  <2> QED
    BY <2>1, <2>7 DEF SingleInGraph
<1> QED
  BY <1>1, <1>2

\* Merging by hash is sound, under the same conditions and as long as what an
\* exploit deletes is in a state once: the node kept allows the moves of the state
\* that was dropped, and they lead to the same facts (find in hash_map, apply of
\* the postconditions).
THEOREM MergingIsSound ==
  Spec => [](/\ ToldApart(instance)
             /\ DeletesSingle(instance)
             /\ NoLoops(DeletedProperties(instance))
             => MergeSound)
<1> DEFINE H == DeletesSingle(instance) /\ NoLoops(DeletedProperties(instance))
           J == H => SingleInGraph
<1>1. Init => J
  BY InitSingle
<1>2. IInv /\ FactsOfModel /\ J /\ [Next]_vars => J'
  <2> SUFFICES ASSUME IInv, FactsOfModel, J, [Next]_vars, H'
               PROVE  SingleInGraph'
    OBVIOUS
  <2>1. instance' = instance /\ TypeOK
    BY NodesRemain DEF IInv
  <2>2. DeletesSingle(instance)
    BY <2>1
  <2>3. NoLoops(DeletedProperties(instance))
    <3>1. PICK P : P = DeletedProperties(instance)
      OBVIOUS
    <3>2. NoLoops(P)'
      BY <2>1, <3>1
    <3> QED
      BY <2>1, <3>1, <3>2, LoopsRemain
  <2> QED
    BY <2>2, <2>3, NextSingle
<1>3. ASSUME IInv, FactsOfModel, SingleInGraph, ToldApart(instance), H, NEW e \in ToSet(edges)
      PROVE  /\ Moves(instance, Outcome(e)) = Moves(instance, Node(e.to))
             /\ \A m \in Moves(instance, Node(e.to)) :
                  FactsOf(Successor(instance, Outcome(e), m)) =
                  FactsOf(Successor(instance, Node(e.to), m))
  <2>1. instance \in Instances
    BY <1>3 DEF IInv, TypeOK
  <2>2. FactsOf(Outcome(e)) = FactsOf(Node(e.to))
    BY <1>3, <2>1, OutcomeOfEdge, NodeOfModel, SameHashSameFacts
  <2>3. PICK m \in Moves(instance, Node(e.from)) :
          Outcome(e) = Successor(instance, Node(e.from), m)
    BY <1>3, OutcomeOfEdge
  <2>4. \A i \in Ids : Node(i) \in SingleStates(instance)
    BY <1>3 DEF SingleInGraph, Node, Ids
  <2>5. e.from \in Ids /\ e.to \in Ids
    BY <1>3, OutcomeOfEdge
  <2>6. /\ \A o \in Moves(instance, Node(e.from)) \cup Moves(instance, Node(e.to)) :
             o \in Candidates(instance) /\ LoopFree(instance, o, DeletedProperties(instance))
    BY <1>3, <2>5 DEF Moves, NoLoops
  <2>7. Outcome(e) \in SingleStates(instance)
    BY <1>3, <2>1, <2>3, <2>4, <2>5, <2>6, SuccessorByFacts
  <2>8. ASSUME NEW o \in Moves(instance, Node(e.to))
        PROVE  FactsOf(Successor(instance, Outcome(e), o)) =
               FactsOf(Successor(instance, Node(e.to), o))
    BY <1>3, <2>1, <2>2, <2>4, <2>5, <2>6, <2>7, SuccessorByFacts
  <2>9. Moves(instance, Outcome(e)) = Moves(instance, Node(e.to))
    BY <2>2, MovesByFacts
  <2> QED
    BY <2>8, <2>9
<1>4. IInv /\ FactsOfModel /\ J => (ToldApart(instance) /\ H => MergeSound)
  BY <1>3 DEF MergeSound
<1> HIDE DEF J
<1>5. Spec => [](ToldApart(instance) /\ H => MergeSound)
  BY <1>1, <1>2, <1>4, Invariance, StatesAreOfModel, PTL DEF Spec
<1> QED
  BY <1>5, PTL

-----------------------------------------------------------------------------
(***************************************************************************)
(* The generator and module AttackGraph: for models whose links all go     *)
(* both ways and never connect an asset to itself, the vectors' searches   *)
(* are those of FactSets, and a step of the generator is one of the graph. *)
(***************************************************************************)
LinkFactType ==
  [from : Nat, to : Nat, dir : Directions, property : STRING, op : STRING, value : STRING]

Straight(S) ==
  /\ S \subseteq LinkFactType
  /\ \A t \in S : t.dir = BIDIRECTION /\ t.from # t.to

LEMMA SearchedAsSame ==
  ASSUME NEW t, t.dir = BIDIRECTION, t.from # t.to, NEW u
  PROVE  TopologyEq(t, u) <=> Facts!SameLink(t, u)
BY DEF TopologyEq, Facts!SameLink

LEMMA StraightChange ==
  ASSUME NEW S, Straight(S), NEW action \in Actions, NEW f \in LinkFactType,
         f.dir = BIDIRECTION, action = "add" => f.from # f.to
  PROVE  /\ ChangeLinkFacts(S, action, f) = Facts!ChangeLinks(S, action, f)
         /\ Straight(Facts!ChangeLinks(S, action, f))
<1>1. \A t \in S : TopologyEq(t, f) <=> Facts!SameLink(t, f)
  BY SearchedAsSame DEF Straight
<1>2. CASE action = "add"
  BY <1>1, <1>2 DEF ChangeLinkFacts, Facts!ChangeLinks, Straight
<1>3. CASE action = "delete"
  <2>1. {t \in S : ~ TopologyEq(t, f)} = {t \in S : ~ Facts!SameLink(t, f)}
    BY <1>1
  <2>2. /\ ChangeLinkFacts(S, action, f) = {t \in S : ~ TopologyEq(t, f)}
        /\ Facts!ChangeLinks(S, action, f) = {t \in S : ~ Facts!SameLink(t, f)}
    BY <1>3 DEF ChangeLinkFacts, Facts!ChangeLinks
  <2>3. Straight({t \in S : ~ Facts!SameLink(t, f)})
    BY DEF Straight
  <2> QED
    BY <2>1, <2>2, <2>3
<1>4. CASE action = "update"
  <2> DEFINE G(t) == IF << t.from, t.to, t.property >> = << f.from, f.to, f.property >>
                     THEN [t EXCEPT !.value = f.value] ELSE t
  <2>1. /\ Facts!ChangeLinks(S, action, f) = {G(t) : t \in S}
        /\ ChangeLinkFacts(S, action, f) = Facts!ChangeLinks(S, action, f)
    BY <1>4 DEF Facts!ChangeLinks, ChangeLinkFacts
  <2>2. ASSUME NEW t \in S
        PROVE  G(t) \in LinkFactType /\ G(t).dir = BIDIRECTION /\ G(t).from # G(t).to
    <3>1. t \in LinkFactType /\ t.dir = BIDIRECTION /\ t.from # t.to
      BY DEF Straight
    <3>2. PICK u : u = [t EXCEPT !.value = f.value]
      OBVIOUS
    <3>3. u \in LinkFactType /\ u.dir = t.dir /\ u.from = t.from /\ u.to = t.to
      BY <3>1, <3>2 DEF LinkFactType
    <3> QED
      BY <3>1, <3>2, <3>3
  <2> HIDE DEF G
  <2> QED
    BY <2>1, <2>2 DEF Straight
<1> QED
  BY <1>2, <1>3, <1>4 DEF Actions

\* What a postcondition does to sets of facts.
PostcondOnSets(F, ex, group, n) ==
  LET lenq == Len(ex.postconds_q)
      q == ex.postconds_q[n]
      t == ex.postconds_t[n - lenq]
  IN  IF n <= lenq
      THEN [quals |-> Facts!ChangeQuals(F.quals, q.action,
                                        Facts!GroundQuality(group, q.fact)),
            links |-> F.links]
      ELSE [quals |-> F.quals,
            links |-> Facts!ChangeLinks(F.links, t.action,
                                        Facts!GroundLink(group, t.fact))]

\* The postconditions in their order give Result.
LEMMA ResultOfRun ==
  ASSUME NEW ex \in ExploitType, NEW group, NEW F,
         F[0] = [quals |-> F[0].quals, links |-> F[0].links],
         \A n \in 1 .. NumPostconds(ex) : F[n] = PostcondOnSets(F[n - 1], ex, group, n)
  PROVE  F[NumPostconds(ex)] = Facts!Result(F[0], ex, group)
<1> DEFINE a == Len(ex.postconds_q)
           b == Len(ex.postconds_t)
           QualStep(S, n) == LET p == ex.postconds_q[n]
                             IN  Facts!ChangeQuals(S, p.action, Facts!GroundQuality(group, p.fact))
           LinkStep(S, n) == LET p == ex.postconds_t[n]
                             IN  Facts!ChangeLinks(S, p.action, Facts!GroundLink(group, p.fact))
<1>1. a \in Nat /\ b \in Nat /\ NumPostconds(ex) = a + b
  <2>1. /\ ex.postconds_q \in Seq([action : Actions, fact : ParameterizedQuality])
        /\ ex.postconds_t \in Seq([action : Actions, fact : ParameterizedTopology])
    BY DEF ExploitType
  <2>2. a \in Nat
    BY <2>1, LengthTyped, Zenon
  <2>3. b \in Nat
    BY <2>1, LengthTyped, Zenon
  <2> QED
    BY <2>2, <2>3, Zenon DEF NumPostconds
<1>2. /\ \A n \in 1 .. a + b : n <= a => /\ F[n].quals = QualStep(F[n - 1].quals, n)
                                         /\ F[n].links = F[n - 1].links
      /\ \A n \in 1 .. a + b : ~ n <= a => /\ F[n].quals = F[n - 1].quals
                                           /\ F[n].links = LinkStep(F[n - 1].links, n - a)
      /\ \A n \in 1 .. a + b : F[n] = [quals |-> F[n].quals, links |-> F[n].links]
  <2> SUFFICES ASSUME NEW n \in 1 .. a + b
               PROVE  /\ n <= a => /\ F[n].quals = QualStep(F[n - 1].quals, n)
                                   /\ F[n].links = F[n - 1].links
                      /\ ~ n <= a => /\ F[n].quals = F[n - 1].quals
                                     /\ F[n].links = LinkStep(F[n - 1].links, n - a)
                      /\ F[n] = [quals |-> F[n].quals, links |-> F[n].links]
    OBVIOUS
  <2>1. F[n] = PostcondOnSets(F[n - 1], ex, group, n)
    BY <1>1
  <2>2. CASE n <= a
    <3>1. F[n] = [quals |-> QualStep(F[n - 1].quals, n), links |-> F[n - 1].links]
      BY <2>1, <2>2 DEF PostcondOnSets
    <3> HIDE DEF QualStep, LinkStep
    <3> QED
      BY <2>2, <3>1
  <2>3. CASE ~ n <= a
    <3>1. F[n] = [quals |-> F[n - 1].quals, links |-> LinkStep(F[n - 1].links, n - a)]
      BY <2>1, <2>3 DEF PostcondOnSets
    <3> HIDE DEF QualStep, LinkStep
    <3> QED
      BY <2>3, <3>1
  <2> QED
    BY <2>2, <2>3
<1> DEFINE IsQ(f) == f = [n \in 0 .. a |-> IF n = 0 THEN F[0].quals ELSE QualStep(f[n - 1], n)]
           IsL(f) == f = [n \in 0 .. b |-> IF n = 0 THEN F[0].links ELSE LinkStep(f[n - 1], n)]
           q == CHOOSE f : IsQ(f)
           l == CHOOSE f : IsL(f)
<1>3. Facts!Result(F[0], ex, group) = [quals |-> q[a], links |-> l[b]]
  BY DEF Facts!Result
<1> HIDE DEF a, b, QualStep, LinkStep
\* The first a postconditions are for the qualities, the others for the links.
<1>4. \A n \in 0 .. a : F[n].links = F[0].links
  <2> DEFINE T == {n \in 0 .. a : F[n].links = F[0].links}
  <2>1. 0 \in T
    BY <1>1
  <2>2. ASSUME NEW n \in 0 .. a - 1, n \in T PROVE n + 1 \in T
    <3>1. n + 1 \in 1 .. a + b /\ n + 1 <= a /\ (n + 1) - 1 = n /\ n + 1 \in 0 .. a
      BY <1>1
    <3> QED
      BY <1>2, <2>2, <3>1
  <2>3. \A n \in 0 .. a - 1 : n \in T => n + 1 \in T
    BY <2>2
  <2> HIDE DEF T
  <2>4. 0 .. a \subseteq T
    BY <1>1, <2>1, <2>3, SetInduction
  <2> QED
    BY <2>4 DEF T
<1>5. \A n \in 0 .. b : F[a + n].quals = F[a].quals
  <2> DEFINE T == {n \in 0 .. b : F[a + n].quals = F[a].quals}
  <2>1. 0 \in T
    BY <1>1
  <2>2. ASSUME NEW n \in 0 .. b - 1, n \in T PROVE n + 1 \in T
    <3>1. PICK k : k = a + (n + 1)
      OBVIOUS
    <3>2. k \in 1 .. a + b /\ ~ k <= a /\ k - 1 = a + n /\ n + 1 \in 0 .. b
      BY <1>1, <3>1
    <3>3. F[k].quals = F[a + n].quals
      BY <1>2, <3>2
    <3> QED
      BY <2>2, <3>1, <3>2, <3>3
  <2>3. \A n \in 0 .. b - 1 : n \in T => n + 1 \in T
    BY <2>2
  <2> HIDE DEF T
  <2>4. 0 .. b \subseteq T
    BY <1>1, <2>1, <2>3, SetInduction
  <2> QED
    BY <2>4 DEF T
<1>6. IsQ([n \in 0 .. a |-> F[n].quals])
  <2>1. \A n \in 0 .. a : n # 0 => n \in 1 .. a + b /\ n <= a /\ n - 1 \in 0 .. a
    BY <1>1
  <2> QED
    BY <1>2, <2>1
<1>7. IsL([n \in 0 .. b |-> F[a + n].links])
  <2>1. \A n \in 0 .. b : n # 0 => /\ a + n \in 1 .. a + b /\ ~ a + n <= a
                                   /\ (a + n) - a = n /\ (a + n) - 1 = a + (n - 1)
                                   /\ n - 1 \in 0 .. b
    BY <1>1
  <2>2. F[a + 0].links = F[0].links
    BY <1>1, <1>4
  <2> QED
    BY <1>2, <2>1, <2>2
<1>8. IsQ(q) /\ IsL(l)
  <2> HIDE DEF IsQ, IsL
  <2> QED
    BY <1>6, <1>7
<1> HIDE DEF q, l
<1>9. q[a] = F[a].quals
  <2> DEFINE T == {n \in 0 .. a : q[n] = F[n].quals}
  <2>1. 0 \in T
    BY <1>1, <1>8
  <2>2. ASSUME NEW n \in 0 .. a - 1, n \in T PROVE n + 1 \in T
    <3>1. n + 1 \in 1 .. a + b /\ n + 1 <= a /\ (n + 1) - 1 = n /\ n + 1 \in 0 .. a /\ n + 1 # 0
      BY <1>1
    <3>2. q[n + 1] = QualStep(q[n], n + 1)
      BY <1>8, <3>1
    <3> QED
      BY <1>2, <2>2, <3>1, <3>2
  <2>3. \A n \in 0 .. a - 1 : n \in T => n + 1 \in T
    BY <2>2
  <2>4. a \in Nat
    BY <1>1
  <2> HIDE DEF T
  <2>5. 0 .. a \subseteq T
    BY <2>1, <2>3, <2>4, SetInduction
  <2>6. a \in T
    BY <2>4, <2>5
  <2> QED
    BY <2>6 DEF T
<1>10. l[b] = F[a + b].links
  <2> DEFINE T == {n \in 0 .. b : l[n] = F[a + n].links}
  <2>1. 0 \in T
    <3>1. F[a + 0].links = F[0].links
      BY <1>1, <1>4
    <3> QED
      BY <1>1, <1>8, <3>1
  <2>2. ASSUME NEW n \in 0 .. b - 1, n \in T PROVE n + 1 \in T
    <3>0. PICK k : k = a + (n + 1)
      OBVIOUS
    <3>1. /\ k \in 1 .. a + b /\ ~ k <= a /\ k - 1 = a + n /\ k - a = n + 1
          /\ n + 1 \in 0 .. b /\ n + 1 # 0 /\ (n + 1) - 1 = n
      BY <1>1, <3>0
    <3>2. l[n + 1] = LinkStep(l[n], n + 1)
      BY <1>8, <3>1
    <3>3. F[k].links = LinkStep(F[a + n].links, n + 1)
      BY <1>2, <3>1
    <3> QED
      BY <2>2, <3>0, <3>1, <3>2, <3>3
  <2>3. \A n \in 0 .. b - 1 : n \in T => n + 1 \in T
    BY <2>2
  <2>4. b \in Nat
    BY <1>1
  <2> HIDE DEF T
  <2>5. 0 .. b \subseteq T
    BY <2>1, <2>3, <2>4, SetInduction
  <2>6. b \in T
    BY <2>4, <2>5
  <2> QED
    BY <2>6 DEF T
<1>11. F[a + b].quals = F[a].quals
  <2>1. b \in 0 .. b
    BY <1>1
  <2> QED
    BY <1>5, <2>1
<1>12. F[a + b] = [quals |-> F[a + b].quals, links |-> F[a + b].links]
  <2>1. a + b = 0 \/ a + b \in 1 .. a + b
    BY <1>1
  <2> QED
    BY <1>2, <2>1
<1> QED
  BY <1>1, <1>3, <1>9, <1>10, <1>11, <1>12

-----------------------------------------------------------------------------
\* The models that can be seen as sets of facts.
LinkProperties(inst) == {f.property : f \in LinksOf(inst)}

PlainModel(inst) ==
  /\ ToldApart(inst)
  /\ DeletesSingle(inst)
  /\ \A f \in LinksOf(inst) : f.dir = BIDIRECTION
  /\ \A t \in ToSet(inst.initial_topologies) : t.from # t.to

PlainStates(inst) == {ns \in SingleStates(inst) : Straight(FactsOf(ns).links)}

LEMMA PostcondOfPlain ==
  ASSUME NEW inst \in Instances, PlainModel(inst), NEW m \in Candidates(inst),
         LoopFree(inst, m, LinkProperties(inst)),
         NEW ns \in PlainStates(inst), NEW n \in 1 .. NumPostconds(Exploit(inst, m)),
         NEW r, r = ApplyPostcond(inst.facts, ns, Exploit(inst, m), AssetGroup(inst, m), n)
  PROVE  /\ r \in PlainStates(inst)
         /\ FactsOf(r) = PostcondOnSets(FactsOf(ns), Exploit(inst, m), AssetGroup(inst, m), n)
<1> DEFINE ex == Exploit(inst, m)
           group == AssetGroup(inst, m)
           kv == inst.facts
           T == ModelTopologies(inst)
<1>1. /\ ex \in ExploitType /\ ex \in ToSet(inst.exploits)
      /\ Keeps(ModelQualities(inst), T, kv, ex, group)
  BY CandidateTyped, CandidateKeeps, Zenon DEF Exploit, ToSet
<1>2. /\ ex.postconds_q \in Seq([action : Actions, fact : ParameterizedQuality])
      /\ ex.postconds_t \in Seq([action : Actions, fact : ParameterizedTopology])
  BY <1>1 DEF ExploitType
<1>3. LoopFree(inst, m, DeletedProperties(inst))
  <2>1. DeletedProperties(inst) \subseteq LinkProperties(inst)
    BY DEF DeletedProperties, Deleted, LinkPostconds, LinkProperties, LinksOf
  <2> QED
    BY <2>1 DEF LoopFree
<1>4. ns \in SingleStates(inst) /\ Straight(FactsOf(ns).links)
  BY DEF PlainStates
<1>5. /\ r \in SingleStates(inst)
      /\ FactsOf(r) = PostcondOnFacts(kv, FactsOf(ns), ex, group, n)
  BY <1>3, <1>4, PostcondByFacts DEF PlainModel
<1>6. CASE n <= Len(ex.postconds_q)
  <2> DEFINE pc == ex.postconds_q[n]
  <2>1. QualityFactOf(BindQuality(kv, group, pc.fact)) = Facts!GroundQuality(group, pc.fact)
    BY DEF QualityFactOf, BindQuality, Quality, Facts!GroundQuality
  <2>2. FactsOf(r) = [quals |-> Facts!ChangeQuals(FactsOf(ns).quals, pc.action,
                                                  Facts!GroundQuality(group, pc.fact)),
                      links |-> FactsOf(ns).links]
    BY <1>5, <1>6, <2>1 DEF PostcondOnFacts
  <2>3. FactsOf(r).links = FactsOf(ns).links
    <3> HIDE DEF pc, group
    <3> QED
      BY <2>2
  <2>4. FactsOf(r) = PostcondOnSets(FactsOf(ns), ex, group, n)
    BY <1>6, <2>2 DEF PostcondOnSets
  <2> QED
    BY <1>4, <1>5, <2>3, <2>4 DEF PlainStates
<1>7. CASE ~ n <= Len(ex.postconds_q)
  <2> DEFINE k == n - Len(ex.postconds_q)
             pc == ex.postconds_t[k]
             u == BindTopology(kv, group, pc.fact)
             f == LinkFactOf(u)
  <2>1. k \in DOMAIN ex.postconds_t
    <3> HIDE DEF ex
    <3>1. Len(ex.postconds_q) \in Nat
      BY <1>2, LengthTyped, Zenon
    <3>2. Len(ex.postconds_t) \in Nat /\ DOMAIN ex.postconds_t = 1 .. Len(ex.postconds_t)
      BY <1>2, LengthTyped, Zenon
    <3>3. n \in 1 .. Len(ex.postconds_q) + Len(ex.postconds_t)
      BY Zenon DEF NumPostconds, ex
    <3>4. k \in 1 .. Len(ex.postconds_t)
      BY <1>7, <3>1, <3>2, <3>3, Arithmetic, Zenon
    <3> QED
      BY <3>2, <3>4, Zenon
  <2>2. f = Facts!GroundLink(group, pc.fact)
    BY DEF LinkFactOf, BindTopology, Topology, Facts!GroundLink
  <2>3. FactsOf(r) = [quals |-> FactsOf(ns).quals,
                      links |-> ChangeLinkFacts(FactsOf(ns).links, pc.action, f)]
    BY <1>5, <1>7 DEF PostcondOnFacts
  <2>4. PostcondOnSets(FactsOf(ns), ex, group, n)
          = [quals |-> FactsOf(ns).quals,
             links |-> Facts!ChangeLinks(FactsOf(ns).links, pc.action,
                                         Facts!GroundLink(group, pc.fact))]
    BY <1>7 DEF PostcondOnSets
  <2> HIDE DEF k, ex
  <2>5. pc \in [action : Actions, fact : ParameterizedTopology] /\ pc \in ToSet(ex.postconds_t)
    BY <1>2, <2>1, ElementTyped DEF ToSet
  <2>6. u \in T
    BY <1>1, <2>1, Zenon DEF Keeps
  <2>7. /\ u.property = pc.fact.property
        /\ u.from = group[pc.fact.from_param + 1] /\ u.to = group[pc.fact.to_param + 1]
    BY DEF BindTopology, Topology
  <2>8. pc.fact.property \in LinkProperties(inst)
    BY <1>1, <2>5 DEF LinkProperties, LinksOf
  <2>9. pc.action = "add" => u.from # u.to
    BY <2>5, <2>7, <2>8 DEF LoopFree, ex
  <2>10. pc.action \in Actions
    BY <2>5
  <2> HIDE DEF pc, u
  <2>11. /\ f.from = u.from /\ f.to = u.to /\ f.dir = u.dir
         /\ f \in LinkFactType /\ u.dir = BIDIRECTION
    <3>1. u \in TopologyType /\ u.dir \in {l.dir : l \in LinksOf(inst)}
      BY <2>6 DEF ModelTopologies
    <3>2. u.dir = BIDIRECTION
      BY <3>1 DEF PlainModel
    <3>3. f \in LinkFactType
      BY <3>1 DEF LinkFactOf, Facts!LinkFact, LinkFactType, TopologyType
    <3> QED
      BY <3>2, <3>3, LinkFacts
  <2> HIDE DEF f
  <2>12. /\ ChangeLinkFacts(FactsOf(ns).links, pc.action, f)
              = Facts!ChangeLinks(FactsOf(ns).links, pc.action, f)
         /\ Straight(Facts!ChangeLinks(FactsOf(ns).links, pc.action, f))
    BY <1>4, <2>9, <2>10, <2>11, StraightChange
  <2>13. FactsOf(r).links = Facts!ChangeLinks(FactsOf(ns).links, pc.action, f)
    BY <2>3, <2>12
  <2> QED
    BY <1>4, <1>5, <2>2, <2>3, <2>4, <2>12, <2>13 DEF PlainStates, ex
<1> QED
  BY <1>6, <1>7

\* The vectors after an exploit hold the facts that FactSets says.
LEMMA SuccessorIsResult ==
  ASSUME NEW inst \in Instances, PlainModel(inst), NEW m \in Candidates(inst),
         LoopFree(inst, m, LinkProperties(inst)), NEW ns \in PlainStates(inst)
  PROVE  /\ Successor(inst, ns, m) \in PlainStates(inst)
         /\ FactsOf(Successor(inst, ns, m))
              = Facts!Result(FactsOf(ns), Exploit(inst, m), AssetGroup(inst, m))
<1> DEFINE ex == Exploit(inst, m)
           group == AssetGroup(inst, m)
           kv == inst.facts
           N == NumPostconds(ex)
           S == PlainStates(inst)
<1>1. ex \in ExploitType /\ N \in Nat
  BY CandidateTyped, NumPostcondsNat
<1>2. ASSUME NEW n \in 1 .. N, NEW x \in S
      PROVE  /\ ApplyPostcond(kv, x, ex, group, n) \in S
             /\ FactsOf(ApplyPostcond(kv, x, ex, group, n))
                  = PostcondOnSets(FactsOf(x), ex, group, n)
  BY PostcondOfPlain
<1>3. Successor(inst, ns, m) = ApplyPostconds(kv, ns, ex, group)
  BY DEF Successor
<1> HIDE DEF S, ex, group, kv
<1>4. PICK a \in [0 .. N -> S] : IsRun(a, kv, ns, ex, group)
  BY <1>1, <1>2, PostcondsApplied DEF N, S
<1>5. /\ a[0] = ns
      /\ \A n \in 1 .. N : a[n] = ApplyPostcond(kv, a[n - 1], ex, group, n)
      /\ Successor(inst, ns, m) = a[N]
  BY <1>3, <1>4, Zenon DEF IsRun
<1> DEFINE F == [n \in 0 .. N |-> FactsOf(a[n])]
<1>6. ASSUME NEW n \in 1 .. N PROVE F[n] = PostcondOnSets(F[n - 1], ex, group, n)
  <2> HIDE DEF N
  <2>1. n \in 0 .. N /\ n - 1 \in 0 .. N
    BY <1>1
  <2>2. a[n - 1] \in S
    BY <1>4, <2>1
  <2> QED
    BY <1>2, <1>5, <2>1, <2>2
<1>7. F[0] = FactsOf(ns) /\ F[N] = FactsOf(a[N]) /\ a[N] \in S
  <2> HIDE DEF N
  <2>1. 0 \in 0 .. N /\ N \in 0 .. N
    BY <1>1
  <2> QED
    BY <1>4, <1>5, <2>1
<1> HIDE DEF F
<1>8. F[0] = [quals |-> F[0].quals, links |-> F[0].links]
  <2>1. \A x : FactsOf(x) = [quals |-> FactsOf(x).quals, links |-> FactsOf(x).links]
    BY DEF FactsOf, Facts!FactSet
  <2> QED
    BY <1>7, <2>1
<1>9. F[N] = Facts!Result(F[0], ex, group)
  BY <1>1, <1>6, <1>8, ResultOfRun DEF N
<1> QED
  BY <1>5, <1>7, <1>9 DEF S, ex, group

\* States with the same facts have the same hash.
LEMMA SameFactsSameHash ==
  ASSUME NEW kv, NEW s, NEW t, FactsOf(s) = FactsOf(t)
  PROVE  Hash(kv, s) = Hash(kv, t)
<1> DEFINE E(f) == EncodeQuality(kv, f.asset, f.name, f.value)
           G(f) == EncodeTopology(kv, f.from, f.to, f.dir, f.property, f.value)
<1>1. Quals(s.qualities) = Quals(t.qualities) /\ Links(s.topologies) = Links(t.topologies)
  <2>1. /\ FactsOf(s).quals = Quals(s.qualities) /\ FactsOf(t).quals = Quals(t.qualities)
        /\ FactsOf(s).links = Links(s.topologies) /\ FactsOf(t).links = Links(t.topologies)
    BY FactsOfState
  <2> QED
    BY <2>1
<1>2. ASSUME NEW x
      PROVE  /\ QualityWords(kv, x) = {E(f) : f \in Quals(x.qualities)}
             /\ TopologyWords(kv, x) = {G(f) : f \in Links(x.topologies)}
  <2>1. \A q : E(QualityFactOf(q)) = E(q)
    BY QualityFacts
  <2>2. \A u : G(LinkFactOf(u)) = G(u)
    BY LinkFacts
  <2>3. /\ QualityWords(kv, x) = {E(q) : q \in ToSet(x.qualities)}
        /\ TopologyWords(kv, x) = {G(u) : u \in ToSet(x.topologies)}
    BY DEF QualityWords, TopologyWords
  <2> HIDE DEF E, G
  <2> QED
    BY <2>1, <2>2, <2>3 DEF Quals, Links
<1> HIDE DEF E, G
<1>3. QualityWords(kv, s) = QualityWords(kv, t) /\ TopologyWords(kv, s) = TopologyWords(kv, t)
  BY <1>1, <1>2
<1> QED
  BY <1>3 DEF Hash

\* An exploit applies to the vectors when it applies to the facts.
LEMMA AppliesByFacts ==
  ASSUME NEW kv, NEW ex, NEW group, NEW ns, Straight(FactsOf(ns).links)
  PROVE  Applicable(kv, ns, ex, group) <=> Facts!Applies(FactsOf(ns), ex, group)
<1>1. /\ FactsOf(ns).quals = Quals(ns.qualities) /\ FactsOf(ns).links = Links(ns.topologies)
  BY FactsOfState
<1>2. \A p : FindQuality(ns, BindQuality(kv, group, p))
               <=> Facts!GroundQuality(group, p) \in FactsOf(ns).quals
  <2>1. \A p : QualityFactOf(BindQuality(kv, group, p)) = Facts!GroundQuality(group, p)
    BY DEF QualityFactOf, BindQuality, Quality, Facts!GroundQuality
  <2> QED
    BY <1>1, <2>1, QualityFound
<1>3. \A p : FindTopology(ns, BindTopology(kv, group, p))
               <=> Facts!HasLink(FactsOf(ns), Facts!GroundLink(group, p))
  <2> SUFFICES ASSUME NEW p
               PROVE  FindTopology(ns, BindTopology(kv, group, p))
                        <=> Facts!HasLink(FactsOf(ns), Facts!GroundLink(group, p))
    OBVIOUS
  <2> DEFINE f == Facts!GroundLink(group, p)
  <2>1. LinkFactOf(BindTopology(kv, group, p)) = f
    BY DEF LinkFactOf, BindTopology, Topology, Facts!GroundLink
  <2>2. FindTopology(ns, BindTopology(kv, group, p))
          <=> \E t \in Links(ns.topologies) : TopologyEq(t, f)
    BY <2>1, LinkFound
  <2> HIDE DEF f
  <2>3. \A t \in Links(ns.topologies) : TopologyEq(t, f) <=> Facts!SameLink(t, f)
    BY <1>1, SearchedAsSame DEF Straight
  <2> QED
    BY <1>1, <2>2, <2>3 DEF Facts!HasLink, f
<1> QED
  BY <1>2, <1>3 DEF Applicable, Facts!Applies, Facts!Elements

\* The odometer gives every asset group there is.
LEMMA EveryGroup ==
  ASSUME NEW inst \in Instances, NEW i \in DOMAIN inst.exploits,
         NEW group \in [1 .. inst.exploits[i].num_params -> 0 .. inst.assets - 1]
  PROVE  \E m \in Candidates(inst) : m[1] = i /\ AssetGroup(inst, m) = group
<1> DEFINE N == inst.exploits[i].num_params
           K == inst.assets
<1>1. inst.exploits \in Seq(ExploitType) /\ K \in Nat
  BY InstancesAssumption DEF InstanceType
<1>2. N \in Nat
  <2>1. inst.exploits[i] \in ExploitType
    BY <1>1, ElementTyped
  <2> QED
    BY <2>1 DEF ExploitType
<1>3. \E k \in DOMAIN Perms(N, K) : Perms(N, K)[k] = group
  <2> HIDE DEF N, K
  <2>1. group \in [1 .. N -> 0 .. K - 1]
    BY DEF N, K
  <2>2. CASE K = 0
    <3>1. N = 0
      <4> SUFFICES ASSUME N # 0 PROVE FALSE
        OBVIOUS
      <4>1. 1 \in 1 .. N
        BY <1>2
      <4>2. group[1] \in 0 .. K - 1
        BY <2>1, <4>1
      <4> QED
        BY <2>2, <4>2
    <3>2. Length(0, K) = 1
      BY <1>1, NoDigits
    <3>3. 1 \in DOMAIN Perms(N, K) /\ Perms(N, K)[1] = Reading(1 - 1, N, K)
      BY <3>1, <3>2 DEF Perms
    <3>4. Reading(1 - 1, N, K) = group
      BY <2>1, <3>1 DEF Reading
    <3> QED
      BY <3>3, <3>4
  <2>3. CASE K # 0
    <3>0. K \in Nat \ {0}
      BY <1>1, <2>3
    <3>1. PICK k \in 0 .. Length(N, K) - 1 : Reading(k, N, K) = group
      BY <1>2, <2>1, <3>0, EveryPermutationIsRead, Zenon
    <3>2. PICK L \in Nat : L = Length(N, K)
      BY <1>1, <1>2, LengthNat
    <3>3. k + 1 \in 1 .. L /\ (k + 1) - 1 = k
      BY <3>2
    <3>4. k + 1 \in DOMAIN Perms(N, K) /\ Perms(N, K)[k + 1] = Reading(k, N, K)
      BY <3>2, <3>3 DEF Perms
    <3> QED
      BY <3>1, <3>4
  <2> QED
    BY <2>2, <2>3
<1>4. PICK k \in DOMAIN Perms(N, K) : Perms(N, K)[k] = group
  BY <1>3
<1>5. << i, k >> \in Candidates(inst)
  BY DEF Candidates, od_map
<1>6. AssetGroup(inst, << i, k >>) = group
  BY <1>4 DEF AssetGroup, Exploit, od_map
<1> QED
  BY <1>5, <1>6

-----------------------------------------------------------------------------
\* The facts of every factbase are such as FactSets is about.
PlainInGraph == factbases \in Seq(PlainStates(instance))

LEMMA InitPlain ==
  ASSUME Init, PlainModel(instance)
  PROVE  PlainInGraph
<1>1. PICK inst \in Instances : Ctor(inst)
  BY DEF Init
<1>2. PICK x : /\ instance = inst /\ factbases = << x >>
               /\ x.qualities = inst.initial_qualities
               /\ x.topologies = inst.initial_topologies
  BY <1>1 DEF Ctor
<1>3. factbases \in Seq(SingleStates(instance))
  BY InitSingle DEF SingleInGraph, PlainModel
<1>4. x \in SingleStates(instance)
  BY <1>2, <1>3
<1>5. x.topologies \in Seq(ModelTopologies(inst))
  BY <1>2, <1>4 DEF SingleStates, ModelStates, StatesOver
<1>6. ASSUME NEW i \in DOMAIN x.topologies
      PROVE  /\ LinkFactOf(x.topologies[i]) \in LinkFactType
             /\ LinkFactOf(x.topologies[i]).dir = BIDIRECTION
             /\ LinkFactOf(x.topologies[i]).from # LinkFactOf(x.topologies[i]).to
  <2> DEFINE t == x.topologies[i]
  <2>1. t \in ModelTopologies(inst) /\ t \in ToSet(inst.initial_topologies)
    BY <1>2, <1>5, ElementTyped DEF ToSet
  <2> HIDE DEF t
  <2>2. t \in TopologyType /\ t.dir = BIDIRECTION /\ t.from # t.to
    BY <1>2, <2>1 DEF ModelTopologies, PlainModel
  <2>3. LinkFactOf(t) \in LinkFactType
    BY <2>2 DEF LinkFactOf, Facts!LinkFact, LinkFactType, TopologyType
  <2> QED
    BY <2>2, <2>3, LinkFacts DEF t
<1>7. Straight(Links(x.topologies))
  BY <1>6, LinkFacts DEF Straight
<1>8. FactsOf(x).links = Links(x.topologies)
  BY FactsOfState
<1>9. x \in PlainStates(instance)
  BY <1>4, <1>7, <1>8 DEF PlainStates
<1> QED
  BY <1>2, <1>9 DEF PlainInGraph

\* The state of the next move, and what it is of.
LEMMA PlainMove ==
  ASSUME IInv, PlainInGraph, PlainModel(instance),
         NoLoops(LinkProperties(instance)), appl_exploits # {}
  PROVE  /\ Popped - 1 \in Ids /\ current_state = Node(Popped - 1)
         /\ current_state.id = Popped - 1
         /\ NextMove \in Moves(instance, current_state)
         /\ current_state \in PlainStates(instance)
         /\ new_state \in PlainStates(instance)
         /\ FactsOf(new_state) = Facts!Result(FactsOf(current_state),
                                              Exploit(instance, NextMove),
                                              AssetGroup(instance, NextMove))
<1>1. /\ Popped - 1 \in Ids /\ current_state = Node(Popped - 1)
      /\ current_state.id = Popped - 1
      /\ NextMove \in Moves(instance, Node(Popped - 1))
  BY MoveInHand DEF IInv
<1>2. LoopFree(instance, NextMove, LinkProperties(instance))
  BY <1>1 DEF NoLoops
<1>3. NextMove \in Candidates(instance) /\ instance \in Instances
  BY <1>1 DEF Moves, IInv, TypeOK
<1>4. current_state \in PlainStates(instance)
  BY <1>1 DEF PlainInGraph, Node, Ids
<1> QED
  BY <1>1, <1>2, <1>3, <1>4, SuccessorIsResult DEF new_state

LEMMA NewNodeFacts ==
  ASSUME new_state \in PlainStates(instance), current_id \in Nat
  PROVE  NewNode \in PlainStates(instance) /\ FactsOf(NewNode) = FactsOf(new_state)
<1>1. /\ NewNode \in ModelStates(instance) /\ NewNode.qualities = new_state.qualities
      /\ NewNode.topologies = new_state.topologies
  BY DEF NewNode, PlainStates, SingleStates, ModelStates, StatesOver
<1>2. FactsOf(NewNode) = FactsOf(new_state)
  BY <1>1 DEF FactsOf
<1> QED
  BY <1>1, <1>2 DEF PlainStates, SingleStates

LEMMA NextPlain ==
  ASSUME IInv, PlainInGraph, PlainModel(instance),
         NoLoops(LinkProperties(instance)), Next \/ UNCHANGED vars
  PROVE  PlainInGraph'
<1>1. CASE ~ NewState
  BY <1>1, NoNewNode DEF PlainInGraph
<1>2. CASE NewState
  <2>1. /\ appl_exploits # {} /\ instance' = instance
        /\ factbases' = Append(factbases, NewNode)
    BY <1>2, NewStateEffect
  <2>2. NewNode \in PlainStates(instance)
    BY <2>1, PlainMove, NewNodeFacts DEF IInv, TypeOK
  <2> QED
    BY <2>1, <2>2 DEF PlainInGraph
<1> QED
  BY <1>1, <1>2

-----------------------------------------------------------------------------
(***************************************************************************)
(* The graph that the vectors stand for (the refinement mapping).          *)
(***************************************************************************)
NodesIn(fb) == {FactsOf(ns) : ns \in ToSet(fb)}

LinkIn(fb, e) ==
  [source  |-> FactsOf(fb[e.from + 1]), exploit |-> e.exploit, group |-> e.perm,
   target  |-> FactsOf(fb[e.to + 1])]

LinksIn(fb, es) == {LinkIn(fb, e) : e \in ToSet(es)}

OutcomeOf(st) ==
  CASE st = "generating" -> "running"
    [] st = "done"       -> "complete"
    [] st = "aborted"    -> "failed"

LEMMA SameMeaning ==
  /\ \A md : Graph!Start(md) = Facts!Start(md)
  /\ \A md, ex : Graph!Groups(md, ex) = [1 .. ex.num_params -> 0 .. md.assets - 1]
  /\ \A node, ex, group : Graph!Applies(node, ex, group) <=> Facts!Applies(node, ex, group)
  /\ \A node, ex, group : Graph!Result(node, ex, group) = Facts!Result(node, ex, group)
<1>1. \A md : Graph!Start(md) = Facts!Start(md)
  BY DEF Graph!Start, Facts!Start, Graph!FactSet, Facts!FactSet, Graph!Elements, Facts!Elements,
         Graph!QualityFact, Facts!QualityFact, Graph!LinkFact, Facts!LinkFact
<1>2. \A md, ex : Graph!Groups(md, ex) = [1 .. ex.num_params -> 0 .. md.assets - 1]
  BY DEF Graph!Groups
<1>3. \A node, ex, group : Graph!Applies(node, ex, group) <=> Facts!Applies(node, ex, group)
  BY DEF Graph!Applies, Facts!Applies, Graph!Elements, Facts!Elements,
         Graph!GroundQuality, Facts!GroundQuality, Graph!QualityFact, Facts!QualityFact,
         Graph!HasLink, Facts!HasLink, Graph!GroundLink, Facts!GroundLink,
         Graph!LinkFact, Facts!LinkFact, Graph!SameLink, Facts!SameLink
<1>4. \A node, ex, group : Graph!Result(node, ex, group) = Facts!Result(node, ex, group)
  BY DEF Graph!Result, Facts!Result, Graph!ChangeQuals, Facts!ChangeQuals,
         Graph!ChangeLinks, Facts!ChangeLinks, Graph!SameLink, Facts!SameLink,
         Graph!GroundQuality, Facts!GroundQuality, Graph!QualityFact, Facts!QualityFact,
         Graph!GroundLink, Facts!GroundLink, Graph!LinkFact, Facts!LinkFact
<1> QED
  BY <1>1, <1>2, <1>3, <1>4

\* An edge of the generator is a link of the graph.
LEMMA EdgeIsLink ==
  ASSUME IInv, PlainInGraph, PlainModel(instance), NoLoops(LinkProperties(instance)),
         NEW id, id \in Ids', TypeOK', instance' = instance, status' = status,
         status = "generating", appl_exploits # {},
         hash_num # HashOf(current_state),
         edges' = Append(edges, EdgeTo(id)),
         \A i \in Ids : i \in Ids' /\ Node(i)' = Node(i),
         NodesIn(factbases') = NodesIn(factbases) \cup {FactsOf(new_state)},
         \A i : i = id => FactsOf(Node(i)') = FactsOf(new_state)
  PROVE  Graph!Explore
<1> DEFINE node == FactsOf(current_state)
           x == NextMove[1]
           ex == Exploit(instance, NextMove)
           group == AssetGroup(instance, NextMove)
           link == [source |-> node, exploit |-> x, group |-> group,
                    target |-> FactsOf(new_state)]
<1>1. /\ Popped - 1 \in Ids /\ current_state = Node(Popped - 1)
      /\ current_state.id = Popped - 1
      /\ NextMove \in Moves(instance, current_state)
      /\ current_state \in PlainStates(instance)
      /\ FactsOf(new_state) = Facts!Result(node, ex, group)
  BY PlainMove
<1>2. NextMove \in Candidates(instance) /\ instance \in Instances
  BY <1>1 DEF Moves, IInv, TypeOK
<1>3. /\ x \in DOMAIN instance.exploits /\ ex = instance.exploits[x]
      /\ group \in [1 .. ex.num_params -> 0 .. instance.assets - 1]
  BY <1>2, CandidateTyped DEF Exploit
<1>4. Facts!Applies(node, ex, group)
  <2>1. Applicable(instance.facts, current_state, ex, group)
    BY <1>1 DEF Moves
  <2> QED
    BY <1>1, <2>1, AppliesByFacts DEF PlainStates
<1>5. FactsOf(new_state) # node
  BY SameFactsSameHash DEF hash_num, HashOf
<1>6. node \in NodesIn(factbases)
  <2>1. current_state \in ToSet(factbases)
    <3>1. factbases \in Seq(NetworkStateType)
      BY DEF IInv, TypeOK
    <3>2. Popped - 1 + 1 \in DOMAIN factbases
      BY <1>1, <3>1 DEF Ids
    <3> QED
      BY <1>1, <3>2 DEF Node, ToSet
  <2> QED
    BY <2>1 DEF NodesIn
<1>7. \A e \in ToSet(edges) : LinkIn(factbases', e) = LinkIn(factbases, e)
  <2> SUFFICES ASSUME NEW e \in ToSet(edges)
               PROVE  LinkIn(factbases', e) = LinkIn(factbases, e)
    OBVIOUS
  <2>1. PICK k \in DOMAIN edges : edges[k] = e
    BY DEF ToSet
  <2>2. e.from \in Ids /\ e.to \in Ids
    BY <2>1 DEF IInv, EdgesSound, EdgeSound
  <2>3. Node(e.from)' = Node(e.from) /\ Node(e.to)' = Node(e.to)
    BY <2>2
  <2> QED
    BY <2>3 DEF LinkIn, Node
<1>8. LinkIn(factbases', EdgeTo(id)) = link
  <2>1. /\ EdgeTo(id).from = Popped - 1 /\ EdgeTo(id).to = id
        /\ EdgeTo(id).exploit = x /\ EdgeTo(id).perm = group
    BY <1>1 DEF EdgeTo
  <2>2. factbases'[(Popped - 1) + 1] = current_state
    BY <1>1 DEF Node
  <2>3. FactsOf(factbases'[id + 1]) = FactsOf(new_state)
    BY DEF Node
  <2> HIDE DEF x, group
  <2> QED
    BY <2>1, <2>2, <2>3 DEF LinkIn
<1>9. ToSet(edges') = ToSet(edges) \cup {EdgeTo(id)}
  <2>1. /\ DOMAIN edges' = DOMAIN edges \cup {Len(edges) + 1}
        /\ \A k \in DOMAIN edges : edges'[k] = edges[k]
        /\ edges'[Len(edges) + 1] = EdgeTo(id)
    <3>1. PICK e : e = EdgeTo(id)
      OBVIOUS
    <3>2. /\ Len(edges) \in Nat /\ DOMAIN edges = 1 .. Len(edges)
          /\ DOMAIN edges' = 1 .. Len(edges) + 1
          /\ \A k \in DOMAIN edges : edges'[k] = edges[k] /\ edges[k].from \in Nat
          /\ edges'[Len(edges) + 1] = e
      BY <3>1, EdgesLonger
    <3>3. 1 .. Len(edges) + 1 = 1 .. Len(edges) \cup {Len(edges) + 1}
      BY <3>2
    <3> QED
      BY <3>1, <3>2, <3>3
  <2> QED
    BY <2>1 DEF ToSet
<1>10. LinksIn(factbases', edges') = LinksIn(factbases, edges) \cup {link}
  <2> HIDE DEF link
  <2> QED
    BY <1>7, <1>8, <1>9 DEF LinksIn
<1>11. /\ Graph!Applies(node, instance.exploits[x], group)
       /\ group \in Graph!Groups(instance, instance.exploits[x])
       /\ Graph!Link(node, x, group) = link
  BY <1>1, <1>3, <1>4, SameMeaning DEF Graph!Link
<1>12. link.target = FactsOf(new_state)
  OBVIOUS
<1> HIDE DEF node, x, ex, group, link
<1>13. OutcomeOf(status) = "running"
  BY DEF OutcomeOf
<1> QED
  BY <1>3, <1>5, <1>6, <1>10, <1>11, <1>12, <1>13
  DEF Graph!Explore, NodesIn, LinksIn, LinkIn, LinkOf, Node, OutcomeOf

LEMMA NewStateExplores ==
  ASSUME IInv, PlainInGraph, PlainModel(instance), NoLoops(LinkProperties(instance)),
         NewState, TypeOK'
  PROVE  Graph!Explore
<1>1. /\ appl_exploits # {} /\ instance' = instance /\ status' = status
      /\ status = "generating" /\ hash_num # HashOf(current_state)
      /\ factbases' = Append(factbases, NewNode)
      /\ edges' = Append(edges, EdgeTo(current_id))
  BY NewStateEffect
<1>2. /\ Len(factbases) \in Nat /\ Len(factbases') = Len(factbases) + 1
      /\ \A i \in Ids : Node(i)' = Node(i)
      /\ \A n : n = Len(factbases) => Node(n)' = NewNode
      /\ NewNode \in NetworkStateType
  BY NodesKept DEF IInv
<1>3. current_id = Len(factbases) /\ current_id \in Nat /\ factbases \in Seq(NetworkStateType)
  BY DEF IInv, OneNodePerHash, TypeOK
<1>4. FactsOf(NewNode) = FactsOf(new_state)
  BY <1>1, <1>3, PlainMove, NewNodeFacts
<1>5. current_id \in Ids' /\ \A i \in Ids : i \in Ids' /\ Node(i)' = Node(i)
  BY <1>2, <1>3 DEF Ids
<1>6. \A i : i = current_id => FactsOf(Node(i)') = FactsOf(new_state)
  BY <1>2, <1>3, <1>4
<1>7. NodesIn(factbases') = NodesIn(factbases) \cup {FactsOf(new_state)}
  <2>1. ToSet(factbases') = ToSet(factbases) \cup {NewNode}
    BY <1>1, <1>2, <1>3, AppendedSet
  <2> QED
    BY <1>4, <2>1 DEF NodesIn
<1> QED
  BY <1>1, <1>5, <1>6, <1>7, EdgeIsLink

LEMMA KnownStateExplores ==
  ASSUME IInv, PlainInGraph, PlainModel(instance),
         NoLoops(LinkProperties(instance)), KnownState, TypeOK'
  PROVE  Graph!Explore
<1> DEFINE id == hash_map[hash_num]
<1>1. /\ appl_exploits # {} /\ instance' = instance /\ status' = status
      /\ status = "generating" /\ hash_num # HashOf(current_state)
      /\ hash_num \in DOMAIN hash_map /\ factbases' = factbases
      /\ edges' = Append(edges, EdgeTo(id))
  BY DEF KnownState, TakeMove, NotMet
<1>2. id \in Ids /\ HashOf(Node(id)) = hash_num
  BY <1>1, LookupExact DEF IInv
<1> HIDE DEF id
<1>3. \A i \in Ids : i \in Ids' /\ Node(i)' = Node(i)
  BY <1>1 DEF Ids, Node
<1>4. Node(id) \in PlainStates(instance) /\ Node(id) \in ToSet(factbases)
  <2>1. id + 1 \in DOMAIN factbases
    BY <1>2 DEF Ids, PlainInGraph
  <2> QED
    BY <2>1, ElementTyped DEF Node, ToSet, PlainInGraph
<1>5. FactsOf(Node(id)) = FactsOf(new_state)
  <2>1. Node(id) \in ModelStates(instance) /\ new_state \in ModelStates(instance)
    BY <1>1, <1>4, PlainMove DEF PlainStates, SingleStates
  <2>2. Hash(instance.facts, Node(id)) = Hash(instance.facts, new_state)
    BY <1>2 DEF HashOf, hash_num
  <2> QED
    BY <2>1, <2>2, SameHashSameFacts DEF PlainModel, IInv, TypeOK
<1>6. \A i : i = id => FactsOf(Node(i)') = FactsOf(new_state)
  BY <1>2, <1>3, <1>5
<1>7. NodesIn(factbases') = NodesIn(factbases) \cup {FactsOf(new_state)}
  BY <1>1, <1>4, <1>5 DEF NodesIn
<1> QED
  BY <1>1, <1>2, <1>3, <1>6, <1>7, EdgeIsLink

\* When nothing is left to do, every link is there.
LEMMA FinishCompletes ==
  ASSUME IInv, FactsOfModel, PlainInGraph, PlainModel(instance),
         NoLoops(LinkProperties(instance)), Finish
  PROVE  Graph!Complete
<1>1. /\ status = "generating" /\ status' = "done" /\ appl_exploits = {} /\ frontier = << >>
      /\ instance' = instance /\ factbases' = factbases /\ edges' = edges
  BY DEF Finish
<1>2. instance \in Instances /\ factbases \in Seq(NetworkStateType)
  BY DEF IInv, TypeOK
<1>3. ASSUME NEW node \in NodesIn(factbases), NEW x \in DOMAIN instance.exploits,
             NEW group \in [1 .. instance.exploits[x].num_params -> 0 .. instance.assets - 1],
             Facts!Applies(node, instance.exploits[x], group),
             NEW link,
             link = [source |-> node, exploit |-> x, group |-> group,
                     target |-> Facts!Result(node, instance.exploits[x], group)]
      PROVE  link.target = node \/ link \in LinksIn(factbases, edges)
  <2>1. PICK k \in DOMAIN factbases : node = FactsOf(factbases[k])
    BY DEF NodesIn, ToSet
  <2>2. PICK j : j = k - 1
    OBVIOUS
  <2>3. j \in Ids /\ Node(j) = factbases[k] /\ j \in 0 .. Popped - 1
    <3>1. k \in 1 .. Len(factbases) /\ Len(factbases) \in Nat
      BY <1>2
    <3>2. Popped = Len(factbases)
      BY <1>1, <3>1 DEF Popped
    <3>3. j \in 0 .. Len(factbases) - 1 /\ j + 1 = k
      BY <2>2, <3>1
    <3> QED
      BY <3>2, <3>3 DEF Ids, Node
  <2>4. Node(j) \in PlainStates(instance) /\ Node(j) \in ModelStates(instance)
    BY <2>1, <2>3, ElementTyped DEF PlainInGraph, PlainStates, SingleStates
  <2>5. PICK m \in Candidates(instance) : m[1] = x /\ AssetGroup(instance, m) = group
    BY <1>2, EveryGroup
  <2>6. Exploit(instance, m) = instance.exploits[x]
    BY <2>5 DEF Exploit
  <2>7. m \in Moves(instance, Node(j))
    <3>1. Straight(FactsOf(Node(j)).links)
      BY <2>4 DEF PlainStates
    <3>2. Applicable(instance.facts, Node(j), Exploit(instance, m), AssetGroup(instance, m))
      BY <1>3, <2>1, <2>3, <2>5, <2>6, <3>1, AppliesByFacts
    <3> QED
      BY <3>2 DEF Moves
  <2>8. Explored(j, m)
    BY <1>1, <2>3, <2>7 DEF IInv, NothingMissed
  <2>9. /\ Successor(instance, Node(j), m) \in ModelStates(instance)
        /\ FactsOf(Successor(instance, Node(j), m)) = link.target
    <3>1. LoopFree(instance, m, LinkProperties(instance))
      BY <2>3, <2>7 DEF NoLoops
    <3>2. /\ Successor(instance, Node(j), m) \in PlainStates(instance)
          /\ FactsOf(Successor(instance, Node(j), m))
               = Facts!Result(FactsOf(Node(j)), Exploit(instance, m), AssetGroup(instance, m))
      BY <1>2, <2>4, <3>1, SuccessorIsResult
    <3>3. link.target = Facts!Result(node, instance.exploits[x], group)
      BY <1>3
    <3> QED
      BY <2>1, <2>3, <2>5, <2>6, <3>2, <3>3 DEF PlainStates, SingleStates
  <2>10. CASE HashOf(Successor(instance, Node(j), m)) = HashOf(Node(j))
    <3>1. FactsOf(Successor(instance, Node(j), m)) = FactsOf(Node(j))
      BY <1>2, <2>4, <2>9, <2>10, SameHashSameFacts DEF HashOf, PlainModel
    <3> QED
      BY <2>1, <2>3, <2>9, <3>1
  <2>11. CASE \E l \in DOMAIN edges : EdgeOf(edges[l], j, m)
    <3>1. PICK l \in DOMAIN edges : EdgeOf(edges[l], j, m)
      BY <2>11
    <3>2. PICK e : e = edges[l]
      OBVIOUS
    <3>3. e.from = j /\ e.exploit = x /\ e.perm = group /\ e \in ToSet(edges)
      BY <2>5, <3>1, <3>2 DEF EdgeOf, ToSet
    <3>4. Outcome(e) = Successor(instance, Node(j), m)
      BY <2>5, <2>6, <3>3 DEF Outcome, Successor
    <3>5. /\ e.to \in Ids
          /\ Hash(instance.facts, Outcome(e)) = Hash(instance.facts, Node(e.to))
      BY <3>3, OutcomeOfEdge
    <3>6. Node(e.to) \in ModelStates(instance)
      BY <3>5, NodeOfModel
    <3>7. FactsOf(Outcome(e)) = FactsOf(Node(e.to))
      BY <1>2, <2>9, <3>4, <3>5, <3>6, SameHashSameFacts DEF PlainModel
    <3>8. LinkIn(factbases, e) = [source |-> node, exploit |-> x, group |-> group,
                                  target |-> link.target]
      BY <2>1, <2>3, <2>9, <3>3, <3>4, <3>7 DEF LinkIn, Node
    <3>9. link = [source |-> node, exploit |-> x, group |-> group, target |-> link.target]
      BY <1>3
    <3> QED
      BY <3>3, <3>8, <3>9 DEF LinksIn
  <2> QED
    BY <2>8, <2>10, <2>11 DEF Explored
<1>4. ASSUME NEW node \in NodesIn(factbases), NEW x \in DOMAIN instance.exploits,
             NEW group \in Graph!Groups(instance, instance.exploits[x]),
             Graph!Applies(node, instance.exploits[x], group)
      PROVE  \/ Graph!Link(node, x, group).target = node
             \/ Graph!Link(node, x, group) \in LinksIn(factbases, edges)
  BY <1>3, <1>4, SameMeaning DEF Graph!Link
<1>5. OutcomeOf(status) = "running" /\ OutcomeOf(status') = "complete"
  BY <1>1 DEF OutcomeOf
<1> QED
  BY <1>1, <1>4, <1>5
  DEF Graph!Complete, NodesIn, LinksIn, LinkIn, LinkOf, Node, OutcomeOf

\* The generator gives up on a precondition that the graph excuses.
LEMMA AbortGivesUp ==
  ASSUME IInv, Abort
  PROVE  Graph!GiveUp
<1>1. /\ status = "generating" /\ status' = "aborted" /\ Throws(instance)
      /\ instance' = instance /\ factbases' = factbases /\ edges' = edges
  BY DEF Abort
<1>2. instance \in Instances /\ ToSet(instance.facts) = UniqueValues(instance)
  BY InstancesAssumption DEF IInv, TypeOK, WellFormed
<1>3. ASSUME NEW str \in Graph!Vocabulary(instance)
      PROVE  Known(instance.facts, str)
  <2>1. str \in UniqueValues(instance)
    BY DEF Graph!Vocabulary, UniqueValues, Graph!Start, Graph!FactSet, Graph!Elements, ToSet,
           Graph!QualityFact, Graph!LinkFact
  <2> QED
    BY <1>2, <2>1 DEF Known
<1>4. Graph!HasUnknownPrecondition(instance)
  <2>1. PICK m \in Candidates(instance) :
          \/ \E p \in ToSet(Exploit(instance, m).preconds_q) :
               ~ Known(instance.facts, p.name) \/ ~ Known(instance.facts, p.value)
          \/ \E p \in ToSet(Exploit(instance, m).preconds_t) :
               ~ Known(instance.facts, p.property) \/ ~ Known(instance.facts, p.value)
    BY <1>1 DEF Throws
  <2>2. m[1] \in DOMAIN instance.exploits
    BY <1>2, CandidateTyped
  <2>3. Exploit(instance, m) \in Graph!Elements(instance.exploits)
    BY <2>2 DEF Exploit, Graph!Elements
  <2> QED
    BY <1>3, <2>1, <2>3 DEF Graph!HasUnknownPrecondition, Graph!Elements, ToSet
<1>5. OutcomeOf(status) = "running" /\ OutcomeOf(status') = "failed"
  BY <1>1 DEF OutcomeOf
<1> QED
  BY <1>1, <1>4, <1>5
  DEF Graph!GiveUp, NodesIn, LinksIn, LinkIn, LinkOf, Node, OutcomeOf

LEMMA InitIsStart ==
  ASSUME Init
  PROVE  Graph!Init
<1>1. PICK inst \in Instances : Ctor(inst)
  BY DEF Init
<1>2. PICK x : /\ instance = inst /\ factbases = << x >>
               /\ x.qualities = inst.initial_qualities
               /\ x.topologies = inst.initial_topologies
  BY <1>1 DEF Ctor
<1>3. FactsOf(x) = Facts!Start(inst)
  BY <1>2 DEF FactsOf, Facts!Start
<1>4. {FactsOf(ns) : ns \in ToSet(factbases)} = {Graph!Start(instance)}
  <2>1. ToSet(factbases) = {x}
    BY <1>2 DEF ToSet
  <2>2. FactsOf(x) = Graph!Start(inst)
    BY <1>3, SameMeaning
  <2> QED
    BY <1>2, <2>1, <2>2
<1>5. edges = << >> /\ status = "generating"
  BY DEF Init
<1>6. {LinkOf(e) : e \in ToSet(edges)} = {}
  BY <1>5 DEF ToSet
<1> QED
  BY <1>2, <1>4, <1>5, <1>6 DEF Graph!Init

\* The generator implements AttackGraph, but for its fairness, as long as the
\* model is one that can be seen as sets of facts and no exploit connects an asset
\* to itself: what is in the vectors at the start is the graph's start, every
\* step is one of the graph or leaves it alone (AGGen::generate).
THEOREM StepsOfAttackGraph ==
  Spec /\ [](PlainModel(instance) /\ NoLoops(LinkProperties(instance)))
    => Graph!Init /\ [][Graph!Next]_(Graph!avars)
<1> DEFINE H == PlainModel(instance) /\ NoLoops(LinkProperties(instance))
<1>1. Init => Graph!Init
  BY InitIsStart
<1>2. Init /\ H => PlainInGraph
  BY InitPlain
<1>3. IInv /\ H /\ PlainInGraph /\ [Next]_vars => PlainInGraph'
  BY NextPlain
<1>4. ASSUME IInv, IInv', FactsOfModel, H, PlainInGraph, [Next]_vars
      PROVE  [Graph!Next]_(Graph!avars)
  <2>1. CASE NewState
    BY <1>4, <2>1, NewStateExplores DEF IInv, Graph!Next
  <2>2. CASE KnownState
    BY <1>4, <2>2, KnownStateExplores DEF IInv, Graph!Next
  <2>3. CASE Finish
    BY <1>4, <2>3, FinishCompletes DEF Graph!Next
  <2>4. CASE Abort
    BY <1>4, <2>4, AbortGivesUp DEF Graph!Next
  <2>5. CASE FetchState \/ NoChange \/ Stopped \/ UNCHANGED vars
    <3>1. UNCHANGED << instance, factbases, edges, status >>
      BY <2>5 DEF FetchState, NoChange, TakeMove, Stopped, vars
    <3> QED
      BY <3>1 DEF Graph!avars, LinkOf, Node
  <2> QED
    BY <1>4, <2>1, <2>2, <2>3, <2>4, <2>5 DEF Next
<1> HIDE DEF H
<1>5. Spec /\ []H => Graph!Init /\ [][Graph!Next]_(Graph!avars)
  BY <1>1, <1>2, <1>3, <1>4, Invariance, StatesAreOfModel, PTL DEF Spec
<1> QED
  BY <1>5 DEF H

-----------------------------------------------------------------------------
(***************************************************************************)
(* The graph is bounded by the model, whatever the hash: the facts of a    *)
(* model have finitely many words, nodes with the same words have the same *)
(* hash, and no two nodes have.  So the work that is left gets less with   *)
(* every step: the nodes that can still be made, then the states waiting,  *)
(* then the moves left to apply.                                           *)
(***************************************************************************)
WordsOfQuality(inst) ==
  {EncodeQuality(inst.facts, a, n, v) :
     a \in 0 .. inst.assets - 1, n \in ToSet(inst.facts), v \in ToSet(inst.facts)}

WordsOfTopology(inst) ==
  {EncodeTopology(inst.facts, a, b, d, p, v) :
     a \in 0 .. inst.assets - 1, b \in 0 .. inst.assets - 1, d \in Directions,
     p \in ToSet(inst.facts), v \in ToSet(inst.facts)}

Contents(inst) == (SUBSET WordsOfQuality(inst)) \X (SUBSET WordsOfTopology(inst))

MaxNodes(inst) == Cardinality(Contents(inst))

\* What is left to do, and when it is less.
Left == << MaxNodes(instance) - Len(factbases), Len(frontier), Cardinality(appl_exploits) >>

Less(a, b) ==
  \/ a[1] < b[1]
  \/ a[1] = b[1] /\ a[2] < b[2]
  \/ a[1] = b[1] /\ a[2] = b[2] /\ a[3] < b[3]

LEMMA IntervalFinite ==
  ASSUME NEW a \in Nat, NEW n \in Nat
  PROVE  IsFiniteSet(a .. n - 1)
<1>1. a \in Int /\ n - 1 \in Int
  OBVIOUS
<1> QED
  BY <1>1, FS_Interval

LEMMA ElementsFinite ==
  ASSUME NEW S, NEW s \in Seq(S)
  PROVE  IsFiniteSet(ToSet(s)) /\ IsFiniteSet(DOMAIN s)
<1>1. PICK n \in Nat : DOMAIN s = 1 .. n
  BY LengthTyped
<1>2. s \in [1 .. n -> ToSet(s)]
  <2>1. s = [i \in 1 .. n |-> s[i]]
    BY <1>1
  <2>2. \A i \in 1 .. n : s[i] \in ToSet(s)
    BY <1>1 DEF ToSet
  <2> QED
    BY <2>1, <2>2
<1>3. \A x \in ToSet(s) : \E i \in 1 .. n : s[i] = x
  BY <1>1 DEF ToSet
<1>4. IsFiniteSet(ToSet(s))
  BY <1>2, <1>3, ImageFinite
<1>5. IsFiniteSet(1 .. n)
  <2>1. 1 \in Nat /\ n + 1 \in Nat /\ (n + 1) - 1 = n
    OBVIOUS
  <2>2. IsFiniteSet(1 .. (n + 1) - 1)
    BY <2>1, IntervalFinite
  <2> QED
    BY <2>1, <2>2
<1> QED
  BY <1>1, <1>4, <1>5

LEMMA WordsFinite ==
  ASSUME NEW inst \in Instances
  PROVE  IsFiniteSet(WordsOfQuality(inst)) /\ IsFiniteSet(WordsOfTopology(inst))
<1> DEFINE A == 0 .. inst.assets - 1
           K == ToSet(inst.facts)
           kv == inst.facts
<1>1. IsFiniteSet(A) /\ IsFiniteSet(K) /\ IsFiniteSet(Directions)
  <2>1. inst.assets \in Nat /\ inst.facts \in Seq(STRING)
    BY InstancesAssumption DEF InstanceType
  <2>2. IsFiniteSet(A)
    BY <2>1, IntervalFinite
  <2>3. IsFiniteSet(K)
    BY <2>1, ElementsFinite
  <2>4. Directions = 0 .. 3 - 1
    BY DEF Directions, FORWARD, BACKWARD, BIDIRECTION
  <2>5. IsFiniteSet(Directions)
    BY <2>4, IntervalFinite
  <2> QED
    BY <2>2, <2>3, <2>5
<1> DEFINE W == WordsOfQuality(inst)
           V == WordsOfTopology(inst)
           S == (A \X K) \X K
           T == ((A \X A) \X Directions) \X (K \X K)
           f == [x \in S |-> EncodeQuality(kv, x[1][1], x[1][2], x[2])]
           g == [x \in T |-> EncodeTopology(kv, x[1][1][1], x[1][1][2], x[1][2], x[2][1], x[2][2])]
<1>2. IsFiniteSet(S) /\ IsFiniteSet(T)
  <2> HIDE DEF A, K
  <2>1. IsFiniteSet(A \X K) /\ IsFiniteSet(A \X A) /\ IsFiniteSet(K \X K)
    BY <1>1, FS_Product
  <2>2. IsFiniteSet((A \X A) \X Directions)
    BY <1>1, <2>1, FS_Product
  <2> QED
    BY <1>1, <2>1, <2>2, FS_Product
<1>3. W = {EncodeQuality(kv, a, n, v) : a \in A, n \in K, v \in K}
  BY DEF WordsOfQuality
<1>4. V = {EncodeTopology(kv, a, b, d, p, v) :
             a \in A, b \in A, d \in Directions, p \in K, v \in K}
  BY DEF WordsOfTopology
<1> HIDE DEF A, K, W, V
<1>5. f \in Surjection(S, W)
  <2>1. ASSUME NEW x \in S PROVE f[x] \in W
    BY <1>3
  <2>2. ASSUME NEW w \in W PROVE \E x \in S : f[x] = w
    <3>1. PICK a \in A, n \in K, v \in K : w = EncodeQuality(kv, a, n, v)
      BY <1>3
    <3>2. << << a, n >>, v >> \in S
      OBVIOUS
    <3>3. f[<< << a, n >>, v >>] = w
      BY <3>1, <3>2
    <3> QED
      BY <3>2, <3>3
  <2>3. f \in [S -> W]
    BY <2>1
  <2> HIDE DEF f, S
  <2> QED
    BY <2>2, <2>3 DEF Surjection
<1>6. g \in Surjection(T, V)
  <2>1. ASSUME NEW x \in T PROVE g[x] \in V
    BY <1>4
  <2>2. ASSUME NEW w \in V PROVE \E x \in T : g[x] = w
    <3>1. PICK a \in A, b \in A, d \in Directions, p \in K, v \in K :
            w = EncodeTopology(kv, a, b, d, p, v)
      BY <1>4
    <3> DEFINE x == << << << a, b >>, d >>, << p, v >> >>
    <3>2. x \in T
      OBVIOUS
    <3>3. g[x] = w
      BY <3>1, <3>2
    <3> QED
      BY <3>2, <3>3
  <2>3. g \in [T -> V]
    BY <2>1
  <2> HIDE DEF g, T
  <2> QED
    BY <2>2, <2>3 DEF Surjection
<1> HIDE DEF f, g, S, T
<1>7. IsFiniteSet(W) /\ IsFiniteSet(V)
  BY <1>2, <1>5, <1>6, FS_Surjection
<1> QED
  BY <1>7 DEF W, V

LEMMA ContentsFinite ==
  ASSUME NEW inst \in Instances
  PROVE  IsFiniteSet(Contents(inst)) /\ MaxNodes(inst) \in Nat
<1>1. IsFiniteSet(SUBSET WordsOfQuality(inst)) /\ IsFiniteSet(SUBSET WordsOfTopology(inst))
  BY WordsFinite, FS_SUBSET
<1>2. IsFiniteSet(Contents(inst))
  BY <1>1, FS_Product DEF Contents
<1> QED
  BY <1>2, FS_CardinalityType DEF MaxNodes

\* The words of a state of the model are among them.
LEMMA ContentOfState ==
  ASSUME NEW inst \in Instances, NEW s \in ModelStates(inst)
  PROVE  << QualityWords(inst.facts, s), TopologyWords(inst.facts, s) >> \in Contents(inst)
<1> DEFINE kv == inst.facts
<1>1. /\ kv \in Seq(STRING) /\ inst.assets \in Nat
      /\ \A f \in QualitiesOf(inst) : f.name \in ToSet(kv) /\ f.value \in ToSet(kv)
      /\ \A f \in LinksOf(inst) : f.property \in ToSet(kv) /\ f.value \in ToSet(kv)
  BY ModelStrings, InstancesAssumption DEF InstanceType, Known
<1>2. /\ s.qualities \in Seq(ModelQualities(inst))
      /\ s.topologies \in Seq(ModelTopologies(inst))
  BY DEF ModelStates, StatesOver
<1>3. ASSUME NEW q \in ToSet(s.qualities)
      PROVE  EncodeQuality(kv, q.asset, q.name, q.value) \in WordsOfQuality(inst)
  <2>1. q \in ModelQualities(inst)
    BY <1>2, ToSetElement
  <2>2. q.asset \in Nat /\ q.asset < inst.assets /\ q.name \in ToSet(kv) /\ q.value \in ToSet(kv)
    BY <1>1, <2>1 DEF ModelQualities, QualityType
  <2>3. q.asset \in 0 .. inst.assets - 1
    BY <1>1, <2>2
  <2> QED
    BY <2>2, <2>3 DEF WordsOfQuality
<1>4. ASSUME NEW t \in ToSet(s.topologies)
      PROVE  EncodeTopology(kv, t.from, t.to, t.dir, t.property, t.value) \in WordsOfTopology(inst)
  <2>1. t \in ModelTopologies(inst)
    BY <1>2, ToSetElement
  <2>2. /\ t.from \in Nat /\ t.from < inst.assets /\ t.to \in Nat /\ t.to < inst.assets
        /\ t.dir \in Directions /\ t.property \in ToSet(kv) /\ t.value \in ToSet(kv)
    BY <1>1, <2>1 DEF ModelTopologies, TopologyType
  <2>3. t.from \in 0 .. inst.assets - 1 /\ t.to \in 0 .. inst.assets - 1
    BY <1>1, <2>2
  <2> QED
    BY <2>2, <2>3 DEF WordsOfTopology
<1>5. QualityWords(kv, s) \subseteq WordsOfQuality(inst)
  BY <1>3 DEF QualityWords
<1>6. TopologyWords(kv, s) \subseteq WordsOfTopology(inst)
  BY <1>4 DEF TopologyWords
<1> QED
  BY <1>5, <1>6 DEF Contents

LEMMA NodesWithin ==
  ASSUME IInv, FactsOfModel
  PROVE  /\ Len(factbases) \in Nat /\ MaxNodes(instance) \in Nat
         /\ Len(factbases) <= MaxNodes(instance)
<1> DEFINE n == Len(factbases)
           kv == instance.facts
           content(s) == << QualityWords(kv, s), TopologyWords(kv, s) >>
           f == [i \in 1 .. n |-> content(factbases[i])]
<1>1. instance \in Instances /\ n \in Nat /\ DOMAIN factbases = 1 .. n
  BY LengthTyped DEF IInv, TypeOK
<1>2. IsFiniteSet(Contents(instance)) /\ MaxNodes(instance) \in Nat
  BY <1>1, ContentsFinite
<1>3. \A i \in 1 .. n : content(factbases[i]) \in Contents(instance)
  <2>1. ASSUME NEW i \in 1 .. n PROVE factbases[i] \in ModelStates(instance)
    BY <1>1, ElementTyped DEF FactsOfModel
  <2> QED
    BY <1>1, <2>1, ContentOfState
<1>4. ASSUME NEW i \in 1 .. n, NEW k \in 1 .. n, f[i] = f[k] PROVE i = k
  <2>1. content(factbases[i]) = content(factbases[k])
    BY <1>4
  <2>2. HashOf(factbases[i]) = HashOf(factbases[k])
    BY <2>1 DEF HashOf, Hash
  <2>3. /\ i - 1 \in Ids /\ k - 1 \in Ids
        /\ Node(i - 1) = factbases[i] /\ Node(k - 1) = factbases[k]
    BY <1>1 DEF Ids, Node
  <2>4. hash_map[HashOf(Node(i - 1))] = i - 1 /\ hash_map[HashOf(Node(k - 1))] = k - 1
    BY <2>3 DEF IInv, OneNodePerHash
  <2>5. i - 1 = k - 1
    BY <2>2, <2>3, <2>4
  <2> QED
    BY <1>1, <2>5
<1> HIDE DEF content
<1>5. f \in Injection(1 .. n, Contents(instance))
  BY <1>3, <1>4 DEF Injection, IsInjective
<1> HIDE DEF f
<1>6. IsFiniteSet(1 .. n) /\ Cardinality(1 .. n) <= MaxNodes(instance)
  BY <1>2, <1>5, FS_Injection DEF MaxNodes
<1>7. Cardinality(1 .. n) = n
  <2>1. 1 \in Int /\ n \in Int
    BY <1>1
  <2>2. Cardinality(1 .. n) = IF 1 > n THEN 0 ELSE n - 1 + 1
    BY <2>1, FS_Interval
  <2> QED
    BY <1>1, <2>2
<1> QED
  BY <1>1, <1>2, <1>6, <1>7

\* No graph has more nodes than there are pairs of sets of words of the model,
\* whatever the hash does.
THEOREM NodesAreBounded == Spec => [](Len(factbases) <= MaxNodes(instance))
<1>1. IInv /\ FactsOfModel => Len(factbases) <= MaxNodes(instance)
  BY NodesWithin
<1> QED
  BY <1>1, Invariance, StatesAreOfModel, PTL

LEMMA CandidatesFinite ==
  ASSUME NEW inst \in Instances
  PROVE  IsFiniteSet(Candidates(inst))
<1>1. inst.exploits \in Seq(ExploitType) /\ inst.assets \in Nat
  BY InstancesAssumption DEF InstanceType
<1> DEFINE M(i) == {i} \X DOMAIN od_map(inst, inst.exploits[i].num_params)
           S == {M(i) : i \in DOMAIN inst.exploits}
           f == [i \in DOMAIN inst.exploits |-> M(i)]
<1>2. ASSUME NEW i \in DOMAIN inst.exploits PROVE IsFiniteSet(M(i))
  <2> DEFINE n == inst.exploits[i].num_params
             D == DOMAIN od_map(inst, n)
  <2>1. n \in Nat
    <3>1. inst.exploits[i] \in ExploitType
      BY <1>1, ElementTyped
    <3> QED
      BY <3>1 DEF ExploitType
  <2> HIDE DEF n
  <2>2. D = 1 .. Length(n, inst.assets)
    BY DEF od_map, Perms
  <2>3. Length(n, inst.assets) \in Nat
    BY <1>1, <2>1, LengthNat
  <2>4. \A k \in Nat : IsFiniteSet(1 .. k)
    BY FS_Interval
  <2>5. IsFiniteSet(D)
    BY <2>2, <2>3, <2>4
  <2>6. IsFiniteSet({i})
    BY FS_Singleton
  <2> HIDE DEF D
  <2>7. IsFiniteSet({i} \X D)
    BY <2>5, <2>6, FS_Product
  <2> QED
    BY <2>7 DEF D, n
<1>3. IsFiniteSet(DOMAIN inst.exploits)
  BY <1>1, ElementsFinite
<1>4. Candidates(inst) = UNION S
  BY DEF Candidates
<1>5. \A T \in S : IsFiniteSet(T)
  BY <1>2
<1> HIDE DEF M
<1>6. f \in Surjection(DOMAIN inst.exploits, S)
  BY DEF Surjection
<1> HIDE DEF S, f
<1>7. IsFiniteSet(S)
  BY <1>3, <1>6, FS_Surjection
<1> QED
  BY <1>4, <1>5, <1>7, FS_UNION

\* What is left is three numbers.
LEMMA LeftTyped ==
  ASSUME IInv, FactsOfModel
  PROVE  /\ MaxNodes(instance) \in Nat /\ Len(factbases) \in Nat
         /\ MaxNodes(instance) - Len(factbases) \in Nat
         /\ Len(frontier) \in Nat
         /\ IsFiniteSet(appl_exploits) /\ Cardinality(appl_exploits) \in Nat
         /\ Left \in Nat \X Nat \X Nat
<1>1. instance \in Instances /\ appl_exploits \subseteq Candidates(instance)
  BY DEF IInv, TypeOK
<1>2. IsFiniteSet(appl_exploits) /\ Cardinality(appl_exploits) \in Nat
  BY <1>1, CandidatesFinite, FS_Subset, FS_CardinalityType
<1>3. Len(frontier) \in Nat
  BY LengthTyped DEF IInv, TypeOK
<1>4. MaxNodes(instance) - Len(factbases) \in Nat
  BY NodesWithin
<1> QED
  BY <1>2, <1>3, <1>4, NodesWithin DEF Left

LEMMA StepIsProgress ==
  ASSUME IInv, FactsOfModel, Next, status = "generating"
  PROVE  status' # "generating" \/ Less(Left', Left)
<1>1. CASE FetchState
  <2>1. /\ factbases' = factbases /\ instance' = instance
        /\ frontier # << >> /\ frontier' = Front(frontier)
    BY <1>1 DEF FetchState, Remaining
  <2>2. frontier \in Seq(NetworkStateType)
    BY DEF IInv, TypeOK
  <2>3. Len(frontier') < Len(frontier)
    BY <2>1, <2>2 DEF Front
  <2> QED
    BY <2>1, <2>3 DEF Less, Left
<1>2. CASE NewState
  <2>1. factbases' = Append(factbases, NewNode) /\ instance' = instance
    BY <1>2 DEF NewState, TakeMove
  <2>2. Len(factbases') = Len(factbases) + 1
    <3>1. factbases \in Seq(NetworkStateType)
      BY DEF IInv, TypeOK
    <3> QED
      BY <2>1, <3>1
  <2>3. MaxNodes(instance)' = MaxNodes(instance)
    BY <2>1
  <2>4. MaxNodes(instance)' - Len(factbases') < MaxNodes(instance) - Len(factbases)
    BY <2>2, <2>3, LeftTyped
  <2> QED
    BY <2>4 DEF Less, Left
<1>3. CASE NoChange \/ KnownState
  <2>1. /\ factbases' = factbases /\ instance' = instance /\ frontier' = frontier
        /\ appl_exploits # {} /\ appl_exploits' = appl_exploits \ {NextMove}
    BY <1>3 DEF NoChange, KnownState, TakeMove
  <2>2. NextMove \in appl_exploits
    BY <2>1, NextMoveIsMove DEF IInv, TypeOK
  <2>3. /\ IsFiniteSet(appl_exploits) /\ Cardinality(appl_exploits) \in Nat
    BY LeftTyped
  <2>4. Cardinality(appl_exploits') = Cardinality(appl_exploits) - 1
    BY <2>1, <2>2, <2>3, FS_RemoveElement
  <2>5. Cardinality(appl_exploits') < Cardinality(appl_exploits)
    BY <2>3, <2>4
  <2> QED
    BY <2>1, <2>5 DEF Less, Left
<1>4. CASE Finish \/ Abort
  BY <1>4 DEF Finish, Abort
<1>5. CASE Stopped
  BY <1>5 DEF Stopped
<1> QED
  BY <1>1, <1>2, <1>3, <1>4, <1>5 DEF Next

\* generate has less to do after every step, in an order without endless
\* descents: an iteration of the inner loop that makes no node takes a move off
\* the vector, one that makes a node leaves fewer that can be made, and one of the
\* outer loop takes a state off the deque.  With the fairness of Spec, this is why
\* it ends.
THEOREM EveryStepIsProgress ==
  Spec => /\ [](Left \in Nat \X Nat \X Nat)
          /\ [][status = "generating" => status' # "generating" \/ Less(Left', Left)]_vars
<1>1. IInv /\ FactsOfModel => Left \in Nat \X Nat \X Nat
  BY LeftTyped
<1>2. IInv /\ FactsOfModel /\ [Next]_vars
        => [status = "generating" => status' # "generating" \/ Less(Left', Left)]_vars
  BY StepIsProgress
<1> QED
  BY <1>1, <1>2, Invariance, StatesAreOfModel, PTL DEF Spec

=============================================================================
