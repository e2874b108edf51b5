------------------------------- MODULE Facts -------------------------------
(***************************************************************************)
(* The facts an attack graph is made of: the Keyvalue dictionary that      *)
(* numbers every string, the qualities (asset:name=value) and topologies   *)
(* (asset-asset:property=value) with the equality the factbase searches    *)
(* by, and the 64-bit words both are packed into.                          *)
(*                                                                         *)
(* Strings are TLA+ strings.  The operation of a quality is dropped: the   *)
(* code neither compares nor encodes it.                                   *)
(***************************************************************************)
EXTENDS Integers, SequencesExt

CONSTANTS
  AssetSpan,   \* values of an asset field, 2^16 in the code
  AttrSpan,    \* values of a quality's attribute field, 2^12 in the code
  PropSpan,    \* values of a topology's property field, 2^10 in the code
  ValueSpan    \* values of a value field, 2^16 in the code

ASSUME SpanAssumption ==
  /\ AssetSpan \in Nat \ {0}
  /\ AttrSpan  \in Nat \ {0}
  /\ PropSpan  \in Nat \ {0}
  /\ ValueSpan \in Nat \ {0, 1}

-----------------------------------------------------------------------------
(* Keyvalue: str_vector; hash_table maps a string to its last position,    *)
(* counted from 0, and at() throws for a string that was never inserted.   *)

Known(kv, str) == str \in ToSet(kv)

KeyvalueAt(kv, str) ==
  CHOOSE i \in 0 .. Len(kv) - 1 :
    kv[i + 1] = str /\ \A k \in i + 2 .. Len(kv) : kv[k] # str

-----------------------------------------------------------------------------
(* The enumeration DIRECTION_T.                                            *)

FORWARD     == 0
BACKWARD    == 1
BIDIRECTION == 2

Directions == {FORWARD, BACKWARD, BIDIRECTION}

(***************************************************************************)
(* An encoding is the union's 64-bit word, kept as its four 16-bit         *)
(* quarters, the lowest first.  A bit-field keeps the low bits of what is  *)
(* assigned to it.  The highest quarter of a quality is unused.  The two   *)
(* variants that leave a field out serve to show that the properties       *)
(* notice it.                                                              *)
(***************************************************************************)
Word == [1..4 -> Nat]

QualityWord == {w \in Word : w[4] = 0}

QualityWithoutName(kv, asset, name, value) ==
  << asset % AssetSpan, 0, KeyvalueAt(kv, value) % ValueSpan, 0 >>

QualityWithoutAsset(kv, asset, name, value) ==
  << 0, KeyvalueAt(kv, name) % AttrSpan, KeyvalueAt(kv, value) % ValueSpan, 0 >>

EncodeQuality(kv, asset, name, value) ==
  << asset % AssetSpan,
     KeyvalueAt(kv, name) % AttrSpan,
     KeyvalueAt(kv, value) % ValueSpan,
     0 >>

EncodeTopology(kv, from, to, dir, property, value) ==
  << from % AssetSpan,
     to % AssetSpan,
     dir + 4 * (KeyvalueAt(kv, property) % PropSpan),
     KeyvalueAt(kv, value) % ValueSpan >>

\* The numeric order of two words, which is the order std::set iterates in.
WordLess(v, w) ==
  \E i \in 1..4 : v[i] < w[i] /\ \A k \in i+1 .. 4 : v[k] = w[k]

-----------------------------------------------------------------------------
(* The two classes; encoded is computed once, by the constructor.          *)

Quality(kv, asset, name, value) ==
  [asset |-> asset, name |-> name, value |-> value,
   encoded |-> EncodeQuality(kv, asset, name, value)]

Topology(kv, from, to, dir, property, op, value) ==
  [from |-> from, to |-> to, dir |-> dir, property |-> property, op |-> op,
   value |-> value,
   encoded |-> EncodeTopology(kv, from, to, dir, property, value)]

QualityType ==
  [asset : Nat, name : STRING, value : STRING, encoded : QualityWord]

TopologyType ==
  [from : Nat, to : Nat, dir : Directions, property : STRING, op : STRING,
   value : STRING, encoded : Word]

QualityEq(q, r) == q.asset = r.asset /\ q.name = r.name /\ q.value = r.value

(***************************************************************************)
(* Topology::operator==, whose left operand is the stored topology: a      *)
(* stored topology that is not bidirectional equals every topology that    *)
(* shares its source or its target, whatever the property and the value.   *)
(***************************************************************************)
TopologyEq(t, u) ==
  IF t.dir # BIDIRECTION
  THEN t.from = u.from \/ t.to = u.to
  ELSE /\ t.from \in {u.from, u.to}
       /\ t.to \in {u.from, u.to}
       /\ t.property = u.property
       /\ t.op = u.op
       /\ t.value = u.value

=============================================================================
