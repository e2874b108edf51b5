------------------------------ MODULE FactSets ------------------------------
(***************************************************************************)
(* The meaning of exploits over sets of facts: what module NetworkState    *)
(* computes with vectors, first matches and encodings, without them.  It   *)
(* is the reference the generator is checked against, for models whose     *)
(* links are all bidirectional.                                            *)
(***************************************************************************)
EXTENDS Integers, Sequences

Elements(s) == {s[i] : i \in DOMAIN s}

QualityFact(asset, name, value) ==
  [asset |-> asset, name |-> name, value |-> value]

LinkFact(from, to, dir, property, op, value) ==
  [from |-> from, to |-> to, dir |-> dir, property |-> property, op |-> op,
   value |-> value]

\* A node: the qualities and the links that are true.
FactSet(quals, topos) ==
  [quals |-> {QualityFact(q.asset, q.name, q.value) : q \in Elements(quals)},
   links |-> {LinkFact(t.from, t.to, t.dir, t.property, t.op, t.value) :
                t \in Elements(topos)}]

Start(md) == FactSet(md.initial_qualities, md.initial_topologies)

\* Two descriptions of one connection: it has no orientation.
SameLink(t, u) ==
  /\ {t.from, t.to} = {u.from, u.to}
  /\ << t.property, t.op, t.value >> = << u.property, u.op, u.value >>

HasLink(node, u) == \E t \in node.links : SameLink(t, u)

-----------------------------------------------------------------------------
\* An asset group gives an asset to each parameter, counted from 0.
Groups(md, ex) == [1 .. ex.num_params -> 0 .. md.assets - 1]

GroundQuality(group, pq) == QualityFact(group[pq.param + 1], pq.name, pq.value)

GroundLink(group, pt) ==
  LinkFact(group[pt.from_param + 1], group[pt.to_param + 1], pt.dir,
           pt.property, pt.op, pt.value)

Applies(node, ex, group) ==
  /\ \A p \in Elements(ex.preconds_q) : GroundQuality(group, p) \in node.quals
  /\ \A p \in Elements(ex.preconds_t) : HasLink(node, GroundLink(group, p))

ChangeQuals(S, action, f) ==
  CASE action = "add"    -> S \cup {f}
    [] action = "delete" -> S \ {f}
    [] action = "update" ->
         {IF g.asset = f.asset /\ g.name = f.name THEN f ELSE g : g \in S}

ChangeLinks(S, action, f) ==
  CASE action = "add"    ->
         IF \E t \in S : SameLink(t, f) THEN S ELSE S \cup {f}
    [] action = "delete" -> {t \in S : ~ SameLink(t, f)}
    [] action = "update" ->
         {IF << t.from, t.to, t.property >> = << f.from, f.to, f.property >>
          THEN [t EXCEPT !.value = f.value] ELSE t : t \in S}

Result(node, ex, group) ==
  LET q[n \in 0 .. Len(ex.postconds_q)] ==
        IF n = 0 THEN node.quals
        ELSE LET p == ex.postconds_q[n]
             IN  ChangeQuals(q[n - 1], p.action, GroundQuality(group, p.fact))
      l[n \in 0 .. Len(ex.postconds_t)] ==
        IF n = 0 THEN node.links
        ELSE LET p == ex.postconds_t[n]
             IN  ChangeLinks(l[n - 1], p.action, GroundLink(group, p.fact))
  IN  [quals |-> q[Len(ex.postconds_q)], links |-> l[Len(ex.postconds_t)]]

-----------------------------------------------------------------------------
\* The strings of a model's facts and postconditions.
Vocabulary(md) ==
  LET node == Start(md)
      postsq == UNION {Elements(ex.postconds_q) : ex \in Elements(md.exploits)}
      postst == UNION {Elements(ex.postconds_t) : ex \in Elements(md.exploits)}
  IN  UNION ({{q.name, q.value} : q \in node.quals} \cup
             {{t.property, t.value} : t \in node.links} \cup
             {{p.fact.name, p.fact.value} : p \in postsq} \cup
             {{p.fact.property, p.fact.value} : p \in postst})

HasUnknownPrecondition(md) ==
  \E ex \in Elements(md.exploits) :
    \/ \E p \in Elements(ex.preconds_q) : ~ {p.name, p.value} \subseteq Vocabulary(md)
    \/ \E p \in Elements(ex.preconds_t) : ~ {p.property, p.value} \subseteq Vocabulary(md)

=============================================================================
