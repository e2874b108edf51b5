--------------------------- MODULE SaveGraph_proofs ---------------------------
(***************************************************************************)
(* The saving, for every set of graphs that satisfies GraphAssumption, of  *)
(* any number of factbases, items and edges, under any kill, lost          *)
(* connection or refused insert: types, what an edge has with it, which    *)
(* edges are there, in which order things come, what a picture shows, that *)
(* the saving implements GraphStore, and what follows from that.           *)
(*                                                                         *)
(* The argument.  program is laid out in one of two ways (LaidOut), with   *)
(* the parts of it at fixed positions whatever the graph.  Once the        *)
(* server has answered n of its statements, the rows its transaction has   *)
(* are Written(graph, order, n), those that others see are the rows        *)
(* written up to the last COMMIT (Committed), and whether the transaction  *)
(* has failed is Refused; all three are plain functions of n.  IInv says   *)
(* that what the server holds is given by these functions for some n, and  *)
(* that the client is at n or one ahead.  Each invariant is then a fact    *)
(* about the functions, and that a COMMIT is a step of GraphStore one      *)
(* about their values before and after it.                                 *)
(***************************************************************************)
EXTENDS SaveGraph, Induction

-----------------------------------------------------------------------------
(***************************************************************************)
(* Where the statements are in the program: three for the factbases, three *)
(* for each quarter of the items, four for each half of the edges if there *)
(* are any, three for the keyvalues, and the two queries of option -g.     *)
(***************************************************************************)
FactbaseInsert(g) == SaveFactbases(g)[2]

ItemInsert(g, k) == SaveItems(g, k)[2]

EdgeInsert(g, order, h) == EdgeInserts(g, Half(order, h))[1]

BindingInsert(g, order, h) == EdgeInserts(g, Half(order, h))[2]

KeyvalueInsert(g) == SaveKeyvalue(g)[2]

\* The last statement before the keyvalues, and the last of all.
BeforeKeyvalue(g) == IF g.edges = << >> THEN 15 ELSE 23

LastStatement(g) == BeforeKeyvalue(g) + (IF g.should_graph THEN 5 ELSE 3)

Statements(g, order) ==
  {BEGIN, COMMIT, FactbaseInsert(g), KeyvalueInsert(g),
   Select("factbase"), Select("edge")}
    \cup {ItemInsert(g, k) : k \in 0 .. 3}
    \cup {EdgeInsert(g, order, h) : h \in 0 .. 1}
    \cup {BindingInsert(g, order, h) : h \in 0 .. 1}

IsTransaction(p, at, insert) ==
  p[at + 1] = BEGIN /\ p[at + 2] = insert /\ p[at + 3] = COMMIT

IsEdgeTransaction(p, at, insert, bindings) ==
  /\ p[at + 1] = BEGIN /\ p[at + 2] = insert /\ p[at + 3] = bindings
  /\ p[at + 4] = COMMIT

LaidOut(g, order, p) ==
  /\ p \in Seq(Statements(g, order))
  /\ Len(p) = LastStatement(g)
  /\ IsTransaction(p, 0, FactbaseInsert(g))
  /\ \A k \in 0 .. 3 : IsTransaction(p, 3 + 3 * k, ItemInsert(g, k))
  /\ g.edges # << >> => \A h \in 0 .. 1 :
       IsEdgeTransaction(p, 15 + 4 * h, EdgeInsert(g, order, h), BindingInsert(g, order, h))
  /\ IsTransaction(p, BeforeKeyvalue(g), KeyvalueInsert(g))
  /\ g.should_graph =>
       /\ p[BeforeKeyvalue(g) + 4] = Select("factbase")
       /\ p[BeforeKeyvalue(g) + 5] = Select("edge")

\* The sequence p holds the sequence s from position at + 1.
Within(s, at, p) ==
  /\ Len(s) \in Nat /\ Len(p) \in Nat
  /\ at \in Nat /\ at + Len(s) <= Len(p)
  /\ \A i \in 1 .. Len(s) : p[at + i] = s[i]

LEMMA WithinTransitive ==
  ASSUME NEW r, NEW s, NEW p, NEW at, NEW to,
         Within(r, at, s), Within(s, to, p)
  PROVE  Within(r, to + at, p)
<1>1. /\ Len(r) \in Nat /\ Len(s) \in Nat /\ Len(p) \in Nat
      /\ at \in Nat /\ to \in Nat
      /\ at + Len(r) <= Len(s) /\ to + Len(s) <= Len(p)
  BY DEF Within
<1>2. ASSUME NEW i \in 1 .. Len(r) PROVE p[(to + at) + i] = r[i]
  <2>1. s[at + i] = r[i]
    BY DEF Within
  <2>2. at + i \in 1 .. Len(s) /\ to + (at + i) = (to + at) + i
    BY <1>1
  <2>3. p[to + (at + i)] = s[at + i]
    BY <2>2 DEF Within
  <2> QED
    BY <2>1, <2>2, <2>3
<1> QED
  BY <1>1, <1>2 DEF Within

\* What a concatenation holds.
Joined(s, t, S, u) ==
  /\ u \in Seq(S) /\ Len(u) = Len(s) + Len(t)
  /\ Within(s, 0, u) /\ Within(t, Len(s), u)

LEMMA Joining ==
  ASSUME NEW S, NEW s \in Seq(S), NEW t \in Seq(S)
  PROVE  Joined(s, t, S, s \o t)
<1>1. /\ Len(s \o t) = Len(s) + Len(t)
      /\ Len(s) \in Nat /\ Len(t) \in Nat
      /\ s \o t \in Seq(S)
      /\ \A i \in 1 .. Len(s) + Len(t) :
           (s \o t)[i] = IF i <= Len(s) THEN s[i] ELSE t[i - Len(s)]
  BY ConcatProperties
<1> QED
  BY <1>1 DEF Joined, Within

\* A sequence of three statements, and one of four.
IsTriple(s, S, insert) ==
  s \in Seq(S) /\ Len(s) = 3 /\ s[1] = BEGIN /\ s[2] = insert /\ s[3] = COMMIT

IsQuadruple(s, S, insert, bindings) ==
  /\ s \in Seq(S) /\ Len(s) = 4
  /\ s[1] = BEGIN /\ s[2] = insert /\ s[3] = bindings /\ s[4] = COMMIT

LEMMA TripleWithin ==
  ASSUME NEW s, NEW S, NEW insert, NEW at, NEW p,
         IsTriple(s, S, insert), Within(s, at, p)
  PROVE  IsTransaction(p, at, insert)
<1>1. 1 \in 1 .. Len(s) /\ 2 \in 1 .. Len(s) /\ 3 \in 1 .. Len(s)
  BY DEF IsTriple
<1> QED
  BY <1>1 DEF IsTriple, Within, IsTransaction

LEMMA QuadrupleWithin ==
  ASSUME NEW s, NEW S, NEW insert, NEW bindings, NEW at, NEW p,
         IsQuadruple(s, S, insert, bindings), Within(s, at, p)
  PROVE  IsEdgeTransaction(p, at, insert, bindings)
<1>1. 1 \in 1 .. Len(s) /\ 2 \in 1 .. Len(s) /\ 3 \in 1 .. Len(s) /\ 4 \in 1 .. Len(s)
  BY DEF IsQuadruple
<1> QED
  BY <1>1 DEF IsQuadruple, Within, IsEdgeTransaction

LEMMA Layout ==
  ASSUME NEW g, NEW order
  PROVE  LaidOut(g, order, Program(g, order))
<1> DEFINE S == Statements(g, order)
           a == SaveFactbases(g)
           b(k) == SaveItems(g, k)
           e(h) == SaveHalf(g, order, h)
           d == SaveKeyvalue(g)
           q == IF g.should_graph THEN fetch_graph_info ELSE << >>
<1>1. /\ BEGIN \in S /\ COMMIT \in S /\ FactbaseInsert(g) \in S /\ KeyvalueInsert(g) \in S
      /\ Select("factbase") \in S /\ Select("edge") \in S
      /\ \A k \in 0 .. 3 : ItemInsert(g, k) \in S
      /\ \A h \in 0 .. 1 : EdgeInsert(g, order, h) \in S /\ BindingInsert(g, order, h) \in S
  BY DEF Statements
<1>2. \A insert \in S : IsTriple(<< BEGIN, insert, COMMIT >>, S, insert)
  <2> HIDE DEF S
  <2> QED
    BY <1>1 DEF IsTriple
<1>3. IsTriple(a, S, FactbaseInsert(g))
  <2>1. a = << BEGIN, FactbaseInsert(g), COMMIT >>
    BY DEF SaveFactbases, FactbaseInsert
  <2> QED
    BY <1>1, <1>2, <2>1, Zenon
<1>4. \A k \in 0 .. 3 : IsTriple(b(k), S, ItemInsert(g, k))
  <2> TAKE k \in 0 .. 3
  <2>1. b(k) = << BEGIN, ItemInsert(g, k), COMMIT >>
    BY DEF SaveItems, ItemInsert
  <2> QED
    BY <1>1, <1>2, <2>1, Zenon
<1>5. IsTriple(d, S, KeyvalueInsert(g))
  <2>1. d = << BEGIN, KeyvalueInsert(g), COMMIT >>
    BY DEF SaveKeyvalue, KeyvalueInsert
  <2> QED
    BY <1>1, <1>2, <2>1, Zenon
<1>6. \A h \in 0 .. 1 :
        IsQuadruple(e(h), S, EdgeInsert(g, order, h), BindingInsert(g, order, h))
  <2> TAKE h \in 0 .. 1
  <2> DEFINE x == EdgeInsert(g, order, h)
             y == BindingInsert(g, order, h)
             s == << BEGIN >>
             t == << x, y >>
             u == << COMMIT >>
             st == s \o t
  <2>1. EdgeInserts(g, Half(order, h)) = t
    BY DEF EdgeInserts, EdgeInsert, BindingInsert
  <2>2. e(h) = st \o u
    BY <2>1 DEF SaveHalf
  <2>3. BEGIN \in S /\ x \in S /\ y \in S /\ COMMIT \in S
    BY <1>1
  <2> HIDE DEF S, x, y
  <2>4. /\ s \in Seq(S) /\ Len(s) = 1 /\ s[1] = BEGIN
        /\ t \in Seq(S) /\ Len(t) = 2 /\ t[1] = x /\ t[2] = y
        /\ u \in Seq(S) /\ Len(u) = 1 /\ u[1] = COMMIT
    BY <2>3
  <2> HIDE DEF s, t, u
  <2>5. Joined(s, t, S, st)
    BY <2>4, Joining
  <2>6. st \in Seq(S) /\ Len(st) = 3
    BY <2>4, <2>5 DEF Joined
  <2> HIDE DEF st
  <2>7. Joined(st, u, S, e(h))
    BY <2>2, <2>4, <2>6, Joining
  <2> HIDE DEF e
  <2>8. Within(st, 0, e(h)) /\ Within(u, 3, e(h)) /\ Within(s, 0, st) /\ Within(t, 1, st)
    BY <2>4, <2>5, <2>6, <2>7 DEF Joined
  <2>9. 0 + 0 = 0 /\ 0 + 1 = 1
    OBVIOUS
  <2>10. Within(s, 0, e(h)) /\ Within(t, 1, e(h))
    BY <2>8, <2>9, WithinTransitive
  <2>11. /\ \A i \in 1 .. 1 : e(h)[0 + i] = s[i]
         /\ \A i \in 1 .. 2 : e(h)[1 + i] = t[i]
         /\ \A i \in 1 .. 1 : e(h)[3 + i] = u[i]
    BY <2>4, <2>8, <2>10 DEF Within
  <2>12. /\ e(h)[0 + 1] = s[1] /\ e(h)[1 + 1] = t[1] /\ e(h)[1 + 2] = t[2]
         /\ e(h)[3 + 1] = u[1]
    BY <2>11
  <2>13. e(h) \in Seq(S) /\ Len(e(h)) = 4
    BY <2>4, <2>6, <2>7 DEF Joined
  <2> QED
    BY <2>4, <2>12, <2>13 DEF IsQuadruple, x, y
<1>7. /\ q \in Seq(S) /\ Len(q) = (IF g.should_graph THEN 2 ELSE 0)
      /\ g.should_graph => q[1] = Select("factbase") /\ q[2] = Select("edge")
  <2> HIDE DEF S
  <2> QED
    BY <1>1 DEF fetch_graph_info
<1> HIDE DEF S, a, b, e, d, q
<1> DEFINE m == SaveAllItems(g)
           w == SaveEdges(g, order)
<1>8. /\ m \in Seq(S) /\ Len(m) = 12
      /\ \A k \in 0 .. 3 : Within(b(k), 3 * k, m)
  <2> DEFINE b0 == b(0)
             b1 == b(1)
             b2 == b(2)
             b3 == b(3)
             u == b0 \o b1
             v == u \o b2
  <2>1. /\ b0 \in Seq(S) /\ Len(b0) = 3 /\ b1 \in Seq(S) /\ Len(b1) = 3
        /\ b2 \in Seq(S) /\ Len(b2) = 3 /\ b3 \in Seq(S) /\ Len(b3) = 3
    <3>1. \A k \in 0 .. 3 : b(k) \in Seq(S) /\ Len(b(k)) = 3
      BY <1>4 DEF IsTriple
    <3>2. 0 \in 0 .. 3 /\ 1 \in 0 .. 3 /\ 2 \in 0 .. 3 /\ 3 \in 0 .. 3
      OBVIOUS
    <3> QED
      BY <3>1, <3>2, Zenon
  <2>2. m = v \o b3
    BY DEF SaveAllItems, b
  <2> HIDE DEF m, b0, b1, b2, b3
  <2>3. Joined(b0, b1, S, u)
    BY <2>1, Joining
  <2> HIDE DEF u
  <2>4. u \in Seq(S) /\ Len(u) = 6
    BY <2>1, <2>3 DEF Joined
  <2>5. Joined(u, b2, S, v)
    BY <2>1, <2>4, Joining
  <2> HIDE DEF v
  <2>6. v \in Seq(S) /\ Len(v) = 9
    BY <2>1, <2>4, <2>5 DEF Joined
  <2>7. Joined(v, b3, S, m)
    BY <2>1, <2>2, <2>6, Joining
  <2>8. m \in Seq(S) /\ Len(m) = 12
    BY <2>1, <2>6, <2>7 DEF Joined
  <2>9. /\ Within(b0, 0, u) /\ Within(b1, 3, u)
        /\ Within(u, 0, v) /\ Within(b2, 6, v)
        /\ Within(v, 0, m) /\ Within(b3, 9, m)
    BY <2>1, <2>3, <2>4, <2>5, <2>6, <2>7 DEF Joined
  <2>10. 0 + 0 = 0 /\ 0 + 3 = 3 /\ 0 + 6 = 6
    OBVIOUS
  <2>11. Within(u, 0, m)
    BY <2>9, <2>10, WithinTransitive
  <2>12. Within(b0, 0, m)
    BY <2>9, <2>10, <2>11, WithinTransitive
  <2>13. Within(b1, 3, m)
    BY <2>9, <2>10, <2>11, WithinTransitive
  <2>14. Within(b2, 6, m)
    BY <2>9, <2>10, WithinTransitive
  <2>15. ASSUME NEW k \in 0 .. 3 PROVE Within(b(k), 3 * k, m)
    <3>1. k = 0 \/ k = 1 \/ k = 2 \/ k = 3
      OBVIOUS
    <3>2. 3 * 0 = 0 /\ 3 * 1 = 3 /\ 3 * 2 = 6 /\ 3 * 3 = 9
      OBVIOUS
    <3> QED
      BY <3>1, <3>2, <2>9, <2>12, <2>13, <2>14, Zenon DEF b0, b1, b2, b3
  <2> QED
    BY <2>8, <2>15
<1>9. /\ w \in Seq(S) /\ Len(w) = BeforeKeyvalue(g) - 15
      /\ g.edges # << >> => \A h \in 0 .. 1 : Within(e(h), 4 * h, w)
  <2>1. CASE g.edges = << >>
    <3>1. w = << >>
      BY <2>1 DEF SaveEdges
    <3> QED
      BY <2>1, <3>1 DEF BeforeKeyvalue
  <2>2. CASE g.edges # << >>
    <3> DEFINE e0 == e(0)
               e1 == e(1)
    <3>1. w = e0 \o e1
      BY <2>2 DEF SaveEdges, e
    <3>2. e0 \in Seq(S) /\ Len(e0) = 4 /\ e1 \in Seq(S) /\ Len(e1) = 4
      <4>1. \A h \in 0 .. 1 : e(h) \in Seq(S) /\ Len(e(h)) = 4
        BY <1>6 DEF IsQuadruple
      <4>2. 0 \in 0 .. 1 /\ 1 \in 0 .. 1
        OBVIOUS
      <4> QED
        BY <4>1, <4>2, Zenon
    <3> HIDE DEF w, e0, e1
    <3>3. Joined(e0, e1, S, w)
      BY <3>1, <3>2, Joining
    <3>4. w \in Seq(S) /\ Len(w) = 8 /\ Within(e0, 0, w) /\ Within(e1, 4, w)
      BY <3>2, <3>3 DEF Joined
    <3>5. ASSUME NEW h \in 0 .. 1 PROVE Within(e(h), 4 * h, w)
      <4>1. (h = 0 /\ 4 * h = 0) \/ (h = 1 /\ 4 * h = 4)
        OBVIOUS
      <4> QED
        BY <4>1, <3>4, Zenon DEF e0, e1
    <3>6. BeforeKeyvalue(g) - 15 = 8
      BY <2>2 DEF BeforeKeyvalue
    <3> QED
      BY <3>4, <3>5, <3>6
  <2> QED
    BY <2>1, <2>2
<1> HIDE DEF m, w
<1> DEFINE am == a \o m
           amw == am \o w
           s == amw \o d
           p == Program(g, order)
           K == BeforeKeyvalue(g)
<1>10. p = s \o q
  BY DEF Program, save_ag_to_db, a, d, q, m, w
<1>11. K \in {15, 23}
  BY DEF BeforeKeyvalue
<1>12. a \in Seq(S) /\ Len(a) = 3 /\ d \in Seq(S) /\ Len(d) = 3
  BY <1>3, <1>5 DEF IsTriple
<1> HIDE DEF p, K
<1>13. Joined(a, m, S, am)
  BY <1>12, <1>8, Joining
<1>14. am \in Seq(S) /\ Len(am) = 15
  BY <1>13, <1>12, <1>8 DEF Joined
<1> HIDE DEF am
<1>15. Joined(am, w, S, amw)
  BY <1>14, <1>9, Joining
<1>16. amw \in Seq(S) /\ Len(amw) = K
  BY <1>15, <1>14, <1>9, <1>11 DEF Joined, K
<1> HIDE DEF amw
<1>17. Joined(amw, d, S, s)
  BY <1>16, <1>12, Joining
<1>18. s \in Seq(S) /\ Len(s) = K + 3
  BY <1>17, <1>16, <1>12 DEF Joined
<1> HIDE DEF s
<1>19. Joined(s, q, S, p)
  BY <1>10, <1>18, <1>7, Joining
<1>20. p \in Seq(S) /\ Len(p) = LastStatement(g)
  <2>1. Len(p) = (K + 3) + (IF g.should_graph THEN 2 ELSE 0)
    BY <1>19, <1>18, <1>7 DEF Joined
  <2> QED
    BY <2>1, <1>11, <1>19 DEF Joined, LastStatement, K
<1>21. Within(s, 0, p) /\ Within(q, K + 3, p)
  BY <1>19, <1>18 DEF Joined
<1>22. Within(amw, 0, s) /\ Within(d, K, s)
  BY <1>17, <1>16 DEF Joined
<1>23. Within(am, 0, amw) /\ Within(w, 15, amw)
  BY <1>15, <1>14 DEF Joined
<1>24. Within(a, 0, am) /\ Within(m, 3, am)
  BY <1>13, <1>12 DEF Joined
<1>25. 0 + 0 = 0 /\ 0 + K = K /\ 0 + 15 = 15 /\ 0 + 3 = 3
  BY <1>11
<1>26. Within(amw, 0, p)
  BY <1>21, <1>22, <1>25, WithinTransitive
<1>27. Within(am, 0, p)
  BY <1>23, <1>25, <1>26, WithinTransitive
<1>28. Within(d, K, p)
  BY <1>21, <1>22, <1>25, WithinTransitive
<1>29. Within(w, 15, p)
  BY <1>23, <1>25, <1>26, WithinTransitive
<1>30. Within(a, 0, p)
  BY <1>24, <1>25, <1>27, WithinTransitive
<1>31. Within(m, 3, p)
  BY <1>24, <1>25, <1>27, WithinTransitive
<1>32. IsTransaction(p, 0, FactbaseInsert(g))
  BY <1>3, <1>30, TripleWithin
<1>33. ASSUME NEW k \in 0 .. 3 PROVE IsTransaction(p, 3 + 3 * k, ItemInsert(g, k))
  <2>1. Within(b(k), 3 + 3 * k, p)
    BY <1>8, <1>31, WithinTransitive
  <2> QED
    BY <1>4, <2>1, TripleWithin
<1>34. ASSUME g.edges # << >>, NEW h \in 0 .. 1
       PROVE  IsEdgeTransaction(p, 15 + 4 * h, EdgeInsert(g, order, h), BindingInsert(g, order, h))
  <2>1. Within(e(h), 15 + 4 * h, p)
    BY <1>34, <1>9, <1>29, WithinTransitive
  <2> QED
    BY <1>6, <2>1, QuadrupleWithin
<1>35. IsTransaction(p, K, KeyvalueInsert(g))
  BY <1>5, <1>28, TripleWithin
<1>36. g.should_graph => p[K + 4] = Select("factbase") /\ p[K + 5] = Select("edge")
  <2> SUFFICES ASSUME g.should_graph
               PROVE  p[K + 4] = Select("factbase") /\ p[K + 5] = Select("edge")
    OBVIOUS
  <2>1. \A i \in 1 .. 2 : p[(K + 3) + i] = q[i]
    BY <1>7, <1>21 DEF Within
  <2>2. p[(K + 3) + 1] = q[1] /\ p[(K + 3) + 2] = q[2]
    BY <2>1
  <2>3. (K + 3) + 1 = K + 4 /\ (K + 3) + 2 = K + 5
    BY <1>11
  <2> QED
    BY <1>7, <2>2, <2>3
<1> QED
  BY <1>20, <1>32, <1>33, <1>34, <1>35, <1>36 DEF LaidOut, S, p, K

-----------------------------------------------------------------------------
(***************************************************************************)
(* The rows of an insert.                                                  *)
(***************************************************************************)
\* The elements of n sequences, and of these put together.
Elements(seqs, n) == UNION {ToSet(seqs[i]) : i \in 1 .. n}

LEMMA FlattenElements ==
  ASSUME NEW S, NEW n \in Nat, NEW seqs \in [1 .. n -> Seq(S)]
  PROVE  /\ FlattenSeq(seqs) \in Seq(S)
         /\ ToSet(FlattenSeq(seqs)) = Elements(seqs, n)
<1>0. PICK flat : flat = FlattenSeq(seqs)
  OBVIOUS
<1>1. PICK off : IsOffset(off, seqs, n)
  BY OffsetExists
<1>2. Concatenated(flat, off, S, seqs, n)
  BY <1>0, <1>1, FlattenPositions
<1>3. \A i \in 1 .. n : seqs[i] \in Seq(S) /\ Len(seqs[i]) \in Nat
  OBVIOUS
<1>4. /\ flat \in Seq(S) /\ Len(flat) = off[n]
      /\ \A i \in 1 .. n : \A p \in 1 .. Len(seqs[i]) : flat[off[i - 1] + p] = seqs[i][p]
  BY <1>2 DEF Concatenated
<1>5. ASSUME NEW x \in 1 .. Len(flat)
      PROVE  \E i \in 1 .. n : flat[x] \in ToSet(seqs[i])
  <2>1. InSequence(x, off, seqs, n)
    BY <1>1, <1>3, <1>4, PositionOf
  <2>2. PICK i \in 1 .. n : \E p \in 1 .. Len(seqs[i]) : x = off[i - 1] + p
    BY <2>1 DEF InSequence
  <2>5. PICK p \in 1 .. Len(seqs[i]) : x = off[i - 1] + p
    BY <2>2
  <2>3. flat[x] = seqs[i][p]
    BY <1>4, <2>5
  <2>4. p \in DOMAIN seqs[i]
    BY <1>3
  <2> QED
    BY <2>3, <2>4 DEF ToSet
<1>6. ASSUME NEW i \in 1 .. n, NEW p \in DOMAIN seqs[i]
      PROVE  seqs[i][p] \in ToSet(flat)
  <2>1. p \in 1 .. Len(seqs[i])
    BY <1>3
  <2>2. flat[off[i - 1] + p] = seqs[i][p]
    BY <1>4, <2>1
  <2>3. off[i - 1] \in Nat /\ off[i] = off[i - 1] + Len(seqs[i])
    <3>1. i - 1 \in 0 .. n
      OBVIOUS
    <3> QED
      BY <1>1, <3>1 DEF IsOffset
  <2>4. off[i] <= off[n] /\ off[n] \in Nat
    <3>1. i \in 0 .. n /\ n \in 0 .. n
      OBVIOUS
    <3>2. off[i] <= off[n]
      BY <1>1, <1>3, <3>1, OffsetMonotone
    <3> QED
      BY <1>1, <3>1, <3>2 DEF IsOffset
  <2>5. off[i - 1] + p \in DOMAIN flat
    BY <1>3, <1>4, <2>1, <2>3, <2>4
  <2> QED
    BY <2>2, <2>5 DEF ToSet
<1>7. ToSet(flat) \subseteq UNION {ToSet(seqs[i]) : i \in 1 .. n}
  <2> SUFFICES ASSUME NEW x \in DOMAIN flat
               PROVE  \E i \in 1 .. n : flat[x] \in ToSet(seqs[i])
    BY DEF ToSet
  <2>1. x \in 1 .. Len(flat)
    BY <1>4
  <2> QED
    BY <2>1, <1>5
<1>8. UNION {ToSet(seqs[i]) : i \in 1 .. n} \subseteq ToSet(flat)
  <2> SUFFICES ASSUME NEW i \in 1 .. n, NEW y \in ToSet(seqs[i]) PROVE y \in ToSet(flat)
    OBVIOUS
  <2>1. PICK p \in DOMAIN seqs[i] : y = seqs[i][p]
    BY DEF ToSet
  <2> QED
    BY <2>1, <1>6
<1>9. flat \in Seq(S) /\ ToSet(flat) = Elements(seqs, n)
  BY <1>4, <1>7, <1>8 DEF Elements
<1> QED
  BY <1>0, <1>9

\* What sequences of different elements put together have no element twice.
Apart(seqs, n) ==
  \A i, j \in 1 .. n : i # j => ToSet(seqs[i]) \cap ToSet(seqs[j]) = {}

LEMMA FlattenNoDuplicates ==
  ASSUME NEW S, NEW n \in Nat, NEW seqs \in [1 .. n -> Seq(S)], Apart(seqs, n)
  PROVE  NoDuplicates(FlattenSeq(seqs)) <=> \A i \in 1 .. n : NoDuplicates(seqs[i])
<1> DEFINE flat == FlattenSeq(seqs)
<1>1. PICK off : IsOffset(off, seqs, n)
  BY OffsetExists
<1>2. Concatenated(flat, off, S, seqs, n)
  BY <1>1, FlattenPositions
<1> HIDE DEF flat
<1>3. \A i \in 1 .. n : seqs[i] \in Seq(S) /\ Len(seqs[i]) \in Nat /\ DOMAIN seqs[i] = 1 .. Len(seqs[i])
  OBVIOUS
<1>4. /\ flat \in Seq(S) /\ Len(flat) = off[n] /\ DOMAIN flat = 1 .. off[n]
      /\ \A i \in 1 .. n : \A p \in 1 .. Len(seqs[i]) : flat[off[i - 1] + p] = seqs[i][p]
  BY <1>2 DEF Concatenated
<1>5. ASSUME NEW i \in 1 .. n, NEW p \in 1 .. Len(seqs[i])
      PROVE  off[i - 1] \in Nat /\ off[i - 1] + p \in DOMAIN flat
  <2>1. off[i - 1] \in Nat /\ off[i] = off[i - 1] + Len(seqs[i])
    <3>1. i - 1 \in 0 .. n
      OBVIOUS
    <3> QED
      BY <1>1, <3>1 DEF IsOffset
  <2>2. off[i] <= off[n] /\ off[n] \in Nat
    <3>1. i \in 0 .. n /\ n \in 0 .. n
      OBVIOUS
    <3>2. off[i] <= off[n]
      BY <1>1, <1>3, <3>1, OffsetMonotone
    <3> QED
      BY <1>1, <3>1, <3>2 DEF IsOffset
  <2> QED
    BY <1>3, <1>4, <2>1, <2>2
<1>6. ASSUME NoDuplicates(flat), NEW i \in 1 .. n PROVE NoDuplicates(seqs[i])
  <2> SUFFICES ASSUME NEW p \in 1 .. Len(seqs[i]), NEW q \in 1 .. Len(seqs[i]),
                      seqs[i][p] = seqs[i][q]
               PROVE  p = q
    BY <1>3 DEF NoDuplicates
  <2>1. flat[off[i - 1] + p] = flat[off[i - 1] + q]
    BY <1>4
  <2>2. /\ off[i - 1] + p \in DOMAIN flat /\ off[i - 1] + q \in DOMAIN flat
        /\ off[i - 1] \in Nat
    BY <1>5
  <2>3. off[i - 1] + p = off[i - 1] + q
    BY <1>6, <2>1, <2>2 DEF NoDuplicates
  <2> QED
    BY <2>2, <2>3
<1>7. ASSUME \A i \in 1 .. n : NoDuplicates(seqs[i]) PROVE NoDuplicates(flat)
  <2> SUFFICES ASSUME NEW x \in 1 .. off[n], NEW y \in 1 .. off[n], flat[x] = flat[y]
               PROVE  x = y
    BY <1>4 DEF NoDuplicates
  <2>7. InSequence(x, off, seqs, n) /\ InSequence(y, off, seqs, n)
    BY <1>1, <1>3, PositionOf
  <2>8. PICK i \in 1 .. n : \E p \in 1 .. Len(seqs[i]) : x = off[i - 1] + p
    BY <2>7 DEF InSequence
  <2>1. PICK p \in 1 .. Len(seqs[i]) : x = off[i - 1] + p
    BY <2>8
  <2>9. PICK j \in 1 .. n : \E q \in 1 .. Len(seqs[j]) : y = off[j - 1] + q
    BY <2>7 DEF InSequence
  <2>2. PICK q \in 1 .. Len(seqs[j]) : y = off[j - 1] + q
    BY <2>9
  <2>3. seqs[i][p] = seqs[j][q]
    BY <1>4, <2>1, <2>2
  <2>4. seqs[i][p] \in ToSet(seqs[i]) /\ seqs[j][q] \in ToSet(seqs[j])
    BY <1>3 DEF ToSet
  <2>5. i = j
    BY <2>3, <2>4 DEF Apart
  <2>6. p = q
    BY <1>3, <1>7, <2>3, <2>5 DEF NoDuplicates
  <2> QED
    BY <2>1, <2>2, <2>5, <2>6
<1> QED
  BY <1>6, <1>7 DEF flat

LEMMA JoinedRows ==
  ASSUME NEW S, NEW s \in Seq(S), NEW t \in Seq(S)
  PROVE  /\ ToSet(s \o t) = ToSet(s) \cup ToSet(t)
         /\ ToSet(s) \cap ToSet(t) = {} =>
              (NoDuplicates(s \o t) <=> NoDuplicates(s) /\ NoDuplicates(t))
<1> DEFINE u == s \o t
<1>1. /\ Len(u) = Len(s) + Len(t)
      /\ Len(s) \in Nat /\ Len(t) \in Nat
      /\ u \in Seq(S)
      /\ \A i \in 1 .. Len(s) + Len(t) :
           u[i] = IF i <= Len(s) THEN s[i] ELSE t[i - Len(s)]
  BY ConcatProperties
<1> HIDE DEF u
<1>2. /\ DOMAIN u = 1 .. Len(s) + Len(t) /\ DOMAIN s = 1 .. Len(s) /\ DOMAIN t = 1 .. Len(t)
  BY <1>1
<1>3. /\ \A i \in 1 .. Len(s) : i \in DOMAIN u /\ u[i] = s[i]
      /\ \A i \in 1 .. Len(t) : Len(s) + i \in DOMAIN u /\ u[Len(s) + i] = t[i]
  <2>1. ASSUME NEW i \in 1 .. Len(t)
        PROVE  Len(s) + i \in DOMAIN u /\ u[Len(s) + i] = t[i]
    <3>1. /\ Len(s) + i \in 1 .. Len(s) + Len(t) /\ ~ (Len(s) + i <= Len(s))
          /\ (Len(s) + i) - Len(s) = i
      BY <1>1
    <3>2. u[Len(s) + i] = t[(Len(s) + i) - Len(s)]
      BY <1>1, <3>1
    <3> QED
      BY <1>2, <3>1, <3>2
  <2> QED
    BY <1>1, <1>2, <2>1
<1>4. \A i \in DOMAIN u : \/ i \in DOMAIN s /\ u[i] = s[i]
                          \/ i - Len(s) \in DOMAIN t /\ u[i] = t[i - Len(s)]
  BY <1>1, <1>2
<1>5. ToSet(u) = ToSet(s) \cup ToSet(t)
  <2>1. ToSet(u) \subseteq ToSet(s) \cup ToSet(t)
    BY <1>4 DEF ToSet
  <2>2. ToSet(s) \subseteq ToSet(u)
    BY <1>2, <1>3 DEF ToSet
  <2>3. ToSet(t) \subseteq ToSet(u)
    BY <1>2, <1>3 DEF ToSet
  <2> QED
    BY <2>1, <2>2, <2>3
<1>6. ASSUME NoDuplicates(u) PROVE NoDuplicates(s) /\ NoDuplicates(t)
  <2>1. NoDuplicates(s)
    BY <1>2, <1>3, <1>6 DEF NoDuplicates
  <2>2. ASSUME NEW p \in 1 .. Len(t), NEW q \in 1 .. Len(t), t[p] = t[q] PROVE p = q
    <3>1. Len(s) + p = Len(s) + q
      BY <1>3, <1>6, <2>2 DEF NoDuplicates
    <3> QED
      BY <1>1, <3>1
  <2> QED
    BY <1>2, <2>1, <2>2 DEF NoDuplicates
<1>7. ASSUME ToSet(s) \cap ToSet(t) = {}, NoDuplicates(s), NoDuplicates(t)
      PROVE  NoDuplicates(u)
  <2> SUFFICES ASSUME NEW x \in DOMAIN u, NEW y \in DOMAIN u, u[x] = u[y] PROVE x = y
    BY DEF NoDuplicates
  <2>1. x \in Int /\ y \in Int /\ Len(s) \in Int
    BY <1>1, <1>2
  <2>2. CASE x \in DOMAIN s /\ y \in DOMAIN s
    BY <1>2, <1>3, <1>7, <2>2 DEF NoDuplicates
  <2>3. CASE x \notin DOMAIN s /\ y \notin DOMAIN s
    <3>1. x - Len(s) \in DOMAIN t /\ y - Len(s) \in DOMAIN t /\ t[x - Len(s)] = t[y - Len(s)]
      BY <1>4, <2>3
    <3>2. x - Len(s) = y - Len(s)
      BY <3>1, <1>7 DEF NoDuplicates
    <3> QED
      BY <3>2, <2>1
  <2>4. CASE x \in DOMAIN s /\ y \notin DOMAIN s
    <3>1. u[x] \in ToSet(s) /\ u[y] \in ToSet(t)
      BY <1>2, <1>3, <1>4, <2>4 DEF ToSet
    <3> QED
      BY <3>1, <1>7
  <2>5. CASE x \notin DOMAIN s /\ y \in DOMAIN s
    <3>1. u[y] \in ToSet(s) /\ u[x] \in ToSet(t)
      BY <1>2, <1>3, <1>4, <2>5 DEF ToSet
    <3> QED
      BY <3>1, <1>7
  <2> QED
    BY <2>2, <2>3, <2>4, <2>5
<1> QED
  BY <1>5, <1>6, <1>7 DEF u

\* The positions of a quarter are different positions of the items, ascending.
QuarterShape(g, k) ==
  LET chunk == Quarter(g, k)
  IN  /\ Len(chunk) \in Nat /\ chunk \in [1 .. Len(chunk) -> 1 .. Len(g.items)]
      /\ \A i, j \in 1 .. Len(chunk) : i < j => chunk[i] < chunk[j]

LEMMA QuarterPositions ==
  ASSUME NEW g, IsGraph(g), NEW k \in 0 .. 3
  PROVE  /\ QuarterShape(g, k)
         /\ \A q \in 0 .. 3 \ {k} : FactbasesOf(g, k) \cap FactbasesOf(g, q) = {}
<1> DEFINE l == Len(g.items)
           n == l \div 4
           r == l % 4
           size(q) == n + (IF q = 3 THEN r ELSE 0)
<1>1. l \in Nat
  BY DEF IsGraph
<1> HIDE DEF l
<1>2. n \in Nat /\ r \in 0 .. 3 /\ l = 4 * n + r
  BY <1>1
<1>3. \A q \in 0 .. 3 : Quarter(g, q) = [j \in 1 .. size(q) |-> j + q * n]
  BY DEF Quarter, l
<1> HIDE DEF n, r
<1>4. ASSUME NEW q \in 0 .. 3 PROVE size(q) \in Nat /\ Len(Quarter(g, q)) = size(q)
  <2>1. size(q) \in Nat
    BY <1>2
  <2> HIDE DEF size
  <2> QED
    BY <1>3, <2>1
<1>5. ASSUME NEW q \in 0 .. 3, NEW j \in 1 .. size(q)
      PROVE  /\ Quarter(g, q)[j] = j + q * n
             /\ q * n < j + q * n /\ j + q * n <= l
             /\ q < 3 => j + q * n <= (q + 1) * n
             /\ q * n \in Nat
  <2>1. Quarter(g, q)[j] = j + q * n
    BY <1>3
  <2>2. q = 0 \/ q = 1 \/ q = 2 \/ q = 3
    OBVIOUS
  <2>3. 0 * n = 0 /\ 1 * n = n /\ 2 * n = n + n /\ 3 * n = n + n + n
        /\ 4 * n = n + n + n + n
    BY <1>2
  <2>4. CASE q = 0
    BY <2>1, <2>3, <2>4, <1>2
  <2>5. CASE q = 1
    BY <2>1, <2>3, <2>5, <1>2
  <2>6. CASE q = 2
    BY <2>1, <2>3, <2>6, <1>2
  <2>7. CASE q = 3
    BY <2>1, <2>3, <2>7, <1>2
  <2> QED
    BY <2>2, <2>4, <2>5, <2>6, <2>7
<1>6. QuarterShape(g, k)
  <2>1. \A j \in 1 .. size(k) : Quarter(g, k)[j] \in 1 .. l
    <3> TAKE j \in 1 .. size(k)
    <3>1. j + k * n > k * n /\ j + k * n <= l /\ k * n \in Nat /\ Quarter(g, k)[j] = j + k * n
      BY <1>5
    <3>2. j \in Int
      BY <1>4
    <3> QED
      BY <1>1, <3>1, <3>2
  <2>2. \A i, j \in 1 .. size(k) : i < j => Quarter(g, k)[i] < Quarter(g, k)[j]
    <3> TAKE i, j \in 1 .. size(k)
    <3>1. Quarter(g, k)[i] = i + k * n /\ Quarter(g, k)[j] = j + k * n /\ k * n \in Nat
      BY <1>5
    <3>2. i \in Int /\ j \in Int
      BY <1>4
    <3> QED
      BY <3>1, <3>2
  <2>3. DOMAIN Quarter(g, k) = 1 .. size(k) /\ Quarter(g, k) = [j \in 1 .. size(k) |-> Quarter(g, k)[j]]
    BY <1>3
  <2> HIDE DEF size
  <2>4. Quarter(g, k) \in [1 .. size(k) -> 1 .. l]
    BY <2>1, <2>3
  <2> QED
    BY <1>4, <2>2, <2>4 DEF QuarterShape, l
<1>7. ASSUME NEW q \in 0 .. 3, NEW p \in 0 .. 3, q < p,
             NEW i \in 1 .. size(q), NEW j \in 1 .. size(p)
      PROVE  Quarter(g, q)[i] # Quarter(g, p)[j]
  <2>1. Quarter(g, q)[i] = i + q * n /\ i + q * n <= (q + 1) * n
    BY <1>5, <1>7
  <2>2. Quarter(g, p)[j] = j + p * n /\ p * n < j + p * n
    BY <1>5
  <2>3. (q + 1) * n <= p * n
    <3>1. 1 * n = n /\ 2 * n = n + n /\ 3 * n = n + n + n
      BY <1>2
    <3>2. \/ q = 0 /\ p \in {1, 2, 3}
          \/ q = 1 /\ p \in {2, 3}
          \/ q = 2 /\ p = 3
      BY <1>7
    <3> QED
      BY <1>2, <3>1, <3>2
  <2>4. i \in Int /\ j \in Int /\ q * n \in Int /\ p * n \in Int /\ (q + 1) * n \in Int
    BY <1>2, <1>4
  <2> QED
    BY <2>1, <2>2, <2>3, <2>4
<1>8. ASSUME NEW q \in 0 .. 3 \ {k}, NEW fb \in FactbasesOf(g, k), fb \in FactbasesOf(g, q)
      PROVE  FALSE
  <2>1. \A m \in 0 .. 3 : DOMAIN Quarter(g, m) = 1 .. size(m)
    BY <1>3
  <2>2. \A m \in 0 .. 3 : \A j \in 1 .. size(m) : Quarter(g, m)[j] \in Int
    <3> TAKE m \in 0 .. 3
    <3> TAKE j \in 1 .. size(m)
    <3>1. Quarter(g, m)[j] = j + m * n /\ m * n \in Nat
      BY <1>5
    <3>2. j \in Int
      BY <1>4
    <3> QED
      BY <3>1, <3>2
  <2> HIDE DEF size
  <2>3. PICK i \in 1 .. size(k) : fb = Quarter(g, k)[i] - 1
    BY <2>1 DEF FactbasesOf, ToSet
  <2>4. PICK j \in 1 .. size(q) : fb = Quarter(g, q)[j] - 1
    BY <1>8, <2>1 DEF FactbasesOf, ToSet
  <2>5. Quarter(g, k)[i] = Quarter(g, q)[j]
    BY <2>2, <2>3, <2>4
  <2>6. k < q \/ q < k
    OBVIOUS
  <2> QED
    BY <1>7, <2>5, <2>6
<1> QED
  BY <1>6, <1>8

\* The factbases of a quarter, one by one.
LEMMA QuarterFactbases ==
  ASSUME NEW g, IsGraph(g), NEW k \in 0 .. 3
  PROVE  /\ FactbasesOf(g, k) \subseteq Factbases(g)
         /\ \A fb \in FactbasesOf(g, k) :
              \E j \in 1 .. Len(Quarter(g, k)) : Quarter(g, k)[j] = fb + 1
         /\ \A j \in 1 .. Len(Quarter(g, k)) :
              Quarter(g, k)[j] - 1 \in FactbasesOf(g, k) /\ Quarter(g, k)[j] \in 1 .. Len(g.items)
<1> DEFINE chunk == Quarter(g, k)
<1>1. /\ Len(chunk) \in Nat /\ chunk \in [1 .. Len(chunk) -> 1 .. Len(g.items)]
      /\ Len(g.items) \in Nat
  <2>1. QuarterShape(g, k)
    BY QuarterPositions
  <2>2. Len(g.items) \in Nat
    BY DEF IsGraph
  <2> QED
    BY <2>1, <2>2 DEF QuarterShape
<1> HIDE DEF chunk
<1>2. FactbasesOf(g, k) = {chunk[j] - 1 : j \in 1 .. Len(chunk)}
  BY <1>1 DEF FactbasesOf, ToSet, chunk
<1>3. \A j \in 1 .. Len(chunk) : chunk[j] \in 1 .. Len(g.items)
  BY <1>1
<1> QED
  BY <1>1, <1>2, <1>3 DEF Factbases, chunk

-----------------------------------------------------------------------------
Row == [id : Nat, f : Word, type : {"quality", "topology"}]

\* The rows of one factbase's facts of one type.
RowsOf(rows, type, id, encodings) ==
  /\ rows \in Seq(Row)
  /\ rows = << >> <=> encodings = << >>
  /\ NoDuplicates(rows) <=> NoDuplicates(encodings)
  /\ \A row \in ToSet(rows) :
       row.id = id /\ row.type = type /\ row.f \in ToSet(encodings)
  /\ \A word \in ToSet(encodings) : \E row \in ToSet(rows) : row.f = word

LEMMA RowsOfItems ==
  ASSUME NEW type \in {"quality", "topology"}, NEW id \in Nat, NEW encodings \in Seq(Word)
  PROVE  RowsOf(ItemRows(type, id, encodings), type, id, encodings)
<1> DEFINE rows == ItemRows(type, id, encodings)
<1>1. /\ DOMAIN encodings = 1 .. Len(encodings) /\ Len(encodings) \in Nat
      /\ \A i \in DOMAIN encodings : encodings[i] \in Word
  OBVIOUS
<1>2. rows = [i \in 1 .. Len(encodings) |-> [id |-> id, f |-> encodings[i], type |-> type]]
  BY <1>1 DEF ItemRows
<1> HIDE DEF rows
<1>3. rows \in Seq(Row) /\ DOMAIN rows = DOMAIN encodings /\ Len(rows) = Len(encodings)
  BY <1>1, <1>2 DEF Row
<1>4. \A i \in DOMAIN encodings : rows[i].id = id /\ rows[i].type = type /\ rows[i].f = encodings[i]
  BY <1>1, <1>2
<1>5. NoDuplicates(rows) => NoDuplicates(encodings)
  BY <1>1, <1>2, <1>3 DEF NoDuplicates
<1>6. NoDuplicates(encodings) => NoDuplicates(rows)
  BY <1>3, <1>4 DEF NoDuplicates
<1>7. rows = << >> <=> encodings = << >>
  BY <1>3
<1> QED
  BY <1>3, <1>4, <1>5, <1>6, <1>7 DEF RowsOf, ToSet, rows

\* The encodings of a factbase's facts of one type.
Encodings(g, fb, type) ==
  IF type = "quality" THEN g.items[fb + 1].quals ELSE g.items[fb + 1].topos

\* The rows of a quarter's facts of one type, factbase by factbase.
RowParts(g, k, type) ==
  [j \in DOMAIN Quarter(g, k) |->
     ItemRows(type, Quarter(g, k)[j] - 1, Encodings(g, Quarter(g, k)[j] - 1, type))]

TypedRows(g, k, type, rows) ==
  /\ rows \in Seq(Row)
  /\ ToSet(rows) =
       UNION {ToSet(ItemRows(type, fb, Encodings(g, fb, type))) : fb \in FactbasesOf(g, k)}
  /\ NoDuplicates(rows) <=>
       \A fb \in FactbasesOf(g, k) : NoDuplicates(Encodings(g, fb, type))
  /\ rows # << >> <=> \E fb \in FactbasesOf(g, k) : Encodings(g, fb, type) # << >>
  /\ \A row \in ToSet(rows) : row.type = type /\ row.id \in FactbasesOf(g, k)
  /\ (\A row \in ToSet(rows) : Storable(row.f)) <=>
       \A fb \in FactbasesOf(g, k) : \A word \in ToSet(Encodings(g, fb, type)) : Storable(word)

LEMMA EmptyRows ==
  ASSUME NEW S, NEW s \in Seq(S)
  PROVE  s = << >> <=> ToSet(s) = {}
<1>1. DOMAIN s = 1 .. Len(s) /\ Len(s) \in Nat
  OBVIOUS
<1>2. CASE s = << >>
  BY <1>2 DEF ToSet
<1>3. CASE s # << >>
  <2>1. 1 \in DOMAIN s
    BY <1>1, <1>3
  <2> QED
    BY <1>3, <2>1 DEF ToSet
<1> QED
  BY <1>2, <1>3

LEMMA RowsOfType ==
  ASSUME NEW g, IsGraph(g), NEW k \in 0 .. 3, NEW type \in {"quality", "topology"}
  PROVE  TypedRows(g, k, type, FlattenSeq(RowParts(g, k, type)))
<1> DEFINE chunk == Quarter(g, k)
           n == Len(chunk)
           parts == RowParts(g, k, type)
           rows == FlattenSeq(parts)
           E(fb) == Encodings(g, fb, type)
           R(fb) == ItemRows(type, fb, E(fb))
           F == FactbasesOf(g, k)
<1>1. QuarterShape(g, k)
  BY QuarterPositions
<1>2. /\ n \in Nat /\ chunk \in [1 .. n -> 1 .. Len(g.items)]
      /\ \A i, j \in 1 .. n : i < j => chunk[i] < chunk[j]
  BY <1>1 DEF QuarterShape
<1>3. /\ F \subseteq Nat
      /\ \A fb \in F : \E j \in 1 .. n : chunk[j] = fb + 1
      /\ \A j \in 1 .. n : chunk[j] - 1 \in F /\ chunk[j] \in 1 .. Len(g.items)
  <2>1. /\ F \subseteq Factbases(g)
        /\ \A fb \in F : \E j \in 1 .. n : chunk[j] = fb + 1
        /\ \A j \in 1 .. n : chunk[j] - 1 \in F /\ chunk[j] \in 1 .. Len(g.items)
    BY QuarterFactbases
  <2>2. Len(g.items) \in Nat
    BY DEF IsGraph
  <2>3. Factbases(g) \subseteq Nat
    BY <2>2 DEF Factbases
  <2> HIDE DEF F, chunk, n
  <2> QED
    BY <2>1, <2>3
<1>4. \A fb \in F : E(fb) \in Seq(Word)
  <2> TAKE fb \in F
  <2>1. PICK j \in 1 .. n : chunk[j] = fb + 1
    BY <1>3
  <2>2. fb + 1 \in 1 .. Len(g.items)
    BY <1>3, <2>1
  <2>3. g.items[fb + 1] \in [quals : Seq(Word), topos : Seq(Word)]
    <3> DEFINE X == [quals : Seq(Word), topos : Seq(Word)]
    <3>1. g.items \in Seq(X)
      BY DEF IsGraph
    <3> HIDE DEF X
    <3>2. g.items[fb + 1] \in X
      BY <2>2, <3>1
    <3> QED
      BY <3>2 DEF X
  <2> QED
    BY <2>3 DEF Encodings
<1>5. parts = [j \in 1 .. n |-> R(chunk[j] - 1)]
  BY <1>2 DEF RowParts
<1> HIDE DEF chunk, parts, E, F
<1>6. \A fb \in F : RowsOf(R(fb), type, fb, E(fb))
  BY <1>3, <1>4, RowsOfItems
<1> HIDE DEF n
<1>7. \A fb \in F : R(fb) \in Seq(Row)
  BY <1>6 DEF RowsOf
<1>8. \A fb \in F : \A row \in ToSet(R(fb)) :
        row.id = fb /\ row.type = type /\ row.f \in ToSet(E(fb))
  BY <1>6 DEF RowsOf
<1>9. \A fb \in F : \A word \in ToSet(E(fb)) : \E row \in ToSet(R(fb)) : row.f = word
  BY <1>6 DEF RowsOf
<1>10. \A fb \in F : /\ R(fb) = << >> <=> E(fb) = << >>
                     /\ NoDuplicates(R(fb)) <=> NoDuplicates(E(fb))
  BY <1>6 DEF RowsOf
<1> HIDE DEF R
<1>11. parts \in [1 .. n -> Seq(Row)]
  BY <1>3, <1>5, <1>7
<1>12. \A j \in 1 .. n : parts[j] = R(chunk[j] - 1) /\ chunk[j] - 1 \in F
  BY <1>3, <1>5
<1>13. Apart(parts, n)
  <2> SUFFICES ASSUME NEW i \in 1 .. n, NEW j \in 1 .. n, i # j,
                      NEW row \in ToSet(parts[i]), row \in ToSet(parts[j])
               PROVE  FALSE
    BY DEF Apart
  <2>1. row.id = chunk[i] - 1 /\ row.id = chunk[j] - 1
    BY <1>8, <1>12
  <2>2. chunk[i] \in Nat /\ chunk[j] \in Nat
    BY <1>3
  <2>3. chunk[i] = chunk[j]
    BY <2>1, <2>2
  <2>4. i < j \/ j < i
    OBVIOUS
  <2> QED
    BY <1>2, <2>2, <2>3, <2>4
<1>14. rows \in Seq(Row) /\ ToSet(rows) = Elements(parts, n)
  BY <1>2, <1>11, FlattenElements
<1>15. NoDuplicates(rows) <=> \A j \in 1 .. n : NoDuplicates(parts[j])
  BY <1>2, <1>11, <1>13, FlattenNoDuplicates
<1> HIDE DEF rows
<1>16. NoDuplicates(rows) <=> \A fb \in F : NoDuplicates(E(fb))
  <2>1. ASSUME NoDuplicates(rows), NEW fb \in F PROVE NoDuplicates(E(fb))
    <3>1. PICK j \in 1 .. n : chunk[j] = fb + 1
      BY <1>3
    <3>2. chunk[j] - 1 = fb
      BY <1>3, <3>1
    <3>3. NoDuplicates(parts[j]) /\ parts[j] = R(fb)
      BY <2>1, <3>2, <1>12, <1>15
    <3> QED
      BY <3>3, <1>10
  <2>2. ASSUME \A fb \in F : NoDuplicates(E(fb)) PROVE NoDuplicates(rows)
    BY <2>2, <1>10, <1>12, <1>15
  <2> QED
    BY <2>1, <2>2
<1>17. \A row : row \in ToSet(rows) <=> \E fb \in F : row \in ToSet(R(fb))
  <2>1. ASSUME NEW row, row \in ToSet(rows) PROVE \E fb \in F : row \in ToSet(R(fb))
    <3>1. PICK j \in 1 .. n : row \in ToSet(parts[j])
      BY <1>14, <2>1 DEF Elements
    <3> QED
      BY <3>1, <1>12
  <2>2. ASSUME NEW row, NEW fb \in F, row \in ToSet(R(fb)) PROVE row \in ToSet(rows)
    <3>1. PICK j \in 1 .. n : chunk[j] = fb + 1
      BY <1>3
    <3>2. chunk[j] - 1 = fb
      BY <1>3, <3>1
    <3>3. row \in ToSet(parts[j])
      BY <2>2, <3>2, <1>12
    <3> QED
      BY <3>3, <1>14 DEF Elements
  <2> QED
    BY <2>1, <2>2
<1>18. ToSet(rows) = UNION {ToSet(R(fb)) : fb \in F}
  BY <1>17
<1>19. rows # << >> <=> \E fb \in F : E(fb) # << >>
  <2>1. rows = << >> <=> ToSet(rows) = {}
    BY <1>14, EmptyRows
  <2>2. \A fb \in F : R(fb) = << >> <=> ToSet(R(fb)) = {}
    BY <1>7, EmptyRows
  <2> QED
    BY <1>10, <1>17, <2>1, <2>2
<1>20. \A row \in ToSet(rows) : row.type = type /\ row.id \in F
  BY <1>8, <1>17
<1>21. (\A row \in ToSet(rows) : Storable(row.f)) <=>
         \A fb \in F : \A word \in ToSet(E(fb)) : Storable(word)
  BY <1>8, <1>9, <1>17
<1> QED
  BY <1>14, <1>16, <1>18, <1>19, <1>20, <1>21 DEF TypedRows, rows, parts, R, E, F

\* The server refuses the items of a quarter that is lost or has none.
ItemsRefused(g, k) ==
  \/ Lost(g, k)
  \/ \A fb \in FactbasesOf(g, k) : ~ HasQualities(g, fb) /\ ~ HasTopologies(g, fb)

QuarterItems(g, k) == UNION {Items(g, fb) : fb \in FactbasesOf(g, k)}

\* Its qualities do not come first.
Misplaced(g, k) ==
  \E with \in FactbasesOf(g, k) : \E without \in FactbasesOf(g, k) :
    /\ HasQualities(g, with)
    /\ without < with /\ HasTopologies(g, without)
    /\ \A fb \in FactbasesOf(g, k) : fb <= without => ~ HasQualities(g, fb)

FirstIndex(g, k) ==
  SelectInSeq(Quarter(g, k), LAMBDA i : g.items[i].quals \o g.items[i].topos # << >>)

LEMMA FirstFactbase ==
  ASSUME NEW g, IsGraph(g), NEW k \in 0 .. 3
  PROVE  \/ /\ FirstIndex(g, k) = 0
            /\ \A fb \in FactbasesOf(g, k) : ~ HasQualities(g, fb) /\ ~ HasTopologies(g, fb)
         \/ /\ FirstIndex(g, k) # 0
            /\ \E first \in FactbasesOf(g, k) :
                 /\ Quarter(g, k)[FirstIndex(g, k)] = first + 1
                 /\ HasQualities(g, first) \/ HasTopologies(g, first)
                 /\ \A fb \in FactbasesOf(g, k) :
                      HasQualities(g, fb) \/ HasTopologies(g, fb) => first <= fb
<1> DEFINE chunk == Quarter(g, k)
           n == Len(chunk)
           I == {i \in 1 .. n : g.items[chunk[i]].quals \o g.items[chunk[i]].topos # << >>}
           F == FactbasesOf(g, k)
           Has(fb) == HasQualities(g, fb) \/ HasTopologies(g, fb)
<1>1. QuarterShape(g, k)
  BY QuarterPositions
<1>2. /\ n \in Nat /\ chunk \in [1 .. n -> 1 .. Len(g.items)]
      /\ \A i, j \in 1 .. n : i < j => chunk[i] < chunk[j]
  BY <1>1 DEF QuarterShape
<1>3. /\ F \subseteq Factbases(g)
      /\ \A fb \in F : \E j \in 1 .. n : chunk[j] = fb + 1
      /\ \A j \in 1 .. n : chunk[j] - 1 \in F /\ chunk[j] \in 1 .. Len(g.items)
  BY QuarterFactbases
<1>4. F \subseteq Nat /\ Len(g.items) \in Nat
  <2>1. Len(g.items) \in Nat
    BY DEF IsGraph
  <2>2. Factbases(g) \subseteq Nat
    BY <2>1 DEF Factbases
  <2> QED
    BY <2>1, <2>2, <1>3
<1>5. \A i \in 1 .. Len(g.items) :
        g.items[i].quals \o g.items[i].topos # << >> <=> Has(i - 1)
  <2> TAKE i \in 1 .. Len(g.items)
  <2> DEFINE X == [quals : Seq(Word), topos : Seq(Word)]
             s == g.items[i].quals
             t == g.items[i].topos
  <2>1. g.items \in Seq(X)
    BY DEF IsGraph
  <2> HIDE DEF X
  <2>2. g.items[i] \in X
    BY <2>1
  <2>3. s \in Seq(Word) /\ t \in Seq(Word)
    BY <2>2 DEF X
  <2>4. i - 1 + 1 = i
    OBVIOUS
  <2>5. Has(i - 1) <=> s # << >> \/ t # << >>
    BY <2>4 DEF HasQualities, HasTopologies
  <2> HIDE DEF s, t
  <2>6. Len(s \o t) = Len(s) + Len(t) /\ s \o t \in Seq(Word) /\ Len(s) \in Nat /\ Len(t) \in Nat
    BY <2>3
  <2>7. s \o t # << >> <=> Len(s \o t) # 0
    BY <2>6
  <2>8. (s # << >> <=> Len(s) # 0) /\ (t # << >> <=> Len(t) # 0)
    BY <2>3
  <2>9. s \o t # << >> <=> s # << >> \/ t # << >>
    BY <2>6, <2>7, <2>8
  <2> QED
    BY <2>5, <2>9 DEF s, t
<1>6. FirstIndex(g, k) = IF I # {} THEN Min(I) ELSE 0
  BY DEF FirstIndex, SelectInSeq
<1> HIDE DEF chunk, F
<1>7. \A i \in 1 .. n : i \in I <=> Has(chunk[i] - 1)
  BY <1>3, <1>5
<1> HIDE DEF Has, n, I
<1>8. I \in SUBSET (1 .. n)
  BY DEF I
<1>9. CASE I = {}
  <2>1. ASSUME NEW fb \in F PROVE ~ Has(fb)
    <3>1. PICK j \in 1 .. n : chunk[j] = fb + 1
      BY <1>3
    <3>2. chunk[j] - 1 = fb
      BY <3>1, <1>4
    <3> QED
      BY <3>2, <1>7, <1>9
  <2>2. FirstIndex(g, k) = 0
    BY <1>6, <1>9
  <2> QED
    BY <2>1, <2>2 DEF Has, F
<1>10. CASE I # {}
  <2> DEFINE i == Min(I)
             first == chunk[i] - 1
  <2>1. i \in I /\ \A y \in I : i <= y
    BY <1>2, <1>8, <1>10, FirstMatch
  <2> HIDE DEF i
  <2>2. i \in 1 .. n /\ i # 0 /\ FirstIndex(g, k) = i
    <3>1. i \in 1 .. n
      BY <2>1, <1>8
    <3>2. i # 0
      BY <3>1
    <3>3. FirstIndex(g, k) = i
      BY <1>6, <1>10 DEF i
    <3> QED
      BY <3>1, <3>2, <3>3
  <2>3. first \in F /\ chunk[i] = first + 1 /\ Has(first)
    BY <2>1, <2>2, <1>3, <1>7
  <2>4. ASSUME NEW fb \in F, Has(fb) PROVE first <= fb
    <3>1. PICK j \in 1 .. n : chunk[j] = fb + 1
      BY <1>3
    <3>2. chunk[j] - 1 = fb
      BY <3>1, <1>4
    <3>3. j \in I
      BY <3>2, <1>7, <2>4
    <3>4. i <= j
      BY <3>3, <2>1
    <3>5. chunk[i] <= chunk[j]
      <4>1. i = j \/ i < j
        BY <3>4, <2>2
      <4>2. chunk[i] \in Int /\ chunk[j] \in Int
        BY <1>3, <2>2
      <4> QED
        BY <4>1, <4>2, <1>2, <2>2
    <3>6. chunk[i] \in Int /\ chunk[j] \in Int
      BY <1>3, <2>2
    <3> QED
      BY <3>2, <3>5, <3>6
  <2> QED
    BY <2>2, <2>3, <2>4 DEF Has, F, chunk
<1> QED
  BY <1>9, <1>10

\* The statement of a quarter, and when it can be carried out.
ItemStatement(g, k, st) ==
  /\ st.call = "async" /\ st.op = "insert" /\ st.table = "factbase_item"
  /\ ToSet(st.rows) = QuarterItems(g, k)
  /\ \A row \in ToSet(st.rows) : row.id \in FactbasesOf(g, k)
  /\ (/\ st.wellformed /\ NoDuplicates(st.rows)
      /\ \A row \in ToSet(st.rows) : Storable(row.f)) <=> ~ ItemsRefused(g, k)

LEMMA StatementOfItems ==
  ASSUME NEW g, IsGraph(g), NEW k \in 0 .. 3
  PROVE  ItemStatement(g, k, ItemInsert(g, k))
<1> DEFINE chunk == Quarter(g, k)
           F == FactbasesOf(g, k)
           quals == FlattenSeq(RowParts(g, k, "quality"))
           topos == FlattenSeq(RowParts(g, k, "topology"))
           rows == quals \o topos
           first == FirstIndex(g, k)
           wellformed == first # 0 /\ (quals # << >> => g.items[chunk[first]].quals # << >>)
           Q(fb) == HasQualities(g, fb)
           T(fb) == HasTopologies(g, fb)
<1>1. ItemInsert(g, k) = Insert("factbase_item", rows, wellformed)
  <2>1. \A j \in DOMAIN chunk : chunk[j] - 1 + 1 = chunk[j]
    <3>1. QuarterShape(g, k)
      BY QuarterPositions
    <3> QED
      BY <3>1 DEF QuarterShape
  <2>2. RowParts(g, k, "quality") = [j \in DOMAIN chunk |->
          ItemRows("quality", chunk[j] - 1, g.items[chunk[j]].quals)]
    BY <2>1 DEF RowParts, Encodings
  <2>3. RowParts(g, k, "topology") = [j \in DOMAIN chunk |->
          ItemRows("topology", chunk[j] - 1, g.items[chunk[j]].topos)]
    BY <2>1 DEF RowParts, Encodings
  <2> QED
    BY <2>2, <2>3 DEF ItemInsert, SaveItems, FirstIndex
<1>2. TypedRows(g, k, "quality", quals) /\ TypedRows(g, k, "topology", topos)
  BY RowsOfType
<1>3. /\ first # 0 => \E fb \in F : Q(fb) \/ T(fb)
      /\ first = 0 => \A fb \in F : ~ Q(fb) /\ ~ T(fb)
      /\ first # 0 => \E fb \in F :
           /\ chunk[first] = fb + 1 /\ (Q(fb) \/ T(fb))
           /\ \A fc \in F : Q(fc) \/ T(fc) => fb <= fc
  BY FirstFactbase
<1>4. F \subseteq Nat
  <2>1. Len(g.items) \in Nat
    BY DEF IsGraph
  <2>2. F \subseteq Factbases(g)
    BY QuarterFactbases
  <2> QED
    BY <2>1, <2>2 DEF Factbases
<1>5. /\ \A fb \in F : Encodings(g, fb, "quality") = g.items[fb + 1].quals
      /\ \A fb \in F : Encodings(g, fb, "topology") = g.items[fb + 1].topos
  BY DEF Encodings
<1> HIDE DEF chunk, F, quals, topos, first
<1>6. quals \in Seq(Row) /\ topos \in Seq(Row)
  BY <1>2 DEF TypedRows
<1>7. quals # << >> <=> \E fb \in F : Q(fb)
  <2>1. quals # << >> <=> \E fb \in F : Encodings(g, fb, "quality") # << >>
    BY <1>2 DEF TypedRows, F
  <2> QED
    BY <2>1, <1>5 DEF HasQualities
<1>8. ToSet(quals) \cap ToSet(topos) = {}
  BY <1>2 DEF TypedRows
<1>9. ToSet(rows) = ToSet(quals) \cup ToSet(topos)
  BY <1>6, JoinedRows
<1>10. NoDuplicates(rows) <=>
         \A fb \in F : /\ NoDuplicates(g.items[fb + 1].quals)
                       /\ NoDuplicates(g.items[fb + 1].topos)
  <2>1. NoDuplicates(rows) <=> NoDuplicates(quals) /\ NoDuplicates(topos)
    BY <1>6, <1>8, JoinedRows
  <2>2. NoDuplicates(quals) <=> \A fb \in F : NoDuplicates(Encodings(g, fb, "quality"))
    BY <1>2 DEF TypedRows, F
  <2>3. NoDuplicates(topos) <=> \A fb \in F : NoDuplicates(Encodings(g, fb, "topology"))
    BY <1>2 DEF TypedRows, F
  <2> QED
    BY <2>1, <2>2, <2>3, <1>5
<1>11. (\A row \in ToSet(rows) : Storable(row.f)) <=>
         \A fb \in F : \A word \in ToSet(g.items[fb + 1].topos) : Storable(word)
  <2>1. (\A row \in ToSet(quals) : Storable(row.f)) <=>
          \A fb \in F : \A word \in ToSet(Encodings(g, fb, "quality")) : Storable(word)
    BY <1>2 DEF TypedRows, F
  <2>2. (\A row \in ToSet(topos) : Storable(row.f)) <=>
          \A fb \in F : \A word \in ToSet(Encodings(g, fb, "topology")) : Storable(word)
    BY <1>2 DEF TypedRows, F
  <2>3. \A fb \in F : \A word \in ToSet(g.items[fb + 1].quals) : Storable(word)
    <3> TAKE fb \in F
    <3>1. fb \in Factbases(g) /\ Len(g.items) \in Nat
      <4>1. F \subseteq Factbases(g)
        BY QuarterFactbases DEF F
      <4>2. Len(g.items) \in Nat
        BY DEF IsGraph
      <4> QED
        BY <4>1, <4>2
    <3>2. fb + 1 \in 1 .. Len(g.items)
      BY <3>1, <1>4 DEF Factbases
    <3>3. fb + 1 \in DOMAIN g.items
      BY <3>2 DEF IsGraph
    <3> QED
      BY <3>3 DEF IsGraph
  <2> QED
    BY <2>1, <2>2, <2>3, <1>5, <1>9
<1>12. \A row \in ToSet(rows) : row.id \in F
  BY <1>2, <1>9 DEF TypedRows, F
<1>13. ToSet(rows) = QuarterItems(g, k)
  <2>1. ToSet(quals) = UNION {ToSet(ItemRows("quality", fb, g.items[fb + 1].quals)) : fb \in F}
    BY <1>2, <1>5 DEF TypedRows, F
  <2>2. ToSet(topos) = UNION {ToSet(ItemRows("topology", fb, g.items[fb + 1].topos)) : fb \in F}
    BY <1>2, <1>5 DEF TypedRows, F
  <2> QED
    BY <2>1, <2>2, <1>9 DEF QuarterItems, Items, F
<1>14. wellformed <=> (\E fb \in F : Q(fb) \/ T(fb)) /\ ~ Misplaced(g, k)
  <2>1. CASE first = 0
    BY <2>1, <1>3
  <2>2. CASE first # 0
    <3>1. PICK fb \in F : /\ chunk[first] = fb + 1 /\ (Q(fb) \/ T(fb))
                          /\ \A fc \in F : Q(fc) \/ T(fc) => fb <= fc
      BY <1>3, <2>2
    <3>2. wellformed <=> ((\E fc \in F : Q(fc)) => Q(fb))
      BY <2>2, <3>1, <1>7 DEF HasQualities
    <3>3. ASSUME Misplaced(g, k) PROVE (\E fc \in F : Q(fc)) /\ ~ Q(fb)
      <4>1. PICK with \in F : \E without \in F :
              /\ Q(with) /\ without < with /\ T(without)
              /\ \A fc \in F : fc <= without => ~ Q(fc)
        BY <3>3 DEF Misplaced, F
      <4>2. PICK without \in F :
              /\ Q(with) /\ without < with /\ T(without)
              /\ \A fc \in F : fc <= without => ~ Q(fc)
        BY <4>1
      <4>3. fb <= without
        BY <4>2, <3>1
      <4> QED
        BY <4>2, <4>3
    <3>4. ASSUME NEW with \in F, Q(with), ~ Q(fb) PROVE Misplaced(g, k)
      <4>1. fb <= with /\ T(fb)
        BY <3>1, <3>4
      <4>2. fb # with
        BY <3>4
      <4>3. fb < with
        BY <4>1, <4>2, <1>4
      <4>4. \A fc \in F : fc <= fb => ~ Q(fc)
        <5> TAKE fc \in F
        <5>1. Q(fc) => fb <= fc
          BY <3>1
        <5>2. fc \in Nat /\ fb \in Nat
          BY <1>4
        <5>3. fc <= fb /\ fb <= fc => fc = fb
          BY <5>2
        <5> QED
          BY <5>1, <5>3, <3>4
      <4> QED
        BY <3>4, <4>1, <4>3, <4>4 DEF Misplaced, F
    <3> QED
      BY <3>1, <3>2, <3>3, <3>4
  <2> QED
    BY <2>1, <2>2
<1> DEFINE st == ItemInsert(g, k)
<1>15. /\ st.call = "async" /\ st.op = "insert" /\ st.table = "factbase_item"
       /\ st.rows = rows /\ st.wellformed = wellformed
  BY <1>1 DEF Insert
<1>16. ItemsRefused(g, k) <=>
         \/ \E fb \in F : \/ ~ NoDuplicates(g.items[fb + 1].quals)
                          \/ ~ NoDuplicates(g.items[fb + 1].topos)
                          \/ \E word \in ToSet(g.items[fb + 1].topos) : ~ Storable(word)
         \/ Misplaced(g, k)
         \/ \A fb \in F : ~ Q(fb) /\ ~ T(fb)
  BY DEF ItemsRefused, Lost, Misplaced, F
<1> HIDE DEF st, rows, wellformed, Q, T
<1>17. (wellformed /\ NoDuplicates(rows) /\ \A row \in ToSet(rows) : Storable(row.f))
         <=> ~ ItemsRefused(g, k)
  BY <1>10, <1>11, <1>14, <1>16
<1>18. (st.wellformed /\ NoDuplicates(st.rows) /\ \A row \in ToSet(st.rows) : Storable(row.f))
         <=> ~ ItemsRefused(g, k)
  BY <1>15, <1>17
<1> QED
  BY <1>12, <1>13, <1>15, <1>18 DEF ItemStatement, st, F

-----------------------------------------------------------------------------
(***************************************************************************)
(* The edges: in whatever order they come, each is in one of the halves.   *)
(***************************************************************************)
Orders(g) == SetToSeqs(UniqueEdges(g))

OrderShape(g, order) ==
  /\ order \in Seq(UniqueEdges(g))
  /\ \A i, j \in 1 .. Len(order) : order[i] = order[j] => i = j
  /\ \A e \in UniqueEdges(g) : \E i \in 1 .. Len(order) : order[i] = e
  /\ g.edges # << >> => Len(order) # 0

LEMMA EdgeType ==
  ASSUME NEW g, IsGraph(g), NEW j \in 1 .. Len(g.edges)
  PROVE  /\ g.edges[j].from \in Factbases(g) /\ g.edges[j].to \in Factbases(g)
         /\ g.edges[j].perm \in Seq(Nat) /\ g.edges[j].perm # << >>
<1> DEFINE X == [from : Factbases(g), to : Factbases(g), exploit : Nat,
                 perm : Seq(Nat) \ {<< >>}]
<1>1. g.edges \in Seq(X)
  BY DEF IsGraph
<1> HIDE DEF X
<1>2. g.edges[j] \in X
  BY <1>1
<1> QED
  BY <1>2 DEF X

LEMMA EdgeNumbers ==
  ASSUME NEW g, IsGraph(g)
  PROVE  /\ Len(g.edges) \in Nat /\ DOMAIN g.edges = 1 .. Len(g.edges)
         /\ UniqueEdges(g) \subseteq 1 .. Len(g.edges)
         /\ g.edges # << >> => 1 \in UniqueEdges(g)
<1> DEFINE X == [from : Factbases(g), to : Factbases(g), exploit : Nat,
                 perm : Seq(Nat) \ {<< >>}]
           e == g.edges
<1>1. e \in Seq(X)
  BY DEF IsGraph
<1> HIDE DEF X, e
<1>2. Len(e) \in Nat /\ DOMAIN e = 1 .. Len(e)
  BY <1>1
<1>3. e # << >> => 1 \in DOMAIN e
  BY <1>1
<1> QED
  BY <1>2, <1>3 DEF UniqueEdges, e

LEMMA OrderOfEdges ==
  ASSUME NEW g, IsGraph(g), NEW order \in Orders(g)
  PROVE  OrderShape(g, order)
<1> DEFINE U == UniqueEdges(g)
           n == Cardinality(U)
<1>1. Len(g.edges) \in Nat /\ U \subseteq 1 .. Len(g.edges)
  BY EdgeNumbers
<1>2. IsFiniteSet(1 .. Len(g.edges))
  BY <1>1, FS_Interval
<1>3. IsFiniteSet(U)
  BY <1>1, <1>2, FS_Subset
<1>4. n \in Nat
  BY <1>3, FS_CardinalityType
<1>5. order \in [1 .. n -> U] /\ \A i, j \in 1 .. n : i # j => order[i] # order[j]
  BY DEF Orders, SetToSeqs
<1> HIDE DEF U, n
<1>6. order \in Seq(U) /\ Len(order) = n
  BY <1>4, <1>5
<1>7. \A i, j \in 1 .. n : order[i] = order[j] => i = j
  BY <1>5
<1>8. order \in Injection(1 .. n, U)
  BY <1>5, <1>7 DEF Injection, IsInjective
<1>9. IsFiniteSet(1 .. n) /\ Cardinality(1 .. n) = n
  <2>1. Cardinality(1 .. n) = IF 1 > n THEN 0 ELSE n - 1 + 1
    BY <1>4, FS_Interval
  <2>2. IsFiniteSet(1 .. n)
    BY <1>4, FS_Interval
  <2> QED
    BY <1>4, <2>1, <2>2
<1>10. Cardinality(1 .. n) = Cardinality(U)
  BY <1>9 DEF n
<1>11. order \in Surjection(1 .. n, U)
  BY <1>3, <1>8, <1>10, FS_Injection
<1>12. \A e \in U : \E i \in 1 .. n : order[i] = e
  BY <1>11 DEF Surjection
<1>13. g.edges # << >> => n # 0
  <2>1. g.edges # << >> => 1 \in U
    BY EdgeNumbers DEF U
  <2>2. 1 \in U => n # 0
    BY <1>12
  <2> QED
    BY <2>1, <2>2
<1> QED
  BY <1>6, <1>7, <1>12, <1>13 DEF OrderShape, U

HalfShape(g, order, h) ==
  LET half == Half(order, h)
  IN  /\ half \in Seq(UniqueEdges(g))
      /\ \A i, j \in 1 .. Len(half) : half[i] = half[j] => i = j

\* What SubSeq leaves when it skips the first n.
LEMMA LastPart ==
  ASSUME NEW S, NEW s \in Seq(S), NEW n \in Nat, n <= Len(s)
  PROVE  SubSeq(s, n + 1, Len(s)) = [i \in 1 .. Len(s) - n |-> s[n + i]]
<1>1. PICK l \in Nat : l = Len(s)
  OBVIOUS
<1>2. l - (n + 1) + 1 = l - n /\ \A i \in 1 .. l - n : i + (n + 1) - 1 = n + i
  OBVIOUS
<1>3. SubSeq(s, n + 1, l) = [i \in 1 .. l - (n + 1) + 1 |-> s[i + (n + 1) - 1]]
  OBVIOUS
<1> QED
  BY <1>1, <1>2, <1>3

LEMMA HalvesOfEdges ==
  ASSUME NEW g, IsGraph(g), NEW order \in Orders(g)
  PROVE  /\ HalfShape(g, order, 0) /\ HalfShape(g, order, 1)
         /\ ToSet(Half(order, 0)) \cap ToSet(Half(order, 1)) = {}
         /\ \A e \in UniqueEdges(g) : e \in ToSet(Half(order, 0)) \/ e \in ToSet(Half(order, 1))
         /\ g.edges # << >> => Half(order, 1) # << >>
<1> DEFINE U == UniqueEdges(g)
           l == Len(order)
           n == l \div 2
           a == Half(order, 0)
           b == Half(order, 1)
<1>1. OrderShape(g, order)
  BY OrderOfEdges
<1>2. /\ order \in Seq(U) /\ l \in Nat
      /\ \A i, j \in 1 .. l : order[i] = order[j] => i = j
      /\ \A e \in U : \E i \in 1 .. l : order[i] = e
      /\ g.edges # << >> => l # 0
  BY <1>1 DEF OrderShape
<1>3. a = [i \in 1 .. n |-> order[i]]
  <2>1. a = SubSeq(order, 1, n)
    BY DEF Half
  <2>2. 1 + n - 1 = n /\ \A i \in 1 .. n : i + 1 - 1 = i
    BY <1>2
  <2> QED
    BY <1>2, <2>1, <2>2
<1>4. b = [i \in 1 .. l - n |-> order[n + i]]
  <2>1. b = SubSeq(order, n + 1, l)
    BY DEF Half
  <2>2. n \in Nat /\ n <= l
    BY <1>2
  <2> HIDE DEF n
  <2> QED
    BY <1>2, <2>1, <2>2, LastPart
<1>5. n \in Nat /\ n <= l /\ (l # 0 => n < l)
  BY <1>2
<1> HIDE DEF n, a, b, U, l
<1>6. \A i \in 1 .. l : order[i] \in U
  BY <1>2 DEF l
<1>7. /\ a \in Seq(U) /\ Len(a) = n /\ DOMAIN a = 1 .. n
      /\ \A i \in 1 .. n : a[i] = order[i] /\ i \in 1 .. l
  BY <1>2, <1>3, <1>5, <1>6
<1>8. /\ b \in Seq(U) /\ Len(b) = l - n /\ DOMAIN b = 1 .. l - n
      /\ \A i \in 1 .. l - n : b[i] = order[n + i] /\ n + i \in 1 .. l
  <2>1. l - n \in Nat /\ \A i \in 1 .. l - n : n + i \in 1 .. l
    BY <1>2, <1>5
  <2> QED
    BY <2>1, <1>4, <1>6
<1>9. HalfShape(g, order, 0)
  BY <1>2, <1>7 DEF HalfShape, a, U
<1>10. HalfShape(g, order, 1)
  <2>1. ASSUME NEW i \in 1 .. l - n, NEW j \in 1 .. l - n, b[i] = b[j]
        PROVE  n + i = n + j
    <3>1. order[n + i] = order[n + j] /\ n + i \in 1 .. l /\ n + j \in 1 .. l
      BY <1>8, <2>1
    <3> QED
      BY <1>2, <3>1
  <2>2. \A i, j \in 1 .. l - n : n + i = n + j => i = j
    BY <1>2, <1>5
  <2>3. \A i, j \in 1 .. Len(b) : b[i] = b[j] => i = j
    BY <2>1, <2>2, <1>8
  <2> QED
    BY <1>8, <2>3 DEF HalfShape, b, U
<1>11. ToSet(a) \cap ToSet(b) = {}
  <2> SUFFICES ASSUME NEW i \in 1 .. n, NEW j \in 1 .. l - n, a[i] = b[j] PROVE FALSE
    BY <1>7, <1>8 DEF ToSet
  <2>1. order[i] = order[n + j] /\ i \in 1 .. l /\ n + j \in 1 .. l
    BY <1>7, <1>8
  <2>2. i = n + j
    BY <1>2, <2>1
  <2> QED
    BY <2>2, <1>5
<1>12. \A e \in U : e \in ToSet(a) \/ e \in ToSet(b)
  <2> TAKE e \in U
  <2>1. PICK i \in 1 .. l : order[i] = e
    BY <1>2
  <2>2. CASE i <= n
    <3>1. i \in 1 .. n /\ a[i] = e
      BY <2>1, <2>2, <1>5, <1>7
    <3> QED
      BY <3>1, <1>7 DEF ToSet
  <2>3. CASE ~ (i <= n)
    <3>1. i - n \in 1 .. l - n /\ n + (i - n) = i
      BY <2>3, <1>2, <1>5
    <3>2. b[i - n] = e
      BY <2>1, <3>1, <1>8
    <3> QED
      BY <3>1, <3>2, <1>8 DEF ToSet
  <2> QED
    BY <2>2, <2>3
<1>13. g.edges # << >> => b # << >>
  BY <1>2, <1>5, <1>8
<1> QED
  BY <1>9, <1>10, <1>11, <1>12, <1>13 DEF a, b, U

EdgeRows(g, order, h) == {EdgeRow(g, j) : j \in ToSet(Half(order, h))}

HalfBindings(g, order, h) == UNION {ToSet(BindingRows(g, j)) : j \in ToSet(Half(order, h))}

EdgeStatement(g, order, h, st) ==
  /\ st.call = "async" /\ st.op = "insert" /\ st.table = "edge"
  /\ ToSet(st.rows) = EdgeRows(g, order, h) /\ NoDuplicates(st.rows)
  /\ st.wellformed <=> Half(order, h) # << >>

BindingStatement(g, order, h, st) ==
  /\ st.call = "async" /\ st.op = "insert" /\ st.table = "edge_asset_binding"
  /\ ToSet(st.rows) = HalfBindings(g, order, h)
  /\ st.wellformed <=> Half(order, h) # << >>

LEMMA HalfElements ==
  ASSUME NEW g, IsGraph(g), NEW order \in Orders(g), NEW h \in 0 .. 1
  PROVE  LET half == Half(order, h)
         IN  /\ half \in Seq(UniqueEdges(g)) /\ Len(half) \in Nat
             /\ DOMAIN half = 1 .. Len(half)
             /\ \A i \in DOMAIN half : half[i] \in 1 .. Len(g.edges)
             /\ \A i, j \in DOMAIN half : half[i] = half[j] => i = j
             /\ ToSet(half) \subseteq UniqueEdges(g)
<1>1. HalfShape(g, order, h)
  <2>1. h = 0 \/ h = 1
    OBVIOUS
  <2>2. HalfShape(g, order, 0) /\ HalfShape(g, order, 1)
    BY HalvesOfEdges
  <2> QED
    BY <2>1, <2>2
<1> DEFINE half == Half(order, h)
           U == UniqueEdges(g)
<1>2. half \in Seq(U) /\ \A i, j \in 1 .. Len(half) : half[i] = half[j] => i = j
  BY <1>1 DEF HalfShape
<1>3. U \subseteq 1 .. Len(g.edges)
  BY EdgeNumbers
<1> HIDE DEF half, U
<1>4. Len(half) \in Nat /\ DOMAIN half = 1 .. Len(half) /\ \A i \in DOMAIN half : half[i] \in U
  BY <1>2
<1>5. ToSet(half) \subseteq U
  BY <1>4 DEF ToSet
<1> QED
  BY <1>2, <1>3, <1>4, <1>5 DEF half, U

LEMMA StatementOfEdges ==
  ASSUME NEW g, IsGraph(g), NEW order \in Orders(g), NEW h \in 0 .. 1
  PROVE  EdgeStatement(g, order, h, EdgeInsert(g, order, h))
<1> DEFINE half == Half(order, h)
           rows == [i \in DOMAIN half |-> EdgeRow(g, half[i])]
           st == EdgeInsert(g, order, h)
<1>1. st = Insert("edge", rows, half # << >>)
  BY DEF EdgeInsert, EdgeInserts
<1>2. /\ st.call = "async" /\ st.op = "insert" /\ st.table = "edge"
      /\ st.rows = rows /\ st.wellformed = (half # << >>)
  BY <1>1 DEF Insert
<1>3. /\ DOMAIN half = 1 .. Len(half)
      /\ \A i \in DOMAIN half : half[i] \in 1 .. Len(g.edges)
      /\ \A i, j \in DOMAIN half : half[i] = half[j] => i = j
  BY HalfElements
<1> HIDE DEF half, st
<1>4. DOMAIN rows = DOMAIN half /\ \A i \in DOMAIN half : rows[i] = EdgeRow(g, half[i])
  OBVIOUS
<1>5. ToSet(rows) = EdgeRows(g, order, h)
  BY <1>4 DEF ToSet, EdgeRows, half
<1>6. NoDuplicates(rows)
  <2> SUFFICES ASSUME NEW i \in DOMAIN half, NEW j \in DOMAIN half, rows[i] = rows[j]
               PROVE  i = j
    BY <1>4 DEF NoDuplicates
  <2>1. EdgeRow(g, half[i]) = EdgeRow(g, half[j])
    BY <1>4
  <2>2. EdgeRow(g, half[i]).id = half[i] - 1 /\ EdgeRow(g, half[j]).id = half[j] - 1
    BY DEF EdgeRow
  <2>3. half[i] - 1 = half[j] - 1
    BY <2>1, <2>2
  <2>4. half[i] \in Int /\ half[j] \in Int
    BY <1>3
  <2>5. half[i] = half[j]
    BY <2>3, <2>4
  <2> QED
    BY <2>5, <1>3
<1> QED
  BY <1>2, <1>5, <1>6 DEF EdgeStatement, st, half

BindingRow == [id : Int, param : Int, asset : Nat]

LEMMA BindingsOfEdge ==
  ASSUME NEW g, IsGraph(g), NEW j \in 1 .. Len(g.edges)
  PROVE  /\ BindingRows(g, j) \in Seq(BindingRow)
         /\ \A row \in ToSet(BindingRows(g, j)) : row.id = j - 1
         /\ ToSet(BindingRows(g, j)) # {}
<1> DEFINE perm == g.edges[j].perm
           rows == BindingRows(g, j)
<1>1. perm \in Seq(Nat) /\ perm # << >>
  BY EdgeType
<1>2. rows = [i \in DOMAIN perm |-> [id |-> j - 1, param |-> i - 1, asset |-> perm[i]]]
  BY DEF BindingRows
<1> HIDE DEF perm, rows
<1>3. DOMAIN perm = 1 .. Len(perm) /\ Len(perm) \in Nat /\ 1 \in DOMAIN perm
  BY <1>1
<1>4. rows = [i \in 1 .. Len(perm) |-> [id |-> j - 1, param |-> i - 1, asset |-> perm[i]]]
  BY <1>2, <1>3
<1>5. rows \in Seq(BindingRow)
  BY <1>1, <1>3, <1>4 DEF BindingRow
<1>6. DOMAIN rows = DOMAIN perm /\ \A i \in DOMAIN perm : rows[i].id = j - 1
  BY <1>2
<1>7. rows[1] \in ToSet(rows)
  BY <1>3, <1>6 DEF ToSet
<1> QED
  BY <1>5, <1>6, <1>7 DEF ToSet, rows

LEMMA StatementOfBindings ==
  ASSUME NEW g, IsGraph(g), NEW order \in Orders(g), NEW h \in 0 .. 1
  PROVE  BindingStatement(g, order, h, BindingInsert(g, order, h))
<1> DEFINE half == Half(order, h)
           n == Len(half)
           parts == [i \in DOMAIN half |-> BindingRows(g, half[i])]
           rows == FlattenSeq(parts)
           fits == half # << >> /\ \A i \in DOMAIN half : g.edges[half[i]].perm # << >>
           st == BindingInsert(g, order, h)
<1>1. st = Insert("edge_asset_binding", rows, fits)
  BY DEF BindingInsert, EdgeInserts
<1>2. /\ st.call = "async" /\ st.op = "insert" /\ st.table = "edge_asset_binding"
      /\ st.rows = rows /\ st.wellformed = fits
  BY <1>1 DEF Insert
<1>3. /\ DOMAIN half = 1 .. n /\ n \in Nat
      /\ \A i \in DOMAIN half : half[i] \in 1 .. Len(g.edges)
  BY HalfElements
<1> HIDE DEF half, st, n
<1>4. fits <=> half # << >>
  BY <1>3, EdgeType
<1>5. parts \in [1 .. n -> Seq(BindingRow)]
  <2>1. ASSUME NEW i \in 1 .. n PROVE BindingRows(g, half[i]) \in Seq(BindingRow)
    <3>1. half[i] \in 1 .. Len(g.edges)
      BY <1>3
    <3> QED
      BY <3>1, BindingsOfEdge
  <2> QED
    BY <1>3, <2>1
<1>6. ToSet(rows) = Elements(parts, n)
  BY <1>3, <1>5, FlattenElements
<1>7. \A i \in 1 .. n : parts[i] = BindingRows(g, half[i])
  BY <1>3
<1> HIDE DEF rows, fits
<1>8. Elements(parts, n) = HalfBindings(g, order, h)
  <2> HIDE DEF parts
  <2>1. ToSet(half) = {half[i] : i \in 1 .. n}
    BY <1>3 DEF ToSet
  <2> QED
    BY <1>7, <2>1 DEF Elements, HalfBindings, half
<1> QED
  BY <1>2, <1>4, <1>6, <1>8 DEF BindingStatement, st, half

-----------------------------------------------------------------------------
FactbaseRows(g) == {[id |-> fb] : fb \in Factbases(g)}

FactbaseStatement(g, st) ==
  /\ st.call = "async" /\ st.op = "insert" /\ st.table = "factbase"
  /\ ToSet(st.rows) = FactbaseRows(g) /\ NoDuplicates(st.rows)
  /\ st.wellformed

LEMMA StatementOfFactbases ==
  ASSUME NEW g, IsGraph(g)
  PROVE  FactbaseStatement(g, FactbaseInsert(g))
<1> DEFINE l == Len(g.items)
           rows == [i \in 1 .. l |-> [id |-> i - 1]]
           st == FactbaseInsert(g)
<1>1. st = Insert("factbase", rows, TRUE)
  BY DEF FactbaseInsert, SaveFactbases
<1>2. /\ st.call = "async" /\ st.op = "insert" /\ st.table = "factbase"
      /\ st.rows = rows /\ st.wellformed
  BY <1>1 DEF Insert
<1>3. l \in Nat
  BY DEF IsGraph
<1> HIDE DEF l, st
<1>4. \A i \in 1 .. l : rows[i].id = i - 1
  OBVIOUS
<1>5. NoDuplicates(rows)
  <2> SUFFICES ASSUME NEW i \in 1 .. l, NEW j \in 1 .. l, rows[i] = rows[j] PROVE i = j
    BY DEF NoDuplicates
  <2>1. i - 1 = j - 1
    BY <1>4
  <2> QED
    BY <2>1
<1>6. ToSet(rows) = FactbaseRows(g)
  <2>1. ASSUME NEW i \in 1 .. l PROVE rows[i] \in FactbaseRows(g)
    <3>1. i - 1 \in Factbases(g)
      BY <1>3 DEF Factbases, l
    <3> QED
      BY <3>1 DEF FactbaseRows
  <2>2. ASSUME NEW fb \in Factbases(g) PROVE [id |-> fb] \in ToSet(rows)
    <3>1. fb + 1 \in 1 .. l /\ (fb + 1) - 1 = fb
      BY <1>3 DEF Factbases, l
    <3>2. rows[fb + 1] = [id |-> fb]
      BY <3>1
    <3> QED
      BY <3>1, <3>2 DEF ToSet
  <2>3. ToSet(rows) \subseteq FactbaseRows(g)
    BY <2>1 DEF ToSet
  <2>4. FactbaseRows(g) \subseteq ToSet(rows)
    BY <2>2 DEF FactbaseRows
  <2> QED
    BY <2>3, <2>4
<1> QED
  BY <1>2, <1>5, <1>6 DEF FactbaseStatement, st

KeyvalueRowsOf(g) == ToSet(KeyvalueInsert(g).rows)

KeyvalueStatement(g, st) ==
  /\ st.call = "async" /\ st.op = "insert" /\ st.table = "keyvalue"
  /\ ToSet(st.rows) = KeyvalueRowsOf(g) /\ NoDuplicates(st.rows)
  /\ {row.property : row \in KeyvalueRowsOf(g)} = ToSet(g.strings)
  /\ st.wellformed <=> g.strings # << >>
  /\ g.strings = << >> => KeyvalueRowsOf(g) = {}

LEMMA StatementOfKeyvalue ==
  ASSUME NEW g, IsGraph(g)
  PROVE  KeyvalueStatement(g, KeyvalueInsert(g))
<1> DEFINE s == g.strings
           rows == [i \in DOMAIN s |-> [id |-> i - 1, property |-> s[i]]]
           st == KeyvalueInsert(g)
<1>1. st = Insert("keyvalue", rows, s # << >>)
  BY DEF KeyvalueInsert, SaveKeyvalue
<1>2. /\ st.call = "async" /\ st.op = "insert" /\ st.table = "keyvalue"
      /\ st.rows = rows /\ st.wellformed = (s # << >>)
  BY <1>1 DEF Insert
<1>3. DOMAIN s = 1 .. Len(s) /\ s \in Seq(STRING)
  BY DEF IsGraph
<1> HIDE DEF s, st
<1>4. \A i \in DOMAIN s : rows[i].id = i - 1 /\ rows[i].property = s[i]
  OBVIOUS
<1>5. DOMAIN rows = DOMAIN s
  OBVIOUS
<1> HIDE DEF rows
<1>6. NoDuplicates(rows)
  <2> SUFFICES ASSUME NEW i \in DOMAIN s, NEW j \in DOMAIN s, rows[i] = rows[j] PROVE i = j
    BY <1>5 DEF NoDuplicates
  <2>1. i - 1 = j - 1
    BY <1>4
  <2>2. i \in Int /\ j \in Int
    BY <1>3
  <2> QED
    BY <2>1, <2>2
<1>7. {row.property : row \in ToSet(rows)} = ToSet(s)
  BY <1>4, <1>5 DEF ToSet
<1>8. s = << >> => ToSet(rows) = {}
  BY <1>5 DEF ToSet
<1>9. KeyvalueRowsOf(g) = ToSet(rows)
  BY <1>2 DEF KeyvalueRowsOf, st
<1> QED
  BY <1>2, <1>6, <1>7, <1>8, <1>9 DEF KeyvalueStatement, st, s

-----------------------------------------------------------------------------
(***************************************************************************)
(* What the tables hold, as the client's transactions see them, when the   *)
(* first n statements have been answered; where the last of the committed  *)
(* transactions among these ends; and which inserts are refused.           *)
(***************************************************************************)
QuarterRows(g, k) == IF ItemsRefused(g, k) THEN {} ELSE QuarterItems(g, k)

QuartersBefore(n) == {k \in 0 .. 3 : 5 + 3 * k <= n}

EdgesBefore(g, n) == {h \in 0 .. 1 : g.edges # << >> /\ 17 + 4 * h <= n}

BindingsBefore(g, n) == {h \in 0 .. 1 : g.edges # << >> /\ 18 + 4 * h <= n}

WrittenTo(g, order, n, table) ==
  IF table = "factbase" THEN IF n >= 2 THEN FactbaseRows(g) ELSE {}
  ELSE IF table = "factbase_item" THEN UNION {QuarterRows(g, k) : k \in QuartersBefore(n)}
  ELSE IF table = "edge" THEN UNION {EdgeRows(g, order, h) : h \in EdgesBefore(g, n)}
  ELSE IF table = "edge_asset_binding"
       THEN UNION {HalfBindings(g, order, h) : h \in BindingsBefore(g, n)}
  ELSE IF n >= BeforeKeyvalue(g) + 2 THEN KeyvalueRowsOf(g) ELSE {}

Written(g, order, n) == [table \in Tables |-> WrittenTo(g, order, n, table)]

Committed(g, n) ==
  IF n < 15 THEN 3 * (n \div 3)
  ELSE IF n < BeforeKeyvalue(g) THEN 15 + 4 * ((n - 15) \div 4)
  ELSE IF n < BeforeKeyvalue(g) + 3 THEN BeforeKeyvalue(g)
  ELSE n

Refused(g, order, n) ==
  \/ \E k \in 0 .. 3 : n = 5 + 3 * k /\ ItemsRefused(g, k)
  \/ /\ g.edges # << >>
     /\ \E h \in 0 .. 1 : n \in {17 + 4 * h, 18 + 4 * h} /\ Half(order, h) = << >>
  \/ n = BeforeKeyvalue(g) + 2 /\ g.strings = << >>

LEMMA WhatIsWritten ==
  ASSUME NEW g, NEW order, NEW n
  PROVE  LET T == Written(g, order, n)
         IN  /\ DOMAIN T = Tables
             /\ T["factbase"] = IF n >= 2 THEN FactbaseRows(g) ELSE {}
             /\ T["factbase_item"] = UNION {QuarterRows(g, k) : k \in QuartersBefore(n)}
             /\ T["edge"] = UNION {EdgeRows(g, order, h) : h \in EdgesBefore(g, n)}
             /\ T["edge_asset_binding"] =
                  UNION {HalfBindings(g, order, h) : h \in BindingsBefore(g, n)}
             /\ T["keyvalue"] =
                  IF n >= BeforeKeyvalue(g) + 2 THEN KeyvalueRowsOf(g) ELSE {}
BY DEF Written, WrittenTo, Tables

\* One table, or none, gains rows.
Grown(T, U, table, rows) ==
  /\ U[table] = T[table] \cup rows
  /\ \A other \in Tables \ {table} : U[other] = T[other]

LEMMA GrownIsInserted ==
  ASSUME NEW g, NEW order, NEW n, NEW m, NEW st, st.table \in Tables,
         Grown(Written(g, order, n), Written(g, order, m), st.table, ToSet(st.rows))
  PROVE  Written(g, order, m) = Inserted(Written(g, order, n), st)
<1> DEFINE T == Written(g, order, n)
           U == Written(g, order, m)
           table == st.table
<1>1. /\ T = [t \in Tables |-> T[t]] /\ DOMAIN T = Tables
      /\ U = [t \in Tables |-> U[t]] /\ DOMAIN U = Tables
  BY DEF Written
<1>2. Inserted(T, st) = [T EXCEPT ![table] = T[table] \cup ToSet(st.rows)]
  BY DEF Inserted
<1>3. Grown(T, U, table, ToSet(st.rows)) /\ table \in Tables
  OBVIOUS
<1> HIDE DEF T, U, table
<1>4. Inserted(T, st) = [t \in Tables |-> IF t = table THEN T[table] \cup ToSet(st.rows) ELSE T[t]]
  BY <1>1, <1>2
<1>5. \A t \in Tables : U[t] = IF t = table THEN T[table] \cup ToSet(st.rows) ELSE T[t]
  BY <1>3 DEF Grown
<1>6. Inserted(T, st) = U
  BY <1>1, <1>4, <1>5
<1> QED
  BY <1>6 DEF T, U

LEMMA GrownByNothing ==
  ASSUME NEW g, NEW order, NEW n, NEW m, NEW table \in Tables,
         Grown(Written(g, order, n), Written(g, order, m), table, {})
  PROVE  Written(g, order, m) = Written(g, order, n)
<1> DEFINE T == Written(g, order, n)
           U == Written(g, order, m)
<1>1. T = [t \in Tables |-> T[t]] /\ U = [t \in Tables |-> U[t]]
  BY DEF Written
<1>3. Grown(T, U, table, {})
  OBVIOUS
<1> HIDE DEF T, U
<1>4. \A t \in Tables : U[t] = T[t]
  BY <1>3 DEF Grown
<1>5. U = T
  BY <1>1, <1>4
<1> QED
  BY <1>5 DEF T, U

LEMMA TheTables ==
  ASSUME NEW table \in Tables
  PROVE  \/ table = "factbase" \/ table = "factbase_item" \/ table = "edge"
         \/ table = "edge_asset_binding" \/ table = "keyvalue"
BY DEF Tables

\* Which statements write.
LEMMA FactbasesWritten ==
  ASSUME NEW g, NEW order
  PROVE  Grown(Written(g, order, 1), Written(g, order, 2), "factbase", FactbaseRows(g))
<1> DEFINE T == Written(g, order, 1)
           U == Written(g, order, 2)
<1>1. BeforeKeyvalue(g) \in {15, 23}
  BY DEF BeforeKeyvalue
<1>2. /\ QuartersBefore(1) = {} /\ QuartersBefore(2) = {}
      /\ EdgesBefore(g, 1) = {} /\ EdgesBefore(g, 2) = {}
      /\ BindingsBefore(g, 1) = {} /\ BindingsBefore(g, 2) = {}
  BY DEF QuartersBefore, EdgesBefore, BindingsBefore
<1>3. /\ T["factbase"] = {} /\ U["factbase"] = FactbaseRows(g)
      /\ T["factbase_item"] = {} /\ U["factbase_item"] = {}
      /\ T["edge"] = {} /\ U["edge"] = {}
      /\ T["edge_asset_binding"] = {} /\ U["edge_asset_binding"] = {}
      /\ T["keyvalue"] = {} /\ U["keyvalue"] = {}
  BY <1>1, <1>2, WhatIsWritten
<1> QED
  BY <1>3, TheTables DEF Grown

LEMMA ItemsWritten ==
  ASSUME NEW g, NEW order, NEW k \in 0 .. 3
  PROVE  Grown(Written(g, order, 4 + 3 * k), Written(g, order, 5 + 3 * k),
               "factbase_item", QuarterRows(g, k))
<1> DEFINE n == 4 + 3 * k
           m == 5 + 3 * k
           T == Written(g, order, n)
           U == Written(g, order, m)
<1>1. BeforeKeyvalue(g) \in {15, 23} /\ n \in 4 .. 13 /\ m \in 5 .. 14
  BY DEF BeforeKeyvalue
<1>2. QuartersBefore(m) = QuartersBefore(n) \cup {k}
  BY DEF QuartersBefore
<1> HIDE DEF n, m
<1>3. /\ EdgesBefore(g, n) = {} /\ EdgesBefore(g, m) = {}
      /\ BindingsBefore(g, n) = {} /\ BindingsBefore(g, m) = {}
  BY <1>1 DEF EdgesBefore, BindingsBefore
<1>4. /\ T["factbase"] = FactbaseRows(g) /\ U["factbase"] = FactbaseRows(g)
      /\ T["edge"] = {} /\ U["edge"] = {}
      /\ T["edge_asset_binding"] = {} /\ U["edge_asset_binding"] = {}
      /\ T["keyvalue"] = {} /\ U["keyvalue"] = {}
  BY <1>1, <1>3, WhatIsWritten
<1>5. /\ T["factbase_item"] = UNION {QuarterRows(g, q) : q \in QuartersBefore(n)}
      /\ U["factbase_item"] = UNION {QuarterRows(g, q) : q \in QuartersBefore(m)}
  BY WhatIsWritten
<1> HIDE DEF T, U
<1>6. U["factbase_item"] = T["factbase_item"] \cup QuarterRows(g, k)
  BY <1>2, <1>5
<1>7. Grown(T, U, "factbase_item", QuarterRows(g, k))
  BY <1>4, <1>6, TheTables DEF Grown
<1> QED
  BY <1>7 DEF T, U, n, m

LEMMA EdgesWritten ==
  ASSUME NEW g, NEW order, NEW h \in 0 .. 1, g.edges # << >>
  PROVE  Grown(Written(g, order, 16 + 4 * h), Written(g, order, 17 + 4 * h),
               "edge", EdgeRows(g, order, h))
<1> DEFINE n == 16 + 4 * h
           m == 17 + 4 * h
           T == Written(g, order, n)
           U == Written(g, order, m)
<1>1. BeforeKeyvalue(g) = 23 /\ n \in 16 .. 20 /\ m \in 17 .. 21
  BY DEF BeforeKeyvalue
<1>2. EdgesBefore(g, m) = EdgesBefore(g, n) \cup {h}
  BY DEF EdgesBefore
<1>3. BindingsBefore(g, m) = BindingsBefore(g, n)
  BY DEF BindingsBefore
<1> HIDE DEF n, m
<1>4. QuartersBefore(m) = QuartersBefore(n)
  BY <1>1 DEF QuartersBefore
<1>5. \A other \in Tables \ {"edge"} : U[other] = T[other]
  <2>1. /\ n >= 2 /\ m >= 2
        /\ ~ (n >= BeforeKeyvalue(g) + 2) /\ ~ (m >= BeforeKeyvalue(g) + 2)
    BY <1>1
  <2>2. \A other \in Tables \ {"edge"} :
          WrittenTo(g, order, m, other) = WrittenTo(g, order, n, other)
    BY <1>3, <1>4, <2>1 DEF WrittenTo
  <2> QED
    BY <2>2 DEF Written
<1>6. /\ T["edge"] = UNION {EdgeRows(g, order, q) : q \in EdgesBefore(g, n)}
      /\ U["edge"] = UNION {EdgeRows(g, order, q) : q \in EdgesBefore(g, m)}
  BY WhatIsWritten
<1> HIDE DEF T, U
<1>7. U["edge"] = T["edge"] \cup EdgeRows(g, order, h)
  BY <1>2, <1>6
<1>8. Grown(T, U, "edge", EdgeRows(g, order, h))
  BY <1>5, <1>7 DEF Grown
<1> QED
  BY <1>8 DEF T, U, n, m

LEMMA BindingsWritten ==
  ASSUME NEW g, NEW order, NEW h \in 0 .. 1, g.edges # << >>
  PROVE  Grown(Written(g, order, 17 + 4 * h), Written(g, order, 18 + 4 * h),
               "edge_asset_binding", HalfBindings(g, order, h))
<1> DEFINE n == 17 + 4 * h
           m == 18 + 4 * h
           T == Written(g, order, n)
           U == Written(g, order, m)
<1>1. BeforeKeyvalue(g) = 23 /\ n \in 17 .. 21 /\ m \in 18 .. 22
  BY DEF BeforeKeyvalue
<1>2. BindingsBefore(g, m) = BindingsBefore(g, n) \cup {h}
  BY DEF BindingsBefore
<1>3. EdgesBefore(g, m) = EdgesBefore(g, n)
  BY DEF EdgesBefore
<1> HIDE DEF n, m
<1>4. QuartersBefore(m) = QuartersBefore(n)
  BY <1>1 DEF QuartersBefore
<1>5. \A other \in Tables \ {"edge_asset_binding"} : U[other] = T[other]
  <2>1. /\ n >= 2 /\ m >= 2
        /\ ~ (n >= BeforeKeyvalue(g) + 2) /\ ~ (m >= BeforeKeyvalue(g) + 2)
    BY <1>1
  <2>2. \A other \in Tables \ {"edge_asset_binding"} :
          WrittenTo(g, order, m, other) = WrittenTo(g, order, n, other)
    BY <1>3, <1>4, <2>1 DEF WrittenTo
  <2> QED
    BY <2>2 DEF Written
<1>6. /\ T["edge_asset_binding"] =
           UNION {HalfBindings(g, order, q) : q \in BindingsBefore(g, n)}
      /\ U["edge_asset_binding"] =
           UNION {HalfBindings(g, order, q) : q \in BindingsBefore(g, m)}
  BY WhatIsWritten
<1> HIDE DEF T, U
<1>7. U["edge_asset_binding"] = T["edge_asset_binding"] \cup HalfBindings(g, order, h)
  BY <1>2, <1>6
<1>8. Grown(T, U, "edge_asset_binding", HalfBindings(g, order, h))
  BY <1>5, <1>7 DEF Grown
<1> QED
  BY <1>8 DEF T, U, n, m

LEMMA KeyvalueWritten ==
  ASSUME NEW g, NEW order
  PROVE  Grown(Written(g, order, BeforeKeyvalue(g) + 1), Written(g, order, BeforeKeyvalue(g) + 2),
               "keyvalue", KeyvalueRowsOf(g))
<1> DEFINE n == BeforeKeyvalue(g) + 1
           m == BeforeKeyvalue(g) + 2
           T == Written(g, order, n)
           U == Written(g, order, m)
<1>1. /\ BeforeKeyvalue(g) \in {15, 23} /\ n \in 16 .. 24 /\ m = n + 1
      /\ g.edges # << >> => n = 24
  BY DEF BeforeKeyvalue
<1>0. m >= BeforeKeyvalue(g) + 2 /\ ~ (n >= BeforeKeyvalue(g) + 2)
  BY <1>1
<1> HIDE DEF n, m
<1>2. QuartersBefore(m) = QuartersBefore(n)
  BY <1>1 DEF QuartersBefore
<1>3. BindingsBefore(g, m) = BindingsBefore(g, n) /\ EdgesBefore(g, m) = EdgesBefore(g, n)
  BY <1>1 DEF BindingsBefore, EdgesBefore
<1>4. \A other \in Tables \ {"keyvalue"} : U[other] = T[other]
  <2>1. n >= 2 /\ m >= 2
    BY <1>1
  <2>2. \A other \in Tables \ {"keyvalue"} :
          WrittenTo(g, order, m, other) = WrittenTo(g, order, n, other)
    BY <1>2, <1>3, <2>1, TheTables DEF WrittenTo
  <2> QED
    BY <2>2 DEF Written
<1>5. T["keyvalue"] = {} /\ U["keyvalue"] = KeyvalueRowsOf(g)
  BY <1>0, WhatIsWritten
<1> HIDE DEF T, U
<1>6. Grown(T, U, "keyvalue", KeyvalueRowsOf(g))
  <2>1. U["keyvalue"] = T["keyvalue"] \cup KeyvalueRowsOf(g)
    BY <1>5
  <2> QED
    BY <1>4, <2>1 DEF Grown
<1> QED
  BY <1>6 DEF T, U, n, m

\* The others do not.
IsInsertAt(g, n) ==
  \/ n = 2 \/ n = BeforeKeyvalue(g) + 2
  \/ \E k \in 0 .. 3 : n = 5 + 3 * k
  \/ g.edges # << >> /\ \E h \in 0 .. 1 : n \in {17 + 4 * h, 18 + 4 * h}

LEMMA NothingWritten ==
  ASSUME NEW g, NEW order, NEW n \in Nat, ~ IsInsertAt(g, n + 1)
  PROVE  Written(g, order, n + 1) = Written(g, order, n)
<1> DEFINE m == n + 1
<1>1. BeforeKeyvalue(g) \in {15, 23}
  BY DEF BeforeKeyvalue
<1>2. m # 2 /\ m # BeforeKeyvalue(g) + 2 /\ m \in Nat /\ n = m - 1
  BY DEF IsInsertAt
<1>3. QuartersBefore(m) = QuartersBefore(n)
  <2>1. \A k \in 0 .. 3 : m # 5 + 3 * k
    BY DEF IsInsertAt
  <2>2. \A k \in 0 .. 3 : 5 + 3 * k <= m <=> 5 + 3 * k <= n
    BY <2>1
  <2> QED
    BY <2>2 DEF QuartersBefore
<1>4. EdgesBefore(g, m) = EdgesBefore(g, n) /\ BindingsBefore(g, m) = BindingsBefore(g, n)
  <2>1. CASE g.edges = << >>
    BY <2>1 DEF EdgesBefore, BindingsBefore
  <2>2. CASE g.edges # << >>
    <3>1. \A h \in 0 .. 1 : m # 17 + 4 * h /\ m # 18 + 4 * h
      BY <2>2 DEF IsInsertAt
    <3>2. \A h \in 0 .. 1 : /\ 17 + 4 * h <= m <=> 17 + 4 * h <= n
                            /\ 18 + 4 * h <= m <=> 18 + 4 * h <= n
      BY <3>1
    <3> QED
      BY <3>2 DEF EdgesBefore, BindingsBefore
  <2> QED
    BY <2>1, <2>2
<1>5. /\ m >= 2 <=> n >= 2
      /\ m >= BeforeKeyvalue(g) + 2 <=> n >= BeforeKeyvalue(g) + 2
  BY <1>1, <1>2
<1>6. \A table \in Tables : WrittenTo(g, order, m, table) = WrittenTo(g, order, n, table)
  BY <1>3, <1>4, <1>5 DEF WrittenTo
<1> QED
  BY <1>6 DEF Written

-----------------------------------------------------------------------------
(***************************************************************************)
(* When the server carries out each of the inserts, if it has carried out  *)
(* what came before.                                                       *)
(***************************************************************************)
LEMMA SavedFactbases ==
  ASSUME NEW g, NEW order, NEW n, n >= 2
  PROVE  Ids(Written(g, order, n), "factbase") = Factbases(g)
<1>1. Written(g, order, n)["factbase"] = FactbaseRows(g)
  BY WhatIsWritten
<1>2. Ids(Written(g, order, n), "factbase") = {row.id : row \in FactbaseRows(g)}
  BY <1>1 DEF Ids
<1>3. \A fb \in Factbases(g) : [id |-> fb] \in FactbaseRows(g) /\ [id |-> fb].id = fb
  BY DEF FactbaseRows
<1>4. \A row \in FactbaseRows(g) : row.id \in Factbases(g)
  BY DEF FactbaseRows
<1> HIDE DEF FactbaseRows
<1>5. {row.id : row \in FactbaseRows(g)} = Factbases(g)
  BY <1>3, <1>4
<1> QED
  BY <1>2, <1>5

LEMMA FactbasesAllowed ==
  ASSUME NEW g, IsGraph(g), NEW order
  PROVE  Allowed(Written(g, order, 1), FactbaseInsert(g))
<1> DEFINE st == FactbaseInsert(g)
           T == Written(g, order, 1)
<1>1. FactbaseStatement(g, st)
  BY StatementOfFactbases
<1>2. T["factbase"] = {}
  BY WhatIsWritten
<1> HIDE DEF st, T
<1>3. ToSet(st.rows) \cap T[st.table] = {} /\ st.table = "factbase"
  BY <1>1, <1>2 DEF FactbaseStatement
<1>4. Allowed(T, st)
  BY <1>1, <1>3 DEF FactbaseStatement, Allowed
<1> QED
  BY <1>4 DEF T, st

LEMMA ItemsAllowed ==
  ASSUME NEW g, IsGraph(g), NEW order, NEW k \in 0 .. 3
  PROVE  Allowed(Written(g, order, 4 + 3 * k), ItemInsert(g, k)) <=> ~ ItemsRefused(g, k)
<1> DEFINE st == ItemInsert(g, k)
           n == 4 + 3 * k
           T == Written(g, order, n)
<1>1. \A q \in 0 .. 3 : ItemStatement(g, q, ItemInsert(g, q))
  BY StatementOfItems
<1>2. ItemStatement(g, k, st)
  BY <1>1
<1>3. n >= 2 /\ n \in Nat
  OBVIOUS
<1>4. T["factbase_item"] = UNION {QuarterRows(g, q) : q \in QuartersBefore(n)}
  BY WhatIsWritten
<1>5. \A q \in QuartersBefore(n) : q \in 0 .. 3 \ {k}
  BY DEF QuartersBefore
<1>6. Ids(T, "factbase") = Factbases(g)
  BY <1>3, SavedFactbases
<1> HIDE DEF st, T, n
<1>7. ASSUME NEW row \in ToSet(st.rows), row \in T["factbase_item"] PROVE FALSE
  <2>1. PICK q \in QuartersBefore(n) : row \in QuarterRows(g, q)
    BY <1>4, <1>7
  <2>2. row \in QuarterItems(g, q)
    BY <2>1 DEF QuarterRows
  <2>3. q \in 0 .. 3 \ {k}
    BY <1>5
  <2>4. row.id \in FactbasesOf(g, q)
    BY <1>1, <2>2, <2>3 DEF ItemStatement
  <2>5. row.id \in FactbasesOf(g, k)
    BY <1>2 DEF ItemStatement
  <2>6. FactbasesOf(g, k) \cap FactbasesOf(g, q) = {}
    BY <2>3, QuarterPositions
  <2> QED
    BY <2>4, <2>5, <2>6
<1>8. ToSet(st.rows) \cap T[st.table] = {}
  BY <1>2, <1>7 DEF ItemStatement
<1>9. \A row \in ToSet(st.rows) : row.id \in Ids(T, "factbase")
  BY <1>2, <1>6, QuarterFactbases DEF ItemStatement
<1>10. Allowed(T, st) <=> /\ st.wellformed /\ NoDuplicates(st.rows)
                          /\ \A row \in ToSet(st.rows) : Storable(row.f)
  <2>1. st.table = "factbase_item"
    BY <1>2 DEF ItemStatement
  <2> QED
    BY <1>8, <1>9, <2>1 DEF Allowed
<1> QED
  BY <1>2, <1>10 DEF ItemStatement, T, n, st

LEMMA EdgesAllowed ==
  ASSUME NEW g, IsGraph(g), NEW order \in Orders(g), NEW h \in 0 .. 1, g.edges # << >>
  PROVE  Allowed(Written(g, order, 16 + 4 * h), EdgeInsert(g, order, h))
           <=> Half(order, h) # << >>
<1> DEFINE st == EdgeInsert(g, order, h)
           n == 16 + 4 * h
           T == Written(g, order, n)
<1>1. EdgeStatement(g, order, h, st)
  BY StatementOfEdges
<1>2. n >= 2
  OBVIOUS
<1>3. T["edge"] = UNION {EdgeRows(g, order, q) : q \in EdgesBefore(g, n)}
  BY WhatIsWritten
<1>4. \A q \in EdgesBefore(g, n) : q \in 0 .. 1 /\ q # h
  BY DEF EdgesBefore
<1>5. Ids(T, "factbase") = Factbases(g)
  BY <1>2, SavedFactbases
<1>6. \A q \in 0 .. 1 : \A j \in ToSet(Half(order, q)) : j \in 1 .. Len(g.edges)
  <2> TAKE q \in 0 .. 1
  <2>1. ToSet(Half(order, q)) \subseteq UniqueEdges(g)
    BY HalfElements
  <2> QED
    BY <2>1, EdgeNumbers
<1> HIDE DEF st, T, n
<1>7. ASSUME NEW row \in ToSet(st.rows), row \in T["edge"] PROVE FALSE
  <2>1. PICK q \in EdgesBefore(g, n) : row \in EdgeRows(g, order, q)
    BY <1>3, <1>7
  <2>2. q \in 0 .. 1 /\ q # h
    BY <1>4
  <2>3. PICK i \in ToSet(Half(order, q)) : row = EdgeRow(g, i)
    BY <2>1 DEF EdgeRows
  <2>4. row \in EdgeRows(g, order, h)
    BY <1>1 DEF EdgeStatement
  <2>5. PICK j \in ToSet(Half(order, h)) : row = EdgeRow(g, j)
    BY <2>4 DEF EdgeRows
  <2>6. row.id = i - 1 /\ row.id = j - 1
    BY <2>3, <2>5 DEF EdgeRow
  <2>7. i \in Int /\ j \in Int
    BY <1>6, <2>2, <2>3, <2>5
  <2>8. i = j
    BY <2>6, <2>7
  <2>9. ToSet(Half(order, 0)) \cap ToSet(Half(order, 1)) = {}
    BY HalvesOfEdges
  <2>10. (q = 0 /\ h = 1) \/ (q = 1 /\ h = 0)
    BY <2>2
  <2> QED
    BY <2>3, <2>5, <2>8, <2>9, <2>10
<1>8. ToSet(st.rows) \cap T[st.table] = {}
  BY <1>1, <1>7 DEF EdgeStatement
<1>9. \A row \in ToSet(st.rows) : {row.from, row.to} \subseteq Ids(T, "factbase")
  <2> TAKE row \in ToSet(st.rows)
  <2>1. row \in EdgeRows(g, order, h)
    BY <1>1 DEF EdgeStatement
  <2>2. PICK j \in ToSet(Half(order, h)) : row = EdgeRow(g, j)
    BY <2>1 DEF EdgeRows
  <2>3. j \in 1 .. Len(g.edges)
    BY <1>6
  <2>4. row.from = g.edges[j].from /\ row.to = g.edges[j].to
    BY <2>2 DEF EdgeRow
  <2>5. g.edges[j].from \in Factbases(g) /\ g.edges[j].to \in Factbases(g)
    BY <2>3, EdgeType
  <2> QED
    BY <1>5, <2>4, <2>5
<1>10. Allowed(T, st) <=> st.wellformed
  <2>1. st.table = "edge" /\ NoDuplicates(st.rows)
    BY <1>1 DEF EdgeStatement
  <2> QED
    BY <1>8, <1>9, <2>1 DEF Allowed
<1> QED
  BY <1>1, <1>10 DEF EdgeStatement, T, n, st

LEMMA BindingsAllowed ==
  ASSUME NEW g, IsGraph(g), NEW order \in Orders(g), NEW h \in 0 .. 1, g.edges # << >>
  PROVE  Allowed(Written(g, order, 17 + 4 * h), BindingInsert(g, order, h))
           <=> Half(order, h) # << >>
<1> DEFINE st == BindingInsert(g, order, h)
           n == 17 + 4 * h
           T == Written(g, order, n)
<1>1. BindingStatement(g, order, h, st)
  BY StatementOfBindings
<1>2. T["edge"] = UNION {EdgeRows(g, order, q) : q \in EdgesBefore(g, n)}
  BY WhatIsWritten
<1>3. h \in EdgesBefore(g, n)
  BY DEF EdgesBefore
<1>4. \A j \in ToSet(Half(order, h)) : j \in 1 .. Len(g.edges)
  <2>1. ToSet(Half(order, h)) \subseteq UniqueEdges(g)
    BY HalfElements
  <2> QED
    BY <2>1, EdgeNumbers
<1> HIDE DEF st, T, n
<1>5. EdgeRows(g, order, h) \subseteq T["edge"]
  BY <1>2, <1>3
<1>6. \A row \in ToSet(st.rows) : row.id \in Ids(T, "edge")
  <2> TAKE row \in ToSet(st.rows)
  <2>1. row \in HalfBindings(g, order, h)
    BY <1>1 DEF BindingStatement
  <2>2. PICK j \in ToSet(Half(order, h)) : row \in ToSet(BindingRows(g, j))
    BY <2>1 DEF HalfBindings
  <2>3. row.id = j - 1
    BY <1>4, <2>2, BindingsOfEdge
  <2>4. EdgeRow(g, j) \in T["edge"]
    BY <1>5 DEF EdgeRows
  <2>5. EdgeRow(g, j).id = j - 1
    BY DEF EdgeRow
  <2> QED
    BY <2>3, <2>4, <2>5 DEF Ids
<1>7. Allowed(T, st) <=> st.wellformed
  <2>1. st.table = "edge_asset_binding"
    BY <1>1 DEF BindingStatement
  <2> QED
    BY <1>6, <2>1 DEF Allowed
<1> QED
  BY <1>1, <1>7 DEF BindingStatement, T, n, st

LEMMA KeyvalueAllowed ==
  ASSUME NEW g, IsGraph(g), NEW order
  PROVE  Allowed(Written(g, order, BeforeKeyvalue(g) + 1), KeyvalueInsert(g))
           <=> g.strings # << >>
<1> DEFINE st == KeyvalueInsert(g)
           n == BeforeKeyvalue(g) + 1
           T == Written(g, order, n)
<1>1. KeyvalueStatement(g, st)
  BY StatementOfKeyvalue
<1>2. ~ (n >= BeforeKeyvalue(g) + 2)
  <2>1. BeforeKeyvalue(g) \in {15, 23}
    BY DEF BeforeKeyvalue
  <2> QED
    BY <2>1
<1> HIDE DEF n
<1>3. T["keyvalue"] = {}
  BY <1>2, WhatIsWritten
<1> HIDE DEF st, T
<1>4. Allowed(T, st) <=> st.wellformed
  <2>1. st.table = "keyvalue" /\ NoDuplicates(st.rows)
    BY <1>1 DEF KeyvalueStatement
  <2> QED
    BY <1>3, <2>1 DEF Allowed
<1> QED
  BY <1>1, <1>4 DEF KeyvalueStatement, T, n, st

-----------------------------------------------------------------------------
(***************************************************************************)
(* What the answer to the statement after the first n changes.             *)
(***************************************************************************)
StaysWritten(g, order, n) == Written(g, order, n + 1) = Written(g, order, n)

StepBegin(g, order, n, st) ==
  /\ st.op = "begin" /\ st.call = "exec"
  /\ Committed(g, n) = n /\ Committed(g, n + 1) = n
  /\ StaysWritten(g, order, n)
  /\ ~ Refused(g, order, n + 1)

StepInsert(g, order, n, st) ==
  /\ st.op = "insert" /\ st.call = "async" /\ st.table \in Tables
  /\ Committed(g, n) < n /\ Committed(g, n + 1) = Committed(g, n)
  /\ Refused(g, order, n) => Refused(g, order, n + 1)
  /\ Refused(g, order, n + 1) => StaysWritten(g, order, n)
  /\ ~ Refused(g, order, n) =>
       (Refused(g, order, n + 1) <=> ~ Allowed(Written(g, order, n), st))
  /\ ~ Refused(g, order, n + 1) =>
       Written(g, order, n + 1) = Inserted(Written(g, order, n), st)

StepCommit(g, order, n, st) ==
  /\ st.op = "commit" /\ st.call = "async"
  /\ Committed(g, n) < n /\ Committed(g, n + 1) = n + 1
  /\ StaysWritten(g, order, n)
  /\ Refused(g, order, n) => Written(g, order, n) = Written(g, order, Committed(g, n))
  /\ ~ Refused(g, order, n + 1)

StepSelect(g, order, n, st) ==
  /\ st.op = "select" /\ st.call = "exec"
  /\ Committed(g, n) = n /\ Committed(g, n + 1) = n + 1
  /\ StaysWritten(g, order, n)
  /\ ~ Refused(g, order, n + 1)
  /\ g.should_graph
  /\ \/ n = BeforeKeyvalue(g) + 3 /\ st.table = "factbase"
     \/ n = BeforeKeyvalue(g) + 4 /\ st.table = "edge"

LEMMA CommittedAt ==
  ASSUME NEW g
  PROVE  /\ \A j \in 0 .. 4 : \A i \in 0 .. 2 : Committed(g, 3 * j + i) = 3 * j
         /\ Committed(g, 15) = 15
         /\ g.edges # << >> => \A h \in 0 .. 1 : /\ \A i \in 0 .. 3 : Committed(g, 15 + 4 * h + i) = 15 + 4 * h
                                                 /\ Committed(g, 19 + 4 * h) = 19 + 4 * h
         /\ \A i \in 0 .. 2 : Committed(g, BeforeKeyvalue(g) + i) = BeforeKeyvalue(g)
         /\ \A i \in 3 .. 5 : Committed(g, BeforeKeyvalue(g) + i) = BeforeKeyvalue(g) + i
<1> DEFINE K == BeforeKeyvalue(g)
<1>1. (g.edges # << >> /\ K = 23) \/ (g.edges = << >> /\ K = 15)
  BY DEF BeforeKeyvalue
<1>2. \A n : Committed(g, n) = IF n < 15 THEN 3 * (n \div 3)
                               ELSE IF n < K THEN 15 + 4 * ((n - 15) \div 4)
                               ELSE IF n < K + 3 THEN K ELSE n
  BY DEF Committed
<1> HIDE DEF K
<1>3. ASSUME NEW j \in 0 .. 4, NEW i \in 0 .. 2 PROVE Committed(g, 3 * j + i) = 3 * j
  <2>1. 3 * j + i < 15 /\ (3 * j + i) \div 3 = j
    OBVIOUS
  <2> QED
    BY <2>1, <1>2
<1>4. Committed(g, 15) = 15
  BY <1>1, <1>2
<1>5. ASSUME g.edges # << >>, NEW h \in 0 .. 1
      PROVE  /\ \A i \in 0 .. 3 : Committed(g, 15 + 4 * h + i) = 15 + 4 * h
             /\ Committed(g, 19 + 4 * h) = 19 + 4 * h
  <2>1. K = 23
    BY <1>1, <1>5
  <2>2. ASSUME NEW i \in 0 .. 3 PROVE Committed(g, 15 + 4 * h + i) = 15 + 4 * h
    <3>1. /\ ~ (15 + 4 * h + i < 15) /\ 15 + 4 * h + i < 23
          /\ (15 + 4 * h + i - 15) \div 4 = h
      OBVIOUS
    <3> QED
      BY <2>1, <3>1, <1>2
  <2>3. Committed(g, 19) = 19 /\ Committed(g, 23) = 23
    BY <2>1, <1>2
  <2>4. 19 + 4 * h \in {19, 23}
    OBVIOUS
  <2> QED
    BY <2>2, <2>3, <2>4
<1>6. K \in {15, 23}
  BY <1>1
<1>7. ASSUME NEW i \in 0 .. 2 PROVE Committed(g, K + i) = K
  <2>1. ~ (K + i < 15) /\ ~ (K + i < K) /\ K + i < K + 3
    BY <1>6
  <2> QED
    BY <2>1, <1>2
<1>8. ASSUME NEW i \in 3 .. 5 PROVE Committed(g, K + i) = K + i
  <2>1. ~ (K + i < 15) /\ ~ (K + i < K) /\ ~ (K + i < K + 3)
    BY <1>6
  <2> QED
    BY <2>1, <1>2
<1> QED
  BY <1>3, <1>4, <1>5, <1>7, <1>8 DEF K

LEMMA RefusedAt ==
  ASSUME NEW g, NEW order
  PROVE  /\ \A k \in 0 .. 3 : Refused(g, order, 5 + 3 * k) <=> ItemsRefused(g, k)
         /\ g.edges # << >> => \A h \in 0 .. 1 :
              /\ Refused(g, order, 17 + 4 * h) <=> Half(order, h) = << >>
              /\ Refused(g, order, 18 + 4 * h) <=> Half(order, h) = << >>
         /\ Refused(g, order, BeforeKeyvalue(g) + 2) <=> g.strings = << >>
         /\ \A n : n = 2 \/ ~ IsInsertAt(g, n) => ~ Refused(g, order, n)
<1> DEFINE K == BeforeKeyvalue(g)
           R(n) == Refused(g, order, n)
           E(h) == Half(order, h) = << >>
           I(k) == ItemsRefused(g, k)
           edges == g.edges # << >>
           none == g.strings = << >>
<1>1. (edges /\ K = 23) \/ (~ edges /\ K = 15)
  BY DEF BeforeKeyvalue
<1>2. \A n : R(n) <=> \/ \E k \in 0 .. 3 : n = 5 + 3 * k /\ I(k)
                      \/ edges /\ \E h \in 0 .. 1 : n \in {17 + 4 * h, 18 + 4 * h} /\ E(h)
                      \/ n = K + 2 /\ none
  BY DEF Refused
<1>3. \A n : IsInsertAt(g, n) <=> \/ n = 2 \/ n = K + 2
                                  \/ \E k \in 0 .. 3 : n = 5 + 3 * k
                                  \/ edges /\ \E h \in 0 .. 1 : n \in {17 + 4 * h, 18 + 4 * h}
  BY DEF IsInsertAt
<1> HIDE DEF K, R, E, I, edges, none
<1>4. ASSUME NEW k \in 0 .. 3 PROVE R(5 + 3 * k) <=> I(k)
  <2>1. /\ \A q \in 0 .. 3 : 5 + 3 * k = 5 + 3 * q => q = k
        /\ \A h \in 0 .. 1 : 5 + 3 * k \notin {17 + 4 * h, 18 + 4 * h}
        /\ 5 + 3 * k # K + 2
    BY <1>1
  <2> QED
    BY <2>1, <1>2
<1>5. ASSUME edges, NEW h \in 0 .. 1 PROVE R(17 + 4 * h) <=> E(h)
  <2>1. /\ \A q \in 0 .. 3 : 17 + 4 * h # 5 + 3 * q
        /\ \A q \in 0 .. 1 : 17 + 4 * h \in {17 + 4 * q, 18 + 4 * q} => q = h
        /\ 17 + 4 * h # K + 2
    BY <1>1, <1>5
  <2> QED
    BY <2>1, <1>2, <1>5
<1>6. ASSUME edges, NEW h \in 0 .. 1 PROVE R(18 + 4 * h) <=> E(h)
  <2>1. /\ \A q \in 0 .. 3 : 18 + 4 * h # 5 + 3 * q
        /\ \A q \in 0 .. 1 : 18 + 4 * h \in {17 + 4 * q, 18 + 4 * q} => q = h
        /\ 18 + 4 * h # K + 2
    BY <1>1, <1>6
  <2> QED
    BY <2>1, <1>2, <1>6
<1>7. R(K + 2) <=> none
  <2>1. /\ \A q \in 0 .. 3 : K + 2 # 5 + 3 * q
        /\ edges => \A q \in 0 .. 1 : K + 2 \notin {17 + 4 * q, 18 + 4 * q}
    BY <1>1
  <2> QED
    BY <2>1, <1>2
<1>8. ASSUME NEW n, n = 2 \/ ~ IsInsertAt(g, n) PROVE ~ R(n)
  <2>1. CASE n = 2
    <3>1. /\ \A q \in 0 .. 3 : 2 # 5 + 3 * q
          /\ \A q \in 0 .. 1 : 2 \notin {17 + 4 * q, 18 + 4 * q}
          /\ 2 # K + 2
      BY <1>1
    <3> QED
      BY <2>1, <3>1, <1>2
  <2>2. CASE ~ IsInsertAt(g, n)
    BY <2>2, <1>2, <1>3
  <2> QED
    BY <1>8, <2>1, <2>2
<1> QED
  BY <1>4, <1>5, <1>6, <1>7, <1>8 DEF K, R, E, I, edges, none

\* Positions at which no insert has just been answered.
LEMMA NoInsertAt ==
  ASSUME NEW g
  PROVE  /\ \A j \in 0 .. 4 : \A i \in {0, 1} : ~ IsInsertAt(g, 3 * j + i)
         /\ ~ IsInsertAt(g, 15)
         /\ g.edges # << >> => \A h \in 0 .. 1 :
              ~ IsInsertAt(g, 15 + 4 * h) /\ ~ IsInsertAt(g, 16 + 4 * h) /\ ~ IsInsertAt(g, 19 + 4 * h)
         /\ \A i \in {0, 1, 3, 4, 5} : ~ IsInsertAt(g, BeforeKeyvalue(g) + i)
<1> DEFINE K == BeforeKeyvalue(g)
           edges == g.edges # << >>
<1>1. (edges /\ K = 23) \/ (~ edges /\ K = 15)
  BY DEF BeforeKeyvalue
<1>2. \A n : IsInsertAt(g, n) <=> \/ n = 2 \/ n = K + 2
                                  \/ \E k \in 0 .. 3 : n = 5 + 3 * k
                                  \/ edges /\ \E h \in 0 .. 1 : n \in {17 + 4 * h, 18 + 4 * h}
  BY DEF IsInsertAt
<1> HIDE DEF K, edges
<1>3. ASSUME NEW j \in 0 .. 4, NEW i \in {0, 1} PROVE ~ IsInsertAt(g, 3 * j + i)
  BY <1>1, <1>2
<1>4. ~ IsInsertAt(g, 15)
  BY <1>1, <1>2
<1>5. ASSUME edges, NEW h \in 0 .. 1
      PROVE  ~ IsInsertAt(g, 15 + 4 * h) /\ ~ IsInsertAt(g, 16 + 4 * h) /\ ~ IsInsertAt(g, 19 + 4 * h)
  BY <1>1, <1>2, <1>5
<1>6. ASSUME NEW i \in {0, 1, 3, 4, 5} PROVE ~ IsInsertAt(g, K + i)
  BY <1>1, <1>2
<1> QED
  BY <1>3, <1>4, <1>5, <1>6 DEF K, edges

LEMMA Positions ==
  ASSUME NEW g, g.should_graph \in BOOLEAN, NEW n \in 0 .. LastStatement(g) - 1
  PROVE  \/ \E j \in 0 .. 4 : n = 3 * j \/ n = 3 * j + 1 \/ n = 3 * j + 2
         \/ /\ g.edges # << >>
            /\ \E h \in 0 .. 1 : \/ n = 15 + 4 * h \/ n = 16 + 4 * h
                                 \/ n = 17 + 4 * h \/ n = 18 + 4 * h
         \/ n \in {BeforeKeyvalue(g), BeforeKeyvalue(g) + 1, BeforeKeyvalue(g) + 2}
         \/ g.should_graph /\ n \in {BeforeKeyvalue(g) + 3, BeforeKeyvalue(g) + 4}
<1>1. CASE g.edges = << >>
  <2>1. BeforeKeyvalue(g) = 15
    BY <1>1 DEF BeforeKeyvalue
  <2>2. n < 15 => \E j \in 0 .. 4 : n = 3 * j \/ n = 3 * j + 1 \/ n = 3 * j + 2
    <3>1. n \in Nat /\ n \div 3 \in Nat
      OBVIOUS
    <3>2. n < 15 => n \div 3 \in 0 .. 4
      BY <3>1
    <3>3. n = 3 * (n \div 3) \/ n = 3 * (n \div 3) + 1 \/ n = 3 * (n \div 3) + 2
      BY <3>1
    <3> QED
      BY <3>2, <3>3
  <2> QED
    BY <2>1, <2>2 DEF LastStatement
<1>2. CASE g.edges # << >>
  <2>1. BeforeKeyvalue(g) = 23
    BY <1>2 DEF BeforeKeyvalue
  <2>2. n < 15 => \E j \in 0 .. 4 : n = 3 * j \/ n = 3 * j + 1 \/ n = 3 * j + 2
    <3>1. n \in Nat /\ n \div 3 \in Nat
      OBVIOUS
    <3>2. n < 15 => n \div 3 \in 0 .. 4
      BY <3>1
    <3>3. n = 3 * (n \div 3) \/ n = 3 * (n \div 3) + 1 \/ n = 3 * (n \div 3) + 2
      BY <3>1
    <3> QED
      BY <3>2, <3>3
  <2>3. n \in 15 .. 22 => \E h \in 0 .. 1 : \/ n = 15 + 4 * h \/ n = 16 + 4 * h
                                            \/ n = 17 + 4 * h \/ n = 18 + 4 * h
    <3>1. n \in 15 .. 18 => n = 15 + 4 * 0 \/ n = 16 + 4 * 0 \/ n = 17 + 4 * 0 \/ n = 18 + 4 * 0
      OBVIOUS
    <3>2. n \in 19 .. 22 => n = 15 + 4 * 1 \/ n = 16 + 4 * 1 \/ n = 17 + 4 * 1 \/ n = 18 + 4 * 1
      OBVIOUS
    <3>3. n \in 15 .. 22 => n \in 15 .. 18 \/ n \in 19 .. 22
      OBVIOUS
    <3> QED
      BY <3>1, <3>2, <3>3
  <2>4. LastStatement(g) = IF g.should_graph THEN 28 ELSE 26
    BY <2>1 DEF LastStatement
  <2>5. \/ n < 15 \/ n \in 15 .. 22 \/ n \in {23, 24, 25}
        \/ g.should_graph /\ n \in {26, 27}
    BY <2>4
  <2>6. 23 + 1 = 24 /\ 23 + 2 = 25 /\ 23 + 3 = 26 /\ 23 + 4 = 27
    OBVIOUS
  <2> QED
    BY <1>2, <2>1, <2>2, <2>3, <2>5, <2>6, Zenon
<1> QED
  BY <1>1, <1>2

-----------------------------------------------------------------------------
Step(g, order, n) ==
  LET st == Program(g, order)[n + 1]
  IN  \/ StepBegin(g, order, n, st) \/ StepInsert(g, order, n, st)
      \/ StepCommit(g, order, n, st) \/ StepSelect(g, order, n, st)

LEMMA StepOfBegin ==
  ASSUME NEW g, NEW order, NEW n \in Nat,
         Program(g, order)[n + 1] = BEGIN,
         Committed(g, n) = n, Committed(g, n + 1) = n, ~ IsInsertAt(g, n + 1)
  PROVE  Step(g, order, n)
<1>1. StaysWritten(g, order, n)
  BY NothingWritten DEF StaysWritten
<1>2. ~ Refused(g, order, n + 1)
  BY RefusedAt
<1>3. BEGIN.op = "begin" /\ BEGIN.call = "exec"
  BY DEF BEGIN
<1>4. StepBegin(g, order, n, BEGIN)
  BY <1>1, <1>2, <1>3 DEF StepBegin
<1> QED
  BY <1>4 DEF Step

LEMMA StepOfCommit ==
  ASSUME NEW g, NEW order, NEW n \in Nat,
         Program(g, order)[n + 1] = COMMIT,
         Committed(g, n) < n, Committed(g, n + 1) = n + 1, ~ IsInsertAt(g, n + 1),
         Refused(g, order, n) => Written(g, order, n) = Written(g, order, Committed(g, n))
  PROVE  Step(g, order, n)
<1>1. StaysWritten(g, order, n)
  BY NothingWritten DEF StaysWritten
<1>2. ~ Refused(g, order, n + 1)
  BY RefusedAt
<1>3. COMMIT.op = "commit" /\ COMMIT.call = "async"
  BY DEF COMMIT
<1>4. StepCommit(g, order, n, COMMIT)
  BY <1>1, <1>2, <1>3 DEF StepCommit
<1> QED
  BY <1>4 DEF Step

LEMMA StepOfInsert ==
  ASSUME NEW g, NEW order, NEW n \in Nat, NEW st, NEW rows,
         Program(g, order)[n + 1] = st,
         st.op = "insert", st.call = "async", st.table \in Tables,
         Committed(g, n) < n, Committed(g, n + 1) = Committed(g, n),
         Refused(g, order, n) => Refused(g, order, n + 1),
         ~ Refused(g, order, n) =>
           (Refused(g, order, n + 1) <=> ~ Allowed(Written(g, order, n), st)),
         Grown(Written(g, order, n), Written(g, order, n + 1), st.table, rows),
         Refused(g, order, n + 1) => rows = {},
         ~ Refused(g, order, n + 1) => rows = ToSet(st.rows)
  PROVE  Step(g, order, n)
<1>1. Refused(g, order, n + 1) => StaysWritten(g, order, n)
  <2> SUFFICES ASSUME Refused(g, order, n + 1) PROVE StaysWritten(g, order, n)
    OBVIOUS
  <2>1. Grown(Written(g, order, n), Written(g, order, n + 1), st.table, {})
    OBVIOUS
  <2> QED
    BY <2>1, GrownByNothing DEF StaysWritten
<1>2. ~ Refused(g, order, n + 1) => Written(g, order, n + 1) = Inserted(Written(g, order, n), st)
  BY GrownIsInserted
<1>3. StepInsert(g, order, n, st)
  BY <1>1, <1>2 DEF StepInsert
<1> QED
  BY <1>3 DEF Step

LEMMA FactbaseSteps ==
  ASSUME NEW g, IsGraph(g), NEW order, NEW i \in 0 .. 2
  PROVE  Step(g, order, i)
<1> DEFINE p == Program(g, order)
           st == FactbaseInsert(g)
<1>1. p[1] = BEGIN /\ p[2] = st /\ p[3] = COMMIT
  <2>1. LaidOut(g, order, p)
    BY Layout
  <2> HIDE DEF p, st
  <2>2. p[0 + 1] = BEGIN /\ p[0 + 2] = FactbaseInsert(g) /\ p[0 + 3] = COMMIT
    BY <2>1 DEF LaidOut, IsTransaction
  <2> QED
    BY <2>2 DEF st
<1>2. /\ Committed(g, 0) = 0 /\ Committed(g, 1) = 0
      /\ Committed(g, 2) = 0 /\ Committed(g, 3) = 3
  BY DEF Committed
<1>3. /\ ~ IsInsertAt(g, 1) /\ ~ IsInsertAt(g, 3)
  <2>1. /\ ~ IsInsertAt(g, 3 * 0 + 1) /\ ~ IsInsertAt(g, 3 * 1 + 0)
    BY NoInsertAt
  <2> QED
    BY <2>1
<1>4. ~ Refused(g, order, 1) /\ ~ Refused(g, order, 2)
  BY <1>3, RefusedAt
<1>5. FactbaseStatement(g, st)
  BY StatementOfFactbases
<1>6. Allowed(Written(g, order, 1), st)
  BY FactbasesAllowed
<1>7. Grown(Written(g, order, 1), Written(g, order, 2), "factbase", FactbaseRows(g))
  BY FactbasesWritten
<1> HIDE DEF st
<1>8. st.table = "factbase" /\ st.op = "insert" /\ st.call = "async" /\ ToSet(st.rows) = FactbaseRows(g)
  BY <1>5 DEF FactbaseStatement
<1>9. "factbase" \in Tables
  BY DEF Tables
<1>10. 0 + 1 = 1 /\ 1 + 1 = 2 /\ 2 + 1 = 3 /\ 0 < 1 /\ 0 < 2 /\ 0 \in Nat /\ 1 \in Nat /\ 2 \in Nat
  OBVIOUS
<1> HIDE DEF p
<1>11. CASE i = 0
  BY <1>1, <1>2, <1>3, <1>10, <1>11, StepOfBegin DEF p
<1>12. CASE i = 1
  BY <1>1, <1>2, <1>4, <1>6, <1>7, <1>8, <1>9, <1>10, <1>12, StepOfInsert DEF p
<1>13. CASE i = 2
  BY <1>1, <1>2, <1>3, <1>4, <1>10, <1>13, StepOfCommit DEF p
<1> QED
  BY <1>11, <1>12, <1>13

LEMMA ItemSteps ==
  ASSUME NEW g, IsGraph(g), NEW order, NEW k \in 0 .. 3
  PROVE  /\ Step(g, order, 3 + 3 * k) /\ Step(g, order, 4 + 3 * k)
         /\ Step(g, order, 5 + 3 * k)
<1> DEFINE p == Program(g, order)
           st == ItemInsert(g, k)
           a == 3 + 3 * k
           b == 4 + 3 * k
           c == 5 + 3 * k
           d == 6 + 3 * k
<1>0. /\ a \in Nat /\ b \in Nat /\ c \in Nat /\ d \in Nat
      /\ a + 1 = b /\ b + 1 = c /\ c + 1 = d /\ a < b /\ a < c
  OBVIOUS
<1>1. p[b] = BEGIN /\ p[c] = st /\ p[d] = COMMIT
  <2>1. LaidOut(g, order, p)
    BY Layout
  <2> HIDE DEF p
  <2>2. p[3 + 3 * k + 1] = BEGIN /\ p[3 + 3 * k + 2] = st /\ p[3 + 3 * k + 3] = COMMIT
    BY <2>1 DEF LaidOut, IsTransaction
  <2> QED
    BY <2>2
<1>2. Committed(g, a) = a /\ Committed(g, b) = a /\ Committed(g, c) = a
  <2>1. k + 1 \in 0 .. 4
    OBVIOUS
  <2>2. \A i \in 0 .. 2 : Committed(g, 3 * (k + 1) + i) = 3 * (k + 1)
    BY <2>1, CommittedAt
  <2>3. 3 * (k + 1) = a /\ 3 * (k + 1) + 0 = a /\ 3 * (k + 1) + 1 = b /\ 3 * (k + 1) + 2 = c
    OBVIOUS
  <2> HIDE DEF a, b, c
  <2> QED
    BY <2>2, <2>3
<1>3. Committed(g, d) = d
  <2>1. CASE k = 3
    BY <2>1, CommittedAt
  <2>2. CASE k # 3
    <3>1. k + 2 \in 0 .. 4
      BY <2>2
    <3>2. Committed(g, 3 * (k + 2) + 0) = 3 * (k + 2)
      BY <3>1, CommittedAt
    <3> QED
      BY <3>2
  <2> QED
    BY <2>1, <2>2
<1>4. ~ IsInsertAt(g, b)
  <2>1. k + 1 \in 0 .. 4 /\ b = 3 * (k + 1) + 1
    OBVIOUS
  <2> QED
    BY <2>1, NoInsertAt
<1>5. ~ IsInsertAt(g, d)
  <2>1. CASE k = 3
    BY <2>1, NoInsertAt
  <2>2. CASE k # 3
    <3>1. k + 2 \in 0 .. 4 /\ d = 3 * (k + 2) + 0
      BY <2>2
    <3> QED
      BY <3>1, NoInsertAt
  <2> QED
    BY <2>1, <2>2
<1>6. ~ Refused(g, order, b) /\ (Refused(g, order, c) <=> ItemsRefused(g, k))
  BY <1>4, RefusedAt
<1>7. ItemStatement(g, k, st)
  BY StatementOfItems
<1>8. Allowed(Written(g, order, b), st) <=> ~ ItemsRefused(g, k)
  BY ItemsAllowed
<1>9. Grown(Written(g, order, b), Written(g, order, c), "factbase_item", QuarterRows(g, k))
  BY ItemsWritten
<1> HIDE DEF st
<1>10. /\ st.table = "factbase_item" /\ st.op = "insert" /\ st.call = "async"
       /\ ToSet(st.rows) = QuarterItems(g, k)
  BY <1>7 DEF ItemStatement
<1>11. "factbase_item" \in Tables
  BY DEF Tables
<1>12. /\ ItemsRefused(g, k) => QuarterRows(g, k) = {}
       /\ ~ ItemsRefused(g, k) => QuarterRows(g, k) = QuarterItems(g, k)
  BY DEF QuarterRows
<1> HIDE DEF p, a, b, c, d
<1>13. Refused(g, order, c) => Written(g, order, c) = Written(g, order, a)
  <2> SUFFICES ASSUME Refused(g, order, c) PROVE Written(g, order, c) = Written(g, order, a)
    OBVIOUS
  <2>1. Grown(Written(g, order, b), Written(g, order, c), "factbase_item", {})
    BY <1>6, <1>9, <1>12
  <2>2. Written(g, order, c) = Written(g, order, b)
    BY <1>11, <2>1, GrownByNothing
  <2>3. Written(g, order, a + 1) = Written(g, order, a)
    BY <1>0, <1>4, NothingWritten
  <2> QED
    BY <2>2, <2>3, <1>0
<1>14. Step(g, order, a)
  BY <1>0, <1>1, <1>2, <1>4, StepOfBegin DEF p
<1>15. Step(g, order, b)
  <2> DEFINE rows == QuarterRows(g, k)
  <2> HIDE DEF rows
  <2>1. /\ Refused(g, order, c) => rows = {}
        /\ ~ Refused(g, order, c) => rows = ToSet(st.rows)
    BY <1>6, <1>10, <1>12 DEF rows
  <2>2. Grown(Written(g, order, b), Written(g, order, c), st.table, rows)
    BY <1>9, <1>10 DEF rows
  <2>3. st.table \in Tables
    BY <1>10, <1>11
  <2>4. p[b + 1] = st /\ Committed(g, b) < b /\ Committed(g, b + 1) = Committed(g, b)
    BY <1>0, <1>1, <1>2
  <2>5. Refused(g, order, c) <=> ~ Allowed(Written(g, order, b), st)
    BY <1>6, <1>8
  <2> QED
    BY <1>0, <1>6, <1>10, <2>1, <2>2, <2>3, <2>4, <2>5, StepOfInsert DEF p
<1>16. Step(g, order, c)
  BY <1>0, <1>1, <1>2, <1>3, <1>5, <1>13, StepOfCommit DEF p
<1> QED
  BY <1>14, <1>15, <1>16 DEF a, b, c

LEMMA EdgeSteps ==
  ASSUME NEW g, IsGraph(g), NEW order \in Orders(g), NEW h \in 0 .. 1, g.edges # << >>
  PROVE  /\ Step(g, order, 15 + 4 * h) /\ Step(g, order, 16 + 4 * h)
         /\ Step(g, order, 17 + 4 * h) /\ Step(g, order, 18 + 4 * h)
<1> DEFINE p == Program(g, order)
           st == EdgeInsert(g, order, h)
           bs == BindingInsert(g, order, h)
           a == 15 + 4 * h
           b == 16 + 4 * h
           c == 17 + 4 * h
           d == 18 + 4 * h
           e == 19 + 4 * h
           empty == Half(order, h) = << >>
           T(n) == Written(g, order, n)
<1>0. /\ a \in Nat /\ b \in Nat /\ c \in Nat /\ d \in Nat /\ e \in Nat
      /\ a + 1 = b /\ b + 1 = c /\ c + 1 = d /\ d + 1 = e /\ a < b /\ a < c /\ a < d
  OBVIOUS
<1>1. p[b] = BEGIN /\ p[c] = st /\ p[d] = bs /\ p[e] = COMMIT
  <2>1. LaidOut(g, order, p)
    BY Layout
  <2> HIDE DEF p
  <2>2. /\ p[15 + 4 * h + 1] = BEGIN /\ p[15 + 4 * h + 2] = st /\ p[15 + 4 * h + 3] = bs
        /\ p[15 + 4 * h + 4] = COMMIT
    BY <2>1 DEF LaidOut, IsEdgeTransaction
  <2> QED
    BY <2>2
<1>2. /\ Committed(g, a) = a /\ Committed(g, b) = a /\ Committed(g, c) = a
      /\ Committed(g, d) = a /\ Committed(g, e) = e
  <2>1. /\ \A i \in 0 .. 3 : Committed(g, 15 + 4 * h + i) = 15 + 4 * h
        /\ Committed(g, 19 + 4 * h) = 19 + 4 * h
    BY CommittedAt
  <2>2. /\ 15 + 4 * h + 0 = a /\ 15 + 4 * h + 1 = b /\ 15 + 4 * h + 2 = c
        /\ 15 + 4 * h + 3 = d /\ 15 + 4 * h = a /\ 19 + 4 * h = e
    OBVIOUS
  <2> HIDE DEF a, b, c, d, e
  <2> QED
    BY <2>1, <2>2
<1>3. ~ IsInsertAt(g, b) /\ ~ IsInsertAt(g, e)
  BY NoInsertAt
<1>4. /\ ~ Refused(g, order, b)
      /\ Refused(g, order, c) <=> empty
      /\ Refused(g, order, d) <=> empty
  BY <1>3, RefusedAt
<1>5. EdgeStatement(g, order, h, st) /\ BindingStatement(g, order, h, bs)
  BY StatementOfEdges, StatementOfBindings
<1>6. (Allowed(T(b), st) <=> ~ empty) /\ (Allowed(T(c), bs) <=> ~ empty)
  BY EdgesAllowed, BindingsAllowed
<1>7. /\ Grown(T(b), T(c), "edge", EdgeRows(g, order, h))
      /\ Grown(T(c), T(d), "edge_asset_binding", HalfBindings(g, order, h))
  BY EdgesWritten, BindingsWritten
<1>8. "edge" \in Tables /\ "edge_asset_binding" \in Tables
  BY DEF Tables
<1>9. empty => EdgeRows(g, order, h) = {} /\ HalfBindings(g, order, h) = {}
  <2> SUFFICES ASSUME empty
               PROVE  EdgeRows(g, order, h) = {} /\ HalfBindings(g, order, h) = {}
    OBVIOUS
  <2>1. ToSet(Half(order, h)) = {}
    BY DEF ToSet
  <2> QED
    BY <2>1 DEF EdgeRows, HalfBindings
<1> HIDE DEF p, st, bs, a, b, c, d, e, empty
<1>10. /\ st.table = "edge" /\ st.op = "insert" /\ st.call = "async"
       /\ ToSet(st.rows) = EdgeRows(g, order, h)
       /\ bs.table = "edge_asset_binding" /\ bs.op = "insert" /\ bs.call = "async"
       /\ ToSet(bs.rows) = HalfBindings(g, order, h)
  BY <1>5 DEF EdgeStatement, BindingStatement
<1>11. T(b) = T(a)
  BY <1>0, <1>3, NothingWritten
<1>12. empty => T(c) = T(b)
  BY <1>7, <1>8, <1>9, GrownByNothing
<1>13. empty => T(d) = T(c)
  BY <1>7, <1>8, <1>9, GrownByNothing
<1>14. Step(g, order, a)
  BY <1>0, <1>1, <1>2, <1>3, StepOfBegin DEF p
<1>15. Step(g, order, b)
  <2> DEFINE rows == EdgeRows(g, order, h)
  <2> HIDE DEF rows
  <2>1. /\ Refused(g, order, c) => rows = {}
        /\ ~ Refused(g, order, c) => rows = ToSet(st.rows)
    BY <1>4, <1>9, <1>10 DEF rows
  <2>2. Grown(T(b), T(c), st.table, rows)
    BY <1>7, <1>10 DEF rows
  <2>3. st.table \in Tables
    BY <1>8, <1>10
  <2>4. p[b + 1] = st /\ Committed(g, b) < b /\ Committed(g, b + 1) = Committed(g, b)
    BY <1>0, <1>1, <1>2
  <2>5. Refused(g, order, c) <=> ~ Allowed(Written(g, order, b), st)
    BY <1>4, <1>6
  <2> QED
    BY <1>0, <1>4, <1>10, <2>1, <2>2, <2>3, <2>4, <2>5, StepOfInsert DEF p
<1>16. Step(g, order, c)
  <2> DEFINE rows == HalfBindings(g, order, h)
  <2> HIDE DEF rows
  <2>1. /\ Refused(g, order, d) => rows = {}
        /\ ~ Refused(g, order, d) => rows = ToSet(bs.rows)
    BY <1>4, <1>9, <1>10 DEF rows
  <2>2. Grown(T(c), T(d), bs.table, rows)
    BY <1>7, <1>10 DEF rows
  <2>3. bs.table \in Tables
    BY <1>8, <1>10
  <2>4. p[c + 1] = bs /\ Committed(g, c) < c /\ Committed(g, c + 1) = Committed(g, c)
    BY <1>0, <1>1, <1>2
  <2>5. ~ Refused(g, order, c) =>
          (Refused(g, order, d) <=> ~ Allowed(Written(g, order, c), bs))
    BY <1>4, <1>6
  <2>6. Refused(g, order, c) => Refused(g, order, d)
    BY <1>4
  <2> QED
    BY <1>0, <1>10, <2>1, <2>2, <2>3, <2>4, <2>5, <2>6, StepOfInsert DEF p
<1>17. Step(g, order, d)
  <2>1. Refused(g, order, d) => T(d) = T(a)
    BY <1>4, <1>11, <1>12, <1>13
  <2> QED
    BY <1>0, <1>1, <1>2, <1>3, <2>1, StepOfCommit DEF p
<1> QED
  BY <1>14, <1>15, <1>16, <1>17 DEF a, b, c, d

LEMMA KeyvalueSteps ==
  ASSUME NEW g, IsGraph(g), NEW order, NEW i \in 0 .. 2
  PROVE  Step(g, order, BeforeKeyvalue(g) + i)
<1> DEFINE p == Program(g, order)
           st == KeyvalueInsert(g)
           a == BeforeKeyvalue(g)
           b == a + 1
           c == a + 2
           d == a + 3
           none == g.strings = << >>
<1>0. /\ a \in Nat /\ b \in Nat /\ c \in Nat /\ d \in Nat /\ a + 0 = a
      /\ a + 1 = b /\ b + 1 = c /\ c + 1 = d /\ a < b /\ a < c
  BY DEF BeforeKeyvalue
<1>1. p[b] = BEGIN /\ p[c] = st /\ p[d] = COMMIT
  <2>1. LaidOut(g, order, p)
    BY Layout
  <2> HIDE DEF p, st
  <2> QED
    BY <2>1 DEF LaidOut, IsTransaction, st
<1>2. /\ Committed(g, a) = a /\ Committed(g, b) = a /\ Committed(g, c) = a
      /\ Committed(g, d) = d
  <2>1. /\ \A j \in 0 .. 2 : Committed(g, BeforeKeyvalue(g) + j) = BeforeKeyvalue(g)
        /\ \A j \in 3 .. 5 : Committed(g, BeforeKeyvalue(g) + j) = BeforeKeyvalue(g) + j
    BY CommittedAt
  <2> HIDE DEF a
  <2> QED
    BY <1>0, <2>1 DEF a
<1>3. ~ IsInsertAt(g, b) /\ ~ IsInsertAt(g, d)
  BY NoInsertAt
<1>4. /\ ~ Refused(g, order, b)
      /\ Refused(g, order, c) <=> none
  BY <1>3, RefusedAt
<1>5. KeyvalueStatement(g, st)
  BY StatementOfKeyvalue
<1>6. Allowed(Written(g, order, b), st) <=> ~ none
  BY KeyvalueAllowed
<1>7. Grown(Written(g, order, b), Written(g, order, c), "keyvalue", KeyvalueRowsOf(g))
  BY KeyvalueWritten
<1>8. "keyvalue" \in Tables
  BY DEF Tables
<1> HIDE DEF p, st, a, b, c, d
<1>9. /\ st.table = "keyvalue" /\ st.op = "insert" /\ st.call = "async"
      /\ ToSet(st.rows) = KeyvalueRowsOf(g)
      /\ none => KeyvalueRowsOf(g) = {}
  BY <1>5 DEF KeyvalueStatement
<1> HIDE DEF none
<1>10. Written(g, order, b) = Written(g, order, a)
  BY <1>0, <1>3, NothingWritten
<1>11. none => Written(g, order, c) = Written(g, order, b)
  BY <1>7, <1>8, <1>9, GrownByNothing
<1>12. CASE i = 0
  BY <1>0, <1>1, <1>2, <1>3, <1>12, StepOfBegin DEF p, a
<1>13. CASE i = 1
  <2> DEFINE rows == KeyvalueRowsOf(g)
  <2> HIDE DEF rows
  <2>1. /\ Refused(g, order, c) => rows = {}
        /\ ~ Refused(g, order, c) => rows = ToSet(st.rows)
    BY <1>4, <1>9 DEF rows
  <2>2. Grown(Written(g, order, b), Written(g, order, c), st.table, rows)
    BY <1>7, <1>9 DEF rows
  <2>3. st.table \in Tables
    BY <1>8, <1>9
  <2>4. p[b + 1] = st /\ Committed(g, b) < b /\ Committed(g, b + 1) = Committed(g, b)
    BY <1>0, <1>1, <1>2
  <2>5. Refused(g, order, c) <=> ~ Allowed(Written(g, order, b), st)
    BY <1>4, <1>6
  <2>6. Step(g, order, b)
    BY <1>0, <1>4, <1>9, <2>1, <2>2, <2>3, <2>4, <2>5, StepOfInsert DEF p
  <2> QED
    BY <1>13, <2>6 DEF b, a
<1>14. CASE i = 2
  <2>1. Refused(g, order, c) => Written(g, order, c) = Written(g, order, a)
    BY <1>4, <1>10, <1>11
  <2>2. Step(g, order, c)
    BY <1>0, <1>1, <1>2, <1>3, <2>1, StepOfCommit DEF p
  <2> QED
    BY <1>14, <2>2 DEF c, a
<1> QED
  BY <1>12, <1>13, <1>14

LEMMA QuerySteps ==
  ASSUME NEW g, IsGraph(g), NEW order, g.should_graph
  PROVE  Step(g, order, BeforeKeyvalue(g) + 3) /\ Step(g, order, BeforeKeyvalue(g) + 4)
<1> DEFINE p == Program(g, order)
           a == BeforeKeyvalue(g)
           b == a + 3
           c == a + 4
           d == a + 5
           s1 == Select("factbase")
           s2 == Select("edge")
<1>0. b \in Nat /\ c \in Nat /\ d \in Nat /\ b + 1 = c /\ c + 1 = d
  BY DEF BeforeKeyvalue
<1>1. p[c] = s1 /\ p[d] = s2
  <2>1. LaidOut(g, order, p)
    BY Layout
  <2> HIDE DEF p, s1, s2
  <2> QED
    BY <2>1 DEF LaidOut, s1, s2
<1>2. Committed(g, b) = b /\ Committed(g, c) = c /\ Committed(g, d) = d
  BY CommittedAt
<1>3. ~ IsInsertAt(g, c) /\ ~ IsInsertAt(g, d)
  BY NoInsertAt
<1>4. ~ Refused(g, order, c) /\ ~ Refused(g, order, d)
  BY <1>3, RefusedAt
<1>5. /\ s1.op = "select" /\ s1.call = "exec" /\ s1.table = "factbase"
      /\ s2.op = "select" /\ s2.call = "exec" /\ s2.table = "edge"
  BY DEF Select
<1> HIDE DEF p, a, s1, s2
<1>6. b = BeforeKeyvalue(g) + 3 /\ c = BeforeKeyvalue(g) + 4
  BY DEF a
<1> HIDE DEF b, c, d
<1>7. StaysWritten(g, order, b) /\ StaysWritten(g, order, c)
  BY <1>0, <1>3, NothingWritten DEF StaysWritten
<1>8. StepSelect(g, order, b, s1)
  BY <1>0, <1>2, <1>4, <1>5, <1>6, <1>7 DEF StepSelect
<1>9. StepSelect(g, order, c, s2)
  BY <1>0, <1>2, <1>4, <1>5, <1>6, <1>7 DEF StepSelect
<1>10. p[b + 1] = s1 /\ p[c + 1] = s2
  BY <1>0, <1>1
<1> QED
  BY <1>6, <1>8, <1>9, <1>10 DEF Step, p

LEMMA EachStep ==
  ASSUME NEW g, IsGraph(g), NEW order \in Orders(g), NEW n \in 0 .. LastStatement(g) - 1
  PROVE  Step(g, order, n)
<1> DEFINE K == BeforeKeyvalue(g)
<1>1. g.should_graph \in BOOLEAN
  BY DEF IsGraph
<1>2. CASE \E j \in 0 .. 4 : n = 3 * j \/ n = 3 * j + 1 \/ n = 3 * j + 2
  <2>1. PICK j \in 0 .. 4 : n = 3 * j \/ n = 3 * j + 1 \/ n = 3 * j + 2
    BY <1>2
  <2>2. CASE j = 0
    <3>1. n \in 0 .. 2
      BY <2>1, <2>2
    <3> QED
      BY <3>1, FactbaseSteps
  <2>3. CASE j # 0
    <3>1. j - 1 \in 0 .. 3
      BY <2>3
    <3>2. n = 3 + 3 * (j - 1) \/ n = 4 + 3 * (j - 1) \/ n = 5 + 3 * (j - 1)
      BY <2>1
    <3> QED
      BY <3>1, <3>2, ItemSteps
  <2> QED
    BY <2>2, <2>3
<1>3. CASE /\ g.edges # << >>
           /\ \E h \in 0 .. 1 : \/ n = 15 + 4 * h \/ n = 16 + 4 * h
                                \/ n = 17 + 4 * h \/ n = 18 + 4 * h
  BY <1>3, EdgeSteps
<1>4. CASE n \in {K, K + 1, K + 2}
  <2>1. \E i \in 0 .. 2 : n = K + i
    <3>1. K + 0 = K
      BY DEF BeforeKeyvalue
    <3> HIDE DEF K
    <3> QED
      BY <1>4, <3>1
  <2> QED
    BY <2>1, KeyvalueSteps
<1>5. CASE g.should_graph /\ n \in {K + 3, K + 4}
  BY <1>5, QuerySteps
<1> QED
  BY <1>1, <1>2, <1>3, <1>4, <1>5, Positions

-----------------------------------------------------------------------------
(***************************************************************************)
(* The inductive invariant: what the server holds is a function of how     *)
(* many statements it has answered, n, and these are the first n of the    *)
(* program.                                                                *)
(***************************************************************************)
TxnAt(g, order, n) ==
  IF Committed(g, n) = n THEN "none" ELSE IF Refused(g, order, n) THEN "failed" ELSE "open"

AnswersAt(g, order, n) ==
  IF n < BeforeKeyvalue(g) + 4 THEN << >>
  ELSE IF n = BeforeKeyvalue(g) + 4 THEN << Written(g, order, n)["factbase"] >>
  ELSE << Written(g, order, n)["factbase"], Written(g, order, n)["edge"] >>

Picture(g, order) ==
  graph_init(Written(g, order, LastStatement(g))["factbase"],
             Written(g, order, LastStatement(g))["edge"])

Connected == txn \notin {"closed", "lost"}

\* The server has answered n statements of an open connection.
Served(order, n) ==
  /\ txn = TxnAt(graph, order, n)
  /\ view = Written(graph, order, n)
  /\ answers = AnswersAt(graph, order, n)
  /\ inflight # << >> => n < Len(program) /\ inflight = << program[n + 1] >>
  /\ client = "running" => pc = (n + 1) + Len(inflight)

\* It had answered n when the connection went.
Gone(order) ==
  /\ view = db
  /\ inflight = << >>
  /\ txn = "closed" => client # "running"
  /\ client = "running" /\ ~ error => answers = AnswersAt(graph, order, pc - 1)

Reached(order, n) ==
  /\ db = Written(graph, order, Committed(graph, n))
  /\ Connected => Served(order, n)
  /\ ~ Connected => Gone(order)

ControlOK ==
  /\ pc \in 1 .. Len(program) + 1
  /\ client \in {"running", "done", "aborted", "killed"}
  /\ error \in BOOLEAN
  /\ txn \in {"none", "open", "failed", "closed", "lost"}

Proceeds(order) ==
  /\ program = Program(graph, order)
  /\ \E n \in 0 .. Len(program) : Reached(order, n)
  /\ drawn \in {<< >>, << Picture(graph, order) >>}

IInv ==
  /\ graph \in Graphs
  /\ ControlOK
  /\ \E order \in Orders(graph) : Proceeds(order)

LEMMA OnlyQueriesAnswer ==
  ASSUME NEW g, NEW order, NEW n \in 0 .. LastStatement(g) - 1, g.should_graph \in BOOLEAN,
         Committed(g, n) < n \/ Committed(g, n + 1) = n
  PROVE  AnswersAt(g, order, n + 1) = AnswersAt(g, order, n)
<1> DEFINE K == BeforeKeyvalue(g)
<1>1. K \in {15, 23} /\ LastStatement(g) \in {K + 3, K + 5}
  BY DEF BeforeKeyvalue, LastStatement
<1>2. \A i \in 3 .. 5 : Committed(g, K + i) = K + i
  BY CommittedAt
<1>3. \A m : m < K + 4 => AnswersAt(g, order, m) = << >>
  BY DEF AnswersAt
<1> HIDE DEF K
<1>4. n \in Nat /\ n + 1 \in Nat
  BY <1>1
<1>5. n # K + 3 /\ n # K + 4
  <2>1. Committed(g, K + 3) = K + 3 /\ Committed(g, K + 4) = K + 4 /\ Committed(g, K + 5) = K + 5
    BY <1>2
  <2>2. n = K + 3 => FALSE
    <3> SUFFICES ASSUME n = K + 3 PROVE FALSE
      OBVIOUS
    <3>1. n + 1 = K + 4
      BY <1>1
    <3> QED
      BY <2>1, <3>1, <1>1
  <2>3. n = K + 4 => FALSE
    <3> SUFFICES ASSUME n = K + 4 PROVE FALSE
      OBVIOUS
    <3>1. n + 1 = K + 5
      BY <1>1
    <3> QED
      BY <2>1, <3>1, <1>1
  <2> QED
    BY <2>2, <2>3
<1>6. n < K + 4 /\ n + 1 < K + 4
  BY <1>1, <1>4, <1>5
<1> QED
  BY <1>3, <1>6

\* The rows of the second query after those of the first.
LEMMA AppendToOne ==
  ASSUME NEW S, NEW a \in S, NEW b \in S, NEW s \in Seq(S), Len(s) = 1, s[1] = a
  PROVE  Append(s, b) = << a, b >>
<1> DEFINE t == Append(s, b)
           u == << a, b >>
<1>1. t \in Seq(S) /\ Len(t) = Len(s) + 1
  BY AppendProperties
<1>2. \A i \in 1 .. Len(s) : t[i] = s[i]
  BY AppendProperties
<1>3. t[Len(s) + 1] = b
  BY AppendProperties
<1>4. u \in Seq(S) /\ Len(u) = 2 /\ u[1] = a /\ u[2] = b
  OBVIOUS
<1> HIDE DEF t, u
<1>5. Len(t) = 2 /\ t[1] = a /\ t[2] = b
  BY <1>1, <1>2, <1>3
<1>6. \A i \in 1 .. 2 : t[i] = u[i]
  BY <1>4, <1>5
<1>7. t = [i \in 1 .. 2 |-> t[i]] /\ u = [i \in 1 .. 2 |-> u[i]]
  BY <1>1, <1>4, <1>5
<1> QED
  BY <1>6, <1>7 DEF t, u

LEMMA AppendToSingleton ==
  ASSUME NEW a, NEW b
  PROVE  Append(<< a >>, b) = << a, b >>
<1> DEFINE S == {a, b}
           s == << a >>
<1>1. a \in S /\ b \in S /\ s \in Seq(S) /\ Len(s) = 1 /\ s[1] = a
  OBVIOUS
<1> HIDE DEF S, s
<1>2. Append(s, b) = << a, b >>
  BY <1>1, AppendToOne
<1> QED
  BY <1>2 DEF s

LEMMA QueriesAnswer ==
  ASSUME NEW g, NEW order, NEW n, NEW table,
         Written(g, order, n + 1) = Written(g, order, n),
         \/ n = BeforeKeyvalue(g) + 3 /\ table = "factbase"
         \/ n = BeforeKeyvalue(g) + 4 /\ table = "edge"
  PROVE  AnswersAt(g, order, n + 1) = Append(AnswersAt(g, order, n), Written(g, order, n)[table])
<1> DEFINE K == BeforeKeyvalue(g)
           A(m) == AnswersAt(g, order, m)
           W(m) == Written(g, order, m)
<1>1. K \in {15, 23}
  BY DEF BeforeKeyvalue
<1>2. \A m : A(m) = IF m < K + 4 THEN << >>
                    ELSE IF m = K + 4 THEN << W(m)["factbase"] >>
                    ELSE << W(m)["factbase"], W(m)["edge"] >>
  BY DEF AnswersAt
<1>5. W(n + 1) = W(n)
  OBVIOUS
<1> HIDE DEF K, A, W
<1>6. \A x : Append(<< >>, x) = << x >>
  OBVIOUS
<1>7. \A x, y : Append(<< x >>, y) = << x, y >>
  BY AppendToSingleton
<1>3. CASE n = K + 3 /\ table = "factbase"
  <2>1. n + 1 = K + 4 /\ n < K + 4 /\ ~ (n + 1 < K + 4)
    BY <1>1, <1>3
  <2>2. A(n) = << >> /\ A(n + 1) = << W(n + 1)["factbase"] >>
    BY <1>2, <2>1
  <2>3. A(n + 1) = Append(A(n), W(n)[table])
    BY <1>3, <1>5, <1>6, <2>2, Zenon
  <2> QED
    BY <2>3 DEF A, W
<1>4. CASE n = K + 4 /\ table = "edge"
  <2>1. /\ n + 1 # K + 4 /\ ~ (n < K + 4) /\ ~ (n + 1 < K + 4)
    BY <1>1, <1>4
  <2>2. A(n) = << W(n)["factbase"] >> /\ A(n + 1) = << W(n + 1)["factbase"], W(n + 1)["edge"] >>
    BY <1>2, <1>4, <2>1
  <2>3. A(n + 1) = Append(A(n), W(n)[table])
    BY <1>4, <1>5, <1>7, <2>2, Zenon
  <2> QED
    BY <2>3 DEF A, W
<1> QED
  <2>1. (n = K + 3 /\ table = "factbase") \/ (n = K + 4 /\ table = "edge")
    BY DEF K
  <2> QED
    BY <1>3, <1>4, <2>1

\* The answer to the next statement leads to the next position.
LEMMA Answering ==
  ASSUME NEW g, g.should_graph \in BOOLEAN, NEW order,
         NEW n \in 0 .. LastStatement(g) - 1,
         NEW st, st = Program(g, order)[n + 1], Step(g, order, n),
         txn = TxnAt(g, order, n), view = Written(g, order, n),
         db = Written(g, order, Committed(g, n)), answers = AnswersAt(g, order, n),
         InTransaction(st)
  PROVE  /\ txn' = TxnAt(g, order, n + 1) /\ view' = Written(g, order, n + 1)
         /\ db' = Written(g, order, Committed(g, n + 1))
         /\ answers' = AnswersAt(g, order, n + 1)
         /\ error' \in BOOLEAN
<1> DEFINE W(m) == Written(g, order, m)
           C(m) == Committed(g, m)
           R(m) == Refused(g, order, m)
           A(m) == AnswersAt(g, order, m)
           t == TxnAt(g, order, n)
           u == TxnAt(g, order, n + 1)
<1>1. /\ t = IF C(n) = n THEN "none" ELSE IF R(n) THEN "failed" ELSE "open"
      /\ u = IF C(n + 1) = n + 1 THEN "none" ELSE IF R(n + 1) THEN "failed" ELSE "open"
  BY DEF TxnAt
<1>2. error' \in BOOLEAN
  BY DEF InTransaction
<1>3. CASE StepBegin(g, order, n, st)
  <2>1. /\ st.op = "begin" /\ C(n) = n /\ C(n + 1) = n /\ W(n + 1) = W(n) /\ ~ R(n + 1)
    BY <1>3 DEF StepBegin, StaysWritten
  <2>2. A(n + 1) = A(n)
    BY <2>1, OnlyQueriesAnswer
  <2>3. n + 1 # n
    OBVIOUS
  <2> HIDE DEF W, C, R, A, t, u
  <2>4. t = "none" /\ u = "open"
    BY <1>1, <2>1, <2>3
  <2>5. txn = "none" /\ view = W(n) /\ db = W(C(n)) /\ answers = A(n)
    BY <2>4 DEF W, C, A, t
  <2>6. txn' = "open" /\ view' = db /\ db' = db /\ answers' = answers
    BY <2>1, <2>5 DEF InTransaction
  <2> QED
    BY <1>2, <2>1, <2>2, <2>4, <2>5, <2>6 DEF W, C, A, t, u
<1>4. CASE StepInsert(g, order, n, st)
  <2>1. /\ st.op = "insert" /\ C(n) < n /\ C(n + 1) = C(n)
        /\ R(n) => R(n + 1)
        /\ R(n + 1) => W(n + 1) = W(n)
        /\ ~ R(n) => (R(n + 1) <=> ~ Allowed(W(n), st))
        /\ ~ R(n + 1) => W(n + 1) = Inserted(W(n), st)
    BY <1>4 DEF StepInsert, StaysWritten
  <2>2. A(n + 1) = A(n)
    BY <2>1, OnlyQueriesAnswer
  <2>3. C(n) # n /\ C(n + 1) # n + 1
    <3>1. n \in Int /\ ~ (n < n) /\ ~ (n + 1 < n)
      OBVIOUS
    <3> HIDE DEF C
    <3> QED
      BY <2>1, <3>1
  <2> HIDE DEF W, C, R, A, t, u
  <2>4. /\ R(n) => t = "failed"
        /\ ~ R(n) => t = "open"
        /\ R(n + 1) => u = "failed"
        /\ ~ R(n + 1) => u = "open"
    BY <1>1, <2>3
  <2>5. txn = t /\ view = W(n) /\ db = W(C(n)) /\ answers = A(n)
    BY DEF W, C, A, t
  <2>6. \/ /\ txn # "failed" /\ Allowed(view, st)
           /\ view' = Inserted(view, st)
           /\ db' = IF txn = "none" THEN view' ELSE db
           /\ txn' = txn /\ answers' = answers
        \/ /\ txn = "failed" \/ ~ Allowed(view, st)
           /\ txn' = IF txn = "open" THEN "failed" ELSE txn
           /\ view' = view /\ db' = db /\ answers' = answers
    BY <2>1 DEF InTransaction
  <2>7. CASE /\ txn # "failed" /\ Allowed(view, st)
             /\ view' = Inserted(view, st)
             /\ db' = IF txn = "none" THEN view' ELSE db
             /\ txn' = txn /\ answers' = answers
    <3>1. ~ R(n) /\ t = "open"
      BY <2>4, <2>5, <2>7
    <3>2. ~ R(n + 1)
      BY <2>1, <2>5, <2>7, <3>1
    <3>3. u = "open" /\ W(n + 1) = Inserted(W(n), st)
      BY <2>1, <2>4, <3>2
    <3>4. db' = db
      BY <2>5, <2>7, <3>1
    <3> QED
      BY <1>2, <2>1, <2>2, <2>5, <2>7, <3>1, <3>3, <3>4 DEF W, C, A, t, u
  <2>8. CASE /\ txn = "failed" \/ ~ Allowed(view, st)
             /\ txn' = IF txn = "open" THEN "failed" ELSE txn
             /\ view' = view /\ db' = db /\ answers' = answers
    <3>1. R(n + 1)
      BY <2>1, <2>4, <2>5, <2>8
    <3>2. u = "failed" /\ W(n + 1) = W(n)
      BY <2>1, <2>4, <3>1
    <3>3. txn' = "failed"
      BY <2>4, <2>5, <2>8
    <3> QED
      BY <1>2, <2>1, <2>2, <2>5, <2>8, <3>2, <3>3 DEF W, C, A, t, u
  <2> QED
    BY <2>6, <2>7, <2>8
<1>5. CASE StepCommit(g, order, n, st)
  <2>1. /\ st.op = "commit" /\ C(n) < n /\ C(n + 1) = n + 1 /\ W(n + 1) = W(n)
        /\ R(n) => W(n) = W(C(n))
    BY <1>5 DEF StepCommit, StaysWritten
  <2>2. A(n + 1) = A(n)
    BY <2>1, OnlyQueriesAnswer
  <2>3. C(n) # n
    <3>1. n \in Int /\ ~ (n < n)
      OBVIOUS
    <3> HIDE DEF C
    <3> QED
      BY <2>1, <3>1
  <2> HIDE DEF W, C, R, A, t, u
  <2>4. /\ R(n) => t = "failed"
        /\ ~ R(n) => t = "open"
        /\ u = "none"
    BY <1>1, <2>1, <2>3
  <2>5. txn = t /\ view = W(n) /\ db = W(C(n)) /\ answers = A(n)
    BY DEF W, C, A, t
  <2>6. /\ txn' = "none" /\ db' = IF txn = "open" THEN view ELSE db
        /\ view' = db' /\ answers' = answers
    BY <2>1 DEF InTransaction
  <2>7. db' = W(n + 1)
    BY <2>1, <2>4, <2>5, <2>6
  <2> QED
    BY <1>2, <2>1, <2>2, <2>4, <2>5, <2>6, <2>7 DEF W, C, A, t, u
<1>6. CASE StepSelect(g, order, n, st)
  <2>1. /\ st.op = "select" /\ C(n) = n /\ C(n + 1) = n + 1 /\ W(n + 1) = W(n)
        /\ \/ n = BeforeKeyvalue(g) + 3 /\ st.table = "factbase"
           \/ n = BeforeKeyvalue(g) + 4 /\ st.table = "edge"
    BY <1>6 DEF StepSelect, StaysWritten
  <2>2. A(n + 1) = Append(A(n), W(n)[st.table])
    <3> DEFINE table == st.table
    <3>1. /\ Written(g, order, n + 1) = Written(g, order, n)
          /\ \/ n = BeforeKeyvalue(g) + 3 /\ table = "factbase"
             \/ n = BeforeKeyvalue(g) + 4 /\ table = "edge"
      BY <2>1
    <3> HIDE DEF table
    <3>2. AnswersAt(g, order, n + 1) = Append(AnswersAt(g, order, n), Written(g, order, n)[table])
      BY <3>1, QueriesAnswer
    <3> QED
      BY <3>2 DEF table
  <2> HIDE DEF W, C, R, A, t, u
  <2>4. t = "none" /\ u = "none"
    BY <1>1, <2>1
  <2>5. txn = t /\ view = W(n) /\ db = W(C(n)) /\ answers = A(n)
    BY DEF W, C, A, t
  <2>6. /\ answers' = IF txn = "failed" THEN answers ELSE Append(answers, view[st.table])
        /\ txn' = txn /\ view' = view /\ db' = db
    BY <2>1 DEF InTransaction
  <2> QED
    BY <1>2, <2>1, <2>2, <2>4, <2>5, <2>6 DEF W, C, A, t, u
<1> QED
  BY <1>3, <1>4, <1>5, <1>6 DEF Step

-----------------------------------------------------------------------------
(***************************************************************************)
(* The invariant is inductive.                                             *)
(***************************************************************************)
LEMMA ProgramLength ==
  ASSUME NEW g, g.should_graph \in BOOLEAN, NEW order
  PROVE  Len(Program(g, order)) = LastStatement(g) /\ LastStatement(g) \in Nat
<1>1. LaidOut(g, order, Program(g, order))
  BY Layout
<1>2. LastStatement(g) \in Nat
  BY DEF LastStatement, BeforeKeyvalue
<1> QED
  BY <1>1, <1>2 DEF LaidOut

LEMMA GraphOf ==
  ASSUME NEW g \in Graphs
  PROVE  IsGraph(g) /\ g.should_graph \in BOOLEAN
BY GraphAssumption DEF IsGraph

LEMMA NothingYet ==
  ASSUME NEW g, NEW order
  PROVE  Written(g, order, 0) = EmptyTables /\ Committed(g, 0) = 0 /\ AnswersAt(g, order, 0) = << >>
<1> DEFINE W == Written(g, order, 0)
<1>1. BeforeKeyvalue(g) \in {15, 23}
  BY DEF BeforeKeyvalue
<1>2. QuartersBefore(0) = {} /\ EdgesBefore(g, 0) = {} /\ BindingsBefore(g, 0) = {}
  BY DEF QuartersBefore, EdgesBefore, BindingsBefore
<1>3. /\ DOMAIN W = Tables
      /\ W["factbase"] = {} /\ W["factbase_item"] = {} /\ W["edge"] = {}
      /\ W["edge_asset_binding"] = {} /\ W["keyvalue"] = {}
  BY <1>1, <1>2, WhatIsWritten
<1>4. W = [t \in Tables |-> W[t]]
  BY DEF Written
<1> HIDE DEF W
<1>5. \A t \in Tables : W[t] = {}
  BY <1>3, TheTables
<1>6. W = EmptyTables
  BY <1>4, <1>5 DEF EmptyTables
<1>7. Committed(g, 0) = 0
  BY DEF Committed
<1>8. AnswersAt(g, order, 0) = << >>
  BY <1>1 DEF AnswersAt
<1> QED
  BY <1>6, <1>7, <1>8 DEF W

LEMMA InitiallyInvariant == Init => IInv
<1> SUFFICES ASSUME Init PROVE IInv
  OBVIOUS
<1>1. PICK order \in Orders(graph) : program = Program(graph, order)
  BY DEF Init, Orders
<1>2. graph \in Graphs /\ graph.should_graph \in BOOLEAN
  BY GraphOf DEF Init
<1>3. Len(program) \in Nat
  BY <1>1, <1>2, ProgramLength
<1>4. ControlOK
  <2>1. /\ pc = 1 /\ client = "running" /\ error = FALSE /\ txn = "none"
    BY DEF Init
  <2>2. 1 \in 1 .. Len(program) + 1
    BY <1>3
  <2> QED
    BY <2>1, <2>2 DEF ControlOK
<1>5. Served(order, 0)
  <2>1. TxnAt(graph, order, 0) = "none"
    BY NothingYet DEF TxnAt
  <2>2. pc = (0 + 1) + Len(inflight)
    BY DEF Init
  <2> QED
    BY <2>1, <2>2, NothingYet DEF Init, Served
<1>6. Reached(order, 0)
  BY <1>5, NothingYet DEF Init, Reached, Connected
<1>7. Proceeds(order)
  BY <1>1, <1>3, <1>6 DEF Init, Proceeds
<1> QED
  BY <1>1, <1>2, <1>4, <1>7 DEF IInv

\* What the invariant says, once the order and the position are chosen.
Situation(order, n) ==
  /\ graph \in Graphs /\ graph.should_graph \in BOOLEAN /\ IsGraph(graph)
  /\ ControlOK
  /\ order \in Orders(graph) /\ program = Program(graph, order)
  /\ Len(program) = LastStatement(graph) /\ Len(program) \in Nat
  /\ n \in 0 .. Len(program)
  /\ Reached(order, n)
  /\ drawn \in {<< >>, << Picture(graph, order) >>}

LEMMA Situated ==
  ASSUME IInv
  PROVE  \E order, n : Situation(order, n)
<1>1. PICK order \in Orders(graph) : Proceeds(order)
  BY DEF IInv
<1>2. PICK n \in 0 .. Len(program) : Reached(order, n)
  BY <1>1 DEF Proceeds
<1>3. graph \in Graphs /\ graph.should_graph \in BOOLEAN /\ IsGraph(graph)
  BY GraphOf DEF IInv
<1>4. Len(program) = LastStatement(graph) /\ Len(program) \in Nat
  BY <1>1, <1>3, ProgramLength DEF Proceeds
<1>5. Situation(order, n)
  BY <1>1, <1>2, <1>3, <1>4 DEF Situation, IInv, Proceeds
<1> QED
  BY <1>5

LEMMA StillProceeds ==
  ASSUME NEW order, NEW n, Situation(order, n), UNCHANGED << graph, program >>,
         ControlOK', drawn' \in {<< >>, << Picture(graph, order) >>},
         \E m \in 0 .. Len(program) : Reached(order, m)'
  PROVE  IInv'
<1>1. /\ graph' = graph /\ program' = program
      /\ graph \in Graphs /\ order \in Orders(graph) /\ program = Program(graph, order)
  BY DEF Situation
<1>2. Proceeds(order)'
  BY <1>1 DEF Proceeds
<1>3. order \in Orders(graph')
  BY <1>1
<1> QED
  BY <1>1, <1>2, <1>3 DEF IInv

LEMMA SendKeeps ==
  ASSUME NEW order, NEW n, Situation(order, n), Send
  PROVE  IInv'
<1>1. /\ client = "running" /\ inflight = << >> /\ pc <= Len(program) /\ pc' = pc + 1
      /\ UNCHANGED << graph, program, client, txn, view, db, answers, drawn >>
  BY DEF Send, Answered
<1>2. pc \in 1 .. Len(program) + 1 /\ Len(program) \in Nat /\ n \in 0 .. Len(program)
  BY DEF Situation, ControlOK
<1>3. error' \in BOOLEAN
  BY DEF Send, Situation, ControlOK
<1>4. pc' \in 1 .. Len(program) + 1
  BY <1>1, <1>2
<1>5. ControlOK'
  BY <1>1, <1>3, <1>4 DEF ControlOK, Situation
<1>6. Reached(order, n)'
  <2>1. db' = Written(graph', order, Committed(graph', n))
    BY <1>1 DEF Situation, Reached
  <2>2. CASE Connected
    <3>1. Served(order, n)
      BY <2>2 DEF Situation, Reached
    <3>2. inflight' = << program[pc] >>
      BY <2>2 DEF Send, Connected
    <3>3. pc = (n + 1) + Len(inflight)
      BY <1>1, <3>1 DEF Served
    <3>4. Len(inflight) = 0
      BY <1>1
    <3>5. pc = n + 1 /\ n < Len(program)
      BY <1>1, <1>2, <3>3, <3>4
    <3>6. inflight' = << program[n + 1] >> /\ Len(inflight') = 1
      BY <3>2, <3>5
    <3>7. pc' = (n + 1) + Len(inflight')
      BY <1>1, <3>5, <3>6
    <3>8. Served(order, n)'
      BY <1>1, <3>1, <3>5, <3>6, <3>7 DEF Served
    <3> QED
      BY <1>1, <2>1, <2>2, <3>8 DEF Reached, Connected
  <2>3. CASE ~ Connected
    <3>1. Gone(order)
      BY <2>3 DEF Situation, Reached
    <3>2. txn = "lost"
      BY <1>1, <2>3, <3>1 DEF Connected, Gone
    <3>3. error' = TRUE /\ inflight' = inflight
      BY <3>2 DEF Send
    <3>4. Gone(order)'
      BY <1>1, <3>1, <3>3 DEF Gone
    <3> QED
      BY <1>1, <2>1, <2>3, <3>4 DEF Reached, Connected
  <2> QED
    BY <2>2, <2>3
<1> QED
  BY <1>1, <1>2, <1>5, <1>6, StillProceeds DEF Situation

\* A step that ends the client leaves the server what it was.
LEMMA EndKeeps ==
  ASSUME NEW order, NEW n, Situation(order, n),
         client' \in {"done", "aborted", "killed"},
         inflight' \in {inflight, << >>},
         drawn' \in {<< >>, << Picture(graph, order) >>},
         UNCHANGED << graph, program, pc, error, txn, view, db, answers >>
  PROVE  IInv'
<1>1. client' # "running"
  OBVIOUS
<1>2. ControlOK'
  BY DEF ControlOK, Situation
<1>3. n \in 0 .. Len(program)
  BY DEF Situation
<1>4. Reached(order, n)'
  <2>1. db' = Written(graph', order, Committed(graph', n))
    BY DEF Situation, Reached
  <2>2. CASE Connected
    <3>1. Served(order, n)
      BY <2>2 DEF Situation, Reached
    <3>2. Served(order, n)'
      BY <1>1, <3>1 DEF Served
    <3> QED
      BY <2>1, <2>2, <3>2 DEF Reached, Connected
  <2>3. CASE ~ Connected
    <3>1. Gone(order)
      BY <2>3 DEF Situation, Reached
    <3>2. Gone(order)'
      BY <1>1, <3>1 DEF Gone
    <3> QED
      BY <2>1, <2>3, <3>2 DEF Reached, Connected
  <2> QED
    BY <2>2, <2>3
<1> QED
  BY <1>2, <1>3, <1>4, StillProceeds

LEMMA ReturnKeeps ==
  ASSUME NEW order, NEW n, Situation(order, n), Return
  PROVE  IInv'
<1>1. /\ client = "running" /\ pc > Len(program) /\ client' = "done"
      /\ UNCHANGED << graph, program, pc, inflight, error, txn, view, db, answers >>
  BY DEF Return
<1>2. CASE ~ graph.should_graph
  <2>1. drawn' = drawn
    BY <1>2 DEF Return
  <2> QED
    BY <1>1, <2>1, EndKeeps DEF Situation
<1>3. CASE graph.should_graph
  <2>1. /\ inflight = << >> /\ ~ ExecFailed
        /\ drawn' = << graph_init(answers[1], answers[2]) >>
    BY <1>3 DEF Return, Answered
  <2> DEFINE L == LastStatement(graph)
             K == BeforeKeyvalue(graph)
  <2>2. /\ pc \in 1 .. Len(program) + 1 /\ Len(program) = L /\ n \in 0 .. L
        /\ program = Program(graph, order)
    BY DEF Situation, ControlOK
  <2>3. K \in {15, 23} /\ L = K + 5
    BY <1>3 DEF BeforeKeyvalue, LastStatement
  <2> HIDE DEF L, K
  <2>4. pc = L + 1 /\ pc - 1 = L /\ pc > 1
    BY <1>1, <2>2, <2>3
  <2>5. program[L].call = "exec"
    <3>1. LaidOut(graph, order, program)
      BY <2>2, Layout
    <3>2. program[K + 5] = Select("edge")
      BY <1>3, <3>1 DEF LaidOut, K
    <3> QED
      BY <2>3, <3>2 DEF Select
  <2>6. ~ error
    BY <2>1, <2>4, <2>5 DEF ExecFailed
  <2>7. answers = AnswersAt(graph, order, L)
    <3>1. CASE Connected
      <4>1. Served(order, n)
        BY <3>1 DEF Situation, Reached
      <4>2. pc = (n + 1) + Len(inflight) /\ answers = AnswersAt(graph, order, n)
        BY <1>1, <4>1 DEF Served
      <4>3. Len(inflight) = 0
        BY <2>1
      <4>4. n = L
        BY <2>2, <2>3, <2>4, <4>2, <4>3
      <4> QED
        BY <4>2, <4>4
    <3>2. CASE ~ Connected
      <4>1. Gone(order)
        BY <3>2 DEF Situation, Reached
      <4> QED
        BY <1>1, <2>4, <2>6, <4>1 DEF Gone
    <3> QED
      BY <3>1, <3>2
  <2>8. AnswersAt(graph, order, L) =
          << Written(graph, order, L)["factbase"], Written(graph, order, L)["edge"] >>
    <3>1. ~ (L < K + 4) /\ L # K + 4
      BY <2>3
    <3> QED
      BY <3>1 DEF AnswersAt, K
  <2>9. drawn' = << Picture(graph, order) >>
    BY <2>1, <2>7, <2>8 DEF Picture, L
  <2> QED
    BY <1>1, <2>9, EndKeeps
<1> QED
  BY <1>2, <1>3 DEF Situation

LEMMA Executed ==
  ASSUME NEW order, NEW n, Situation(order, n), Execute
  PROVE  /\ n \in 0 .. LastStatement(graph) - 1 /\ n + 1 \in 0 .. Len(program)
         /\ Served(order, n) /\ Len(inflight) = 1
         /\ txn' = TxnAt(graph, order, n + 1) /\ view' = Written(graph, order, n + 1)
         /\ db' = Written(graph, order, Committed(graph, n + 1))
         /\ answers' = AnswersAt(graph, order, n + 1)
         /\ error' \in BOOLEAN
<1> DEFINE st == program[n + 1]
<1>1. inflight # << >> /\ InTransaction(inflight[1])
  BY DEF Execute
<1>2. Connected /\ Served(order, n)
  BY <1>1 DEF Situation, Reached, Gone
<1>3. n < Len(program) /\ inflight = << st >>
  BY <1>1, <1>2 DEF Served
<1>4. /\ Len(program) = LastStatement(graph) /\ Len(program) \in Nat /\ n \in 0 .. Len(program)
      /\ IsGraph(graph) /\ graph.should_graph \in BOOLEAN /\ order \in Orders(graph)
      /\ program = Program(graph, order)
  BY DEF Situation
<1>5. n \in 0 .. LastStatement(graph) - 1 /\ n + 1 \in 0 .. Len(program)
  BY <1>3, <1>4
<1>6. InTransaction(st) /\ Len(inflight) = 1
  BY <1>1, <1>3
<1>7. /\ txn = TxnAt(graph, order, n) /\ view = Written(graph, order, n)
      /\ db = Written(graph, order, Committed(graph, n)) /\ answers = AnswersAt(graph, order, n)
  BY <1>2 DEF Served, Situation, Reached
<1>8. st = Program(graph, order)[n + 1]
  BY <1>4
<1>9. Step(graph, order, n)
  BY <1>4, <1>5, EachStep
<1> HIDE DEF st
<1>10. /\ txn' = TxnAt(graph, order, n + 1) /\ view' = Written(graph, order, n + 1)
       /\ db' = Written(graph, order, Committed(graph, n + 1))
       /\ answers' = AnswersAt(graph, order, n + 1)
       /\ error' \in BOOLEAN
  BY <1>4, <1>5, <1>6, <1>7, <1>8, <1>9, Answering
<1> QED
  BY <1>2, <1>5, <1>6, <1>10

LEMMA ExecuteKeeps ==
  ASSUME NEW order, NEW n, Situation(order, n), Execute
  PROVE  IInv'
<1>1. inflight' = << >> /\ UNCHANGED << graph, program, pc, client, drawn >>
  BY DEF Execute
<1>2. /\ n + 1 \in 0 .. Len(program) /\ n \in Nat
      /\ Served(order, n) /\ Len(inflight) = 1
      /\ txn' = TxnAt(graph, order, n + 1) /\ view' = Written(graph, order, n + 1)
      /\ db' = Written(graph, order, Committed(graph, n + 1))
      /\ answers' = AnswersAt(graph, order, n + 1)
      /\ error' \in BOOLEAN
  BY Executed DEF Situation
<1>3. txn' \in {"none", "open", "failed"}
  BY <1>2 DEF TxnAt
<1>4. ControlOK'
  BY <1>1, <1>2, <1>3 DEF Situation, ControlOK
<1>5. client = "running" => pc = (n + 1 + 1) + 0
  <2>1. client = "running" => pc = (n + 1) + Len(inflight)
    BY <1>2 DEF Served
  <2> QED
    BY <2>1, <1>2
<1>6. Len(inflight') = 0
  BY <1>1
<1>7. Served(order, n + 1)'
  BY <1>1, <1>2, <1>5, <1>6 DEF Served
<1>8. Reached(order, n + 1)'
  BY <1>1, <1>2, <1>3, <1>7 DEF Reached, Connected
<1> QED
  BY <1>1, <1>2, <1>4, <1>8, StillProceeds DEF Situation

\* The connection goes.
LEMMA GoingKeeps ==
  ASSUME NEW order, NEW n, Situation(order, n), Disconnect \/ Lose
  PROVE  IInv'
<1>1. /\ Connected /\ view' = db /\ txn' \in {"closed", "lost"} /\ inflight' = << >>
      /\ UNCHANGED << graph, program, pc, client, db, answers, drawn >>
      /\ txn' = "closed" => client # "running" 
      /\ error' = (error \/ (inflight # << >>))
  BY DEF Disconnect, Lose, Connected, Situation, ControlOK
<1>2. Served(order, n) /\ n \in 0 .. Len(program) /\ Len(program) \in Nat
  BY <1>1 DEF Situation, Reached
<1>3. ControlOK'
  BY <1>1 DEF Situation, ControlOK
<1>4. client = "running" /\ ~ error' => answers = AnswersAt(graph, order, pc - 1)
  <2> SUFFICES ASSUME client = "running", ~ error'
               PROVE  answers = AnswersAt(graph, order, pc - 1)
    OBVIOUS
  <2>1. inflight = << >>
    BY <1>1
  <2>2. pc = (n + 1) + Len(inflight) /\ answers = AnswersAt(graph, order, n)
    BY <1>2 DEF Served
  <2>3. Len(inflight) = 0
    BY <2>1
  <2>4. pc - 1 = n
    BY <1>2, <2>2, <2>3
  <2> QED
    BY <2>2, <2>4
<1>5. Gone(order)'
  BY <1>1, <1>4 DEF Gone
<1>6. Reached(order, n)'
  BY <1>1, <1>5 DEF Situation, Reached, Connected
<1> QED
  BY <1>1, <1>2, <1>3, <1>6, StillProceeds DEF Situation

LEMMA StutterKeeps ==
  ASSUME IInv, UNCHANGED svars
  PROVE  IInv'
<1> USE DEF svars
<1>1. PICK order \in Orders(graph) : Proceeds(order)
  BY DEF IInv
<1>2. PICK n \in 0 .. Len(program) : Reached(order, n)
  BY <1>1 DEF Proceeds
<1>3. Reached(order, n)'
  BY <1>2 DEF Reached, Connected, Served, Gone
<1>4. Proceeds(order)'
  BY <1>1, <1>3 DEF Proceeds
<1>5. ControlOK'
  BY DEF IInv, ControlOK
<1> QED
  BY <1>1, <1>4, <1>5 DEF IInv

\* The step of each action, and with it the whole.
LEMMA Inductive == IInv /\ [Next]_svars => IInv'
<1> SUFFICES ASSUME IInv, [Next]_svars PROVE IInv'
  OBVIOUS
<1>0. PICK order, n : Situation(order, n)
  BY Situated
<1>1. CASE Send
  BY <1>0, <1>1, SendKeeps
<1>2. CASE Abort
  BY <1>0, <1>2, EndKeeps DEF Abort, Situation
<1>3. CASE Return
  BY <1>0, <1>3, ReturnKeeps
<1>4. CASE Kill
  BY <1>0, <1>4, EndKeeps DEF Kill, Situation
<1>5. CASE Execute
  BY <1>0, <1>5, ExecuteKeeps
<1>6. CASE Disconnect \/ Lose
  BY <1>0, <1>6, GoingKeeps
<1>7. CASE UNCHANGED svars
  BY <1>7, StutterKeeps
<1> QED
  BY <1>1, <1>2, <1>3, <1>4, <1>5, <1>6, <1>7
  DEF Next, Client, Server, Disconnected

-----------------------------------------------------------------------------
(***************************************************************************)
(* What the tables hold.                                                   *)
(***************************************************************************)
\* The edges whose half has been inserted.
Entered(g, order, n) == UNION {ToSet(Half(order, h)) : h \in EdgesBefore(g, n)}

LEMMA EnteredAreUnique ==
  ASSUME NEW g, IsGraph(g), NEW order \in Orders(g), NEW n
  PROVE  /\ Entered(g, order, n) \subseteq UniqueEdges(g)
         /\ \A j \in Entered(g, order, n) : j \in 1 .. Len(g.edges)
<1>1. \A h \in 0 .. 1 : ToSet(Half(order, h)) \subseteq UniqueEdges(g)
  BY HalfElements
<1>2. EdgesBefore(g, n) \subseteq 0 .. 1
  BY DEF EdgesBefore
<1>3. Entered(g, order, n) \subseteq UniqueEdges(g)
  BY <1>1, <1>2 DEF Entered
<1> QED
  BY <1>3, EdgeNumbers

LEMMA EdgeTable ==
  ASSUME NEW g, NEW order, NEW n
  PROVE  Written(g, order, n)["edge"] = {EdgeRow(g, j) : j \in Entered(g, order, n)}
<1>1. Written(g, order, n)["edge"] = UNION {EdgeRows(g, order, h) : h \in EdgesBefore(g, n)}
  BY WhatIsWritten
<1> QED
  BY <1>1 DEF EdgeRows, Entered

LEMMA EdgeIds ==
  ASSUME NEW g, IsGraph(g), NEW order \in Orders(g), NEW n
  PROVE  /\ \A j \in Entered(g, order, n) : j - 1 \in Ids(Written(g, order, n), "edge")
         /\ \A id \in Ids(Written(g, order, n), "edge") :
              id + 1 \in Entered(g, order, n) /\ id \in 0 .. Len(g.edges) - 1
<1> DEFINE T == Written(g, order, n)
           X == Entered(g, order, n)
<1>1. T["edge"] = {EdgeRow(g, j) : j \in X}
  BY EdgeTable
<1>2. \A j \in X : j \in 1 .. Len(g.edges)
  BY EnteredAreUnique
<1>3. Len(g.edges) \in Nat
  BY EdgeNumbers
<1>4. \A j : EdgeRow(g, j).id = j - 1
  BY DEF EdgeRow
<1> HIDE DEF T, X
<1>5. ASSUME NEW j \in X PROVE j - 1 \in Ids(T, "edge")
  <2>1. EdgeRow(g, j) \in T["edge"]
    BY <1>1
  <2>2. EdgeRow(g, j).id \in Ids(T, "edge")
    BY <2>1 DEF Ids
  <2> QED
    BY <1>4, <2>2
<1>6. ASSUME NEW id \in Ids(T, "edge") PROVE id + 1 \in X /\ id \in 0 .. Len(g.edges) - 1
  <2>1. PICK row \in T["edge"] : id = row.id
    BY DEF Ids
  <2>2. PICK j \in X : row = EdgeRow(g, j)
    BY <1>1, <2>1
  <2>3. id = j - 1
    BY <1>4, <2>1, <2>2
  <2>4. id + 1 = j /\ id \in 0 .. Len(g.edges) - 1
    BY <1>2, <1>3, <2>3
  <2> QED
    BY <2>2, <2>4
<1> QED
  BY <1>5, <1>6 DEF T, X

LEMMA CommittedShape ==
  ASSUME NEW g, g.should_graph \in BOOLEAN, NEW n \in 0 .. LastStatement(g)
  PROVE  /\ Committed(g, n) \in 0 .. n
         /\ EdgesBefore(g, Committed(g, n)) = BindingsBefore(g, Committed(g, n))
<1> DEFINE K == BeforeKeyvalue(g)
           C == Committed(g, n)
<1>1. \/ g.edges # << >> /\ K = 23
      \/ g.edges = << >> /\ K = 15
  BY DEF BeforeKeyvalue
<1>2. n \in Nat
  BY <1>1 DEF LastStatement
<1>3. C = IF n < 15 THEN 3 * (n \div 3)
          ELSE IF n < K THEN 15 + 4 * ((n - 15) \div 4)
          ELSE IF n < K + 3 THEN K ELSE n
  BY DEF Committed
<1> HIDE DEF K, C
<1>4. CASE n < 15
  <2>1. C = 3 * (n \div 3) /\ C <= n /\ C \in Nat
    BY <1>2, <1>3, <1>4
  <2>2. EdgesBefore(g, C) = {} /\ BindingsBefore(g, C) = {}
    BY <1>4, <1>2, <2>1 DEF EdgesBefore, BindingsBefore
  <2> QED
    BY <1>2, <2>1, <2>2 DEF C
<1>5. CASE ~ (n < 15) /\ n < K
  <2>1. K = 23 /\ n \in 15 .. 22
    BY <1>1, <1>2, <1>5
  <2>2. C = 15 + 4 * ((n - 15) \div 4)
    BY <1>3, <1>5
  <2>3. n - 15 \in 0 .. 7 /\ C \in {15, 19} /\ C <= n
    BY <2>1, <2>2
  <2>4. \A h \in 0 .. 1 : 17 + 4 * h <= C <=> 18 + 4 * h <= C
    BY <2>3
  <2>5. EdgesBefore(g, C) = BindingsBefore(g, C)
    BY <2>4 DEF EdgesBefore, BindingsBefore
  <2> QED
    BY <1>2, <2>3, <2>5 DEF C
<1>6. CASE ~ (n < 15) /\ ~ (n < K)
  <2>1. C <= n /\ C >= K /\ C \in Nat
    BY <1>1, <1>2, <1>3, <1>6
  <2>2. CASE g.edges = << >>
    BY <1>2, <2>1, <2>2 DEF EdgesBefore, BindingsBefore, C
  <2>3. CASE g.edges # << >>
    <3>1. C >= 23
      BY <1>1, <2>1, <2>3
    <3>2. \A h \in 0 .. 1 : 17 + 4 * h <= C /\ 18 + 4 * h <= C
      BY <2>1, <3>1
    <3>3. EdgesBefore(g, C) = BindingsBefore(g, C)
      BY <3>2 DEF EdgesBefore, BindingsBefore
    <3> QED
      BY <1>2, <2>1, <3>3 DEF C
  <2> QED
    BY <2>2, <2>3
<1> QED
  BY <1>4, <1>5, <1>6

LEMMA BindingTable ==
  ASSUME NEW g, NEW order, NEW n, EdgesBefore(g, n) = BindingsBefore(g, n)
  PROVE  Written(g, order, n)["edge_asset_binding"] =
           UNION {ToSet(BindingRows(g, j)) : j \in Entered(g, order, n)}
<1>1. Written(g, order, n)["edge_asset_binding"] =
        UNION {HalfBindings(g, order, h) : h \in BindingsBefore(g, n)}
  BY WhatIsWritten
<1>2. UNION {HalfBindings(g, order, h) : h \in EdgesBefore(g, n)} =
        UNION {ToSet(BindingRows(g, j)) : j \in Entered(g, order, n)}
  BY DEF HalfBindings, Entered
<1> QED
  BY <1>1, <1>2

\* The tables only grow.
LEMMA TablesGrow ==
  ASSUME NEW g, NEW order, NEW n \in Nat, NEW m \in 0 .. n, NEW table \in Tables
  PROVE  Written(g, order, m)[table] \subseteq Written(g, order, n)[table]
<1> DEFINE T == Written(g, order, m)
           U == Written(g, order, n)
           K == BeforeKeyvalue(g)
<1>1. K \in {15, 23}
  BY DEF BeforeKeyvalue
<1>2. /\ QuartersBefore(m) \subseteq QuartersBefore(n)
      /\ EdgesBefore(g, m) \subseteq EdgesBefore(g, n)
      /\ BindingsBefore(g, m) \subseteq BindingsBefore(g, n)
  BY DEF QuartersBefore, EdgesBefore, BindingsBefore
<1>3. (m >= 2 => n >= 2) /\ (m >= K + 2 => n >= K + 2)
  BY <1>1
<1>4. /\ T["factbase"] = IF m >= 2 THEN FactbaseRows(g) ELSE {}
      /\ T["factbase_item"] = UNION {QuarterRows(g, k) : k \in QuartersBefore(m)}
      /\ T["edge"] = UNION {EdgeRows(g, order, h) : h \in EdgesBefore(g, m)}
      /\ T["edge_asset_binding"] = UNION {HalfBindings(g, order, h) : h \in BindingsBefore(g, m)}
      /\ T["keyvalue"] = IF m >= K + 2 THEN KeyvalueRowsOf(g) ELSE {}
  BY WhatIsWritten
<1>5. /\ U["factbase"] = IF n >= 2 THEN FactbaseRows(g) ELSE {}
      /\ U["factbase_item"] = UNION {QuarterRows(g, k) : k \in QuartersBefore(n)}
      /\ U["edge"] = UNION {EdgeRows(g, order, h) : h \in EdgesBefore(g, n)}
      /\ U["edge_asset_binding"] = UNION {HalfBindings(g, order, h) : h \in BindingsBefore(g, n)}
      /\ U["keyvalue"] = IF n >= K + 2 THEN KeyvalueRowsOf(g) ELSE {}
  BY WhatIsWritten
<1> HIDE DEF T, U, K
<1>6. T["factbase"] \subseteq U["factbase"] /\ T["keyvalue"] \subseteq U["keyvalue"]
  BY <1>3, <1>4, <1>5
<1>7. T["factbase_item"] \subseteq U["factbase_item"]
  BY <1>2, <1>4, <1>5
<1>8. T["edge"] \subseteq U["edge"]
  BY <1>2, <1>4, <1>5
<1>9. T["edge_asset_binding"] \subseteq U["edge_asset_binding"]
  BY <1>2, <1>4, <1>5
<1> QED
  BY <1>6, <1>7, <1>8, <1>9, TheTables DEF T, U

LEMMA ItemIds ==
  ASSUME NEW g, IsGraph(g), NEW order, NEW n
  PROVE  /\ Ids(Written(g, order, n), "factbase") \subseteq Factbases(g)
         /\ Ids(Written(g, order, n), "factbase_item") \subseteq Factbases(g)
<1> DEFINE T == Written(g, order, n)
<1>1. /\ T["factbase"] = IF n >= 2 THEN FactbaseRows(g) ELSE {}
      /\ T["factbase_item"] = UNION {QuarterRows(g, k) : k \in QuartersBefore(n)}
  BY WhatIsWritten
<1>2. \A row \in FactbaseRows(g) : row.id \in Factbases(g)
  BY DEF FactbaseRows
<1>3. \A k \in QuartersBefore(n) : \A row \in QuarterRows(g, k) : row.id \in Factbases(g)
  <2> TAKE k \in QuartersBefore(n)
  <2>1. k \in 0 .. 3
    BY DEF QuartersBefore
  <2>2. ItemStatement(g, k, ItemInsert(g, k))
    BY <2>1, StatementOfItems
  <2>3. \A row \in QuarterItems(g, k) : row.id \in FactbasesOf(g, k)
    BY <2>2 DEF ItemStatement
  <2>4. FactbasesOf(g, k) \subseteq Factbases(g)
    BY <2>1, QuarterFactbases
  <2> QED
    BY <2>3, <2>4 DEF QuarterRows
<1> HIDE DEF T
<1>4. \A row \in T["factbase"] : row.id \in Factbases(g)
  BY <1>1, <1>2
<1>5. \A row \in T["factbase_item"] : row.id \in Factbases(g)
  BY <1>1, <1>3
<1> QED
  BY <1>4, <1>5 DEF Ids, T

-----------------------------------------------------------------------------
\* The database is what a position says.
LEMMA CommittedTables ==
  ASSUME NEW order, NEW n, Situation(order, n)
  PROVE  \E c \in 0 .. n : /\ db = Written(graph, order, c)
                           /\ c = Committed(graph, n)
                           /\ EdgesBefore(graph, c) = BindingsBefore(graph, c)
<1>1. /\ db = Written(graph, order, Committed(graph, n))
      /\ graph.should_graph \in BOOLEAN /\ n \in 0 .. LastStatement(graph)
  BY DEF Situation, Reached
<1>2. /\ Committed(graph, n) \in 0 .. n
      /\ EdgesBefore(graph, Committed(graph, n)) = BindingsBefore(graph, Committed(graph, n))
  BY <1>1, CommittedShape
<1> QED
  BY <1>1, <1>2

LEMMA Typed ==
  ASSUME IInv
  PROVE  TypeOK
<1>0. PICK order, n : Situation(order, n)
  BY Situated
<1>1. /\ IsGraph(graph) /\ order \in Orders(graph) /\ ControlOK
      /\ program = Program(graph, order) /\ Len(program) \in Nat /\ n \in 0 .. Len(program)
      /\ n \in Nat
  BY <1>0 DEF Situation
<1>2. PICK c \in 0 .. n : db = Written(graph, order, c)
  BY <1>0, CommittedTables
<1>3. PICK m \in 0 .. n : view = Written(graph, order, m) /\ c <= m
  <2>1. CASE Connected
    <3>1. view = Written(graph, order, n) /\ n \in 0 .. n /\ c <= n
      BY <1>0, <1>1, <1>2, <2>1 DEF Situation, Reached, Served
    <3> QED
      BY <3>1
  <2>2. CASE ~ Connected
    <3>1. view = db /\ c <= c
      BY <1>0, <1>2, <2>2 DEF Situation, Reached, Gone
    <3> QED
      BY <1>2, <3>1
  <2> QED
    BY <2>1, <2>2
<1>4. Len(inflight) <= 1 /\ ToSet(inflight) \subseteq ToSet(program)
  <2>1. inflight = << >> \/ (n < Len(program) /\ inflight = << program[n + 1] >>)
    BY <1>0 DEF Situation, Reached, Served, Gone
  <2>2. CASE inflight = << >>
    BY <2>2 DEF ToSet
  <2>3. CASE n < Len(program) /\ inflight = << program[n + 1] >>
    <3>1. LaidOut(graph, order, program)
      BY <1>1, Layout
    <3>2. DOMAIN program = 1 .. Len(program)
      BY <3>1 DEF LaidOut
    <3>3. n + 1 \in DOMAIN program
      BY <1>1, <2>3, <3>2
    <3>4. program[n + 1] \in ToSet(program)
      BY <3>3 DEF ToSet
    <3>5. Len(inflight) = 1 /\ ToSet(inflight) = {program[n + 1]}
      BY <2>3 DEF ToSet
    <3> QED
      BY <3>4, <3>5
  <2> QED
    BY <2>1, <2>2, <2>3
<1>5. DOMAIN view = Tables /\ DOMAIN db = Tables
  BY <1>2, <1>3 DEF Written
<1>6. \A table \in Tables : db[table] \subseteq view[table]
  <2>1. c \in 0 .. m /\ m \in Nat
    BY <1>1, <1>2, <1>3
  <2> QED
    BY <2>1, <1>2, <1>3, TablesGrow
<1>7. Ids(view, "factbase") \cup Ids(view, "factbase_item") \subseteq Factbases(graph)
  BY <1>1, <1>3, ItemIds
<1>8. Ids(view, "edge") \subseteq 0 .. Len(graph.edges) - 1
  BY <1>1, <1>3, EdgeIds
<1> QED
  BY <1>1, <1>4, <1>5, <1>6, <1>7, <1>8 DEF TypeOK, ControlOK

LEMMA Bound ==
  ASSUME IInv
  PROVE  EdgesWithBindings
<1>0. PICK order, n : Situation(order, n)
  BY Situated
<1>1. IsGraph(graph) /\ order \in Orders(graph)
  BY <1>0 DEF Situation
<1>2. PICK c \in 0 .. n : /\ db = Written(graph, order, c)
                          /\ EdgesBefore(graph, c) = BindingsBefore(graph, c)
  BY <1>0, CommittedTables
<1> DEFINE X == Entered(graph, order, c)
           B(j) == ToSet(BindingRows(graph, j))
           I == Ids(db, "edge")
<1>3. db["edge_asset_binding"] = UNION {B(j) : j \in X}
  BY <1>2, BindingTable
<1>4. /\ \A j \in X : j - 1 \in I
      /\ \A id \in I : id + 1 \in X
  BY <1>1, <1>2, EdgeIds
<1>5. \A j \in X : (j - 1) + 1 = j
  BY <1>1, EnteredAreUnique
<1> HIDE DEF X, B, I
<1>6. UNION {B(j) : j \in X} = UNION {B(id + 1) : id \in I}
  <2>1. ASSUME NEW j \in X PROVE B(j) \in {B(id + 1) : id \in I}
    <3>1. j - 1 \in I /\ (j - 1) + 1 = j
      BY <1>4, <1>5
    <3> QED
      BY <3>1
  <2>2. ASSUME NEW id \in I PROVE B(id + 1) \in {B(j) : j \in X}
    BY <1>4
  <2> QED
    BY <2>1, <2>2
<1> QED
  BY <1>3, <1>6 DEF EdgesWithBindings, B, I

LEMMA FirstOfClass ==
  ASSUME IInv
  PROVE  FirstEdges
<1>0. PICK order, n : Situation(order, n)
  BY Situated
<1>1. IsGraph(graph) /\ order \in Orders(graph)
  BY <1>0 DEF Situation
<1>2. PICK c \in 0 .. n : db = Written(graph, order, c)
  BY <1>0, CommittedTables
<1> SUFFICES ASSUME NEW row \in db["edge"], NEW i \in DOMAIN graph.edges,
                    SameClass(row, graph.edges[i])
             PROVE  row.id <= i - 1
  BY DEF FirstEdges
<1>3. PICK j \in Entered(graph, order, c) : row = EdgeRow(graph, j)
  BY <1>2, EdgeTable
<1>4. j \in UniqueEdges(graph) /\ j \in 1 .. Len(graph.edges)
  BY <1>1, EnteredAreUnique
<1>5. /\ row.id = j - 1 /\ row.from = graph.edges[j].from /\ row.to = graph.edges[j].to
      /\ row.exploit = graph.edges[j].exploit
  BY <1>3 DEF EdgeRow
<1>6. SameClass(graph.edges[i], graph.edges[j])
  BY <1>5 DEF SameClass
<1>7. i \in 1 .. Len(graph.edges)
  BY <1>1, EdgeNumbers
<1>8. ~ (i \in 1 .. j - 1)
  BY <1>4, <1>6 DEF UniqueEdges
<1> QED
  BY <1>4, <1>5, <1>7, <1>8

-----------------------------------------------------------------------------
(***************************************************************************)
(* What GraphStore sees of the tables, as a function of the position.      *)
(***************************************************************************)
AttacksIn(T) ==
  {[edge |-> row, assets |-> {a \in T["edge_asset_binding"] : a.id = row.id}] : row \in T["edge"]}

StringsIn(T) == {row.property : row \in T["keyvalue"]}

StatesAt(g, n) == IF n >= 2 THEN Factbases(g) ELSE {}

FactsAt(g, n) == UNION {QuarterRows(g, k) : k \in QuartersBefore(n)}

AttacksAt(g, order, n) == {Attack(g, j) : j \in Entered(g, order, n)}

StringsAt(g, n) == IF n >= BeforeKeyvalue(g) + 2 THEN ToSet(g.strings) ELSE {}

SeenAt(g, order, n, T) ==
  /\ Ids(T, "factbase") = StatesAt(g, n)
  /\ T["factbase_item"] = FactsAt(g, n)
  /\ AttacksIn(T) = AttacksAt(g, order, n)
  /\ StringsIn(T) = StringsAt(g, n)

LEMMA AssetsOfEdge ==
  ASSUME NEW g, IsGraph(g), NEW order \in Orders(g), NEW n,
         NEW j \in Entered(g, order, n), EdgesBefore(g, n) = BindingsBefore(g, n)
  PROVE  {a \in Written(g, order, n)["edge_asset_binding"] : a.id = j - 1}
           = ToSet(BindingRows(g, j))
<1> DEFINE X == Entered(g, order, n)
           B(i) == ToSet(BindingRows(g, i))
           T == Written(g, order, n)["edge_asset_binding"]
<1>1. \A i \in X : i \in 1 .. Len(g.edges)
  BY EnteredAreUnique
<1>2. \A i \in X : \A a \in B(i) : a.id = i - 1
  BY <1>1, BindingsOfEdge
<1>3. T = UNION {B(i) : i \in X}
  BY BindingTable
<1>4. \A i \in X : i - 1 = j - 1 => i = j
  <2> TAKE i \in X
  <2>1. i \in Int /\ j \in Int
    BY <1>1
  <2> QED
    BY <2>1
<1>5. j \in X
  OBVIOUS
<1> HIDE DEF X, B, T
<1>6. ASSUME NEW a \in T, a.id = j - 1 PROVE a \in B(j)
  <2>1. PICK i \in X : a \in B(i)
    BY <1>3
  <2>2. i = j
    BY <1>2, <1>4, <1>6, <2>1
  <2> QED
    BY <2>1, <2>2
<1>7. ASSUME NEW a \in B(j) PROVE a \in T /\ a.id = j - 1
  BY <1>2, <1>3, <1>5
<1>8. {a \in T : a.id = j - 1} = B(j)
  BY <1>6, <1>7
<1> QED
  BY <1>8 DEF B, T

LEMMA Seen ==
  ASSUME NEW g, IsGraph(g), NEW order \in Orders(g), NEW n \in Nat,
         EdgesBefore(g, n) = BindingsBefore(g, n)
  PROVE  SeenAt(g, order, n, Written(g, order, n))
<1> DEFINE T == Written(g, order, n)
           X == Entered(g, order, n)
           K == BeforeKeyvalue(g)
<1>1. Ids(T, "factbase") = StatesAt(g, n)
  <2>1. CASE n >= 2
    BY <2>1, SavedFactbases DEF StatesAt
  <2>2. CASE ~ (n >= 2)
    <3>1. T["factbase"] = {}
      BY <2>2, WhatIsWritten
    <3> HIDE DEF T
    <3> QED
      BY <2>2, <3>1 DEF Ids, StatesAt
  <2> QED
    BY <2>1, <2>2
<1>2. T["factbase_item"] = FactsAt(g, n)
  BY WhatIsWritten DEF FactsAt
<1>3. AttacksIn(T) = AttacksAt(g, order, n)
  <2>1. T["edge"] = {EdgeRow(g, j) : j \in X}
    BY EdgeTable
  <2>2. \A j \in X : {a \in T["edge_asset_binding"] : a.id = j - 1} = ToSet(BindingRows(g, j))
    BY AssetsOfEdge
  <2>3. \A j : EdgeRow(g, j).id = j - 1
    BY DEF EdgeRow
  <2> DEFINE A(row) == [edge |-> row, assets |-> {a \in T["edge_asset_binding"] : a.id = row.id}]
  <2> HIDE DEF T, X
  <2>4. \A j \in X : A(EdgeRow(g, j)) = Attack(g, j)
    BY <2>2, <2>3 DEF Attack
  <2>5. AttacksIn(T) = {A(row) : row \in T["edge"]}
    BY DEF AttacksIn
  <2> HIDE DEF A
  <2>6. {A(row) : row \in T["edge"]} = {A(EdgeRow(g, j)) : j \in X}
    BY <2>1
  <2>7. {A(EdgeRow(g, j)) : j \in X} = {Attack(g, j) : j \in X}
    BY <2>4
  <2> QED
    BY <2>5, <2>6, <2>7 DEF AttacksAt, X
<1>4. StringsIn(T) = StringsAt(g, n)
  <2>1. T["keyvalue"] = IF n >= K + 2 THEN KeyvalueRowsOf(g) ELSE {}
    BY WhatIsWritten
  <2>2. {row.property : row \in KeyvalueRowsOf(g)} = ToSet(g.strings)
    BY StatementOfKeyvalue DEF KeyvalueStatement
  <2> HIDE DEF T
  <2>3. CASE n >= K + 2
    BY <2>1, <2>2, <2>3 DEF StringsIn, StringsAt
  <2>4. CASE ~ (n >= K + 2)
    <3>1. T["keyvalue"] = {}
      BY <2>1, <2>4
    <3> QED
      BY <2>4, <3>1 DEF StringsIn, StringsAt
  <2> QED
    BY <2>3, <2>4
<1> QED
  BY <1>1, <1>2, <1>3, <1>4 DEF SeenAt

-----------------------------------------------------------------------------
(***************************************************************************)
(* When each part is complete.                                             *)
(***************************************************************************)
LEMMA QuarterRowsAre ==
  ASSUME NEW g, NEW k
  PROVE  QuarterRows(g, k) = IF Lost(g, k) THEN {} ELSE QuarterItems(g, k)
<1>1. CASE Lost(g, k)
  BY <1>1 DEF QuarterRows, ItemsRefused
<1>2. CASE ~ Lost(g, k) /\ ~ ItemsRefused(g, k)
  BY <1>2 DEF QuarterRows
<1>3. CASE ~ Lost(g, k) /\ ItemsRefused(g, k)
  <2>1. \A fb \in FactbasesOf(g, k) : g.items[fb + 1].quals = << >> /\ g.items[fb + 1].topos = << >>
    BY <1>3 DEF ItemsRefused, HasQualities, HasTopologies
  <2>2. \A type, id : ToSet(ItemRows(type, id, << >>)) = {}
    BY DEF ItemRows, ToSet
  <2>3. \A fb \in FactbasesOf(g, k) : Items(g, fb) = {}
    BY <2>1, <2>2 DEF Items
  <2>4. QuarterItems(g, k) = {}
    BY <2>3 DEF QuarterItems
  <2> QED
    BY <1>3, <2>4 DEF QuarterRows
<1> QED
  BY <1>1, <1>2, <1>3

LEMMA QuartersOf ==
  ASSUME NEW g
  PROVE  Content(g).quarters = {QuarterItems(g, k) : k \in {q \in 0 .. 3 : ~ Lost(g, q)}}
BY DEF Content, QuarterItems

LEMMA FactsComplete ==
  ASSUME NEW g, NEW n \in Nat, n >= 14
  PROVE  FactsAt(g, n) = UNION Content(g).quarters
<1>1. QuartersBefore(n) = 0 .. 3
  BY DEF QuartersBefore
<1>2. \A k : QuarterRows(g, k) = IF Lost(g, k) THEN {} ELSE QuarterItems(g, k)
  BY QuarterRowsAre
<1>3. FactsAt(g, n) = UNION {QuarterRows(g, k) : k \in 0 .. 3}
  BY <1>1 DEF FactsAt
<1>4. UNION {QuarterRows(g, k) : k \in 0 .. 3}
        = UNION {QuarterItems(g, k) : k \in {q \in 0 .. 3 : ~ Lost(g, q)}}
  <2>1. ASSUME NEW k \in 0 .. 3, NEW x \in QuarterRows(g, k)
        PROVE  ~ Lost(g, k) /\ x \in QuarterItems(g, k)
    BY <1>2
  <2>2. ASSUME NEW k \in 0 .. 3, ~ Lost(g, k) PROVE QuarterItems(g, k) = QuarterRows(g, k)
    BY <1>2, <2>2
  <2> QED
    BY <2>1, <2>2
<1> QED
  BY <1>3, <1>4, QuartersOf

LEMMA AllEntered ==
  ASSUME NEW g, IsGraph(g), NEW order \in Orders(g), NEW n \in Nat, n >= BeforeKeyvalue(g)
  PROVE  Entered(g, order, n) = UniqueEdges(g)
<1>1. Entered(g, order, n) \subseteq UniqueEdges(g)
  BY EnteredAreUnique
<1>2. CASE g.edges = << >>
  <2>1. UniqueEdges(g) = {}
    BY <1>2 DEF UniqueEdges
  <2> QED
    BY <1>1, <2>1
<1>3. CASE g.edges # << >>
  <2>1. n >= 23
    BY <1>3 DEF BeforeKeyvalue
  <2>2. 0 \in EdgesBefore(g, n) /\ 1 \in EdgesBefore(g, n)
    BY <1>3, <2>1 DEF EdgesBefore
  <2>3. \A e \in UniqueEdges(g) : e \in ToSet(Half(order, 0)) \/ e \in ToSet(Half(order, 1))
    BY HalvesOfEdges
  <2> QED
    BY <1>1, <2>2, <2>3 DEF Entered
<1> QED
  BY <1>2, <1>3

LEMMA AttacksComplete ==
  ASSUME NEW g, IsGraph(g), NEW order \in Orders(g), NEW n \in Nat, n >= BeforeKeyvalue(g)
  PROVE  AttacksAt(g, order, n) = Content(g).attacks
<1>1. Content(g).attacks = {Attack(g, j) : j \in UniqueEdges(g)}
  BY DEF Content
<1>2. Entered(g, order, n) = UniqueEdges(g)
  BY AllEntered
<1> QED
  BY <1>1, <1>2 DEF AttacksAt

LEMMA AttacksTaken ==
  ASSUME NEW g, IsGraph(g), NEW order \in Orders(g), NEW n
  PROVE  AttacksAt(g, order, n) \subseteq Content(g).attacks
<1>1. Content(g).attacks = {Attack(g, j) : j \in UniqueEdges(g)}
  BY DEF Content
<1> QED
  BY <1>1, EnteredAreUnique DEF AttacksAt

-----------------------------------------------------------------------------
(***************************************************************************)
(* A commit is a step of GraphStore, or, when the transaction had failed,  *)
(* none.                                                                   *)
(***************************************************************************)
LEMMA CommitPositions ==
  ASSUME NEW g, g.should_graph \in BOOLEAN, NEW n \in 0 .. LastStatement(g) - 1,
         Committed(g, n) < n, Committed(g, n + 1) = n + 1
  PROVE  \/ n = 2 /\ Committed(g, n) = 0
         \/ \E k \in 0 .. 3 : n = 5 + 3 * k /\ Committed(g, n) = 3 + 3 * k
         \/ /\ g.edges # << >>
            /\ \E h \in 0 .. 1 : n = 18 + 4 * h /\ Committed(g, n) = 15 + 4 * h
         \/ n = BeforeKeyvalue(g) + 2 /\ Committed(g, n) = BeforeKeyvalue(g)
<1> DEFINE K == BeforeKeyvalue(g)
           C(m) == Committed(g, m)
<1>1. K \in {15, 23}
  BY DEF BeforeKeyvalue
<1>2. \A j \in 0 .. 4 : \A i \in 0 .. 2 : C(3 * j + i) = 3 * j
  BY CommittedAt
<1>3. g.edges # << >> => \A h \in 0 .. 1 : \A i \in 0 .. 3 : C(15 + 4 * h + i) = 15 + 4 * h
  BY CommittedAt
<1>4. \A i \in 0 .. 2 : C(K + i) = K
  BY CommittedAt
<1>5. \A i \in 3 .. 5 : C(K + i) = K + i
  BY CommittedAt
<1>6. n \in Nat /\ C(n) < n /\ C(n + 1) = n + 1
  BY <1>1 DEF LastStatement
<1> HIDE DEF C, K
<1>7. CASE \E j \in 0 .. 4 : n = 3 * j \/ n = 3 * j + 1 \/ n = 3 * j + 2
  <2>1. PICK j \in 0 .. 4 : n = 3 * j \/ n = 3 * j + 1 \/ n = 3 * j + 2
    BY <1>7
  <2>2. C(3 * j + 0) = 3 * j /\ C(3 * j + 1) = 3 * j /\ C(3 * j + 2) = 3 * j
    BY <1>2
  <2>3. 3 * j + 0 = 3 * j /\ (3 * j + 1) + 1 = 3 * j + 2 /\ ~ (3 * j < 3 * j) /\ 3 * j # 3 * j + 2
    OBVIOUS
  <2>4. n # 3 * j
    BY <1>6, <2>2, <2>3
  <2>5. n # 3 * j + 1
    BY <1>6, <2>2, <2>3
  <2>6. n = 3 * j + 2 /\ C(n) = 3 * j
    BY <2>1, <2>2, <2>4, <2>5
  <2>7. CASE j = 0
    BY <2>6, <2>7 DEF C
  <2>8. CASE j # 0
    <3>1. j - 1 \in 0 .. 3 /\ n = 5 + 3 * (j - 1) /\ C(n) = 3 + 3 * (j - 1)
      BY <2>6, <2>8
    <3> QED
      BY <3>1 DEF C
  <2> QED
    BY <2>7, <2>8
<1>8. CASE /\ g.edges # << >>
           /\ \E h \in 0 .. 1 : \/ n = 15 + 4 * h \/ n = 16 + 4 * h
                                \/ n = 17 + 4 * h \/ n = 18 + 4 * h
  <2>1. PICK h \in 0 .. 1 : \/ n = 15 + 4 * h \/ n = 16 + 4 * h
                            \/ n = 17 + 4 * h \/ n = 18 + 4 * h
    BY <1>8
  <2>2. \A i \in 0 .. 3 : C(15 + 4 * h + i) = 15 + 4 * h
    BY <1>3, <1>8
  <2>3. /\ 15 + 4 * h + 0 = 15 + 4 * h /\ 15 + 4 * h + 1 = 16 + 4 * h
        /\ 15 + 4 * h + 2 = 17 + 4 * h /\ 15 + 4 * h + 3 = 18 + 4 * h
    OBVIOUS
  <2>4. /\ C(15 + 4 * h) = 15 + 4 * h /\ C(16 + 4 * h) = 15 + 4 * h
        /\ C(17 + 4 * h) = 15 + 4 * h /\ C(18 + 4 * h) = 15 + 4 * h
    BY <2>2, <2>3
  <2>5. n # 15 + 4 * h
    <3>1. ~ (15 + 4 * h < 15 + 4 * h)
      OBVIOUS
    <3> QED
      BY <1>6, <2>4, <3>1
  <2>6. n # 16 + 4 * h
    <3>1. (16 + 4 * h) + 1 = 17 + 4 * h /\ 15 + 4 * h # 17 + 4 * h
      OBVIOUS
    <3> QED
      BY <1>6, <2>4, <3>1
  <2>7. n # 17 + 4 * h
    <3>1. (17 + 4 * h) + 1 = 18 + 4 * h /\ 15 + 4 * h # 18 + 4 * h
      OBVIOUS
    <3> QED
      BY <1>6, <2>4, <3>1
  <2>8. n = 18 + 4 * h /\ C(n) = 15 + 4 * h
    BY <2>1, <2>4, <2>5, <2>6, <2>7
  <2> QED
    BY <1>8, <2>8 DEF C
<1>9. CASE n \in {K, K + 1, K + 2}
  <2>1. /\ K + 0 = K /\ (K + 1) + 1 = K + 2 /\ K # K + 2 /\ ~ (K < K)
    BY <1>1
  <2>2. C(K + 0) = K /\ C(K + 1) = K /\ C(K + 2) = K
    BY <1>4
  <2>3. n # K
    BY <1>6, <2>1, <2>2
  <2>4. n # K + 1
    BY <1>6, <2>1, <2>2
  <2>5. n = K + 2 /\ C(n) = K
    BY <1>9, <2>2, <2>3, <2>4
  <2> QED
    BY <2>5 DEF C, K
<1>10. CASE n \in {K + 3, K + 4}
  <2>1. C(K + 3) = K + 3 /\ C(K + 4) = K + 4
    BY <1>5
  <2>2. ~ (K + 3 < K + 3) /\ ~ (K + 4 < K + 4)
    BY <1>1
  <2> QED
    BY <1>6, <1>10, <2>1, <2>2
<1> QED
  BY <1>7, <1>8, <1>9, <1>10, Positions DEF K

\* The step from position c to position d.
Advance(g, order, c, d) ==
  \/ /\ StatesAt(g, d) = StatesAt(g, c) /\ FactsAt(g, d) = FactsAt(g, c)
     /\ AttacksAt(g, order, d) = AttacksAt(g, order, c) /\ StringsAt(g, d) = StringsAt(g, c)
  \/ /\ StatesAt(g, c) = {} /\ StatesAt(g, d) = Content(g).states
     /\ FactsAt(g, d) = FactsAt(g, c)
     /\ AttacksAt(g, order, d) = AttacksAt(g, order, c) /\ StringsAt(g, d) = StringsAt(g, c)
  \/ /\ StatesAt(g, c) = Content(g).states
     /\ \E quarter \in Content(g).quarters : FactsAt(g, d) = FactsAt(g, c) \cup quarter
     /\ StatesAt(g, d) = StatesAt(g, c)
     /\ AttacksAt(g, order, d) = AttacksAt(g, order, c) /\ StringsAt(g, d) = StringsAt(g, c)
  \/ /\ StatesAt(g, c) = Content(g).states /\ FactsAt(g, c) = UNION Content(g).quarters
     /\ AttacksAt(g, order, d) \in SUBSET Content(g).attacks
     /\ AttacksAt(g, order, c) \subseteq AttacksAt(g, order, d)
     /\ StatesAt(g, d) = StatesAt(g, c) /\ FactsAt(g, d) = FactsAt(g, c)
     /\ StringsAt(g, d) = StringsAt(g, c)
  \/ /\ StatesAt(g, c) = Content(g).states /\ FactsAt(g, c) = UNION Content(g).quarters
     /\ AttacksAt(g, order, c) = Content(g).attacks
     /\ StringsAt(g, d) = Content(g).strings
     /\ StatesAt(g, d) = StatesAt(g, c) /\ FactsAt(g, d) = FactsAt(g, c)
     /\ AttacksAt(g, order, d) = AttacksAt(g, order, c)

LEMMA FactbasesAdvance ==
  ASSUME NEW g, NEW order
  PROVE  Advance(g, order, 0, 3)
<1>1. BeforeKeyvalue(g) \in {15, 23}
  BY DEF BeforeKeyvalue
<1>2. /\ QuartersBefore(0) = QuartersBefore(3)
      /\ EdgesBefore(g, 0) = EdgesBefore(g, 3)
  BY DEF QuartersBefore, EdgesBefore
<1>3. StatesAt(g, 0) = {} /\ StatesAt(g, 3) = Content(g).states
  BY DEF StatesAt, Content
<1>4. FactsAt(g, 3) = FactsAt(g, 0) /\ AttacksAt(g, order, 3) = AttacksAt(g, order, 0)
  BY <1>2 DEF FactsAt, AttacksAt, Entered
<1>5. StringsAt(g, 3) = StringsAt(g, 0)
  BY <1>1 DEF StringsAt
<1> QED
  BY <1>3, <1>4, <1>5 DEF Advance

LEMMA ItemsAdvance ==
  ASSUME NEW g, NEW order, NEW k \in 0 .. 3
  PROVE  Advance(g, order, 3 + 3 * k, 6 + 3 * k)
<1> DEFINE c == 3 + 3 * k
           d == 6 + 3 * k
<1>1. BeforeKeyvalue(g) \in {15, 23} /\ c \in 3 .. 12 /\ d \in 6 .. 15
  BY DEF BeforeKeyvalue
<1>2. QuartersBefore(d) = QuartersBefore(c) \cup {k}
  BY DEF QuartersBefore
<1> HIDE DEF c, d
<1>3. EdgesBefore(g, c) = EdgesBefore(g, d)
  BY <1>1 DEF EdgesBefore
<1>4. /\ StatesAt(g, c) = Content(g).states /\ StatesAt(g, d) = StatesAt(g, c)
  BY <1>1 DEF StatesAt, Content
<1>5. AttacksAt(g, order, d) = AttacksAt(g, order, c)
  BY <1>3 DEF AttacksAt, Entered
<1>6. StringsAt(g, d) = StringsAt(g, c)
  BY <1>1 DEF StringsAt
<1>7. FactsAt(g, d) = FactsAt(g, c) \cup QuarterRows(g, k)
  BY <1>2 DEF FactsAt
<1>8. CASE Lost(g, k)
  <2>1. FactsAt(g, d) = FactsAt(g, c)
    BY <1>7, <1>8, QuarterRowsAre
  <2> QED
    BY <1>4, <1>5, <1>6, <2>1 DEF Advance, c, d
<1>9. CASE ~ Lost(g, k)
  <2>1. QuarterRows(g, k) = QuarterItems(g, k)
    BY <1>9, QuarterRowsAre
  <2>2. QuarterItems(g, k) \in Content(g).quarters
    BY <1>9, QuartersOf
  <2> QED
    BY <1>4, <1>5, <1>6, <1>7, <2>1, <2>2 DEF Advance, c, d
<1> QED
  BY <1>8, <1>9

LEMMA EdgesAdvance ==
  ASSUME NEW g, IsGraph(g), NEW order \in Orders(g), g.edges # << >>, NEW h \in 0 .. 1
  PROVE  Advance(g, order, 15 + 4 * h, 19 + 4 * h)
<1> DEFINE c == 15 + 4 * h
           d == 19 + 4 * h
<1>1. BeforeKeyvalue(g) = 23 /\ c \in {15, 19} /\ d \in {19, 23}
  BY DEF BeforeKeyvalue
<1>2. EdgesBefore(g, c) \subseteq EdgesBefore(g, d)
  BY DEF EdgesBefore
<1> HIDE DEF c, d
<1>3. StatesAt(g, c) = Content(g).states /\ StatesAt(g, d) = StatesAt(g, c)
  BY <1>1 DEF StatesAt, Content
<1>4. FactsAt(g, c) = UNION Content(g).quarters /\ FactsAt(g, d) = UNION Content(g).quarters
  BY <1>1, FactsComplete
<1>5. AttacksAt(g, order, c) \subseteq AttacksAt(g, order, d)
  BY <1>2 DEF AttacksAt, Entered
<1>6. AttacksAt(g, order, d) \in SUBSET Content(g).attacks
  BY AttacksTaken
<1>7. StringsAt(g, d) = StringsAt(g, c)
  BY <1>1 DEF StringsAt
<1> QED
  BY <1>3, <1>4, <1>5, <1>6, <1>7 DEF Advance, c, d

LEMMA KeyvalueAdvances ==
  ASSUME NEW g, IsGraph(g), NEW order \in Orders(g)
  PROVE  Advance(g, order, BeforeKeyvalue(g), BeforeKeyvalue(g) + 3)
<1> DEFINE c == BeforeKeyvalue(g)
           d == c + 3
<1>1. /\ c \in Nat /\ d \in Nat /\ c >= 15 /\ d >= 15 /\ d >= c + 2 /\ c >= c /\ d >= c
  BY DEF BeforeKeyvalue
<1>2. AttacksAt(g, order, c) = Content(g).attacks /\ AttacksAt(g, order, d) = Content(g).attacks
  BY <1>1, AttacksComplete
<1>3. StringsAt(g, d) = Content(g).strings
  BY <1>1 DEF StringsAt, Content
<1> HIDE DEF c, d
<1>4. StatesAt(g, c) = Content(g).states /\ StatesAt(g, d) = StatesAt(g, c)
  BY <1>1 DEF StatesAt, Content
<1>5. FactsAt(g, c) = UNION Content(g).quarters /\ FactsAt(g, d) = UNION Content(g).quarters
  BY <1>1, FactsComplete
<1>6. Advance(g, order, c, d)
  BY <1>2, <1>3, <1>4, <1>5 DEF Advance
<1> QED
  BY <1>6 DEF c, d

LEMMA CommitsAdvance ==
  ASSUME NEW g, IsGraph(g), NEW order \in Orders(g), NEW n \in 0 .. LastStatement(g) - 1,
         Committed(g, n) < n, Committed(g, n + 1) = n + 1
  PROVE  Advance(g, order, Committed(g, n), n + 1)
<1>0. g.should_graph \in BOOLEAN
  BY DEF IsGraph
<1>1. CASE n = 2 /\ Committed(g, n) = 0
  BY <1>1, FactbasesAdvance
<1>2. CASE \E k \in 0 .. 3 : n = 5 + 3 * k /\ Committed(g, n) = 3 + 3 * k
  <2>1. PICK k \in 0 .. 3 : n = 5 + 3 * k /\ Committed(g, n) = 3 + 3 * k
    BY <1>2
  <2>2. n + 1 = 6 + 3 * k
    BY <2>1
  <2> QED
    BY <2>1, <2>2, ItemsAdvance
<1>3. CASE /\ g.edges # << >>
           /\ \E h \in 0 .. 1 : n = 18 + 4 * h /\ Committed(g, n) = 15 + 4 * h
  <2>1. PICK h \in 0 .. 1 : n = 18 + 4 * h /\ Committed(g, n) = 15 + 4 * h
    BY <1>3
  <2>2. n + 1 = 19 + 4 * h
    BY <2>1
  <2> QED
    BY <1>3, <2>1, <2>2, EdgesAdvance
<1>4. CASE n = BeforeKeyvalue(g) + 2 /\ Committed(g, n) = BeforeKeyvalue(g)
  <2>1. n + 1 = BeforeKeyvalue(g) + 3
    BY <1>4 DEF BeforeKeyvalue
  <2> QED
    BY <1>4, <2>1, KeyvalueAdvances
<1> QED
  BY <1>0, <1>1, <1>2, <1>3, <1>4, CommitPositions

-----------------------------------------------------------------------------
LEMMA NothingStored ==
  ASSUME Init
  PROVE  Store!Nothing
<1>1. db["factbase"] = {} /\ db["factbase_item"] = {} /\ db["edge"] = {} /\ db["keyvalue"] = {}
  BY DEF Init, EmptyTables, Tables
<1> QED
  BY <1>1 DEF Store!Nothing, Ids

\* A step from one position to another is a step of GraphStore.
LEMMA StoreSteps ==
  ASSUME graph' = graph, NEW order, NEW c, NEW d,
         SeenAt(graph, order, c, db), SeenAt(graph, order, d, db'), Advance(graph, order, c, d)
  PROVE  [Store!Next]_(Store!vars)
<1> DEFINE s == StatesAt(graph, c)
           f == FactsAt(graph, c)
           a == AttacksAt(graph, order, c)
           k == StringsAt(graph, c)
           s1 == StatesAt(graph, d)
           f1 == FactsAt(graph, d)
           a1 == AttacksAt(graph, order, d)
           k1 == StringsAt(graph, d)
           G == Content(graph)
<1>1. /\ Ids(db, "factbase") = s /\ db["factbase_item"] = f
      /\ AttacksIn(db) = a /\ StringsIn(db) = k
  BY DEF SeenAt
<1>2. /\ Ids(db', "factbase") = s1 /\ db'["factbase_item"] = f1
      /\ AttacksIn(db') = a1 /\ StringsIn(db') = k1
  BY DEF SeenAt
<1>3. Content(graph)' = G
  BY DEF Content, Factbases, Items, FactbasesOf, Lost, HasQualities, HasTopologies, Attack,
         UniqueEdges, Quarter, ItemRows, EdgeRow, BindingRows
<1>4. Advance(graph, order, c, d)
  OBVIOUS
<1> QED
  BY <1>1, <1>2, <1>3, <1>4
  DEF Advance, AttacksIn, StringsIn, Store!Next, Store!vars, Store!stored,
      Store!StoreStates, Store!StoreFacts, Store!StoreAttacks, Store!StoreStrings,
      Store!StatesStored, Store!FactsStored, Store!AttacksStored

\* Only the answer to a COMMIT changes the database.
LEMMA NextStores ==
  ASSUME IInv, [Next]_svars
  PROVE  [Store!Next]_(Store!vars)
<1>0. PICK order, n : Situation(order, n)
  BY Situated
<1>1. CASE db' = db /\ graph' = graph
  <2>1. UNCHANGED Store!vars
    BY <1>1 DEF Store!vars, Store!stored, Ids, Content, Factbases, Items, FactbasesOf, Lost,
       HasQualities, HasTopologies, Attack, UniqueEdges, Quarter, ItemRows, EdgeRow, BindingRows
  <2> QED
    BY <2>1
<1>2. CASE Execute
  <2> DEFINE c == Committed(graph, n)
             d == Committed(graph, n + 1)
  <2>1. /\ IsGraph(graph) /\ graph.should_graph \in BOOLEAN /\ order \in Orders(graph)
        /\ Len(program) = LastStatement(graph) /\ LastStatement(graph) \in Nat
        /\ db = Written(graph, order, c)
    BY <1>0 DEF Situation, Reached
  <2>2. /\ n \in 0 .. LastStatement(graph) - 1 /\ n + 1 \in 0 .. LastStatement(graph)
        /\ db' = Written(graph, order, d)
    BY <1>0, <1>2, <2>1, Executed
  <2>3. graph' = graph
    BY <1>2 DEF Execute
  <2>4. Step(graph, order, n)
    BY <2>1, <2>2, EachStep
  <2>5. CASE db' = db
    BY <1>1, <2>3, <2>5
  <2>6. CASE db' # db
    <3>1. c < n /\ d = n + 1
      <4>1. \/ c = n /\ d = n
            \/ d = c
            \/ c < n /\ d = n + 1
            \/ c = n /\ d = n + 1 /\ Written(graph, order, n + 1) = Written(graph, order, n)
        BY <2>4 DEF Step, StepBegin, StepInsert, StepCommit, StepSelect, StaysWritten
      <4> HIDE DEF c, d
      <4> QED
        BY <2>1, <2>2, <2>6, <4>1
    <3>2. Advance(graph, order, c, d)
      BY <2>1, <2>2, <3>1, CommitsAdvance
    <3>3. /\ c \in Nat /\ EdgesBefore(graph, c) = BindingsBefore(graph, c)
          /\ d \in Nat /\ EdgesBefore(graph, d) = BindingsBefore(graph, d)
      <4>1. n \in 0 .. LastStatement(graph)
        BY <2>1, <2>2
      <4>2. c \in 0 .. n /\ EdgesBefore(graph, c) = BindingsBefore(graph, c)
        BY <2>1, <4>1, CommittedShape
      <4>3. d \in 0 .. n + 1 /\ EdgesBefore(graph, d) = BindingsBefore(graph, d)
        BY <2>1, <2>2, CommittedShape
      <4> QED
        BY <4>2, <4>3
    <3>4. SeenAt(graph, order, c, db) /\ SeenAt(graph, order, d, db')
      BY <2>1, <2>2, <3>3, Seen
    <3> QED
      BY <2>3, <3>2, <3>4, StoreSteps
  <2> QED
    BY <2>5, <2>6
<1> QED
  BY <1>1, <1>2
  DEF Next, Client, Server, Send, Abort, Return, Kill, Disconnect, Lose, Disconnected, svars

-----------------------------------------------------------------------------
LEMMA OrderedAt ==
  ASSUME NEW g, IsGraph(g), NEW order \in Orders(g), NEW n \in Nat
  PROVE  /\ FactsAt(g, n) # {} => StatesAt(g, n) = Content(g).states
         /\ AttacksAt(g, order, n) # {} =>
              StatesAt(g, n) = Content(g).states /\ FactsAt(g, n) = UNION Content(g).quarters
         /\ StringsAt(g, n) # {} =>
              /\ StatesAt(g, n) = Content(g).states /\ FactsAt(g, n) = UNION Content(g).quarters
              /\ AttacksAt(g, order, n) = Content(g).attacks
<1>1. FactsAt(g, n) # {} => n >= 2
  BY DEF FactsAt, QuartersBefore
<1>2. AttacksAt(g, order, n) # {} => n >= 14
  BY DEF AttacksAt, Entered, EdgesBefore
<1>3. StringsAt(g, n) # {} => n >= 14 /\ n >= BeforeKeyvalue(g)
  BY DEF StringsAt, BeforeKeyvalue
<1>4. n >= 2 => StatesAt(g, n) = Content(g).states
  BY DEF StatesAt, Content
<1>5. n >= 14 => n >= 2
  OBVIOUS
<1> QED
  BY <1>1, <1>2, <1>3, <1>4, <1>5, FactsComplete, AttacksComplete

LEMMA Ordered ==
  ASSUME IInv
  PROVE  SavedInOrder
<1>0. PICK order, n : Situation(order, n)
  BY Situated
<1>1. IsGraph(graph) /\ order \in Orders(graph) /\ n \in Nat
  BY <1>0 DEF Situation
<1>2. PICK c \in 0 .. n : /\ db = Written(graph, order, c)
                          /\ EdgesBefore(graph, c) = BindingsBefore(graph, c)
  BY <1>0, CommittedTables
<1>3. SeenAt(graph, order, c, db) /\ c \in Nat
  BY <1>1, <1>2, Seen
<1>4. /\ Ids(db, "factbase") = StatesAt(graph, c)
      /\ db["factbase_item"] = FactsAt(graph, c)
      /\ AttacksIn(db) = AttacksAt(graph, order, c)
      /\ StringsIn(db) = StringsAt(graph, c)
  BY <1>3 DEF SeenAt
<1> DEFINE s == StatesAt(graph, c)
           f == FactsAt(graph, c)
           a == AttacksAt(graph, order, c)
           k == StringsAt(graph, c)
           G == Content(graph)
<1>5. /\ f # {} => s = G.states
      /\ a # {} => s = G.states /\ f = UNION G.quarters
      /\ k # {} => s = G.states /\ f = UNION G.quarters /\ a = G.attacks
  BY <1>1, <1>3, OrderedAt
<1> HIDE DEF s, f, a, k, G
<1> QED
  BY <1>4, <1>5
  DEF SavedInOrder, Store!InOrder, Store!StatesStored, Store!FactsStored, Store!AttacksStored,
      AttacksIn, StringsIn, s, f, a, k, G

-----------------------------------------------------------------------------
(***************************************************************************)
(* What a reader finds that comes after the keyvalues.                     *)
(***************************************************************************)
LEMMA WhenStringsAreThere ==
  ASSUME IInv, db["keyvalue"] # {}
  PROVE  /\ db["keyvalue"] =
              {[id |-> i - 1, property |-> graph.strings[i]] : i \in DOMAIN graph.strings}
         /\ Ids(db, "factbase") = Factbases(graph)
         /\ db["factbase_item"] = UNION Content(graph).quarters
         /\ IsGraph(graph)
<1>0. PICK order, n : Situation(order, n)
  BY Situated
<1>1. IsGraph(graph) /\ order \in Orders(graph) /\ n \in Nat
  BY <1>0 DEF Situation
<1>2. PICK c \in 0 .. n : /\ db = Written(graph, order, c)
                          /\ EdgesBefore(graph, c) = BindingsBefore(graph, c)
  BY <1>0, CommittedTables
<1>3. c \in Nat /\ SeenAt(graph, order, c, db)
  BY <1>1, <1>2, Seen
<1>4. db["keyvalue"] = IF c >= BeforeKeyvalue(graph) + 2 THEN KeyvalueRowsOf(graph) ELSE {}
  BY <1>2, WhatIsWritten
<1>5. c >= 14 /\ db["keyvalue"] = KeyvalueRowsOf(graph)
  <2>1. c >= BeforeKeyvalue(graph) + 2
    BY <1>4
  <2> QED
    BY <1>3, <1>4, <2>1 DEF BeforeKeyvalue
<1>6. Ids(db, "factbase") = Factbases(graph)
  BY <1>3, <1>5 DEF SeenAt, StatesAt
<1>7. db["factbase_item"] = UNION Content(graph).quarters
  BY <1>3, <1>5, FactsComplete DEF SeenAt
<1>8. KeyvalueRowsOf(graph) =
        {[id |-> i - 1, property |-> graph.strings[i]] : i \in DOMAIN graph.strings}
  <2> DEFINE rows == [i \in DOMAIN graph.strings |->
                        [id |-> i - 1, property |-> graph.strings[i]]]
  <2>1. KeyvalueInsert(graph).rows = rows
    BY DEF KeyvalueInsert, SaveKeyvalue, Insert
  <2>2. ToSet(rows) =
          {[id |-> i - 1, property |-> graph.strings[i]] : i \in DOMAIN graph.strings}
    BY DEF ToSet
  <2> HIDE DEF rows
  <2> QED
    BY <2>1, <2>2 DEF KeyvalueRowsOf
<1> QED
  BY <1>1, <1>5, <1>6, <1>7, <1>8

\* Every factbase is in one of the quarters.
LEMMA QuartersCover ==
  ASSUME NEW g, IsGraph(g), NEW fb \in Factbases(g)
  PROVE  \E k \in 0 .. 3 : fb \in FactbasesOf(g, k)
<1> DEFINE l == Len(g.items)
           n == l \div 4
           r == l % 4
           size(q) == n + (IF q = 3 THEN r ELSE 0)
<1>1. l \in Nat /\ fb \in 0 .. l - 1
  BY DEF IsGraph, Factbases
<1>2. \A q \in 0 .. 3 : Quarter(g, q) = [j \in 1 .. size(q) |-> j + q * n]
  BY DEF Quarter
<1> HIDE DEF l
<1>3. n \in Nat /\ r \in 0 .. 3 /\ l = 4 * n + r
  BY <1>1
<1> HIDE DEF n, r
<1>4. ASSUME NEW q \in 0 .. 3, NEW j \in 1 .. size(q), fb + 1 = j + q * n
      PROVE  fb \in FactbasesOf(g, q)
  <2>1. size(q) \in Nat
    BY <1>3
  <2>2. Quarter(g, q)[j] = j + q * n /\ j \in DOMAIN Quarter(g, q)
    BY <1>2
  <2>3. fb = Quarter(g, q)[j] - 1
    BY <1>1, <1>4, <2>2
  <2> QED
    BY <2>2, <2>3 DEF FactbasesOf, ToSet
<1>5. CASE fb < n
  <2>1. fb + 1 \in 1 .. size(0) /\ fb + 1 = (fb + 1) + 0 * n
    BY <1>1, <1>3, <1>5
  <2> QED
    BY <1>4, <2>1
<1>6. CASE n <= fb /\ fb < 2 * n
  <2>1. fb + 1 - n \in 1 .. size(1) /\ fb + 1 = (fb + 1 - n) + 1 * n
    BY <1>1, <1>3, <1>6
  <2> QED
    BY <1>4, <2>1
<1>7. CASE 2 * n <= fb /\ fb < 3 * n
  <2>1. fb + 1 - 2 * n \in 1 .. size(2) /\ fb + 1 = (fb + 1 - 2 * n) + 2 * n
    BY <1>1, <1>3, <1>7
  <2> QED
    BY <1>4, <2>1
<1>8. CASE 3 * n <= fb
  <2>1. fb + 1 - 3 * n \in 1 .. size(3) /\ fb + 1 = (fb + 1 - 3 * n) + 3 * n
    BY <1>1, <1>3, <1>8
  <2> QED
    BY <1>4, <2>1
<1> QED
  BY <1>1, <1>3, <1>5, <1>6, <1>7, <1>8

\* The items of one factbase are found whole, or not at all, when it has none
\* or its quarter was refused.
LEMMA ItemsOfFactbase ==
  ASSUME NEW g, IsGraph(g), NEW fb, NEW rows,
         rows = {row \in UNION Content(g).quarters : row.id = fb}
  PROVE  /\ rows # {} => fb \in Factbases(g) /\ rows = Items(g, fb)
         /\ rows = {} =>
              \/ fb \notin Factbases(g)
              \/ Items(g, fb) = {}
              \/ \E k \in 0 .. 3 : fb \in FactbasesOf(g, k) /\ Lost(g, k)
<1>1. \A other : \A row \in Items(g, other) : row.id = other
  <2>1. ASSUME NEW type, NEW other, NEW encodings, NEW row \in ToSet(ItemRows(type, other, encodings))
        PROVE  row.id = other
    BY DEF ItemRows, ToSet
  <2> QED
    BY <2>1 DEF Items
<1>2. UNION Content(g).quarters =
        UNION {QuarterItems(g, k) : k \in {q \in 0 .. 3 : ~ Lost(g, q)}}
  BY QuartersOf
<1>3. ASSUME NEW row \in rows
      PROVE  \E k \in 0 .. 3 : /\ ~ Lost(g, k) /\ fb \in FactbasesOf(g, k)
                               /\ row \in Items(g, fb)
  <2>1. PICK k \in 0 .. 3 : ~ Lost(g, k) /\ row \in QuarterItems(g, k)
    BY <1>2
  <2>2. PICK other \in FactbasesOf(g, k) : row \in Items(g, other)
    BY <2>1 DEF QuarterItems
  <2>3. other = fb
    BY <1>1, <2>2
  <2> QED
    BY <2>1, <2>2, <2>3
<1>4. ASSUME NEW k \in 0 .. 3, ~ Lost(g, k), fb \in FactbasesOf(g, k)
      PROVE  Items(g, fb) \subseteq rows
  <2>1. Items(g, fb) \subseteq QuarterItems(g, k)
    BY <1>4 DEF QuarterItems
  <2>2. QuarterItems(g, k) \subseteq UNION Content(g).quarters
    BY <1>2, <1>4
  <2>3. \A row \in Items(g, fb) : row \in UNION Content(g).quarters /\ row.id = fb
    BY <1>1, <2>1, <2>2
  <2> QED
    BY <2>3
<1>5. rows # {} => fb \in Factbases(g) /\ rows = Items(g, fb)
  <2> SUFFICES ASSUME NEW row \in rows PROVE fb \in Factbases(g) /\ rows = Items(g, fb)
    OBVIOUS
  <2>1. PICK k \in 0 .. 3 : ~ Lost(g, k) /\ fb \in FactbasesOf(g, k)
    BY <1>3
  <2>2. fb \in Factbases(g)
    BY <2>1, QuarterFactbases
  <2>3. rows \subseteq Items(g, fb)
    BY <1>3
  <2> QED
    BY <1>4, <2>1, <2>2, <2>3
<1>6. ASSUME rows = {}, fb \in Factbases(g)
      PROVE  \/ Items(g, fb) = {}
             \/ \E k \in 0 .. 3 : fb \in FactbasesOf(g, k) /\ Lost(g, k)
  <2>1. PICK k \in 0 .. 3 : fb \in FactbasesOf(g, k)
    BY <1>6, QuartersCover
  <2> QED
    BY <1>4, <1>6, <2>1
<1> QED
  BY <1>5, <1>6

\* What is committed stays.
LEMMA TablesKept ==
  ASSUME TypeOK, [Next]_svars, NEW table \in Tables
  PROVE  db[table] \subseteq db'[table]
<1>1. CASE Execute
  <2>1. PICK st : InTransaction(st)
    BY <1>1 DEF Execute
  <2>2. db[table] \subseteq view[table]
    BY DEF TypeOK
  <2>3. CASE st.op = "commit" /\ db' = IF txn = "open" THEN view ELSE db
    BY <2>2, <2>3
  <2>4. CASE view' = Inserted(view, st) /\ db' = IF txn = "none" THEN view' ELSE db
    <3>1. view[table] \subseteq view'[table]
      BY <2>4 DEF Inserted, TypeOK
    <3> QED
      BY <2>2, <2>4, <3>1
  <2>5. CASE db' = db
    BY <2>5
  <2> QED
    BY <2>1, <2>3, <2>4, <2>5 DEF InTransaction
<1>2. CASE ~ Execute
  <2>1. db' = db
    BY <1>2 DEF Next, Client, Server, Send, Abort, Return, Kill, Disconnect, Lose,
       Disconnected, svars
  <2> QED
    BY <2>1
<1> QED
  BY <1>1, <1>2

-----------------------------------------------------------------------------
(***************************************************************************)
(* The picture.                                                            *)
(***************************************************************************)
LEMMA Below ==
  ASSUME NEW l \in Nat, NEW fid \in 0 .. l - 1
  PROVE  Cardinality({i \in 0 .. l - 1 : i < fid}) = fid
<1>1. {i \in 0 .. l - 1 : i < fid} = 0 .. fid - 1
  OBVIOUS
<1>2. Cardinality(0 .. fid - 1) = IF 0 > fid - 1 THEN 0 ELSE (fid - 1) - 0 + 1
  BY FS_Interval
<1>3. (IF 0 > fid - 1 THEN 0 ELSE (fid - 1) - 0 + 1) = fid
  OBVIOUS
<1> QED
  BY <1>1, <1>2, <1>3

\* What is drawn for the j-th edge.
DrawnEdge(g, j) ==
  [index |-> j - 1, from |-> g.edges[j].from, to |-> g.edges[j].to,
   exploit |-> g.edges[j].exploit]

LEMMA PictureIs ==
  ASSUME NEW g, IsGraph(g), NEW order \in Orders(g)
  PROVE  /\ Picture(g, order).vertices = Factbases(g)
         /\ Picture(g, order).edges = {DrawnEdge(g, j) : j \in UniqueEdges(g)}
<1> DEFINE L == LastStatement(g)
           T == Written(g, order, L)
           F == T["factbase"]
           E == T["edge"]
           l == Len(g.items)
           ids == {row.id : row \in F}
           map(fid) == IF fid \in ids THEN Cardinality({i \in ids : i < fid}) ELSE 0
           U == UniqueEdges(g)
<1>1. L \in Nat /\ L >= 2 /\ L >= BeforeKeyvalue(g)
  BY DEF LastStatement, BeforeKeyvalue
<1>2. ids = Factbases(g)
  <2>1. Ids(T, "factbase") = Factbases(g)
    BY <1>1, SavedFactbases
  <2> QED
    BY <2>1 DEF Ids
<1>3. Factbases(g) = 0 .. l - 1 /\ l \in Nat
  BY DEF Factbases, IsGraph
<1>4. E = {EdgeRow(g, j) : j \in U}
  <2>1. E = {EdgeRow(g, j) : j \in Entered(g, order, L)}
    BY EdgeTable
  <2>2. Entered(g, order, L) = U
    BY <1>1, AllEntered
  <2> QED
    BY <2>1, <2>2
<1>5. Picture(g, order) =
        [vertices |-> 0 .. Cardinality(ids) - 1,
         edges    |-> {[index |-> row.id, from |-> map(row.from), to |-> map(row.to),
                        exploit |-> row.exploit] : row \in E}]
  BY DEF Picture, graph_init
<1>6. \A j \in U : g.edges[j].from \in Factbases(g) /\ g.edges[j].to \in Factbases(g)
  BY EdgeNumbers, EdgeType
<1> HIDE DEF L, T, F, E, l, U
<1>7. Cardinality(ids) = l
  <2>1. Cardinality(0 .. l - 1) = IF 0 > l - 1 THEN 0 ELSE (l - 1) - 0 + 1
    BY <1>3, FS_Interval
  <2>2. Cardinality(0 .. l - 1) = l
    BY <1>3, <2>1
  <2> QED
    BY <1>2, <1>3, <2>2
<1>8. \A fid \in Factbases(g) : map(fid) = fid
  <2> TAKE fid \in Factbases(g)
  <2>1. fid \in 0 .. l - 1
    BY <1>3
  <2>2. Cardinality({i \in 0 .. l - 1 : i < fid}) = fid
    BY <1>3, <2>1, Below
  <2> HIDE DEF ids
  <2> QED
    BY <1>2, <1>3, <2>2
<1>9. Picture(g, order).vertices = Factbases(g)
  BY <1>3, <1>5, <1>7
<1> DEFINE D(row) == [index |-> row.id, from |-> map(row.from), to |-> map(row.to),
                      exploit |-> row.exploit]
<1>10. Picture(g, order).edges = {D(row) : row \in E}
  BY <1>5
<1>11. \A j \in U : D(EdgeRow(g, j)) = DrawnEdge(g, j)
  <2> TAKE j \in U
  <2>1. /\ EdgeRow(g, j).id = j - 1 /\ EdgeRow(g, j).from = g.edges[j].from
        /\ EdgeRow(g, j).to = g.edges[j].to /\ EdgeRow(g, j).exploit = g.edges[j].exploit
    BY DEF EdgeRow
  <2>2. map(EdgeRow(g, j).from) = g.edges[j].from /\ map(EdgeRow(g, j).to) = g.edges[j].to
    <3> HIDE DEF map
    <3> QED
      BY <1>6, <1>8, <2>1
  <2> HIDE DEF map
  <2> QED
    BY <2>1, <2>2 DEF DrawnEdge
<1> HIDE DEF D, ids, map
<1>12. {D(row) : row \in E} = {D(EdgeRow(g, j)) : j \in U}
  BY <1>4
<1>13. {D(EdgeRow(g, j)) : j \in U} = {DrawnEdge(g, j) : j \in U}
  BY <1>11
<1> QED
  BY <1>9, <1>10, <1>12, <1>13 DEF U

\* Of the edges alike, the first.
LEMMA FirstAlike ==
  ASSUME NEW g, IsGraph(g), NEW i \in DOMAIN g.edges
  PROVE  \E j \in UniqueEdges(g) :
           /\ SameClass(g.edges[j], g.edges[i])
           /\ \A u \in UniqueEdges(g) : SameClass(g.edges[u], g.edges[i]) => u = j
<1> DEFINE alike == {j \in 1 .. Len(g.edges) : SameClass(g.edges[j], g.edges[i])}
<1>1. DOMAIN g.edges = 1 .. Len(g.edges) /\ Len(g.edges) \in Nat
  BY EdgeNumbers
<1>2. i \in alike
  BY <1>1 DEF SameClass
<1>3. \E j \in alike : \A m \in alike : j <= m
  <2> HIDE DEF alike
  <2>1. alike \subseteq Nat
    BY <1>1 DEF alike
  <2> QED
    BY <1>2, <2>1, LeastNat
<1>4. PICK j \in alike : \A m \in alike : j <= m
  BY <1>3
<1>5. j \in 1 .. Len(g.edges) /\ SameClass(g.edges[j], g.edges[i])
  OBVIOUS
<1>6. j \in UniqueEdges(g)
  <2> SUFFICES ASSUME NEW m \in 1 .. j - 1, SameClass(g.edges[m], g.edges[j]) PROVE FALSE
    BY <1>1, <1>5 DEF UniqueEdges
  <2>1. m \in 1 .. Len(g.edges) /\ m < j
    BY <1>1, <1>5
  <2>2. SameClass(g.edges[m], g.edges[i])
    BY <1>5 DEF SameClass
  <2>3. j <= m
    BY <1>4, <2>1, <2>2
  <2> QED
    BY <2>1, <2>3
<1>7. ASSUME NEW u \in UniqueEdges(g), SameClass(g.edges[u], g.edges[i]) PROVE u = j
  <2>1. u \in 1 .. Len(g.edges) /\ \A m \in 1 .. u - 1 : ~ SameClass(g.edges[m], g.edges[u])
    BY <1>1 DEF UniqueEdges
  <2>2. SameClass(g.edges[j], g.edges[u])
    BY <1>5, <1>7 DEF SameClass
  <2>3. ~ (j \in 1 .. u - 1)
    BY <2>1, <2>2
  <2>4. j <= u
    BY <1>4, <1>7, <2>1
  <2> QED
    BY <1>5, <2>1, <2>3, <2>4
<1> QED
  BY <1>5, <1>6, <1>7

LEMMA Faithful ==
  ASSUME IInv
  PROVE  DrawnFaithful
<1>0. PICK order, n : Situation(order, n)
  BY Situated
<1> DEFINE g == graph
           P == Picture(g, order)
           U == UniqueEdges(g)
           D(j) == DrawnEdge(g, j)
<1>1. IsGraph(g) /\ order \in Orders(g) /\ drawn \in {<< >>, << P >>}
  BY <1>0 DEF Situation
<1>2. P.vertices = Factbases(g) /\ P.edges = {D(j) : j \in U}
  BY <1>1, PictureIs
<1>3. \A j \in U : D(j).index + 1 = j
  <2> TAKE j \in U
  <2>1. j \in 1 .. Len(g.edges)
    BY <1>1, EdgeNumbers
  <2>2. D(j).index = j - 1
    BY DEF DrawnEdge
  <2> QED
    BY <2>1, <2>2
<1>4. \A j : \A e : SameClass(D(j), e) <=> SameClass(g.edges[j], e)
  BY DEF DrawnEdge, SameClass
<1>5. \A j : SameClass(g.edges[j], g.edges[j])
  BY DEF SameClass
<1>6. ASSUME NEW e \in P.edges PROVE SameClass(e, g.edges[e.index + 1])
  <2>1. PICK j \in U : e = D(j)
    BY <1>2
  <2>2. e.index + 1 = j
    BY <1>3, <2>1
  <2> QED
    BY <1>4, <1>5, <2>1, <2>2
<1>7. ASSUME NEW i \in DOMAIN g.edges
      PROVE  Cardinality({e \in P.edges : SameClass(e, g.edges[i])}) = 1
  <2>1. PICK j \in U : /\ SameClass(g.edges[j], g.edges[i])
                       /\ \A u \in U : SameClass(g.edges[u], g.edges[i]) => u = j
    BY <1>1, FirstAlike
  <2> HIDE DEF D, U, P
  <2>2. {e \in P.edges : SameClass(e, g.edges[i])} = {D(j)}
    <3>1. D(j) \in P.edges /\ SameClass(D(j), g.edges[i])
      BY <1>2, <1>4, <2>1
    <3>2. ASSUME NEW e \in P.edges, SameClass(e, g.edges[i]) PROVE e = D(j)
      <4>1. PICK u \in U : e = D(u)
        BY <1>2
      <4>2. u = j
        BY <1>4, <2>1, <3>2, <4>1
      <4> QED
        BY <4>1, <4>2
    <3> QED
      BY <3>1, <3>2
  <2> QED
    BY <2>2, FS_Singleton
<1>8. ASSUME NEW k \in DOMAIN drawn PROVE drawn[k] = P
  <2> HIDE DEF P
  <2>1. drawn = << P >>
    BY <1>1
  <2> QED
    BY <2>1
<1> HIDE DEF P, U, D
<1> QED
  BY <1>2, <1>6, <1>7, <1>8 DEF DrawnFaithful, g

-----------------------------------------------------------------------------
(***************************************************************************)
(* Theorems.                                                               *)
(***************************************************************************)

\* Whatever statements save_ag_to_db has sent, and however it is stopped, what
\* the server holds is what the first n statements of the program leave,
\* with the inserts refused that break a key or cannot be read.
THEOREM Invariance == Spec => []IInv
BY InitiallyInvariant, Inductive, PTL DEF Spec

\* The client stays within its program with at most one statement unanswered,
\* what is committed is part of what the transaction sees, and the ids in the
\* tables are those of the graph's factbases and edges.
THEOREM TypeCorrect == Spec => []TypeOK
<1>1. IInv => TypeOK
  BY Typed
<1> QED
  BY Invariance, <1>1, PTL

\* A reader never finds an edge without the assets of its asset group, or assets
\* without their edge: save_ag_to_db sends both inserts in one transaction.
THEOREM AttacksStayBound == Spec => []EdgesWithBindings
<1>1. IInv => EdgesWithBindings
  BY Bound
<1> QED
  BY Invariance, <1>1, PTL

\* save_ag_to_db enters the edges into an unordered_map, which keeps the first of
\* those that are equal: in whatever order the map gives them back, no other of
\* a class is ever stored.
THEOREM FirstEdgesKept == Spec => []FirstEdges
<1>1. IInv => FirstEdges
  BY FirstOfClass
<1> QED
  BY Invariance, <1>1, PTL

\* Items come after all factbases, edges after those, keyvalues at the very end:
\* what decode or another reader finds is never a part without what it needs.
THEOREM SavingInOrder == Spec => []SavedInOrder
<1>1. IInv => SavedInOrder
  BY Ordered
<1> QED
  BY Invariance, <1>1, PTL

\* With -g, the picture that graph_ag draws has each state and one edge for
\* each class of equal edges, from and to the right states, although quarters of
\* the items may have been refused before the queries were made.
THEOREM PicturesFaithful == Spec => []DrawnFaithful
<1>1. IInv => DrawnFaithful
  BY Faithful
<1> QED
  BY Invariance, <1>1, PTL

\* Statement by statement, the saving does what GraphStore allows: a COMMIT adds a
\* whole part on top of complete ones or, after a refused insert, nothing, and
\* no other statement, kill or lost connection is visible.
THEOREM Refinement == Spec => ImplementsGraphStore
<1>1. Init => Store!Nothing
  BY NothingStored
<1>2. IInv /\ [Next]_svars => [Store!Next]_(Store!vars)
  BY NextStores
<1>3. Spec => Store!Spec
  BY Invariance, <1>1, <1>2, PTL DEF Spec, Store!Spec
<1> QED
  BY <1>3 DEF ImplementsGraphStore

-----------------------------------------------------------------------------
(***************************************************************************)
(* What GraphStore promises, and so the database.  These two need nothing  *)
(* of the saving but that it implements the store.                         *)
(***************************************************************************)
LEMMA StoreOnlyParts == Store!Spec => []Store!Parts
<1>1. Store!Nothing => Store!Parts
  BY DEF Store!Nothing, Store!Parts
<1>2. Store!Parts /\ [Store!Next]_(Store!vars) => Store!Parts'
  <2> SUFFICES ASSUME Store!Parts, [Store!Next]_(Store!vars) PROVE Store!Parts'
    OBVIOUS
  <2>1. CASE Store!StoreStates /\ UNCHANGED Content(graph)
    BY <2>1 DEF Store!StoreStates, Store!Parts
  <2>2. CASE Store!StoreFacts /\ UNCHANGED Content(graph)
    BY <2>2 DEF Store!StoreFacts, Store!Parts
  <2>3. CASE Store!StoreAttacks /\ UNCHANGED Content(graph)
    BY <2>3 DEF Store!StoreAttacks, Store!Parts
  <2>4. CASE Store!StoreStrings /\ UNCHANGED Content(graph)
    BY <2>4 DEF Store!StoreStrings, Store!Parts
  <2>5. CASE UNCHANGED Store!vars
    BY <2>5 DEF Store!vars, Store!stored, Store!Parts
  <2> QED
    BY <2>1, <2>2, <2>3, <2>4, <2>5 DEF Store!Next
<1> QED
  BY <1>1, <1>2, PTL DEF Store!Spec

\* The strings are all there or none, which is what makes them stay.
LEMMA StoreKeeps == Store!Spec => Store!Kept
<1> DEFINE states  == Ids(db, "factbase")
           facts   == db["factbase_item"]
           attacks == {[edge |-> row,
                        assets |-> {a \in db["edge_asset_binding"] : a.id = row.id}] :
                         row \in db["edge"]}
           strings == {row.property : row \in db["keyvalue"]}
           AllKept == /\ states \subseteq states' /\ facts \subseteq facts'
                      /\ attacks \subseteq attacks' /\ strings \subseteq strings'
<1>1. Store!Parts /\ [Store!Next]_(Store!vars) => [AllKept]_(Store!vars)
  <2> SUFFICES ASSUME Store!Parts, Store!Next
               PROVE  AllKept
    OBVIOUS
  <2>1. CASE Store!StoreStates
    BY <2>1 DEF Store!StoreStates
  <2>2. CASE Store!StoreFacts
    BY <2>2 DEF Store!StoreFacts
  <2>3. CASE Store!StoreAttacks
    BY <2>3 DEF Store!StoreAttacks
  <2>4. CASE Store!StoreStrings
    BY <2>4 DEF Store!StoreStrings, Store!Parts
  <2> QED
    BY <2>1, <2>2, <2>3, <2>4 DEF Store!Next
<1> QED
  BY <1>1, StoreOnlyParts, PTL DEF Store!Spec, Store!Kept

\* Nothing is ever in the database that is not part of the graph: a state, a fact,
\* an attack or a string of it (save_ag_to_db), and states and strings are there
\* all or none.
THEOREM NothingElseSaved == Spec => []Store!Parts
BY Refinement, StoreOnlyParts, PTL DEF ImplementsGraphStore

\* What a reader of the database has seen stays there: no kill, lost connection or
\* refused insert of save_ag_to_db takes back or changes what was committed.
THEOREM NothingTakenBack == Spec => Store!Kept
BY Refinement, StoreKeeps, PTL DEF ImplementsGraphStore

=============================================================================
