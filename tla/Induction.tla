----------------------------- MODULE Induction -----------------------------
(***************************************************************************)
(* Induction over the natural numbers in a first-order form, with a set in *)
(* the place of a predicate, so that it can be cited with the set a proof  *)
(* is about.  It is derived from the cardinalities of finite sets.  Then   *)
(* what it shows of recursive functions and of sequences: their elements,  *)
(* the first and the last with a property, and FlattenSeq.                 *)
(***************************************************************************)
EXTENDS Integers, SequencesExt, FiniteSetTheorems, SequenceTheorems, TLAPS

\* Every nonempty set of natural numbers has a least element.
LEMMA LeastNat ==
  ASSUME NEW T \in SUBSET Nat, T # {}
  PROVE  \E x \in T : \A y \in T : x <= y
<1> DEFINE U == {n \in Nat : \A t \in T : n < t}
           c == Cardinality(U)
<1>1. PICK t0 \in T : TRUE
  OBVIOUS
<1>2. IsFiniteSet(U)
  <2>1. \A u \in U : u <= t0
    OBVIOUS
  <2>2. U \in SUBSET Nat /\ t0 \in Nat
    OBVIOUS
  <2> HIDE DEF U
  <2> QED
    BY <2>1, <2>2, FS_BoundedSetOfNaturals
<1>3. c \in Nat
  BY <1>2, FS_CardinalityType
<1>4. c \notin U
  <2>1. SUFFICES ASSUME c \in U PROVE FALSE
    OBVIOUS
  <2>2. 0 .. c \in SUBSET U
    BY <2>1, <1>3
  <2>3. Cardinality(0 .. c) = c + 1
    BY <1>3, FS_Interval
  <2> HIDE DEF U
  <2>4. Cardinality(0 .. c) <= c
    BY <2>2, <1>2, FS_Subset
  <2> QED
    BY <2>3, <2>4, <1>3
<1>5. PICK t \in T : t <= c
  BY <1>3, <1>4
<1>6. ASSUME NEW y \in T, y < t
      PROVE  FALSE
  <2>1. U \in SUBSET (0 .. y - 1)
    OBVIOUS
  <2>2. y \in Nat
    OBVIOUS
  <2>3. IsFiniteSet(0 .. y - 1) /\ Cardinality(0 .. y - 1) = y
    BY <2>2, FS_Interval
  <2> HIDE DEF U
  <2>4. c <= y
    BY <2>1, <2>3, FS_Subset
  <2> QED
    BY <2>2, <2>4, <1>3, <1>5, <1>6
<1> QED
  BY <1>6

\* A set that holds 0, and with a number below n its successor, holds all
\* numbers up to n.
LEMMA SetInduction ==
  ASSUME NEW T, NEW n \in Nat,
         0 \in T,
         \A k \in 0 .. n - 1 : k \in T => k + 1 \in T
  PROVE  0 .. n \subseteq T
<1> DEFINE Out == {k \in 0 .. n : k \notin T}
<1>1. SUFFICES ASSUME Out # {} PROVE FALSE
  OBVIOUS
<1>2. PICK m \in Out : \A y \in Out : m <= y
  <2>1. Out \in SUBSET Nat
    OBVIOUS
  <2> HIDE DEF Out
  <2> QED
    BY <2>1, <1>1, LeastNat
<1>3. m # 0 /\ m - 1 \in 0 .. n - 1
  BY <1>2
<1>4. m - 1 \in T
  BY <1>2, <1>3
<1> QED
  BY <1>2, <1>3, <1>4

\* A nonempty set of numbers up to n has a greatest element.
LEMMA GreatestNat ==
  ASSUME NEW n \in Nat, NEW T \in SUBSET (0 .. n), T # {}
  PROVE  \E x \in T : \A y \in T : y <= x
<1> DEFINE M == {n - t : t \in T}
<1>1. M \in SUBSET Nat /\ M # {}
  OBVIOUS
<1>2. PICK m \in M : \A y \in M : m <= y
  <2> HIDE DEF M
  <2> QED
    BY <1>1, LeastNat
<1>3. PICK x \in T : m = n - x
  BY <1>2
<1>4. ASSUME NEW y \in T PROVE y <= x
  <2>1. m <= n - y
    BY <1>2
  <2>2. x \in Int /\ y \in Int
    OBVIOUS
  <2> QED
    BY <2>1, <2>2, <1>3
<1> QED
  BY <1>4

(***************************************************************************)
(* A recursive definition over 0..n whose step k is the function G[k] on a *)
(* set S: there is a function that satisfies it, and all its values lie in *)
(* S.                                                                      *)
(***************************************************************************)
IsRecursion(f, S, s0, n, G) ==
  /\ f \in [0 .. n -> S]
  /\ f[0] = s0
  /\ \A k \in 1 .. n : f[k] = G[k][f[k - 1]]

LEMMA RecursionExists ==
  ASSUME NEW S, NEW s0 \in S, NEW n \in Nat, NEW G \in [1 .. n -> [S -> S]]
  PROVE  \E f : IsRecursion(f, S, s0, n, G)
<1> DEFINE Sat(f, m) == IsRecursion(f, S, s0, m, G)
           T == {m \in 0 .. n : \E f : Sat(f, m)}
<1> USE DEF IsRecursion
<1>1. 0 \in T
  <2>1. Sat([k \in 0 .. 0 |-> s0], 0)
    OBVIOUS
  <2> HIDE DEF Sat
  <2> QED
    BY <2>1
<1>2. ASSUME NEW m \in 0 .. n - 1, m \in T
      PROVE  m + 1 \in T
  <2>1. PICK f : Sat(f, m)
    BY <1>2
  <2> DEFINE g == [k \in 0 .. m + 1 |->
                     IF k = m + 1 THEN G[k][f[m]] ELSE f[k]]
  <2>2. G[m + 1][f[m]] \in S
    <3>1. m + 1 \in 1 .. n /\ f[m] \in S
      BY <2>1
    <3> QED
      BY <3>1
  <2>3. g \in [0 .. m + 1 -> S]
    BY <2>1, <2>2
  <2>4. g[0] = s0
    BY <2>1
  <2>5. ASSUME NEW k \in 1 .. m + 1 PROVE g[k] = G[k][g[k - 1]]
    <3>1. CASE k = m + 1
      BY <3>1
    <3>2. CASE k \in 1 .. m
      <4>1. g[k] = f[k] /\ g[k - 1] = f[k - 1]
        BY <3>2
      <4> QED
        BY <4>1, <3>2, <2>1
    <3> QED
      BY <3>1, <3>2
  <2>6. Sat(g, m + 1)
    BY <2>3, <2>4, <2>5
  <2> HIDE DEF Sat, g
  <2> QED
    BY <2>6
<1>3. n \in T
  <2> HIDE DEF T
  <2>1. \A m \in 0 .. n - 1 : m \in T => m + 1 \in T
    BY <1>2
  <2>2. 0 .. n \subseteq T
    BY <1>1, <2>1, SetInduction
  <2> QED
    BY <2>2
<1> QED
  BY <1>3

\* Of the positions of an element, counted from 0, one is the last.
LEMMA LastMatch ==
  ASSUME NEW S, NEW s \in Seq(S), NEW x \in ToSet(s)
  PROVE  \E i \in 0 .. Len(s) - 1 : s[i + 1] = x /\ \A k \in i + 2 .. Len(s) : s[k] # x
<1> DEFINE P == {i \in 0 .. Len(s) - 1 : s[i + 1] = x}
<1>1. P # {}
  <2>1. PICK j \in 1 .. Len(s) : s[j] = x
    BY DEF ToSet
  <2>2. j - 1 \in P
    BY <2>1
  <2> QED
    BY <2>2
<1>2. P \in SUBSET (0 .. Len(s)) /\ Len(s) \in Nat
  OBVIOUS
<1>3. PICK i \in P : \A y \in P : y <= i
  <2> HIDE DEF P
  <2> QED
    BY <1>1, <1>2, GreatestNat
<1>4. ASSUME NEW k \in i + 2 .. Len(s), s[k] = x
      PROVE  FALSE
  <2>1. k - 1 \in P
    BY <1>4
  <2> QED
    BY <2>1, <1>3
<1> QED
  BY <1>3, <1>4

\* The position SelectInSeq finds is the first of those it selects from.
LEMMA FirstMatch ==
  ASSUME NEW n \in Nat, NEW I \in SUBSET (1 .. n), I # {}
  PROVE  Min(I) \in I /\ \A y \in I : Min(I) <= y
<1>1. I \in SUBSET Nat
  OBVIOUS
<1>2. \E x \in I : \A y \in I : x <= y
  BY <1>1, LeastNat
<1> QED
  BY <1>2 DEF Min

-----------------------------------------------------------------------------
(* Sequences and their elements.                                           *)

LEMMA Arithmetic ==
  ASSUME NEW a \in Nat, NEW b \in Nat
  PROVE  /\ a + b \in Nat
         /\ \A n \in 1 .. a + b : ~ n <= a => n - a \in 1 .. b
OBVIOUS

LEMMA LengthTyped ==
  ASSUME NEW S, NEW s \in Seq(S)
  PROVE  Len(s) \in Nat /\ DOMAIN s = 1 .. Len(s)
OBVIOUS

LEMMA ElementTyped ==
  ASSUME NEW S, NEW s \in Seq(S), NEW i \in DOMAIN s
  PROVE  s[i] \in S
OBVIOUS

LEMMA ToSetElement ==
  ASSUME NEW S, NEW s \in Seq(S), NEW x \in ToSet(s)
  PROVE  x \in S /\ \E i \in 1 .. Len(s) : s[i] = x
BY DEF ToSet

LEMMA RemoveAtSeq ==
  ASSUME NEW S, NEW s \in Seq(S), NEW i \in 1 .. Len(s)
  PROVE  RemoveAt(s, i) \in Seq(S)
<1>1. SubSeq(s, 1, i - 1) \in Seq(S)
  BY SubSeqProperties
<1>2. SubSeq(s, i + 1, Len(s)) \in Seq(S)
  BY SubSeqProperties
<1> QED
  BY <1>1, <1>2, ConcatProperties DEF RemoveAt

\* A function over a sequence's positions that yields elements of S.
LEMMA MapSeq ==
  ASSUME NEW S, NEW n \in Nat, NEW f \in [1 .. n -> S]
  PROVE  f \in Seq(S)
BY SeqDef

-----------------------------------------------------------------------------
(***************************************************************************)
(* FlattenSeq.  Where each element of a concatenation comes from: off[i]   *)
(* is the length of the first i sequences together.                        *)
(***************************************************************************)
IsOffset(off, seqs, n) ==
  /\ off \in [0 .. n -> Nat]
  /\ off[0] = 0
  /\ \A i \in 1 .. n : off[i] = off[i - 1] + Len(seqs[i])

LEMMA OffsetExists ==
  ASSUME NEW S, NEW n \in Nat, NEW seqs \in [1 .. n -> Seq(S)]
  PROVE  \E off : IsOffset(off, seqs, n)
<1> DEFINE G == [k \in 1 .. n |-> [m \in Nat |-> m + Len(seqs[k])]]
<1>1. \A k \in 1 .. n : Len(seqs[k]) \in Nat
  OBVIOUS
<1>2. G \in [1 .. n -> [Nat -> Nat]]
  BY <1>1
<1>3. \E off : IsRecursion(off, Nat, 0, n, G)
  <2> HIDE DEF G
  <2> QED
    BY <1>2, RecursionExists
<1>4. PICK off : IsRecursion(off, Nat, 0, n, G)
  BY <1>3
<1>5. off \in [0 .. n -> Nat] /\ off[0] = 0
  BY <1>4 DEF IsRecursion
<1>6. ASSUME NEW i \in 1 .. n PROVE off[i] = off[i - 1] + Len(seqs[i])
  <2>1. off[i] = G[i][off[i - 1]]
    BY <1>4 DEF IsRecursion
  <2>2. off[i - 1] \in Nat
    BY <1>5
  <2> QED
    BY <2>1, <2>2
<1> QED
  BY <1>5, <1>6 DEF IsOffset

LEMMA OffsetMonotone ==
  ASSUME NEW n \in Nat, NEW seqs, NEW off, IsOffset(off, seqs, n),
         \A i \in 1 .. n : Len(seqs[i]) \in Nat,
         NEW j \in 0 .. n, NEW i \in 0 .. j
  PROVE  off[i] <= off[j]
<1> DEFINE T == {d \in Nat : i + d <= n => off[i] <= off[i + d]}
<1>1. 0 \in T
  BY DEF IsOffset
<1>2. ASSUME NEW d \in 0 .. n - 1, d \in T PROVE d + 1 \in T
  <2>1. SUFFICES ASSUME i + (d + 1) <= n PROVE off[i] <= off[i + (d + 1)]
    OBVIOUS
  <2>2. PICK m \in 1 .. n : m = i + (d + 1)
    BY <2>1
  <2>3. off[m] = off[m - 1] + Len(seqs[m]) /\ Len(seqs[m]) \in Nat
    BY DEF IsOffset
  <2>4. off[i] <= off[m - 1]
    BY <1>2, <2>2
  <2>5. off[m - 1] \in Nat /\ off[i] \in Nat
    BY <2>2 DEF IsOffset
  <2> QED
    BY <2>2, <2>3, <2>4, <2>5
<1>3. 0 .. n \subseteq T
  <2> HIDE DEF T
  <2> QED
    BY <1>1, <1>2, SetInduction
<1>4. j - i \in 0 .. n /\ i + (j - i) = j
  OBVIOUS
<1> QED
  BY <1>3, <1>4

\* The concatenations of the first i sequences, for every i.
IsFlattening(f, S, seqs, n) ==
  /\ f \in [1 .. n -> Seq(S)]
  /\ f[1] = seqs[1]
  /\ \A i \in 2 .. n : f[i] = f[i - 1] \o seqs[i]
  /\ FlattenSeq(seqs) = f[n]

LEMMA FlattenDef ==
  ASSUME NEW S, NEW n \in Nat \ {0}, NEW seqs \in [1 .. n -> Seq(S)]
  PROVE  \E f : IsFlattening(f, S, seqs, n)
<1> DEFINE G == [k \in 1 .. n - 1 |-> [s \in Seq(S) |-> s \o seqs[k + 1]]]
<1>1. G \in [1 .. n - 1 -> [Seq(S) -> Seq(S)]]
  OBVIOUS
<1>2. seqs[1] \in Seq(S) /\ n - 1 \in Nat
  OBVIOUS
<1>3. \E g : IsRecursion(g, Seq(S), seqs[1], n - 1, G)
  <2> DEFINE m == n - 1
             first == seqs[1]
  <2>1. first \in Seq(S) /\ m \in Nat /\ G \in [1 .. m -> [Seq(S) -> Seq(S)]]
    BY <1>1, <1>2
  <2> HIDE DEF G, m, first
  <2>2. \E g : IsRecursion(g, Seq(S), first, m, G)
    BY <2>1, RecursionExists
  <2> QED
    BY <2>2 DEF m, first
<1>4. PICK g : IsRecursion(g, Seq(S), seqs[1], n - 1, G)
  BY <1>3
<1>5. /\ g \in [0 .. n - 1 -> Seq(S)]
      /\ g[0] = seqs[1]
      /\ \A k \in 1 .. n - 1 : g[k] = G[k][g[k - 1]]
  BY <1>4 DEF IsRecursion
<1>6. ASSUME NEW k \in 1 .. n - 1 PROVE g[k] = g[k - 1] \o seqs[k + 1]
  <2>1. g[k - 1] \in Seq(S)
    BY <1>5
  <2> QED
    BY <1>5, <2>1
<1> HIDE DEF G
<1> DEFINE f == [i \in 1 .. n |-> g[i - 1]]
           F == [i \in 1 .. n |-> IF i = 1 THEN seqs[i] ELSE f[i - 1] \o seqs[i]]
           flat == CHOOSE h : h = [i \in 1 .. n |->
                                     IF i = 1 THEN seqs[i] ELSE h[i - 1] \o seqs[i]]
<1>7. f \in [1 .. n -> Seq(S)] /\ f[1] = seqs[1]
  BY <1>5
<1>8. ASSUME NEW i \in 2 .. n PROVE f[i] = f[i - 1] \o seqs[i]
  <2>1. PICK k \in 1 .. n - 1 : k = i - 1
    OBVIOUS
  <2>2. f[i] = g[k] /\ f[i - 1] = g[k - 1] /\ k + 1 = i
    BY <2>1
  <2> QED
    BY <1>6, <2>2
<1>9. f = F
  <2>1. ASSUME NEW i \in 1 .. n PROVE f[i] = F[i]
    <3> HIDE DEF f
    <3>1. CASE i = 1
      BY <3>1, <1>7
    <3>2. CASE i \in 2 .. n
      <4>1. F[i] = f[i - 1] \o seqs[i]
        BY <3>2
      <4> HIDE DEF F
      <4> QED
        BY <3>2, <4>1, <1>8
    <3> QED
      BY <3>1, <3>2
  <2>2. DOMAIN f = 1 .. n /\ DOMAIN F = 1 .. n
    OBVIOUS
  <2>3. f = [i \in 1 .. n |-> f[i]] /\ F = [i \in 1 .. n |-> F[i]]
    OBVIOUS
  <2> HIDE DEF f, F
  <2> QED
    BY <2>1, <2>3
<1>10. flat = [i \in 1 .. n |-> IF i = 1 THEN seqs[i] ELSE flat[i - 1] \o seqs[i]]
  <2> HIDE DEF f
  <2> QED
    BY <1>9
<1>11. FlattenSeq(seqs) = flat[n]
  <2>1. Len(seqs) = n
    OBVIOUS
  <2> QED
    BY <2>1 DEF FlattenSeq
<1>12. \A i \in 1 .. n : flat[i] = IF i = 1 THEN seqs[i] ELSE flat[i - 1] \o seqs[i]
  <2> HIDE DEF flat
  <2> QED
    BY <1>10
<1> HIDE DEF f, F, flat
<1>13. flat[n] = f[n]
  <2> DEFINE T == {k \in Nat : flat[k + 1] = f[k + 1]}
  <2>1. 0 \in T
    BY <1>7, <1>12
  <2>2. ASSUME NEW k \in 0 .. (n - 1) - 1, k \in T PROVE k + 1 \in T
    <3>1. PICK i \in 2 .. n : i = k + 2
      OBVIOUS
    <3>2. flat[i - 1] = f[i - 1]
      BY <2>2, <3>1
    <3>3. flat[i] = flat[i - 1] \o seqs[i] /\ f[i] = f[i - 1] \o seqs[i]
      <4>1. i \in 1 .. n /\ i # 1
        OBVIOUS
      <4>2. flat[i] = IF i = 1 THEN seqs[i] ELSE flat[i - 1] \o seqs[i]
        BY <4>1, <1>12
      <4> QED
        BY <4>1, <4>2, <1>8, Zenon
    <3>4. flat[i] = f[i]
      BY <3>2, <3>3, Zenon
    <3> QED
      BY <3>1, <3>4
  <2>3. 0 .. n - 1 \subseteq T
    <3> DEFINE m == n - 1
    <3>0. m \in Nat
      OBVIOUS
    <3>1. ASSUME NEW k \in 0 .. m - 1, k \in T PROVE k + 1 \in T
      <4>1. k \in 0 .. (n - 1) - 1
        OBVIOUS
      <4> HIDE DEF T, m
      <4> QED
        BY <2>2, <3>1, <4>1, Zenon
    <3> HIDE DEF T, m
    <3>2. 0 .. m \subseteq T
      BY <2>1, <3>0, <3>1, SetInduction
    <3> QED
      BY <3>2 DEF m
  <2>4. n - 1 \in 0 .. n - 1 /\ (n - 1) + 1 = n
    OBVIOUS
  <2>5. n - 1 \in T
    BY <2>3, <2>4, Zenon
  <2>6. flat[(n - 1) + 1] = f[(n - 1) + 1]
    BY <2>5
  <2> QED
    BY <2>4, <2>6
<1> QED
  BY <1>7, <1>8, <1>11, <1>13 DEF IsFlattening

\* flat holds the sequences one after the other.
Concatenated(flat, off, S, seqs, n) ==
  /\ flat \in Seq(S)
  /\ Len(flat) = off[n]
  /\ \A i \in 1 .. n : \A p \in 1 .. Len(seqs[i]) :
       flat[off[i - 1] + p] = seqs[i][p]

LEMMA FlattenPositions ==
  ASSUME NEW S, NEW n \in Nat, NEW seqs \in [1 .. n -> Seq(S)],
         NEW off, IsOffset(off, seqs, n)
  PROVE  Concatenated(FlattenSeq(seqs), off, S, seqs, n)
<1>1. CASE n = 0
  <2>1. seqs = << >>
    BY <1>1
  <2>2. FlattenSeq(seqs) = seqs
    BY <2>1 DEF FlattenSeq
  <2> QED
    BY <1>1, <2>1, <2>2 DEF IsOffset, Concatenated
<1>2. CASE n # 0
  <2>0. PICK f : IsFlattening(f, S, seqs, n)
    <3>1. n \in Nat \ {0}
      BY <1>2
    <3> QED
      BY <3>1, FlattenDef
  <2>1. /\ f \in [1 .. n -> Seq(S)]
        /\ f[1] = seqs[1]
        /\ \A i \in 2 .. n : f[i] = f[i - 1] \o seqs[i]
        /\ FlattenSeq(seqs) = f[n]
    BY <2>0 DEF IsFlattening
  <2> DEFINE Holds(m) == /\ Len(f[m]) = off[m]
                         /\ \A i \in 1 .. m : \A p \in 1 .. Len(seqs[i]) :
                              f[m][off[i - 1] + p] = seqs[i][p]
             T == {k \in Nat : Holds(k + 1)}
  <2>2. \A i \in 1 .. n : Len(seqs[i]) \in Nat
    OBVIOUS
  <2>3. Holds(1)
    <3>1. off[1] = Len(seqs[1]) /\ off[0] = 0
      BY <1>2, <2>2 DEF IsOffset
    <3> QED
      BY <2>1, <3>1, <2>2
  <2>4. ASSUME NEW k \in 0 .. (n - 1) - 1, k \in T PROVE k + 1 \in T
    <3>1. PICK m \in 2 .. n : m = k + 2
      OBVIOUS
    <3>2. Holds(m - 1)
      BY <2>4, <3>1
    <3>3. f[m - 1] \in Seq(S) /\ seqs[m] \in Seq(S) /\ f[m] = f[m - 1] \o seqs[m]
      <4>1. m - 1 \in 1 .. n /\ m \in 1 .. n
        OBVIOUS
      <4> QED
        BY <4>1, <2>1, Zenon
    <3>4. /\ Len(f[m]) = Len(f[m - 1]) + Len(seqs[m])
          /\ \A p \in 1 .. Len(f[m - 1]) : f[m][p] = f[m - 1][p]
          /\ \A p \in 1 .. Len(seqs[m]) : f[m][Len(f[m - 1]) + p] = seqs[m][p]
      <4> DEFINE a == f[m - 1]
                 b == seqs[m]
      <4>1. a \in Seq(S) /\ b \in Seq(S) /\ f[m] = a \o b
        BY <3>3
      <4> HIDE DEF a, b
      <4>2. /\ Len(a \o b) = Len(a) + Len(b)
            /\ Len(a) \in Nat /\ Len(b) \in Nat
            /\ \A i \in 1 .. Len(a) + Len(b) :
                 (a \o b)[i] = IF i <= Len(a) THEN a[i] ELSE b[i - Len(a)]
        BY <4>1, ConcatProperties
      <4>3. /\ Len(f[m]) = Len(a) + Len(b)
            /\ \A p \in 1 .. Len(a) : f[m][p] = a[p]
            /\ \A p \in 1 .. Len(b) : f[m][Len(a) + p] = b[p]
        BY <4>1, <4>2
      <4> QED
        BY <4>3 DEF a, b
    <3>5. Len(f[m]) = off[m]
      <4>1. m \in 1 .. n /\ off[m] = off[m - 1] + Len(seqs[m])
        BY DEF IsOffset
      <4> QED
        BY <4>1, <3>2, <3>4
    <3>6. ASSUME NEW i \in 1 .. m, NEW p \in 1 .. Len(seqs[i])
          PROVE  f[m][off[i - 1] + p] = seqs[i][p]
      <4>1. CASE i = m
        BY <4>1, <3>2, <3>4
      <4>2. CASE i \in 1 .. m - 1
        <5>1. f[m - 1][off[i - 1] + p] = seqs[i][p]
          BY <4>2, <3>2
        <5>2. off[i] <= off[m - 1]
          <6>1. i \in 0 .. m - 1 /\ m - 1 \in 0 .. n
            BY <4>2
          <6> QED
            BY <6>1, <2>2, OffsetMonotone
        <5>3. /\ off[i] = off[i - 1] + Len(seqs[i])
              /\ off[i - 1] \in Nat /\ Len(seqs[i]) \in Nat
              /\ off[m - 1] \in Nat
          <6>1. i \in 1 .. n /\ i - 1 \in 0 .. n /\ m - 1 \in 0 .. n
            BY <4>2
          <6> QED
            BY <6>1, <2>2 DEF IsOffset
        <5>4. off[i - 1] + p \in 1 .. Len(f[m - 1])
          <6>1. Len(f[m - 1]) = off[m - 1]
            BY <3>2
          <6> QED
            BY <5>2, <5>3, <6>1
        <5> QED
          BY <5>1, <5>4, <3>4
      <4> QED
        BY <4>1, <4>2
    <3>7. Holds(k + 2)
      BY <3>1, <3>5, <3>6
    <3> HIDE DEF Holds
    <3> QED
      BY <3>7
  <2>5. Holds(n)
    <3> DEFINE h == n - 1
    <3>1. h \in Nat /\ 0 \in T /\ h + 1 = n
      BY <1>2, <2>3
    <3>2. \A k \in 0 .. h - 1 : k \in T => k + 1 \in T
      BY <2>4
    <3> HIDE DEF T, h
    <3>3. 0 .. h \subseteq T
      BY <3>1, <3>2, SetInduction
    <3>4. h \in T
      BY <3>1, <3>3
    <3> USE DEF T
    <3> HIDE DEF Holds
    <3> QED
      BY <3>1, <3>4
  <2>6. f[n] \in Seq(S)
    BY <1>2, <2>1
  <2> QED
    BY <2>1, <2>5, <2>6 DEF Concatenated
<1> QED
  BY <1>1, <1>2

\* Every position of the concatenation lies in one of the sequences.
InSequence(x, off, seqs, n) ==
  \E i \in 1 .. n : \E p \in 1 .. Len(seqs[i]) : x = off[i - 1] + p

LEMMA PositionOf ==
  ASSUME NEW n \in Nat, NEW seqs, NEW off, IsOffset(off, seqs, n),
         \A i \in 1 .. n : Len(seqs[i]) \in Nat,
         NEW x \in 1 .. off[n]
  PROVE  InSequence(x, off, seqs, n)
<1> DEFINE T == {i \in 0 .. n : x <= off[i]}
<1>1. n \in T /\ T \in SUBSET Nat
  BY DEF IsOffset
<1>2. PICK i \in T : \A y \in T : i <= y
  <2> HIDE DEF T
  <2> QED
    BY <1>1, LeastNat
<1>3. i # 0
  BY <1>2 DEF IsOffset
<1>4. i \in 1 .. n /\ i - 1 \in 0 .. n /\ i - 1 \notin T
  BY <1>2, <1>3
<1>5. /\ off[i - 1] \in Nat
      /\ off[i] = off[i - 1] + Len(seqs[i])
      /\ Len(seqs[i]) \in Nat
  BY <1>4 DEF IsOffset
<1>6. off[i - 1] < x /\ x <= off[i]
  BY <1>2, <1>4, <1>5
<1>7. x - off[i - 1] \in 1 .. Len(seqs[i])
  BY <1>5, <1>6
<1> QED
  BY <1>4, <1>5, <1>7 DEF InSequence

\* One sequence grows by one element, and so does the concatenation.
GrownAt(i, s, t, n) ==
  /\ Len(t[i]) = Len(s[i]) + 1
  /\ \A j \in 1 .. n : j # i => t[j] = s[j]

LEMMA FlattenGrows ==
  ASSUME NEW S, NEW n \in Nat,
         NEW s \in [1 .. n -> Seq(S)], NEW t \in [1 .. n -> Seq(S)],
         NEW i \in 1 .. n,
         GrownAt(i, s, t, n)
  PROVE  Len(FlattenSeq(t)) = Len(FlattenSeq(s)) + 1
<1>1. PICK a : IsOffset(a, s, n)
  BY OffsetExists
<1>2. PICK b : IsOffset(b, t, n)
  BY OffsetExists
<1>3. Len(FlattenSeq(s)) = a[n] /\ Len(FlattenSeq(t)) = b[n]
  <2>1. Len(FlattenSeq(s)) = a[n]
    <3>1. Concatenated(FlattenSeq(s), a, S, s, n)
      BY <1>1, FlattenPositions
    <3> QED
      BY <3>1 DEF Concatenated
  <2>2. Len(FlattenSeq(t)) = b[n]
    <3>1. Concatenated(FlattenSeq(t), b, S, t, n)
      BY <1>2, FlattenPositions
    <3> QED
      BY <3>1 DEF Concatenated
  <2> QED
    BY <2>1, <2>2
<1> DEFINE T == {j \in 0 .. n : b[j] = IF j < i THEN a[j] ELSE a[j] + 1}
<1>4. 0 \in T
  BY <1>1, <1>2 DEF IsOffset
<1>5. ASSUME NEW j \in 0 .. n - 1, j \in T PROVE j + 1 \in T
  <2>1. PICK k \in 1 .. n : k = j + 1
    OBVIOUS
  <2>2. b[k - 1] = IF k - 1 < i THEN a[k - 1] ELSE a[k - 1] + 1
    BY <1>5, <2>1
  <2>3. a[k] = a[k - 1] + Len(s[k]) /\ b[k] = b[k - 1] + Len(t[k])
    BY <1>1, <1>2 DEF IsOffset
  <2>4. a[k - 1] \in Nat
    BY <1>1 DEF IsOffset
  <2>5. /\ s[k] \in Seq(S) /\ Len(s[k]) \in Nat
        /\ Len(t[k]) = IF k = i THEN Len(s[k]) + 1 ELSE Len(s[k])
    BY DEF GrownAt
  <2>6. b[k] = IF k < i THEN a[k] ELSE a[k] + 1
    <3>1. CASE k < i
      BY <3>1, <2>2, <2>3, <2>4, <2>5
    <3>2. CASE k = i
      <4>1. k - 1 < i
        BY <3>2
      <4>2. b[k - 1] = a[k - 1] /\ Len(t[k]) = Len(s[k]) + 1
        BY <3>2, <4>1, <2>2, <2>5
      <4>3. \A x, y \in Nat : x + (y + 1) = (x + y) + 1
        OBVIOUS
      <4>4. b[k] = a[k - 1] + (Len(s[k]) + 1)
        BY <4>2, <2>3
      <4>5. b[k] = a[k] + 1
        BY <4>3, <4>4, <2>3, <2>4, <2>5
      <4> QED
        BY <3>2, <4>5
    <3>3. CASE k > i
      BY <3>3, <2>2, <2>3, <2>4, <2>5
    <3> QED
      BY <3>1, <3>2, <3>3
  <2> QED
    BY <2>1, <2>6
<1>6. n \in T
  <2> HIDE DEF T
  <2>1. 0 .. n \subseteq T
    BY <1>4, <1>5, SetInduction
  <2> QED
    BY <2>1
<1> QED
  BY <1>3, <1>6

=============================================================================
