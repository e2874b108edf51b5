------------------------- MODULE ModelImport_proofs -------------------------
(***************************************************************************)
(* Proofs about module ModelImport: what the tables hold after any runs,   *)
(* and that the model handed to the generator is the one in the files.     *)
(***************************************************************************)
EXTENDS ModelImport, Induction

-----------------------------------------------------------------------------
(***************************************************************************)
(* Chosen: the rows at the given places, in their order.                   *)
(***************************************************************************)
IsChosen(f, S, s, good, n) ==
  /\ f \in [0 .. n -> Seq(S)]
  /\ f[0] = << >>
  /\ \A i \in 1 .. n : f[i] = IF i \in good THEN Append(f[i - 1], s[i]) ELSE f[i - 1]

LEMMA ChosenDef ==
  ASSUME NEW S, NEW s \in Seq(S), NEW good
  PROVE  \E f : IsChosen(f, S, s, good, Len(s)) /\ Chosen(s, good) = f[Len(s)]
<1> DEFINE n == Len(s)
           G == [k \in 1 .. n |-> [acc \in Seq(S) |->
                   IF k \in good THEN Append(acc, s[k]) ELSE acc]]
           F(h) == [i \in 0 .. n |->
                      IF i = 0 THEN << >>
                      ELSE IF i \in good THEN Append(h[i - 1], s[i]) ELSE h[i - 1]]
           kept == CHOOSE h : h = F(h)
<1>1. n \in Nat /\ \A k \in 1 .. n : s[k] \in S
  OBVIOUS
<1>2. \E g : IsRecursion(g, Seq(S), << >>, n, G)
  <2>1. << >> \in Seq(S)
    OBVIOUS
  <2>2. G \in [1 .. n -> [Seq(S) -> Seq(S)]]
    BY <1>1
  <2> HIDE DEF G, n
  <2> QED
    BY <1>1, <2>1, <2>2, RecursionExists
<1>3. PICK g : IsRecursion(g, Seq(S), << >>, n, G)
  BY <1>2
<1>4. /\ g \in [0 .. n -> Seq(S)] /\ g[0] = << >>
      /\ \A k \in 1 .. n : g[k] = G[k][g[k - 1]]
  BY <1>3 DEF IsRecursion
<1>5. ASSUME NEW k \in 1 .. n
      PROVE  g[k] = IF k \in good THEN Append(g[k - 1], s[k]) ELSE g[k - 1]
  <2>1. g[k - 1] \in Seq(S)
    BY <1>1, <1>4
  <2>2. G[k][g[k - 1]] = IF k \in good THEN Append(g[k - 1], s[k]) ELSE g[k - 1]
    BY <2>1
  <2> HIDE DEF G
  <2> QED
    BY <1>4, <2>2, Zenon
<1>6. g = F(g)
  <2>1. DOMAIN g = 0 .. n
    BY <1>4
  <2>2. ASSUME NEW i \in 0 .. n PROVE g[i] = F(g)[i]
    <3>1. CASE i = 0
      BY <3>1, <1>4
    <3>2. CASE i \in 1 .. n
      <4>1. i # 0
        BY <3>2
      <4>2. F(g)[i] = IF i \in good THEN Append(g[i - 1], s[i]) ELSE g[i - 1]
        BY <4>1
      <4> HIDE DEF F
      <4> QED
        BY <3>2, <4>2, <1>5, Zenon
    <3> QED
      BY <3>1, <3>2, <1>1
  <2>3. g = [i \in 0 .. n |-> g[i]] /\ F(g) = [i \in 0 .. n |-> F(g)[i]]
    BY <1>4
  <2> HIDE DEF F
  <2> QED
    BY <2>2, <2>3, Zenon
<1>7. kept = F(kept)
  <2> HIDE DEF F
  <2> QED
    BY <1>6
<1>8. Chosen(s, good) = kept[n]
  BY DEF Chosen
<1> HIDE DEF kept
<1>9. /\ DOMAIN kept = 0 .. n
      /\ \A i \in 0 .. n : kept[i] =
           IF i = 0 THEN << >>
           ELSE IF i \in good THEN Append(kept[i - 1], s[i]) ELSE kept[i - 1]
  <2>1. /\ DOMAIN F(kept) = 0 .. n
        /\ \A i \in 0 .. n : F(kept)[i] =
             IF i = 0 THEN << >>
             ELSE IF i \in good THEN Append(kept[i - 1], s[i]) ELSE kept[i - 1]
    OBVIOUS
  <2> HIDE DEF F
  <2> QED
    BY <1>7, <2>1, Zenon
<1>10. kept[0] = << >>
  BY <1>1, <1>9
<1>11. ASSUME NEW i \in 1 .. n
       PROVE  kept[i] = IF i \in good THEN Append(kept[i - 1], s[i]) ELSE kept[i - 1]
  <2>1. i \in 0 .. n /\ i # 0
    OBVIOUS
  <2> QED
    BY <1>9, <2>1, Zenon
<1> HIDE DEF n, F, G
<1> DEFINE T == {m \in 0 .. n : kept[m] \in Seq(S)}
<1>12. 0 .. n \subseteq T
  <2>1. 0 \in T
    <3>1. kept[0] \in Seq(S)
      BY <1>10
    <3> HIDE DEF kept
    <3> QED
      BY <1>1, <3>1
  <2>2. ASSUME NEW m \in 0 .. n - 1, m \in T PROVE m + 1 \in T
    <3>1. PICK i \in 1 .. n : i = m + 1
      BY <1>1
    <3>2. i - 1 = m /\ kept[i - 1] \in Seq(S) /\ s[i] \in S
      BY <1>1, <2>2, <3>1
    <3>3. kept[i] \in Seq(S)
      <4>1. CASE i \in good
        <5>1. kept[i] = Append(kept[i - 1], s[i])
          BY <4>1, <1>11
        <5>2. Append(kept[i - 1], s[i]) \in Seq(S)
          BY <3>2
        <5> QED
          BY <5>1, <5>2
      <4>2. CASE i \notin good
        BY <4>2, <1>11, <3>2
      <4> QED
        BY <4>1, <4>2
    <3> QED
      BY <1>1, <3>1, <3>3
  <2> HIDE DEF T
  <2> QED
    BY <1>1, <2>1, <2>2, SetInduction
<1>13. kept \in [0 .. n -> Seq(S)]
  <2>1. kept = [i \in 0 .. n |-> kept[i]]
    <3>1. kept = [i \in DOMAIN kept |-> kept[i]]
      BY <1>7 DEF F
    <3> QED
      BY <1>9, <3>1
  <2>2. \A i \in 0 .. n : kept[i] \in Seq(S)
    BY <1>12
  <2> QED
    BY <2>1, <2>2
<1>14. IsChosen(kept, S, s, good, n)
  BY <1>10, <1>11, <1>13 DEF IsChosen
<1> QED
  BY <1>8, <1>14 DEF n

(***************************************************************************)
(* The places alone, in their order: what is chosen of any rows are the    *)
(* rows at these.                                                          *)
(***************************************************************************)
Places(n, good) == Chosen([i \in 1 .. n |-> i], good)

RowsAt(s, p) == [k \in 1 .. Len(p) |-> s[p[k]]]

LEMMA ChosenRows ==
  ASSUME NEW S, NEW s \in Seq(S), NEW good
  PROVE  /\ Places(Len(s), good) \in Seq(good \cap 1 .. Len(s))
         /\ Chosen(s, good) = RowsAt(s, Places(Len(s), good))
         /\ Chosen(s, good) \in Seq(S)
<1> DEFINE id == [i \in 1 .. Len(s) |-> i]
<1>1. PICK n \in Nat : n = Len(s)
  OBVIOUS
<1>2. id \in Seq(1 .. n) /\ Len(id) = n /\ \A i \in 1 .. n : id[i] = i
  BY <1>1
<1> HIDE DEF id
<1>3. PICK f : IsChosen(f, S, s, good, n) /\ Chosen(s, good) = f[n]
  BY <1>1, ChosenDef
<1>4. PICK g : IsChosen(g, 1 .. n, id, good, n) /\ Chosen(id, good) = g[n]
  BY <1>2, ChosenDef
<1>5. /\ f \in [0 .. n -> Seq(S)] /\ f[0] = << >>
      /\ \A i \in 1 .. n : f[i] = IF i \in good THEN Append(f[i - 1], s[i]) ELSE f[i - 1]
  BY <1>3 DEF IsChosen
<1>6. /\ g \in [0 .. n -> Seq(1 .. n)] /\ g[0] = << >>
      /\ \A i \in 1 .. n : g[i] = IF i \in good THEN Append(g[i - 1], id[i]) ELSE g[i - 1]
  BY <1>4 DEF IsChosen
<1> DEFINE R(m) == g[m] \in Seq(good \cap 1 .. n) /\ f[m] = RowsAt(s, g[m])
           T == {m \in 0 .. n : R(m)}
<1>7. R(0)
  BY <1>5, <1>6 DEF RowsAt
<1>8. ASSUME NEW m \in 0 .. n - 1, R(m) PROVE R(m + 1)
  <2>1. PICK i \in 1 .. n : i = m + 1
    OBVIOUS
  <2>2. i - 1 = m /\ s[i] \in S /\ id[i] = i
    BY <1>1, <1>2, <2>1
  <2>3. R(i)
    <3>1. CASE i \in good
      <4>1. f[i] = Append(f[m], s[i]) /\ g[i] = Append(g[m], i)
        BY <1>5, <1>6, <2>2, <3>1
      <4>2. i \in good \cap 1 .. n
        BY <3>1
      <4> DEFINE p == g[m]
      <4>3. p \in Seq(good \cap 1 .. n) /\ f[m] = RowsAt(s, p)
        BY <1>8
      <4> HIDE DEF p
      <4>4. Append(p, i) \in Seq(good \cap 1 .. n)
        BY <4>2, <4>3
      <4>5. Append(RowsAt(s, p), s[i]) = RowsAt(s, Append(p, i))
        <5>1. PICK l \in Nat : l = Len(p)
          BY <4>3
        <5>2. /\ Len(Append(p, i)) = l + 1 /\ Append(p, i)[l + 1] = i
              /\ \A k \in 1 .. l : Append(p, i)[k] = p[k]
          BY <4>3, <5>1
        <5>3. RowsAt(s, p) = [k \in 1 .. l |-> s[p[k]]]
          BY <5>1 DEF RowsAt
        <5>4. RowsAt(s, p) \in Seq(S) /\ Len(RowsAt(s, p)) = l
          <6>1. \A k \in 1 .. l : p[k] \in 1 .. n
            BY <4>3, <5>1
          <6>2. \A k \in 1 .. l : s[p[k]] \in S
            BY <1>1, <6>1
          <6>3. [k \in 1 .. l |-> s[p[k]]] \in [1 .. l -> S]
            BY <6>2
          <6>4. [k \in 1 .. l |-> s[p[k]]] \in Seq(S)
            BY <6>3, MapSeq
          <6> QED
            BY <5>3, <6>4
        <5> DEFINE a == Append(RowsAt(s, p), s[i])
                   b == RowsAt(s, Append(p, i))
        <5>5. /\ a \in Seq(S) /\ Len(a) = l + 1 /\ a[l + 1] = s[i]
              /\ \A k \in 1 .. l : a[k] = RowsAt(s, p)[k]
          BY <5>4, <2>2
        <5>6. b = [k \in 1 .. l + 1 |-> s[Append(p, i)[k]]]
          BY <5>2 DEF RowsAt
        <5>7. a = [k \in 1 .. l + 1 |-> a[k]]
          <6> HIDE DEF a
          <6> QED
            BY <5>5
        <5>8. ASSUME NEW k \in 1 .. l + 1 PROVE a[k] = s[Append(p, i)[k]]
          <6> HIDE DEF a
          <6>1. CASE k = l + 1
            BY <6>1, <5>2, <5>5
          <6>2. CASE k \in 1 .. l
            <7>1. a[k] = RowsAt(s, p)[k] /\ Append(p, i)[k] = p[k]
              BY <6>2, <5>2, <5>5, Zenon
            <7>2. RowsAt(s, p)[k] = s[p[k]]
              BY <6>2, <5>3
            <7> QED
              BY <7>1, <7>2
          <6>3. k = l + 1 \/ k \in 1 .. l
            OBVIOUS
          <6> HIDE DEF b
          <6> QED
            BY <6>1, <6>2, <6>3, Zenon
        <5> HIDE DEF a, b
        <5>9. a = b
          BY <5>6, <5>7, <5>8
        <5> QED
          BY <5>9 DEF a, b
      <4>6. g[i] = Append(p, i) /\ f[i] = Append(RowsAt(s, p), s[i])
        BY <4>1, <4>3 DEF p
      <4> QED
        BY <4>4, <4>5, <4>6
    <3>2. CASE i \notin good
      <4>1. f[i] = f[m] /\ g[i] = g[m]
        BY <1>5, <1>6, <2>2, <3>2
      <4> QED
        BY <4>1, <1>8
    <3> QED
      BY <3>1, <3>2
  <2> QED
    BY <2>1, <2>3
<1>9. R(n)
  <2> HIDE DEF R
  <2>1. 0 \in T
    BY <1>7
  <2>2. \A m \in 0 .. n - 1 : m \in T => m + 1 \in T
    BY <1>8
  <2> HIDE DEF T
  <2>3. 0 .. n \subseteq T
    BY <2>1, <2>2, SetInduction
  <2>4. n \in T
    BY <2>3
  <2> QED
    BY <2>4 DEF T
<1>10. Places(Len(s), good) = g[n]
  BY <1>4 DEF Places, id
<1>11. f[n] \in Seq(S)
  BY <1>5
<1> QED
  BY <1>1, <1>3, <1>9, <1>10, <1>11

-----------------------------------------------------------------------------
(***************************************************************************)
(* get_hashtable.  The position of a name is that of its first occurrence, *)
(* and -1 if there is none.                                                *)
(***************************************************************************)
LEMMA IndexDef ==
  ASSUME NEW names \in Seq(STRING), NEW name
  PROVE  \/ Index(names, name) = -1 /\ name \notin ToSet(names)
         \/ /\ Index(names, name) \in 0 .. Len(names) - 1
            /\ names[Index(names, name) + 1] = name
            /\ \A k \in 1 .. Index(names, name) : names[k] # name
<1> DEFINE I == {i \in 1 .. Len(names) : names[i] = name}
           at == SelectInSeq(names, LAMBDA n : n = name)
<1>1. at = IF I # {} THEN Min(I) ELSE 0
  BY DEF SelectInSeq
<1>2. Index(names, name) = at - 1
  BY DEF Index
<1>3. PICK l \in Nat : l = Len(names)
  OBVIOUS
<1>4. CASE I = {}
  <2>1. name \notin ToSet(names)
    BY <1>4 DEF ToSet
  <2>2. at = 0
    BY <1>1, <1>4
  <2>3. Index(names, name) = -1
    BY <1>2, <2>2
  <2> QED
    BY <2>1, <2>3
<1>5. CASE I # {}
  <2>1. at = Min(I)
    BY <1>1, <1>5
  <2>2. I \in SUBSET (1 .. l)
    BY <1>3
  <2>3. Min(I) \in I /\ \A y \in I : Min(I) <= y
    <3> HIDE DEF I
    <3> QED
      BY <1>5, <2>2, FirstMatch
  <2>4. at \in 1 .. l /\ names[at] = name
    BY <2>1, <2>3, <1>3
  <2>5. ASSUME NEW k \in 1 .. at - 1 PROVE names[k] # name
    <3>1. k \in 1 .. l /\ ~ at <= k
      BY <2>4
    <3>2. k \notin I
      BY <2>1, <2>3, <3>1
    <3> QED
      BY <3>1, <3>2, <1>3
  <2> HIDE DEF at
  <2> QED
    BY <1>2, <1>3, <2>4, <2>5
<1> QED
  BY <1>4, <1>5

\* A position is a number, and that of a name that is there is in range.
LEMMA IndexTyped ==
  ASSUME NEW names \in Seq(STRING), NEW name
  PROVE  Index(names, name) \in Int
BY IndexDef

LEMMA IndexOfDeclared ==
  ASSUME NEW names \in Seq(STRING), NEW name \in ToSet(names)
  PROVE  /\ Index(names, name) \in 0 .. Len(names) - 1
         /\ names[Index(names, name) + 1] = name
BY IndexDef

\* get_hashtable gives the first position, and -1 where there is none.
LEMMA IndexIsFirst ==
  ASSUME NEW names \in Seq(STRING), NEW name
  PROVE  Index(names, name) = First(names, name)
<1> DEFINE FirstAt(i) == names[i + 1] = name /\ \A k \in 1 .. i : names[k] # name
<1>1. CASE name \notin ToSet(names)
  <2>1. Index(names, name) = -1
    BY <1>1, IndexOfDeclared, IndexDef DEF ToSet
  <2> QED
    BY <1>1, <2>1 DEF First
<1>2. CASE name \in ToSet(names)
  <2>1. PICK j \in 0 .. Len(names) - 1 : j = Index(names, name) /\ FirstAt(j)
    BY <1>2, IndexDef
  <2>2. ASSUME NEW i \in 0 .. Len(names) - 1, FirstAt(i) PROVE i = j
    <3>1. ~ i < j
      <4>1. i < j => i + 1 \in 1 .. j
        OBVIOUS
      <4> QED
        BY <4>1, <2>1, <2>2
    <3>2. ~ j < i
      <4>1. j < i => j + 1 \in 1 .. i
        OBVIOUS
      <4> QED
        BY <4>1, <2>1, <2>2
    <3> QED
      BY <3>1, <3>2
  <2>3. First(names, name) = CHOOSE i \in 0 .. Len(names) - 1 : FirstAt(i)
    BY <1>2 DEF First
  <2> HIDE DEF FirstAt
  <2> QED
    BY <2>1, <2>2, <2>3
<1> QED
  BY <1>1, <1>2

-----------------------------------------------------------------------------
(***************************************************************************)
(* Collected: what is entered under an id when rows are grouped by         *)
(* comparing each with the one before.                                     *)
(***************************************************************************)
LEMMA GreatestMatch ==
  ASSUME NEW n \in Nat, NEW I \in SUBSET (1 .. n), I # {}
  PROVE  Max(I) \in I /\ \A y \in I : y <= Max(I)
<1>1. I \in SUBSET (0 .. n)
  OBVIOUS
<1>2. \E x \in I : \A y \in I : y <= x
  BY <1>1, GreatestNat
<1>3. \E x \in I : \A y \in I : x >= y
  BY <1>2
<1>4. Max(I) \in I /\ \A y \in I : Max(I) >= y
  BY <1>3 DEF Max
<1> QED
  BY <1>4

\* Rows with one id that stand together are its last block.
LEMMA OneBlock ==
  ASSUME NEW S, NEW ids \in Seq(S), NEW id,
         NEW a \in 1 .. Len(ids), NEW b \in a .. Len(ids),
         \A i \in 1 .. Len(ids) : ids[i] = id <=> i \in a .. b
  PROVE  Entered(ids, id) = a .. b
<1>1. PICK n \in Nat : n = Len(ids) /\ DOMAIN ids = 1 .. n
  OBVIOUS
<1>2. ASSUME NEW i \in a .. b PROVE InLastBlock(ids, i)
  <2>1. SUFFICES ASSUME NEW k \in i .. n, BlockEnds(ids, k),
                        NEW m \in k + 1 .. n, ids[m] = ids[i]
                 PROVE  FALSE
    BY <1>1 DEF InLastBlock
  <2>2. i \in 1 .. n /\ m \in 1 .. n /\ k \in 1 .. n
    BY <1>1
  <2>3. ids[i] = id
    BY <1>1, <2>2
  <2>4. m \in a .. b
    BY <1>1, <2>1, <2>2, <2>3
  <2>5. k \in a .. b /\ k + 1 \in a .. b /\ k + 1 \in 1 .. n /\ k # n
    BY <1>1, <2>2, <2>4
  <2>6. ids[k] = id /\ ids[k + 1] = id
    BY <1>1, <2>2, <2>5
  <2> QED
    BY <1>1, <2>1, <2>5, <2>6 DEF BlockEnds
<1>3. \A i \in 1 .. n : i \in Entered(ids, id) <=> i \in a .. b
  BY <1>1, <1>2 DEF Entered
<1>4. Entered(ids, id) \subseteq 1 .. n /\ a .. b \subseteq 1 .. n
  BY <1>1 DEF Entered
<1> QED
  BY <1>3, <1>4

Column(rows, column) == [i \in DOMAIN rows |-> rows[i][column]]

LEMMA ColumnTyped ==
  ASSUME NEW R, NEW rows \in Seq(R), NEW column
  PROVE  /\ Column(rows, column) \in Seq({r[column] : r \in R})
         /\ Len(Column(rows, column)) = Len(rows)
         /\ \A i \in 1 .. Len(rows) : Column(rows, column)[i] = rows[i][column]
<1>1. PICK n \in Nat : n = Len(rows) /\ DOMAIN rows = 1 .. n
  OBVIOUS
<1>2. \A i \in 1 .. n : rows[i][column] \in {r[column] : r \in R}
  BY <1>1
<1>3. Column(rows, column) = [i \in 1 .. n |-> rows[i][column]]
  BY <1>1 DEF Column
<1>4. Column(rows, column) \in [1 .. n -> {r[column] : r \in R}]
  BY <1>2, <1>3
<1>5. Column(rows, column) \in Seq({r[column] : r \in R})
  BY <1>4, MapSeq
<1> QED
  BY <1>1, <1>3, <1>4, <1>5

LEMMA CollectedDef ==
  ASSUME NEW rows, NEW column, NEW id
  PROVE  Collected(rows, column, id) =
           IF Entered(Column(rows, column), id) = {} THEN << >>
           ELSE SubSeq(rows, Min(Entered(Column(rows, column), id)),
                             Max(Entered(Column(rows, column), id)))
BY DEF Collected, Column

\* Rows of an id that stand together are all entered.
LEMMA CollectedWhole ==
  ASSUME NEW R, NEW rows \in Seq(R), NEW column, NEW id,
         NEW a \in 1 .. Len(rows), NEW b \in a .. Len(rows),
         \A i \in 1 .. Len(rows) : rows[i][column] = id <=> i \in a .. b
  PROVE  Collected(rows, column, id) = SubSeq(rows, a, b)
<1> DEFINE ids == Column(rows, column)
           S == {r[column] : r \in R}
<1>1. /\ ids \in Seq(S) /\ Len(ids) = Len(rows)
      /\ \A i \in 1 .. Len(rows) : ids[i] = rows[i][column]
  BY ColumnTyped
<1> HIDE DEF ids, S
<1>2. Entered(ids, id) = a .. b
  BY <1>1, OneBlock
<1>3. PICK n \in Nat : n = Len(rows)
  OBVIOUS
<1>4. a \in a .. b /\ b \in a .. b /\ a .. b \in SUBSET (1 .. n)
  BY <1>3
<1>5. /\ Min(a .. b) \in a .. b /\ \A y \in a .. b : Min(a .. b) <= y
      /\ Max(a .. b) \in a .. b /\ \A y \in a .. b : y <= Max(a .. b)
  BY <1>4, FirstMatch, GreatestMatch
<1>6. Min(a .. b) = a /\ Max(a .. b) = b
  BY <1>4, <1>5
<1>7. a .. b # {}
  BY <1>4
<1>8. Collected(rows, column, id) =
        IF Entered(ids, id) = {} THEN << >>
        ELSE SubSeq(rows, Min(Entered(ids, id)), Max(Entered(ids, id)))
  BY CollectedDef DEF ids
<1> QED
  BY <1>2, <1>6, <1>7, <1>8

\* Whatever the order of the rows, none is entered under the id of another.
LEMMA CollectedRows ==
  ASSUME NEW R, NEW rows \in Seq(R), NEW column, NEW id
  PROVE  Collected(rows, column, id) \in Seq({r \in ToSet(rows) : r[column] = id})
<1> DEFINE ids == Column(rows, column)
           S == {r[column] : r \in R}
           block == Entered(ids, id)
           a == Min(block)
           b == Max(block)
           own == {r \in ToSet(rows) : r[column] = id}
<1>1. /\ ids \in Seq(S) /\ Len(ids) = Len(rows)
      /\ \A i \in 1 .. Len(rows) : ids[i] = rows[i][column]
  BY ColumnTyped
<1>2. Collected(rows, column, id) =
        IF block = {} THEN << >> ELSE SubSeq(rows, a, b)
  BY CollectedDef
<1> HIDE DEF ids, S
<1>3. PICK n \in Nat : n = Len(rows) /\ DOMAIN rows = 1 .. n /\ DOMAIN ids = 1 .. n
  BY <1>1
<1>4. CASE block = {}
  BY <1>2, <1>4
<1>5. CASE block # {}
  <2>1. block \in SUBSET (1 .. n)
    BY <1>3 DEF Entered
  <2>2. /\ a \in block /\ \A y \in block : a <= y
        /\ b \in block /\ \A y \in block : y <= b
    <3> HIDE DEF block
    <3> QED
      BY <1>5, <2>1, FirstMatch, GreatestMatch
  <2>3. a \in 1 .. n /\ b \in 1 .. n /\ a <= b
    BY <2>1, <2>2
  <2>4. ids[a] = id /\ ids[b] = id /\ InLastBlock(ids, a)
    BY <2>2 DEF Entered
  <2> HIDE DEF block, a, b
  <2>5. \A k \in a .. n : BlockEnds(ids, k) => \A m \in k + 1 .. n : ids[m] # id
    BY <1>1, <1>3, <2>4 DEF InLastBlock
  <2> DEFINE T == {d \in 0 .. b - a : ids[a + d] = id}
  <2>6. 0 .. b - a \subseteq T
    <3>1. 0 \in T
      BY <2>3, <2>4
    <3>2. ASSUME NEW d \in 0 .. (b - a) - 1, d \in T PROVE d + 1 \in T
      <4>1. PICK k \in a .. n : k = a + d
        BY <2>3
      <4>2. k + 1 \in 1 .. n /\ b \in k + 1 .. n
        BY <2>3, <4>1
      <4>3. ids[k] = id
        BY <3>2, <4>1
      <4>4. ~ BlockEnds(ids, k)
        BY <2>4, <2>5, <4>2
      <4>5. ids[k + 1] = id
        BY <4>3, <4>4 DEF BlockEnds
      <4>6. a + (d + 1) = k + 1 /\ d + 1 \in 0 .. b - a
        BY <2>3, <4>1
      <4> QED
        BY <4>5, <4>6
    <3>3. PICK w \in Nat : w = b - a
      BY <2>3
    <3> HIDE DEF T
    <3>4. \A d \in 0 .. w - 1 : d \in T => d + 1 \in T
      BY <3>2, <3>3
    <3>5. 0 .. w \subseteq T
      BY <3>1, <3>4, SetInduction
    <3> QED
      BY <3>3, <3>5
  <2>7. ASSUME NEW j \in a .. b PROVE rows[j] \in own
    <3>1. j - a \in 0 .. b - a /\ a + (j - a) = j /\ j \in 1 .. n
      BY <2>3
    <3>2. j - a \in T
      BY <2>6, <3>1
    <3>3. ids[a + (j - a)] = id
      BY <3>2
    <3>4. ids[j] = id
      BY <3>1, <3>3
    <3>5. rows[j] \in ToSet(rows)
      BY <1>3, <3>1 DEF ToSet
    <3> QED
      BY <1>1, <1>3, <3>1, <3>4, <3>5
  <2>8. SubSeq(rows, a, b) = [q \in 1 .. b - a + 1 |-> rows[q + a - 1]]
    BY <1>3, <2>3
  <2>9. b - a + 1 \in Nat /\ \A q \in 1 .. b - a + 1 : q + a - 1 \in a .. b
    BY <2>3
  <2> HIDE DEF own, T
  <2>10. SubSeq(rows, a, b) \in [1 .. b - a + 1 -> own]
    BY <2>7, <2>8, <2>9
  <2>11. SubSeq(rows, a, b) \in Seq(own)
    BY <2>9, <2>10, MapSeq
  <2>12. Collected(rows, column, id) = SubSeq(rows, a, b)
    BY <1>2, <1>5
  <2> QED
    BY <2>11, <2>12 DEF own
<1> QED
  BY <1>4, <1>5

(***************************************************************************)
(* Rows that were inserted part after part, each part with an id of its    *)
(* own, are read back part by part.                                        *)
(***************************************************************************)
Keyed(seqs, column, key, n) ==
  /\ \A i, j \in 1 .. n : key[i] = key[j] => i = j
  /\ \A i \in 1 .. n : \A p \in 1 .. Len(seqs[i]) : seqs[i][p][column] = key[i]

PartKept(seqs, column, key, i) ==
  Collected(FlattenSeq(seqs), column, key[i]) = seqs[i]

LEMMA CollectedPart ==
  ASSUME NEW R, NEW n \in Nat, NEW seqs \in [1 .. n -> Seq(R)], NEW column, NEW key,
         NEW i \in 1 .. n, Keyed(seqs, column, key, n), seqs[i] # << >>
  PROVE  PartKept(seqs, column, key, i)
<1> DEFINE rows == FlattenSeq(seqs)
<1>1. PICK off : IsOffset(off, seqs, n)
  BY OffsetExists
<1>2. Concatenated(rows, off, R, seqs, n)
  BY <1>1, FlattenPositions
<1> HIDE DEF rows
<1>3. /\ off \in [0 .. n -> Nat] /\ off[i] = off[i - 1] + Len(seqs[i])
      /\ off[i] <= off[n]
  <2>1. \A k \in 1 .. n : Len(seqs[k]) \in Nat
    OBVIOUS
  <2>2. n \in 0 .. n /\ i \in 0 .. n
    OBVIOUS
  <2>3. off[i] <= off[n]
    BY <1>1, <2>1, <2>2, OffsetMonotone
  <2> QED
    BY <1>1, <2>3 DEF IsOffset
<1>4. PICK a \in Nat : a = off[i - 1]
  BY <1>3
<1>5. PICK l \in Nat \ {0} : l = Len(seqs[i])
  <2>1. seqs[i] \in Seq(R)
    OBVIOUS
  <2> QED
    BY <2>1
<1>6. PICK w \in Nat : w = off[n] /\ w = Len(rows) /\ a + l <= w
  BY <1>2, <1>3, <1>4, <1>5 DEF Concatenated
<1>7. \A p \in 1 .. l : rows[a + p] = seqs[i][p]
  BY <1>2, <1>4, <1>5 DEF Concatenated
<1>8. ASSUME NEW x \in 1 .. w
      PROVE  rows[x][column] = key[i] <=> x \in a + 1 .. a + l
  <2>1. ASSUME x \in a + 1 .. a + l PROVE rows[x][column] = key[i]
    <3>1. PICK p \in 1 .. l : x = a + p
      <4>1. x - a \in 1 .. l /\ x = a + (x - a)
        BY <2>1
      <4> QED
        BY <4>1
    <3> QED
      BY <1>5, <1>7, <3>1 DEF Keyed
  <2>2. ASSUME rows[x][column] = key[i] PROVE x \in a + 1 .. a + l
    <3>1. \A k \in 1 .. n : Len(seqs[k]) \in Nat
      OBVIOUS
    <3>2. InSequence(x, off, seqs, n)
      BY <1>1, <1>6, <3>1, PositionOf
    <3>3. PICK j \in 1 .. n : \E p \in 1 .. Len(seqs[j]) : x = off[j - 1] + p
      BY <3>2 DEF InSequence
    <3>4. PICK p \in 1 .. Len(seqs[j]) : x = off[j - 1] + p
      BY <3>3
    <3>5. rows[x] = seqs[j][p]
      BY <1>2, <3>4 DEF Concatenated
    <3>6. key[j] = key[i]
      BY <2>2, <3>5 DEF Keyed
    <3>7. j = i
      BY <3>6 DEF Keyed
    <3> QED
      BY <1>4, <1>5, <3>4, <3>7
  <2> QED
    BY <2>1, <2>2
<1>9. rows \in Seq(R)
  BY <1>2 DEF Concatenated
<1>10. Collected(rows, column, key[i]) = SubSeq(rows, a + 1, a + l)
  <2>1. a + 1 \in 1 .. Len(rows) /\ a + l \in a + 1 .. Len(rows)
    BY <1>6
  <2>2. \A x \in 1 .. Len(rows) : rows[x][column] = key[i] <=> x \in a + 1 .. a + l
    BY <1>6, <1>8
  <2>3. PICK b \in Nat : b = a + 1
    OBVIOUS
  <2>4. PICK c \in Nat : c = a + l
    OBVIOUS
  <2>5. PICK id : id = key[i]
    OBVIOUS
  <2>6. Collected(rows, column, id) = SubSeq(rows, b, c)
    <3>1. b \in 1 .. Len(rows) /\ c \in b .. Len(rows)
      BY <2>1, <2>3, <2>4
    <3>2. \A x \in 1 .. Len(rows) : rows[x][column] = id <=> x \in b .. c
      BY <2>2, <2>3, <2>4, <2>5
    <3> QED
      BY <1>9, <3>1, <3>2, CollectedWhole
  <2> QED
    BY <2>3, <2>4, <2>5, <2>6
<1>11. SubSeq(rows, a + 1, a + l) = seqs[i]
  <2>1. SubSeq(rows, a + 1, a + l) = [q \in 1 .. (a + l) - (a + 1) + 1 |-> rows[q + (a + 1) - 1]]
    BY <1>6, <1>9
  <2>2. (a + l) - (a + 1) + 1 = l /\ \A q \in 1 .. l : q + (a + 1) - 1 = a + q
    OBVIOUS
  <2>3. SubSeq(rows, a + 1, a + l) = [q \in 1 .. l |-> rows[a + q]]
    BY <2>1, <2>2
  <2>4. seqs[i] = [q \in 1 .. l |-> seqs[i][q]]
    <3>1. seqs[i] \in Seq(R)
      OBVIOUS
    <3> QED
      BY <1>5, <3>1
  <2> QED
    BY <1>7, <2>3, <2>4
<1> QED
  BY <1>10, <1>11 DEF rows, PartKept

-----------------------------------------------------------------------------
(***************************************************************************)
(* The inductive invariant.  The tables hold nothing, or all of one        *)
(* network and then perhaps all of one file of exploits, each put there by *)
(* one run; a run past its imports has found them empty, and they are its  *)
(* own; and what it has read back so far is what they hold.                *)
(***************************************************************************)
AssetRow == [id : Int, name : STRING]

QualityRow == [asset_id : Int, property : STRING, op : STRING, value : STRING]

TopologyRow ==
  [asset_from_id : Int, asset_to_id : Int, direction : STRING,
   property : STRING, op : STRING, value : STRING]

ExploitRow == [id : Int, name : STRING, params : Nat]

ConditionType ==
  [exploit_id : Int, type : {"quality", "topology"}, param1 : Int, param2 : Int,
   property : STRING, value : STRING, op : STRING, dir : STRING \cup {"(null)"},
   action : STRING \cup {"none"}]

TableType ==
  [asset : Seq(AssetRow), quality : Seq(QualityRow), topology : Seq(TopologyRow),
   exploit : Seq(ExploitRow), precondition : Seq(ConditionType),
   postcondition : Seq(ConditionType)]

WriterType == [network : SUBSET Nat, exploits : SUBSET Nat, graph : SUBSET Nat]

Typed ==
  /\ run \in 0 .. MaxRuns
  /\ nm \in Networks \cup {NoFile} /\ xp \in ExploitFiles \cup {NoFile}
  /\ phase \in Phases
  /\ outcome \in {"none", "crash", "exit", "abort", "killed", "done"}
  /\ tables \in TableType
  /\ writers \in WriterType

NetworkIn(n) ==
  /\ tables.asset = AssetRows(n)
  /\ tables.quality = QualityRows(n)
  /\ tables.topology = TopologyRows(n)

ExploitsIn(x) ==
  /\ tables.exploit = ExploitRows(x)
  /\ tables.precondition = PreconditionRows(x)
  /\ tables.postcondition = PostconditionRows(x)

NoNetworkIn == tables.asset = << >> /\ tables.quality = << >> /\ tables.topology = << >>

NoExploitsIn ==
  tables.exploit = << >> /\ tables.precondition = << >> /\ tables.postcondition = << >>

NetworkStored ==
  \/ NoNetworkIn /\ writers.network = {}
  \/ \E n \in Networks, r \in 1 .. run :
       n.assets # << >> /\ NetworkIn(n) /\ writers.network = {r}

ExploitsStored ==
  \/ NoExploitsIn /\ writers.exploits = {}
  \/ \E x \in ExploitFiles, r \in 1 .. run :
       x # << >> /\ ExploitsIn(x) /\ writers.exploits = {r}

WritersNested ==
  writers.exploits \subseteq writers.network /\ writers.graph \subseteq writers.exploits

\* The references from qualities and topologies to assets.
ReferencesMet(n) ==
  LET ids == 0 .. Len(n.assets) - 1
  IN  /\ \A r \in ToSet(QualityRows(n)) : r.asset_id \in ids
      /\ \A r \in ToSet(TopologyRows(n)) : r.asset_from_id \in ids /\ r.asset_to_id \in ids

ExploitPhases == {"fetch_topologies", "fetch_assets", "fetch_exploits", "generate"}

NetworkPhases == {"import_xp"} \cup ExploitPhases

Parsed ==
  /\ phase # "idle" => run # 0
  /\ phase \in {"parse_xp", "import_nm"} \cup NetworkPhases =>
       nm = NoFile \/ ~ NetworkCrashes(nm)
  /\ phase \in {"import_nm"} \cup NetworkPhases => xp = NoFile \/ ~ ExploitsCrash(xp)

Imported ==
  /\ phase \in NetworkPhases =>
       /\ nm # NoFile /\ NetworkIn(nm) /\ ReferencesMet(nm)
       /\ writers.network = {run}
  /\ phase \in ExploitPhases =>
       /\ xp # NoFile /\ ExploitsIn(xp)
       /\ writers.exploits = {run}

Fetched ==
  /\ model = [qualities |-> model.qualities, topologies |-> model.topologies,
              assets |-> model.assets, exploits |-> model.exploits]
  /\ phase \in {"fetch_assets", "fetch_exploits", "generate"} =>
       model.qualities = tables.quality /\ model.topologies = tables.topology
  /\ phase \in {"fetch_exploits", "generate"} =>
       model.assets =
         [i \in DOMAIN tables.asset |->
            [name |-> tables.asset[i].name,
             qualities |-> Collected(tables.quality, "asset_id", tables.asset[i].id)]]
  /\ phase = "generate" =>
       /\ ~ Unreadable
       /\ model.exploits =
            [i \in DOMAIN tables.exploit |-> fetch_exploit(tables.exploit[i])]

IInv ==
  /\ Typed /\ NetworkStored /\ ExploitsStored /\ WritersNested
  /\ Parsed /\ Imported /\ Fetched

-----------------------------------------------------------------------------
(* The rows made of a file.                                                *)

LEMMA MapRows ==
  ASSUME NEW R, NEW n \in Nat, NEW rows, rows = [i \in 1 .. n |-> rows[i]],
         \A i \in 1 .. n : rows[i] \in R
  PROVE  rows \in Seq(R) /\ Len(rows) = n /\ DOMAIN rows = 1 .. n
<1>1. rows \in [1 .. n -> R]
  OBVIOUS
<1>2. rows \in Seq(R)
  BY <1>1, MapSeq
<1> QED
  BY <1>1, <1>2

LEMMA OfTypeTyped ==
  ASSUME NEW facts \in Seq(FactType), NEW type
  PROVE  OfType(facts, type) \in Seq(FactType)
BY ChosenRows DEF OfType

\* make_asset, make_quality, make_topology: a row each, in the order of the file.
LEMMA AssetRowsTyped ==
  ASSUME NEW n \in NetworkType
  PROVE  /\ AssetRows(n) \in Seq(AssetRow) /\ Len(AssetRows(n)) = Len(n.assets)
         /\ DOMAIN AssetRows(n) = 1 .. Len(n.assets)
         /\ \A i \in 1 .. Len(n.assets) :
              AssetRows(n)[i] = [id |-> i - 1, name |-> n.assets[i]]
<1>1. n.assets \in Seq(STRING)
  BY DEF NetworkType
<1>2. PICK l \in Nat : l = Len(n.assets) /\ DOMAIN n.assets = 1 .. l
  BY <1>1
<1>3. AssetRows(n) = [i \in 1 .. l |-> [id |-> i - 1, name |-> n.assets[i]]]
  BY <1>2 DEF AssetRows
<1>4. \A i \in 1 .. l : AssetRows(n)[i] \in AssetRow
  BY <1>1, <1>2, <1>3 DEF AssetRow
<1>5. AssetRows(n) = [i \in 1 .. l |-> AssetRows(n)[i]]
  BY <1>3
<1>6. AssetRows(n) \in Seq(AssetRow) /\ Len(AssetRows(n)) = l /\ DOMAIN AssetRows(n) = 1 .. l
  BY <1>4, <1>5, MapRows
<1> QED
  BY <1>2, <1>3, <1>6

\* The row of the k-th fact of a kind, with the positions of its names.
QualityOf(n, k) ==
  LET f == OfType(n.facts, "quality")[k]
  IN  [asset_id |-> Index(n.assets, f.from),
       property |-> f.obj, op |-> f.op, value |-> f.val]

TopologyOf(n, k) ==
  LET f == OfType(n.facts, "topology")[k]
  IN  [asset_from_id |-> Index(n.assets, f.from),
       asset_to_id |-> Index(n.assets, f.to),
       direction |-> f.dir, property |-> f.obj, op |-> f.op, value |-> f.val]

LEMMA QualityRowsTyped ==
  ASSUME NEW n \in NetworkType
  PROVE  /\ QualityRows(n) \in Seq(QualityRow)
         /\ DOMAIN QualityRows(n) = DOMAIN OfType(n.facts, "quality")
         /\ \A k \in DOMAIN QualityRows(n) : QualityRows(n)[k] = QualityOf(n, k)
<1> DEFINE quals == OfType(n.facts, "quality")
<1>1. n.assets \in Seq(STRING) /\ n.facts \in Seq(FactType)
  BY DEF NetworkType
<1>2. quals \in Seq(FactType)
  BY <1>1, OfTypeTyped
<1>3. PICK l \in Nat : l = Len(quals) /\ DOMAIN quals = 1 .. l
  BY <1>2
<1>4. QualityRows(n) = [k \in 1 .. l |-> QualityOf(n, k)]
  BY <1>3 DEF QualityRows, QualityOf
<1>5. ASSUME NEW k \in 1 .. l PROVE QualityOf(n, k) \in QualityRow
  <2>1. quals[k] \in FactType
    BY <1>2, <1>3
  <2>2. Index(n.assets, quals[k].from) \in Int
    BY <1>1, IndexTyped
  <2> HIDE DEF quals
  <2> QED
    BY <2>1, <2>2 DEF QualityOf, QualityRow, FactType, quals
<1> HIDE DEF quals
<1>6. \A k \in 1 .. l : QualityRows(n)[k] = QualityOf(n, k)
  BY <1>4
<1>7. QualityRows(n) = [k \in 1 .. l |-> QualityRows(n)[k]]
  BY <1>4
<1>8. QualityRows(n) \in Seq(QualityRow) /\ DOMAIN QualityRows(n) = 1 .. l
  BY <1>5, <1>6, <1>7, MapRows
<1> QED
  BY <1>3, <1>6, <1>8 DEF quals

LEMMA TopologyRowsTyped ==
  ASSUME NEW n \in NetworkType
  PROVE  /\ TopologyRows(n) \in Seq(TopologyRow)
         /\ DOMAIN TopologyRows(n) = DOMAIN OfType(n.facts, "topology")
         /\ \A k \in DOMAIN TopologyRows(n) : TopologyRows(n)[k] = TopologyOf(n, k)
<1> DEFINE topos == OfType(n.facts, "topology")
<1>1. n.assets \in Seq(STRING) /\ n.facts \in Seq(FactType)
  BY DEF NetworkType
<1>2. topos \in Seq(FactType)
  BY <1>1, OfTypeTyped
<1>3. PICK l \in Nat : l = Len(topos) /\ DOMAIN topos = 1 .. l
  BY <1>2
<1>4. TopologyRows(n) = [k \in 1 .. l |-> TopologyOf(n, k)]
  BY <1>3 DEF TopologyRows, TopologyOf
<1>5. ASSUME NEW k \in 1 .. l PROVE TopologyOf(n, k) \in TopologyRow
  <2>1. topos[k] \in FactType
    BY <1>2, <1>3
  <2>2. Index(n.assets, topos[k].from) \in Int /\ Index(n.assets, topos[k].to) \in Int
    BY <1>1, IndexTyped
  <2> HIDE DEF topos
  <2> QED
    BY <2>1, <2>2 DEF TopologyOf, TopologyRow, FactType, topos
<1> HIDE DEF topos
<1>6. \A k \in 1 .. l : TopologyRows(n)[k] = TopologyOf(n, k)
  BY <1>4
<1>7. TopologyRows(n) = [k \in 1 .. l |-> TopologyRows(n)[k]]
  BY <1>4
<1>8. TopologyRows(n) \in Seq(TopologyRow) /\ DOMAIN TopologyRows(n) = 1 .. l
  BY <1>5, <1>6, <1>7, MapRows
<1> QED
  BY <1>3, <1>6, <1>8 DEF topos

LEMMA ExploitFields ==
  ASSUME NEW x \in Seq(ExploitType), NEW i \in 1 .. Len(x)
  PROVE  /\ x[i].name \in STRING /\ x[i].params \in Seq(STRING)
         /\ x[i].preconditions \in Seq(FactType)
         /\ x[i].postconditions \in Seq([op : STRING, f : FactType])
<1>1. x[i] \in ExploitType
  OBVIOUS
<1> QED
  BY <1>1 DEF ExploitType

\* make_exploit.
LEMMA ExploitRowsTyped ==
  ASSUME NEW x \in Seq(ExploitType)
  PROVE  /\ ExploitRows(x) \in Seq(ExploitRow) /\ Len(ExploitRows(x)) = Len(x)
         /\ DOMAIN ExploitRows(x) = 1 .. Len(x)
         /\ \A i \in 1 .. Len(x) :
              ExploitRows(x)[i] = [id |-> i - 1, name |-> x[i].name, params |-> Len(x[i].params)]
<1>1. PICK l \in Nat : l = Len(x) /\ DOMAIN x = 1 .. l
  OBVIOUS
<1>2. \A i \in 1 .. l : x[i].name \in STRING /\ Len(x[i].params) \in Nat
  <2>2. \A i \in 1 .. l : x[i].name \in STRING /\ x[i].params \in Seq(STRING)
    BY <1>1, ExploitFields
  <2> QED
    BY <2>2
<1>3. ExploitRows(x) = [i \in 1 .. l |->
        [id |-> i - 1, name |-> x[i].name, params |-> Len(x[i].params)]]
  BY <1>1 DEF ExploitRows
<1>4. \A i \in 1 .. l : ExploitRows(x)[i] \in ExploitRow
  BY <1>2, <1>3 DEF ExploitRow
<1>5. ExploitRows(x) = [i \in 1 .. l |-> ExploitRows(x)[i]]
  BY <1>3
<1>6. /\ ExploitRows(x) \in Seq(ExploitRow) /\ Len(ExploitRows(x)) = l
      /\ DOMAIN ExploitRows(x) = 1 .. l
  BY <1>4, <1>5, MapRows
<1> QED
  BY <1>1, <1>3, <1>6

\* The exploit a condition is entered under is one of the file.
Names(x) == [i \in DOMAIN x |-> x[i].name]

LEMMA ExploitIdDef ==
  ASSUME NEW x \in Seq(ExploitType), NEW i \in 1 .. Len(x)
  PROVE  /\ ExploitId(x, x[i]) \in 0 .. Len(x) - 1
         /\ x[ExploitId(x, x[i]) + 1].name = x[i].name
<1>1. PICK l \in Nat : l = Len(x) /\ DOMAIN x = 1 .. l
  OBVIOUS
<1>2. Names(x) = [k \in 1 .. l |-> x[k].name]
  BY <1>1 DEF Names
<1>3. \A k \in 1 .. l : x[k].name \in STRING
  BY <1>1, ExploitFields
<1>4. Names(x) \in Seq(STRING) /\ Len(Names(x)) = l /\ DOMAIN Names(x) = 1 .. l
  BY <1>2, <1>3, MapRows
<1>5. x[i].name \in ToSet(Names(x))
  BY <1>1, <1>2, <1>4 DEF ToSet
<1>6. ExploitId(x, x[i]) = Index(Names(x), x[i].name)
  BY DEF ExploitId, Names
<1>7. /\ ExploitId(x, x[i]) \in 0 .. l - 1
      /\ Names(x)[ExploitId(x, x[i]) + 1] = x[i].name
  BY <1>4, <1>5, <1>6, IndexOfDeclared
<1>8. ExploitId(x, x[i]) + 1 \in 1 .. l
  BY <1>7
<1> QED
  BY <1>1, <1>2, <1>7, <1>8

\* The rows of an exploit's conditions.
PreRows(x, i) ==
  [j \in DOMAIN x[i].preconditions |->
     ConditionRow(x, x[i], x[i].preconditions[j], "none")]

PostRows(x, i) ==
  [j \in DOMAIN x[i].postconditions |->
     ConditionRow(x, x[i], x[i].postconditions[j].f, x[i].postconditions[j].op)]

\* make_precondition and make_postcondition.
LEMMA ConditionRowTyped ==
  ASSUME NEW x \in Seq(ExploitType), NEW i \in 1 .. Len(x), NEW f \in FactType,
         NEW action \in STRING \cup {"none"}
  PROVE  ConditionRow(x, x[i], f, action) \in ConditionType
<1>1. x[i].params \in Seq(STRING)
  BY ExploitFields
<1>2. ExploitId(x, x[i]) \in Int
  BY ExploitIdDef
<1>3. Index(x[i].params, f.from) \in Int /\ Index(x[i].params, f.to) \in Int
  BY <1>1, IndexTyped
<1>4. PICK e \in Int : e = ExploitId(x, x[i])
  BY <1>2
<1>5. PICK a \in Int : a = Index(x[i].params, f.from)
  BY <1>3
<1>6. PICK b \in Int : b = Index(x[i].params, f.to)
  BY <1>3
<1>7. ConditionRow(x, x[i], f, action) =
        [exploit_id |-> e, type |-> f.type, param1 |-> a,
         param2 |-> IF f.type = "quality" THEN 0 ELSE b,
         property |-> f.obj, value |-> f.val, op |-> f.op,
         dir |-> IF f.type = "quality" THEN "(null)" ELSE f.dir,
         action |-> action]
  BY <1>4, <1>5, <1>6 DEF ConditionRow
<1>8. /\ f.type \in {"quality", "topology"} /\ f.obj \in STRING /\ f.val \in STRING
      /\ f.op \in STRING /\ f.dir \in STRING
  BY DEF FactType
<1>9. (IF f.type = "quality" THEN 0 ELSE b) \in Int
  BY <1>6
<1>10. (IF f.type = "quality" THEN "(null)" ELSE f.dir) \in STRING \cup {"(null)"}
  BY <1>8
<1> QED
  BY <1>4, <1>5, <1>7, <1>8, <1>9, <1>10 DEF ConditionType

LEMMA PreRowsTyped ==
  ASSUME NEW x \in Seq(ExploitType), NEW i \in 1 .. Len(x)
  PROVE  /\ PreRows(x, i) \in Seq(ConditionType)
         /\ Len(PreRows(x, i)) = Len(x[i].preconditions)
         /\ \A j \in 1 .. Len(x[i].preconditions) :
              /\ x[i].preconditions[j] \in FactType
              /\ PreRows(x, i)[j] = ConditionRow(x, x[i], x[i].preconditions[j], "none")
<1>1. x[i].preconditions \in Seq(FactType)
  BY ExploitFields
<1>2. PICK l \in Nat : l = Len(x[i].preconditions) /\ DOMAIN x[i].preconditions = 1 .. l
  BY <1>1
<1>3. PreRows(x, i) =
        [j \in 1 .. l |-> ConditionRow(x, x[i], x[i].preconditions[j], "none")]
  BY <1>2 DEF PreRows
<1>4. \A j \in 1 .. l : x[i].preconditions[j] \in FactType
  BY <1>1, <1>2
<1>5. \A j \in 1 .. l : PreRows(x, i)[j] \in ConditionType
  <2>1. ASSUME NEW j \in 1 .. l
        PROVE  ConditionRow(x, x[i], x[i].preconditions[j], "none") \in ConditionType
    <3>1. x[i].preconditions[j] \in FactType /\ "none" \in STRING \cup {"none"}
      BY <1>4
    <3> QED
      BY <3>1, ConditionRowTyped, Zenon
  <2> QED
    BY <1>3, <2>1
<1>6. PreRows(x, i) = [j \in 1 .. l |-> PreRows(x, i)[j]]
  BY <1>3
<1>7. PreRows(x, i) \in Seq(ConditionType) /\ Len(PreRows(x, i)) = l
  BY <1>5, <1>6, MapRows
<1> QED
  BY <1>2, <1>3, <1>4, <1>7

PostType == [op : STRING, f : FactType]

LEMMA PostRowsTyped ==
  ASSUME NEW x \in Seq(ExploitType), NEW i \in 1 .. Len(x)
  PROVE  /\ PostRows(x, i) \in Seq(ConditionType)
         /\ Len(PostRows(x, i)) = Len(x[i].postconditions)
         /\ \A j \in 1 .. Len(x[i].postconditions) :
              /\ x[i].postconditions[j] \in PostType
              /\ PostRows(x, i)[j] =
                   ConditionRow(x, x[i], x[i].postconditions[j].f, x[i].postconditions[j].op)
<1>1. x[i].postconditions \in Seq(PostType)
  BY ExploitFields DEF PostType
<1>2. PICK l \in Nat : l = Len(x[i].postconditions) /\ DOMAIN x[i].postconditions = 1 .. l
  BY <1>1
<1>3. PostRows(x, i) =
        [j \in 1 .. l |->
           ConditionRow(x, x[i], x[i].postconditions[j].f, x[i].postconditions[j].op)]
  BY <1>2 DEF PostRows
<1>4. \A j \in 1 .. l : x[i].postconditions[j] \in PostType
  BY <1>1, <1>2
<1>5. \A j \in 1 .. l :
        x[i].postconditions[j].f \in FactType /\ x[i].postconditions[j].op \in STRING
  BY <1>4 DEF PostType
<1>6. \A j \in 1 .. l : PostRows(x, i)[j] \in ConditionType
  BY <1>3, <1>5, ConditionRowTyped
<1>7. PostRows(x, i) = [j \in 1 .. l |-> PostRows(x, i)[j]]
  BY <1>3
<1>8. PostRows(x, i) \in Seq(ConditionType) /\ Len(PostRows(x, i)) = l
  BY <1>6, <1>7, MapRows
<1> QED
  BY <1>2, <1>3, <1>4, <1>8

\* Sequences one after the other hold what each of them holds.
LEMMA FlattenTyped ==
  ASSUME NEW S, NEW n \in Nat, NEW seqs \in [1 .. n -> Seq(S)]
  PROVE  /\ FlattenSeq(seqs) \in Seq(S)
         /\ \A r \in ToSet(FlattenSeq(seqs)) : \E i \in 1 .. n : r \in ToSet(seqs[i])
<1>1. PICK off : IsOffset(off, seqs, n)
  BY OffsetExists
<1>2. Concatenated(FlattenSeq(seqs), off, S, seqs, n)
  BY <1>1, FlattenPositions
<1> DEFINE flat == FlattenSeq(seqs)
<1>3. /\ flat \in Seq(S) /\ Len(flat) = off[n]
      /\ \A i \in 1 .. n : \A p \in 1 .. Len(seqs[i]) : flat[off[i - 1] + p] = seqs[i][p]
  BY <1>2 DEF Concatenated
<1> HIDE DEF flat
<1>4. ASSUME NEW r \in ToSet(flat) PROVE \E i \in 1 .. n : r \in ToSet(seqs[i])
  <2>1. PICK x \in 1 .. off[n] : flat[x] = r
    BY <1>3 DEF ToSet
  <2>2. \A i \in 1 .. n : Len(seqs[i]) \in Nat /\ DOMAIN seqs[i] = 1 .. Len(seqs[i])
    OBVIOUS
  <2>3. InSequence(x, off, seqs, n)
    BY <1>1, <2>2, PositionOf
  <2>4. PICK i \in 1 .. n : \E p \in 1 .. Len(seqs[i]) : x = off[i - 1] + p
    BY <2>3 DEF InSequence
  <2>5. PICK p \in 1 .. Len(seqs[i]) : x = off[i - 1] + p
    BY <2>4
  <2>6. seqs[i][p] = r
    BY <1>3, <2>1, <2>5
  <2> QED
    BY <2>2, <2>5, <2>6 DEF ToSet
<1> QED
  BY <1>3, <1>4 DEF flat

LEMMA ConditionRowsTyped ==
  ASSUME NEW x \in Seq(ExploitType)
  PROVE  /\ PreconditionRows(x) = FlattenSeq([i \in 1 .. Len(x) |-> PreRows(x, i)])
         /\ PostconditionRows(x) = FlattenSeq([i \in 1 .. Len(x) |-> PostRows(x, i)])
         /\ [i \in 1 .. Len(x) |-> PreRows(x, i)] \in [1 .. Len(x) -> Seq(ConditionType)]
         /\ [i \in 1 .. Len(x) |-> PostRows(x, i)] \in [1 .. Len(x) -> Seq(ConditionType)]
<1>1. DOMAIN x = 1 .. Len(x)
  OBVIOUS
<1>2. PreconditionRows(x) = FlattenSeq([i \in 1 .. Len(x) |-> PreRows(x, i)])
  BY <1>1 DEF PreconditionRows, PreRows
<1>3. PostconditionRows(x) = FlattenSeq([i \in 1 .. Len(x) |-> PostRows(x, i)])
  BY <1>1 DEF PostconditionRows, PostRows
<1>4. \A i \in 1 .. Len(x) :
        PreRows(x, i) \in Seq(ConditionType) /\ PostRows(x, i) \in Seq(ConditionType)
  BY PreRowsTyped, PostRowsTyped
<1> QED
  BY <1>2, <1>3, <1>4

\* Every condition in the tables is one of the file.
LEMMA ConditionRowsFrom ==
  ASSUME NEW x \in Seq(ExploitType)
  PROVE  /\ PreconditionRows(x) \in Seq(ConditionType)
         /\ PostconditionRows(x) \in Seq(ConditionType)
         /\ \A r \in ToSet(PreconditionRows(x)) :
              \E i \in 1 .. Len(x) : \E j \in 1 .. Len(x[i].preconditions) :
                r = ConditionRow(x, x[i], x[i].preconditions[j], "none")
         /\ \A r \in ToSet(PostconditionRows(x)) :
              \E i \in 1 .. Len(x) : \E j \in 1 .. Len(x[i].postconditions) :
                r = ConditionRow(x, x[i], x[i].postconditions[j].f, x[i].postconditions[j].op)
<1> DEFINE pre == [i \in 1 .. Len(x) |-> PreRows(x, i)]
           post == [i \in 1 .. Len(x) |-> PostRows(x, i)]
<1>0. PICK l \in Nat : l = Len(x)
  OBVIOUS
<1>1. /\ PreconditionRows(x) = FlattenSeq(pre) /\ pre \in [1 .. l -> Seq(ConditionType)]
      /\ PostconditionRows(x) = FlattenSeq(post) /\ post \in [1 .. l -> Seq(ConditionType)]
  BY <1>0, ConditionRowsTyped
<1>2. \A i \in 1 .. l : pre[i] = PreRows(x, i) /\ post[i] = PostRows(x, i)
  BY <1>0
<1> HIDE DEF pre, post
<1>3. /\ FlattenSeq(pre) \in Seq(ConditionType)
      /\ \A r \in ToSet(FlattenSeq(pre)) : \E i \in 1 .. l : r \in ToSet(pre[i])
  BY <1>1, FlattenTyped
<1>4. /\ FlattenSeq(post) \in Seq(ConditionType)
      /\ \A r \in ToSet(FlattenSeq(post)) : \E i \in 1 .. l : r \in ToSet(post[i])
  BY <1>1, FlattenTyped
<1>5. ASSUME NEW r \in ToSet(PreconditionRows(x))
      PROVE  \E i \in 1 .. Len(x) : \E j \in 1 .. Len(x[i].preconditions) :
               r = ConditionRow(x, x[i], x[i].preconditions[j], "none")
  <2>1. PICK i \in 1 .. Len(x) : r \in ToSet(PreRows(x, i))
    BY <1>0, <1>1, <1>2, <1>3
  <2>2. PreRows(x, i) \in Seq(ConditionType)
    BY PreRowsTyped
  <2>3. PICK j \in 1 .. Len(PreRows(x, i)) : r = PreRows(x, i)[j]
    BY <2>1, <2>2, ToSetElement
  <2> QED
    BY <2>3, PreRowsTyped
<1>6. ASSUME NEW r \in ToSet(PostconditionRows(x))
      PROVE  \E i \in 1 .. Len(x) : \E j \in 1 .. Len(x[i].postconditions) :
               r = ConditionRow(x, x[i], x[i].postconditions[j].f, x[i].postconditions[j].op)
  <2>1. PICK i \in 1 .. Len(x) : r \in ToSet(PostRows(x, i))
    BY <1>0, <1>1, <1>2, <1>4
  <2>2. PostRows(x, i) \in Seq(ConditionType)
    BY PostRowsTyped
  <2>3. PICK j \in 1 .. Len(PostRows(x, i)) : r = PostRows(x, i)[j]
    BY <2>1, <2>2, ToSetElement
  <2> QED
    BY <2>3, PostRowsTyped
<1> QED
  BY <1>1, <1>3, <1>4, <1>5, <1>6

-----------------------------------------------------------------------------
(***************************************************************************)
(* The steps.  Each is done part by part of the invariant.                 *)
(***************************************************************************)
LEMMA NetworkFile ==
  ASSUME Typed, nm # NoFile
  PROVE  nm \in Networks /\ nm \in NetworkType
<1>1. nm \in Networks
  BY DEF Typed
<1> QED
  BY <1>1, ImportAssumption

LEMMA ExploitFile ==
  ASSUME Typed, xp # NoFile
  PROVE  xp \in ExploitFiles /\ xp \in Seq(ExploitType)
<1>1. xp \in ExploitFiles
  BY DEF Typed
<1> QED
  BY <1>1, ImportAssumption

LEMMA InitIInv ==
  ASSUME Init
  PROVE  IInv
<1> USE DEF Init
<1>1. Typed
  <2>1. tables \in TableType
    BY DEF EmptyTables, TableType
  <2>2. writers \in WriterType
    BY DEF NoWriters, WriterType
  <2>3. 0 \in 0 .. MaxRuns
    BY ImportAssumption
  <2> QED
    BY <2>1, <2>2, <2>3 DEF Typed, Phases
<1>2. NetworkStored /\ ExploitsStored /\ WritersNested
  BY DEF NetworkStored, ExploitsStored, WritersNested, NoNetworkIn, NoExploitsIn,
         EmptyTables, NoWriters
<1>3. Parsed /\ Imported
  BY DEF Parsed, Imported, NetworkPhases, ExploitPhases
<1>4. Fetched
  BY DEF Fetched, EmptyModel
<1> QED
  BY <1>1, <1>2, <1>3, <1>4 DEF IInv

\* A step that leaves the tables alone.
LEMMA StoredKept ==
  ASSUME IInv, UNCHANGED << tables, writers >>, run' = run \/ run' = run + 1
  PROVE  NetworkStored' /\ ExploitsStored' /\ WritersNested'
<1>1. \A r \in 1 .. run : r \in 1 .. run'
  BY DEF IInv, Typed
<1>2. NetworkStored'
  <2>1. NetworkStored
    BY DEF IInv
  <2>2. CASE NoNetworkIn /\ writers.network = {}
    BY <2>2 DEF NetworkStored, NoNetworkIn
  <2>3. CASE \E n \in Networks, r \in 1 .. run :
               n.assets # << >> /\ NetworkIn(n) /\ writers.network = {r}
    <3>1. PICK n \in Networks, r \in 1 .. run :
            n.assets # << >> /\ NetworkIn(n) /\ writers.network = {r}
      BY <2>3
    <3>2. n.assets # << >> /\ NetworkIn(n)' /\ writers'.network = {r}
      BY <3>1 DEF NetworkIn
    <3> QED
      BY <1>1, <3>2 DEF NetworkStored
  <2> QED
    BY <2>1, <2>2, <2>3 DEF NetworkStored
<1>3. ExploitsStored'
  <2>1. ExploitsStored
    BY DEF IInv
  <2>2. CASE NoExploitsIn /\ writers.exploits = {}
    BY <2>2 DEF ExploitsStored, NoExploitsIn
  <2>3. CASE \E x \in ExploitFiles, r \in 1 .. run :
               x # << >> /\ ExploitsIn(x) /\ writers.exploits = {r}
    <3>1. PICK x \in ExploitFiles, r \in 1 .. run :
            x # << >> /\ ExploitsIn(x) /\ writers.exploits = {r}
      BY <2>3
    <3>2. x # << >> /\ ExploitsIn(x)' /\ writers'.exploits = {r}
      BY <3>1 DEF ExploitsIn
    <3> QED
      BY <1>1, <3>2 DEF ExploitsStored
  <2> QED
    BY <2>1, <2>2, <2>3 DEF ExploitsStored
<1> QED
  BY <1>2, <1>3 DEF IInv, WritersNested

\* A run that ends without a graph, whatever the reason.
LEMMA EndIInv ==
  ASSUME IInv, NEW how \in {"crash", "exit", "abort", "killed"}, End(how)
  PROVE  IInv'
<1>1. Typed'
  BY DEF IInv, Typed, End, Phases
<1>2. NetworkStored' /\ ExploitsStored' /\ WritersNested'
  BY StoredKept DEF End
<1>3. Parsed' /\ Imported'
  BY DEF Parsed, Imported, NetworkPhases, ExploitPhases, End
<1>4. Fetched'
  BY DEF IInv, Fetched, End
<1> QED
  BY <1>1, <1>2, <1>3, <1>4 DEF IInv

LEMMA StartIInv ==
  ASSUME IInv, Start
  PROVE  IInv'
<1> USE DEF Start
<1>1. Typed'
  BY ImportAssumption DEF IInv, Typed, Phases
<1>2. NetworkStored' /\ ExploitsStored' /\ WritersNested'
  BY StoredKept
<1>3. Parsed' /\ Imported'
  BY DEF IInv, Typed, Parsed, Imported, NetworkPhases, ExploitPhases
<1>4. Fetched'
  BY DEF Fetched, EmptyModel
<1> QED
  BY <1>1, <1>2, <1>3, <1>4 DEF IInv

LEMMA ClearIInv ==
  ASSUME IInv, Clear
  PROVE  IInv'
<1> USE DEF Clear
<1>1. Typed'
  <2>1. tables' \in TableType
    BY DEF EmptyTables, TableType
  <2>2. writers' \in WriterType
    BY DEF NoWriters, WriterType
  <2> QED
    BY <2>1, <2>2 DEF IInv, Typed
<1>2. NetworkStored' /\ ExploitsStored' /\ WritersNested'
  BY DEF NetworkStored, ExploitsStored, WritersNested, NoNetworkIn, NoExploitsIn,
         EmptyTables, NoWriters
<1>3. Parsed' /\ Imported'
  BY DEF Parsed, Imported, NetworkPhases, ExploitPhases
<1>4. Fetched'
  BY DEF IInv, Fetched
<1> QED
  BY <1>1, <1>2, <1>3, <1>4 DEF IInv

LEMMA ParseIInv ==
  ASSUME IInv, parse_nm \/ parse_xp
  PROVE  IInv'
<1>1. CASE \E how \in {"crash"} : End(how)
  BY <1>1, EndIInv
<1>2. CASE ~ \E how \in {"crash"} : End(how)
  <2>1. /\ UNCHANGED << run, nm, xp, tables, writers, model, outcome >>
        /\ \/ /\ phase = "parse_nm" /\ phase' = "parse_xp"
              /\ nm = NoFile \/ ~ NetworkCrashes(nm)
           \/ /\ phase = "parse_xp" /\ phase' = "import_nm"
              /\ xp = NoFile \/ ~ ExploitsCrash(xp)
    BY <1>2 DEF parse_nm, parse_xp, Goto
  <2>2. Typed'
    BY <2>1 DEF IInv, Typed, Phases
  <2>3. NetworkStored' /\ ExploitsStored' /\ WritersNested'
    BY <2>1, StoredKept
  <2>4. Parsed' /\ Imported'
    BY <2>1 DEF IInv, Parsed, Imported, NetworkPhases, ExploitPhases
  <2>5. Fetched'
    BY <2>1 DEF IInv, Fetched
  <2> QED
    BY <2>2, <2>3, <2>4, <2>5 DEF IInv
<1> QED
  BY <1>1, <1>2

-----------------------------------------------------------------------------
(***************************************************************************)
(* The imports.  Ids start from 0 in every process, and no import without  *)
(* a row succeeds: two networks would both need the key 0.                 *)
(***************************************************************************)
LEMMA ZeroTaken ==
  ASSUME NEW R, NEW rows \in Seq(R), rows # << >>, rows[1].id = 0
  PROVE  0 \in ToSet(AssetIds(rows))
<1>1. 1 \in DOMAIN rows /\ DOMAIN AssetIds(rows) = DOMAIN rows
  BY DEF AssetIds
<1>2. AssetIds(rows)[1] = 0
  BY <1>1 DEF AssetIds
<1> QED
  BY <1>1, <1>2 DEF ToSet

\* Every import of a network or of exploits has a row with the id 0.
LEMMA AssetZero ==
  ASSUME NEW n \in NetworkType, n.assets # << >>
  PROVE  0 \in ToSet(AssetIds(AssetRows(n)))
<1>1. n.assets \in Seq(STRING)
  BY DEF NetworkType
<1>2. Len(n.assets) \in Nat \ {0}
  BY <1>1
<1>3. AssetRows(n) \in Seq(AssetRow) /\ Len(AssetRows(n)) # 0 /\ AssetRows(n)[1].id = 0
  <2>1. PICK i \in 1 .. Len(n.assets) : i = 1
    BY <1>2
  <2>2. AssetRows(n)[i] = [id |-> i - 1, name |-> n.assets[i]]
    BY AssetRowsTyped
  <2>3. AssetRows(n)[1].id = 1 - 1
    BY <2>1, <2>2
  <2>4. AssetRows(n) \in Seq(AssetRow) /\ Len(AssetRows(n)) = Len(n.assets)
    BY AssetRowsTyped
  <2> QED
    BY <1>2, <2>3, <2>4
<1>4. AssetRows(n) # << >>
  BY <1>3
<1> QED
  BY <1>3, <1>4, ZeroTaken

LEMMA ExploitZero ==
  ASSUME NEW x \in Seq(ExploitType), x # << >>
  PROVE  0 \in ToSet(AssetIds(ExploitRows(x)))
<1>1. Len(x) \in Nat \ {0}
  OBVIOUS
<1>2. ExploitRows(x) \in Seq(ExploitRow) /\ Len(ExploitRows(x)) # 0 /\ ExploitRows(x)[1].id = 0
  <2>1. PICK i \in 1 .. Len(x) : i = 1
    BY <1>1
  <2>2. ExploitRows(x)[i] = [id |-> i - 1, name |-> x[i].name, params |-> Len(x[i].params)]
    BY ExploitRowsTyped
  <2>3. ExploitRows(x)[1].id = 1 - 1
    BY <2>1, <2>2
  <2>4. ExploitRows(x) \in Seq(ExploitRow) /\ Len(ExploitRows(x)) = Len(x)
    BY ExploitRowsTyped
  <2> QED
    BY <1>1, <2>3, <2>4
<1>3. ExploitRows(x) # << >>
  BY <1>2
<1> QED
  BY <1>2, <1>3, ZeroTaken

\* A network is accepted only by tables without one.
LEMMA NetworkAllowedOnce ==
  ASSUME IInv, nm # NoFile, ~ NetworkCrashes(nm), NetworkAllowed(nm)
  PROVE  NoNetworkIn /\ writers.network = {} /\ ReferencesMet(nm)
<1>1. nm \in NetworkType /\ nm.assets # << >>
  BY NetworkFile DEF IInv, NetworkCrashes
<1>2. ToSet(AssetIds(tables.asset)) \cap ToSet(AssetIds(AssetRows(nm))) = {}
  BY DEF NetworkAllowed, KeysFree
<1>3. 0 \notin ToSet(AssetIds(tables.asset))
  BY <1>1, <1>2, AssetZero
<1>4. ~ \E n \in Networks, r \in 1 .. run :
          n.assets # << >> /\ NetworkIn(n) /\ writers.network = {r}
  <2>1. ASSUME NEW n \in Networks, n.assets # << >>, NetworkIn(n) PROVE FALSE
    <3>1. n \in NetworkType
      BY ImportAssumption
    <3>2. 0 \in ToSet(AssetIds(AssetRows(n)))
      BY <2>1, <3>1, AssetZero
    <3> QED
      BY <1>3, <2>1, <3>2 DEF NetworkIn
  <2> QED
    BY <2>1
<1>5. NoNetworkIn /\ writers.network = {}
  BY <1>4 DEF IInv, NetworkStored
<1>6. AssetRows(nm) \in Seq(AssetRow) /\ tables.asset = << >>
  BY <1>1, <1>5, AssetRowsTyped DEF NoNetworkIn
<1>7. tables.asset \o AssetRows(nm) = AssetRows(nm)
  BY <1>6
<1>8. ToSet(AssetIds(AssetRows(nm))) = 0 .. Len(nm.assets) - 1
  <2>1. PICK l \in Nat : l = Len(nm.assets)
    <3>1. nm.assets \in Seq(STRING)
      BY <1>1 DEF NetworkType
    <3> QED
      BY <3>1
  <2>2. /\ DOMAIN AssetRows(nm) = 1 .. l
        /\ \A i \in 1 .. l : AssetRows(nm)[i] = [id |-> i - 1, name |-> nm.assets[i]]
    BY <1>1, <2>1, AssetRowsTyped
  <2>3. AssetIds(AssetRows(nm)) = [i \in 1 .. l |-> i - 1]
    BY <2>2 DEF AssetIds
  <2>4. ToSet([i \in 1 .. l |-> i - 1]) = {i - 1 : i \in 1 .. l}
    BY DEF ToSet
  <2>5. {i - 1 : i \in 1 .. l} = 0 .. l - 1
    <3>1. ASSUME NEW y \in 0 .. l - 1 PROVE y \in {i - 1 : i \in 1 .. l}
      <4>1. y + 1 \in 1 .. l /\ y = (y + 1) - 1
        OBVIOUS
      <4> QED
        BY <4>1
    <3>2. \A i \in 1 .. l : i - 1 \in 0 .. l - 1
      OBVIOUS
    <3> QED
      BY <3>1, <3>2
  <2> QED
    BY <2>1, <2>3, <2>4, <2>5
<1>9. /\ \A r \in ToSet(QualityRows(nm)) : r.asset_id \in 0 .. Len(nm.assets) - 1
      /\ \A r \in ToSet(TopologyRows(nm)) :
           {r.asset_from_id, r.asset_to_id} \subseteq 0 .. Len(nm.assets) - 1
  BY <1>7, <1>8 DEF NetworkAllowed
<1>10. ReferencesMet(nm)
  BY <1>9 DEF ReferencesMet
<1> QED
  BY <1>5, <1>10

LEMMA ImportNetworkIInv ==
  ASSUME IInv, import_nm
  PROVE  IInv'
<1>1. CASE End("abort")
  BY <1>1, EndIInv
<1>2. CASE ~ End("abort")
  <2>1. /\ phase = "import_nm" /\ phase' = "import_xp"
        /\ nm # NoFile /\ NetworkAllowed(nm)
        /\ tables' = [tables EXCEPT !.asset = tables.asset \o AssetRows(nm),
                                    !.quality = tables.quality \o QualityRows(nm),
                                    !.topology = tables.topology \o TopologyRows(nm)]
        /\ writers' = [writers EXCEPT !.network = writers.network \cup {run}]
        /\ UNCHANGED << run, nm, xp, outcome, model >>
    BY <1>2 DEF import_nm, EmptyQuery, Network, WriterOf, Goto
  <2>2. nm \in Networks /\ nm \in NetworkType /\ ~ NetworkCrashes(nm)
    BY <2>1, NetworkFile DEF IInv, Parsed
  <2>3. NoNetworkIn /\ writers.network = {} /\ ReferencesMet(nm)
    BY <2>1, <2>2, NetworkAllowedOnce
  <2>4. /\ AssetRows(nm) \in Seq(AssetRow)
        /\ QualityRows(nm) \in Seq(QualityRow)
        /\ TopologyRows(nm) \in Seq(TopologyRow)
    BY <2>2, AssetRowsTyped, QualityRowsTyped, TopologyRowsTyped
  <2>5. tables \in TableType /\ writers \in WriterType /\ run \in 0 .. MaxRuns /\ run # 0
    BY <2>1 DEF IInv, Typed, Parsed
  <2>6. tables' = [tables EXCEPT !.asset = AssetRows(nm), !.quality = QualityRows(nm),
                                 !.topology = TopologyRows(nm)]
    BY <2>1, <2>3, <2>4 DEF NoNetworkIn
  <2>7. NetworkIn(nm)'
    BY <2>1, <2>5, <2>6 DEF NetworkIn, TableType
  <2>8. /\ tables'.exploit = tables.exploit /\ tables'.precondition = tables.precondition
        /\ tables'.postcondition = tables.postcondition
        /\ tables' \in TableType
    BY <2>4, <2>5, <2>6 DEF TableType
  <2>9. /\ writers'.network = {run} /\ writers'.exploits = writers.exploits
        /\ writers'.graph = writers.graph /\ writers' \in WriterType
    <3>1. run \in Nat
      BY <2>5, ImportAssumption
    <3> QED
      BY <2>1, <2>3, <2>5, <3>1 DEF WriterType
  <2>10. Typed'
    BY <2>1, <2>8, <2>9 DEF IInv, Typed, Phases
  <2>11. NetworkStored'
    <3>1. run' \in 1 .. run' /\ nm.assets # << >> /\ writers'.network = {run'}
      BY <2>1, <2>2, <2>5, <2>9, ImportAssumption DEF NetworkCrashes
    <3>2. NetworkIn(nm)' = (NetworkIn(nm))'
      OBVIOUS
    <3>3. \E n \in Networks, r \in 1 .. run' :
            n.assets # << >> /\ NetworkIn(n)' /\ writers'.network = {r}
      <4>1. /\ tables'.asset = AssetRows(nm) /\ tables'.quality = QualityRows(nm)
            /\ tables'.topology = TopologyRows(nm)
        BY <2>1, <2>7 DEF NetworkIn
      <4> QED
        BY <2>2, <3>1, <4>1 DEF NetworkIn
    <3> QED
      BY <3>3 DEF NetworkStored
  <2>12. ExploitsStored' /\ WritersNested'
    <3>1. writers.exploits = {} /\ writers.graph = {}
      BY <2>3 DEF IInv, WritersNested
    <3>2. NoExploitsIn
      BY <3>1 DEF IInv, ExploitsStored
    <3> QED
      BY <2>8, <2>9, <3>1, <3>2 DEF ExploitsStored, WritersNested, NoExploitsIn
  <2>13. Parsed'
    BY <2>1, <2>2 DEF IInv, Parsed, NetworkPhases, ExploitPhases
  <2>14. Imported'
    BY <2>1, <2>3, <2>7, <2>9 DEF Imported, ExploitPhases, ReferencesMet
  <2>15. Fetched'
    BY <2>1 DEF IInv, Fetched
  <2> QED
    BY <2>10, <2>11, <2>12, <2>13, <2>14, <2>15 DEF IInv
<1> QED
  BY <1>1, <1>2

\* Exploits are accepted only by tables without any.
LEMMA ExploitsAllowedOnce ==
  ASSUME IInv, xp # NoFile, ~ ExploitsCrash(xp), ExploitsAllowed(xp)
  PROVE  NoExploitsIn /\ writers.exploits = {}
<1>1. xp \in Seq(ExploitType) /\ xp # << >>
  BY ExploitFile DEF IInv, ExploitsCrash
<1>2. ToSet(AssetIds(tables.exploit)) \cap ToSet(AssetIds(ExploitRows(xp))) = {}
  BY DEF ExploitsAllowed, KeysFree
<1>3. 0 \notin ToSet(AssetIds(tables.exploit))
  BY <1>1, <1>2, ExploitZero
<1>4. ~ \E x \in ExploitFiles, r \in 1 .. run :
          x # << >> /\ ExploitsIn(x) /\ writers.exploits = {r}
  <2>1. ASSUME NEW x \in ExploitFiles, x # << >>, ExploitsIn(x) PROVE FALSE
    <3>1. x \in Seq(ExploitType)
      BY ImportAssumption
    <3>2. 0 \in ToSet(AssetIds(ExploitRows(x)))
      BY <2>1, <3>1, ExploitZero
    <3> QED
      BY <1>3, <2>1, <3>2 DEF ExploitsIn
  <2> QED
    BY <2>1
<1> QED
  BY <1>4 DEF IInv, ExploitsStored

LEMMA ImportExploitsIInv ==
  ASSUME IInv, import_xp
  PROVE  IInv'
<1>1. CASE End("abort")
  BY <1>1, EndIInv
<1>2. CASE ~ End("abort")
  <2>1. /\ phase = "import_xp" /\ phase' = "fetch_topologies"
        /\ xp # NoFile /\ ExploitsAllowed(xp)
        /\ tables' = [tables EXCEPT
             !.exploit = tables.exploit \o ExploitRows(xp),
             !.precondition = tables.precondition \o PreconditionRows(xp),
             !.postcondition = tables.postcondition \o PostconditionRows(xp)]
        /\ writers' = [writers EXCEPT !.exploits = writers.exploits \cup {run}]
        /\ UNCHANGED << run, nm, xp, outcome, model >>
    BY <1>2 DEF import_xp, EmptyQuery, Exploits, WriterOf, Goto
  <2>2. xp \in ExploitFiles /\ xp \in Seq(ExploitType) /\ ~ ExploitsCrash(xp)
    BY <2>1, ExploitFile DEF IInv, Parsed, NetworkPhases
  <2>3. NoExploitsIn /\ writers.exploits = {}
    BY <2>1, <2>2, ExploitsAllowedOnce
  <2>4. /\ ExploitRows(xp) \in Seq(ExploitRow)
        /\ PreconditionRows(xp) \in Seq(ConditionType)
        /\ PostconditionRows(xp) \in Seq(ConditionType)
    BY <2>2, ExploitRowsTyped, ConditionRowsFrom
  <2>5. tables \in TableType /\ writers \in WriterType /\ run \in 0 .. MaxRuns /\ run # 0
    BY <2>1 DEF IInv, Typed, Parsed
  <2>6. tables' = [tables EXCEPT !.exploit = ExploitRows(xp),
                                 !.precondition = PreconditionRows(xp),
                                 !.postcondition = PostconditionRows(xp)]
    BY <2>1, <2>3, <2>4 DEF NoExploitsIn
  <2>7. /\ tables'.exploit = ExploitRows(xp)
        /\ tables'.precondition = PreconditionRows(xp)
        /\ tables'.postcondition = PostconditionRows(xp)
    BY <2>5, <2>6 DEF TableType
  <2>8. /\ tables'.asset = tables.asset /\ tables'.quality = tables.quality
        /\ tables'.topology = tables.topology
        /\ tables' \in TableType
    BY <2>4, <2>5, <2>6 DEF TableType
  <2>9. /\ writers'.exploits = {run} /\ writers'.network = writers.network
        /\ writers'.graph = writers.graph /\ writers' \in WriterType
    <3>1. run \in Nat
      BY <2>5, ImportAssumption
    <3> QED
      BY <2>1, <2>3, <2>5, <3>1 DEF WriterType
  <2>10. Typed'
    BY <2>1, <2>8, <2>9 DEF IInv, Typed, Phases
  <2>11. writers.network = {run} /\ NetworkIn(nm) /\ nm # NoFile /\ ReferencesMet(nm)
    BY <2>1 DEF IInv, Imported, NetworkPhases
  <2>12. NetworkStored'
    <3>1. run' \in 1 .. run' /\ writers'.network = {run'}
      BY <2>1, <2>5, <2>9, <2>11, ImportAssumption
    <3>2. nm \in Networks /\ nm.assets # << >>
      BY <2>1, <2>11, NetworkFile DEF IInv, Parsed, NetworkPhases, NetworkCrashes
    <3>3. /\ tables'.asset = AssetRows(nm) /\ tables'.quality = QualityRows(nm)
          /\ tables'.topology = TopologyRows(nm)
      BY <2>8, <2>11 DEF NetworkIn
    <3> QED
      BY <3>1, <3>2, <3>3 DEF NetworkStored, NetworkIn
  <2>13. ExploitsStored'
    <3>1. run' \in 1 .. run' /\ xp # << >> /\ writers'.exploits = {run'}
      BY <2>1, <2>2, <2>5, <2>9, ImportAssumption DEF ExploitsCrash
    <3> QED
      BY <2>2, <2>7, <3>1 DEF ExploitsStored, ExploitsIn
  <2>14. WritersNested'
    <3>1. writers.graph = {}
      BY <2>3 DEF IInv, WritersNested
    <3> QED
      BY <2>9, <2>11, <3>1 DEF WritersNested
  <2>15. Parsed'
    BY <2>1, <2>2 DEF IInv, Parsed, NetworkPhases, ExploitPhases
  <2>16. Imported'
    <3>1. nm' # NoFile /\ NetworkIn(nm)' /\ ReferencesMet(nm)' /\ writers'.network = {run'}
      BY <2>1, <2>8, <2>9, <2>11 DEF NetworkIn, ReferencesMet
    <3>2. xp' # NoFile /\ ExploitsIn(xp)' /\ writers'.exploits = {run'}
      BY <2>1, <2>7, <2>9 DEF ExploitsIn
    <3> QED
      BY <3>1, <3>2 DEF Imported
  <2>17. Fetched'
    BY <2>1 DEF IInv, Fetched
  <2> QED
    BY <2>10, <2>12, <2>13, <2>14, <2>15, <2>16, <2>17 DEF IInv
<1> QED
  BY <1>1, <1>2

-----------------------------------------------------------------------------
(***************************************************************************)
(* Reading back.  The steps leave the tables alone, and with them what     *)
(* fetch_exploit makes of these.                                           *)
(***************************************************************************)
LEMMA FetchKept ==
  ASSUME UNCHANGED tables
  PROVE  /\ [i \in DOMAIN tables.exploit |-> fetch_exploit(tables.exploit[i])]' =
              [i \in DOMAIN tables.exploit |-> fetch_exploit(tables.exploit[i])]
         /\ Unreadable' = Unreadable
<1>1. [i \in DOMAIN tables.exploit |-> fetch_exploit(tables.exploit[i])]' =
        [i \in DOMAIN tables.exploit |-> fetch_exploit(tables.exploit[i])]
  BY DEF fetch_exploit, Map
<1>2. Unreadable' = Unreadable
  BY DEF Unreadable
<1> QED
  BY <1>1, <1>2

\* A step of the reading that succeeds changes nothing but what is read.
LEMMA ReadStepKeeps ==
  ASSUME IInv, NEW next \in ExploitPhases, phase \in ExploitPhases,
         Goto(next), UNCHANGED << tables, writers >>
  PROVE  /\ Typed' /\ NetworkStored' /\ ExploitsStored' /\ WritersNested'
         /\ Parsed' /\ Imported'
<1>1. Typed'
  BY DEF IInv, Typed, Goto, Phases, ExploitPhases
<1>2. NetworkStored' /\ ExploitsStored' /\ WritersNested'
  BY StoredKept DEF Goto
<1>3. Parsed'
  BY DEF IInv, Parsed, Goto, NetworkPhases, ExploitPhases
<1>4. Imported'
  <2>1. /\ nm # NoFile /\ NetworkIn(nm) /\ ReferencesMet(nm) /\ writers.network = {run}
        /\ xp # NoFile /\ ExploitsIn(xp) /\ writers.exploits = {run}
    BY DEF IInv, Imported, NetworkPhases
  <2>2. NetworkIn(nm)' /\ ReferencesMet(nm)' /\ ExploitsIn(xp)'
    BY <2>1 DEF Goto, NetworkIn, ReferencesMet, ExploitsIn
  <2> QED
    BY <2>1, <2>2 DEF Goto, Imported
<1> QED
  BY <1>1, <1>2, <1>3, <1>4

LEMMA FetchTopologiesIInv ==
  ASSUME IInv, fetch_all_topologies
  PROVE  IInv'
<1>1. CASE End("exit")
  BY <1>1, EndIInv
<1>2. CASE ~ End("exit")
  <2>1. /\ phase = "fetch_topologies" /\ Goto("fetch_assets")
        /\ model' = [model EXCEPT !.qualities = tables.quality, !.topologies = tables.topology]
        /\ UNCHANGED << tables, writers >>
    BY <1>2 DEF fetch_all_topologies
  <2>2. Fetched'
    BY <2>1 DEF IInv, Fetched, Goto
  <2>3. /\ Typed' /\ NetworkStored' /\ ExploitsStored' /\ WritersNested'
        /\ Parsed' /\ Imported'
    BY <2>1, ReadStepKeeps DEF ExploitPhases
  <2> QED
    BY <2>2, <2>3 DEF IInv
<1> QED
  BY <1>1, <1>2

LEMMA FetchAssetsIInv ==
  ASSUME IInv, fetch_all_assets
  PROVE  IInv'
<1> DEFINE read == [i \in DOMAIN tables.asset |->
             [name |-> tables.asset[i].name,
              qualities |-> Collected(tables.quality, "asset_id", tables.asset[i].id)]]
<1>1. /\ phase = "fetch_assets" /\ Goto("fetch_exploits")
      /\ model' = [model EXCEPT !.assets = read]
      /\ UNCHANGED << tables, writers >>
  BY DEF fetch_all_assets, Map
<1>2. Fetched'
  <2>1. read' = read
    BY <1>1
  <2> HIDE DEF read
  <2>2. model.qualities = tables.quality /\ model.topologies = tables.topology
    BY <1>1 DEF IInv, Fetched
  <2>3. /\ model' = [model EXCEPT !.assets = read]
        /\ model = [qualities |-> model.qualities, topologies |-> model.topologies,
                    assets |-> model.assets, exploits |-> model.exploits]
    BY <1>1 DEF IInv, Fetched
  <2>4. /\ model'.assets = read /\ model'.qualities = model.qualities
        /\ model'.topologies = model.topologies /\ model'.exploits = model.exploits
        /\ model' = [qualities |-> model'.qualities, topologies |-> model'.topologies,
                     assets |-> model'.assets, exploits |-> model'.exploits]
    BY <2>3
  <2>5. model'.assets = read'
    BY <2>1, <2>4
  <2>6. phase' = "fetch_exploits" /\ tables' = tables
    BY <1>1 DEF Goto
  <2> QED
    BY <2>2, <2>4, <2>5, <2>6 DEF Fetched, read
<1>3. /\ Typed' /\ NetworkStored' /\ ExploitsStored' /\ WritersNested'
      /\ Parsed' /\ Imported'
  BY <1>1, ReadStepKeeps DEF ExploitPhases
<1> QED
  BY <1>2, <1>3 DEF IInv

LEMMA FetchExploitsIInv ==
  ASSUME IInv, fetch_all_exploits
  PROVE  IInv'
<1>1. CASE End("exit")
  BY <1>1, EndIInv
<1>2. CASE ~ End("exit")
  <2> DEFINE read == [i \in DOMAIN tables.exploit |-> fetch_exploit(tables.exploit[i])]
             assets == [i \in DOMAIN tables.asset |->
               [name |-> tables.asset[i].name,
                qualities |-> Collected(tables.quality, "asset_id", tables.asset[i].id)]]
  <2>1. /\ phase = "fetch_exploits" /\ Goto("generate") /\ ~ Unreadable
        /\ model' = [model EXCEPT !.exploits = read]
        /\ UNCHANGED << tables, writers >>
    BY <1>2 DEF fetch_all_exploits, Map
  <2>2. read' = read /\ ~ Unreadable'
    BY <2>1, FetchKept
  <2>3. /\ model.qualities = tables.quality /\ model.topologies = tables.topology
        /\ model.assets = assets
        /\ model = [qualities |-> model.qualities, topologies |-> model.topologies,
                    assets |-> model.assets, exploits |-> model.exploits]
    BY <2>1 DEF IInv, Fetched
  <2>4. assets' = assets
    BY <2>1
  <2> HIDE DEF read, assets
  <2>5. /\ model'.exploits = read /\ model'.qualities = model.qualities
        /\ model'.topologies = model.topologies /\ model'.assets = model.assets
        /\ model' = [qualities |-> model'.qualities, topologies |-> model'.topologies,
                     assets |-> model'.assets, exploits |-> model'.exploits]
    BY <2>1, <2>3
  <2>6. /\ model'.qualities = tables'.quality /\ model'.topologies = tables'.topology
        /\ model'.assets = assets' /\ model'.exploits = read'
    BY <2>1, <2>2, <2>3, <2>4, <2>5
  <2>7. Fetched'
    BY <2>2, <2>5, <2>6 DEF Fetched, read, assets
  <2>8. /\ Typed' /\ NetworkStored' /\ ExploitsStored' /\ WritersNested'
        /\ Parsed' /\ Imported'
    BY <2>1, ReadStepKeeps DEF ExploitPhases
  <2> QED
    BY <2>7, <2>8 DEF IInv
<1> QED
  BY <1>1, <1>2

LEMMA GenerateIInv ==
  ASSUME IInv, generate
  PROVE  IInv'
<1>1. CASE End("abort")
  BY <1>1, EndIInv
<1>2. CASE ~ End("abort")
  <2>1. /\ phase = "generate" /\ phase' = "idle" /\ outcome' = "done"
        /\ writers' = [writers EXCEPT !.graph = writers.graph \cup {run}]
        /\ UNCHANGED << run, nm, xp, tables, model >>
    BY <1>2 DEF generate
  <2>2. writers \in WriterType /\ run \in Nat
    BY ImportAssumption DEF IInv, Typed
  <2>3. /\ writers'.graph = writers.graph \cup {run} /\ writers'.network = writers.network
        /\ writers'.exploits = writers.exploits /\ writers' \in WriterType
    BY <2>1, <2>2 DEF WriterType
  <2>4. Typed'
    BY <2>1, <2>3 DEF IInv, Typed, Phases
  <2>5. writers.exploits = {run}
    BY <2>1 DEF IInv, Imported, ExploitPhases
  <2>6. WritersNested'
    BY <2>3, <2>5 DEF IInv, WritersNested
  <2>7. NetworkStored' /\ ExploitsStored'
    <3>1. NetworkStored'
      BY <2>1, <2>3 DEF IInv, NetworkStored, NoNetworkIn, NetworkIn
    <3>2. ExploitsStored'
      BY <2>1, <2>3 DEF IInv, ExploitsStored, NoExploitsIn, ExploitsIn
    <3> QED
      BY <3>1, <3>2
  <2>8. Parsed' /\ Imported'
    BY <2>1 DEF Parsed, Imported, NetworkPhases, ExploitPhases
  <2>9. Fetched'
    BY <2>1 DEF IInv, Fetched
  <2> QED
    BY <2>4, <2>6, <2>7, <2>8, <2>9 DEF IInv
<1> QED
  BY <1>1, <1>2

LEMMA StutterIInv ==
  ASSUME IInv, UNCHANGED ivars
  PROVE  IInv'
<1> USE DEF ivars
<1>1. Typed' /\ WritersNested' /\ Parsed'
  BY DEF IInv, Typed, WritersNested, Parsed
<1>2. NetworkStored' /\ ExploitsStored'
  BY StoredKept
<1>3. Imported'
  BY DEF IInv, Imported, NetworkIn, ExploitsIn, ReferencesMet
<1>4. Fetched'
  <2> DEFINE read == [i \in DOMAIN tables.exploit |-> fetch_exploit(tables.exploit[i])]
  <2>1. read' = read /\ Unreadable' = Unreadable
    BY FetchKept
  <2>2. phase = "generate" => model.exploits = read
    BY DEF IInv, Fetched
  <2> HIDE DEF read
  <2>3. phase' = "generate" => model'.exploits = read'
    BY <2>1, <2>2
  <2> QED
    BY <2>1, <2>3 DEF IInv, Fetched, read
<1> QED
  BY <1>1, <1>2, <1>3, <1>4 DEF IInv

LEMMA NextIInv ==
  ASSUME IInv, [Next]_ivars
  PROVE  IInv'
<1>1. CASE UNCHANGED ivars
  BY <1>1, StutterIInv
<1>2. CASE Start
  BY <1>2, StartIInv
<1>3. CASE Clear
  BY <1>3, ClearIInv
<1>4. CASE Kill
  BY <1>4, EndIInv DEF Kill
<1>5. CASE parse_nm \/ parse_xp
  BY <1>5, ParseIInv
<1>6. CASE import_nm
  BY <1>6, ImportNetworkIInv
<1>7. CASE import_xp
  BY <1>7, ImportExploitsIInv
<1>8. CASE fetch_all_topologies
  BY <1>8, FetchTopologiesIInv
<1>9. CASE fetch_all_assets
  BY <1>9, FetchAssetsIInv
<1>10. CASE fetch_all_exploits
  BY <1>10, FetchExploitsIInv
<1>11. CASE generate
  BY <1>11, GenerateIInv
<1> QED
  BY <1>1, <1>2, <1>3, <1>4, <1>5, <1>6, <1>7, <1>8, <1>9, <1>10, <1>11 DEF Next, Stopped

(***************************************************************************)
(* Whatever runs were started, killed, refused or finished, and wherever   *)
(* the tables were emptied, import_models and the fetch functions keep     *)
(* the tables the work of single runs and the model a reading of them.     *)
(***************************************************************************)
THEOREM Invariance == Spec => []IInv
<1>1. Init => IInv
  BY InitIInv
<1>2. IInv /\ [Next]_ivars => IInv'
  BY NextIInv
<1> QED
  BY <1>1, <1>2, PTL DEF Spec

-----------------------------------------------------------------------------
\* What is in both of two tables' rows together.
LEMMA InConcat ==
  ASSUME NEW R, NEW Q, NEW s \in Seq(R), NEW t \in Seq(Q), NEW r \in ToSet(s \o t)
  PROVE  r \in ToSet(s) \/ r \in ToSet(t)
<1>1. PICK m \in Nat : m = Len(s)
  OBVIOUS
<1>2. PICK n \in Nat : n = Len(t)
  OBVIOUS
<1>3. PICK i \in 1 .. m + n : r = (s \o t)[i]
  BY <1>1, <1>2 DEF ToSet
<1>4. CASE i \in 1 .. m
  <2>1. r = s[i]
    BY <1>1, <1>2, <1>3, <1>4
  <2> QED
    BY <1>1, <1>4, <2>1 DEF ToSet
<1>5. CASE i \in m + 1 .. m + n
  <2>1. r = t[i - m] /\ i - m \in 1 .. n
    BY <1>1, <1>2, <1>3, <1>5
  <2> QED
    BY <1>2, <2>1 DEF ToSet
<1> QED
  BY <1>4, <1>5

\* The ids of the exploits in the table.
LEMMA ExploitIds ==
  ASSUME NEW x \in Seq(ExploitType), NEW id \in 0 .. Len(x) - 1
  PROVE  id \in ToSet(AssetIds(ExploitRows(x)))
<1>1. PICK i \in 1 .. Len(x) : i = id + 1
  OBVIOUS
<1>2. /\ DOMAIN ExploitRows(x) = 1 .. Len(x)
      /\ ExploitRows(x)[i] = [id |-> i - 1, name |-> x[i].name, params |-> Len(x[i].params)]
  BY ExploitRowsTyped
<1>3. ExploitRows(x)[i].id = id
  BY <1>1, <1>2
<1>4. i \in DOMAIN AssetIds(ExploitRows(x)) /\ AssetIds(ExploitRows(x))[i] = id
  BY <1>2, <1>3 DEF AssetIds
<1> QED
  BY <1>4 DEF ToSet

\* The row of a condition names an exploit of the file.
LEMMA ConditionIds ==
  ASSUME NEW x \in Seq(ExploitType)
  PROVE  \A r \in ToSet(PreconditionRows(x) \o PostconditionRows(x)) :
           r.exploit_id \in 0 .. Len(x) - 1
<1>1. SUFFICES ASSUME NEW r \in ToSet(PreconditionRows(x) \o PostconditionRows(x))
               PROVE  r.exploit_id \in 0 .. Len(x) - 1
  OBVIOUS
<1>2. r \in ToSet(PreconditionRows(x)) \/ r \in ToSet(PostconditionRows(x))
  BY InConcat, ConditionRowsFrom
<1>3. \E i \in 1 .. Len(x) : r.exploit_id = ExploitId(x, x[i])
  <2>1. CASE r \in ToSet(PreconditionRows(x))
    <3>1. PICK i \in 1 .. Len(x) : \E j \in 1 .. Len(x[i].preconditions) :
            r = ConditionRow(x, x[i], x[i].preconditions[j], "none")
      BY <2>1, ConditionRowsFrom
    <3> QED
      BY <3>1 DEF ConditionRow
  <2>2. CASE r \in ToSet(PostconditionRows(x))
    <3>1. PICK i \in 1 .. Len(x) : \E j \in 1 .. Len(x[i].postconditions) :
            r = ConditionRow(x, x[i], x[i].postconditions[j].f, x[i].postconditions[j].op)
      BY <2>2, ConditionRowsFrom
    <3> QED
      BY <3>1 DEF ConditionRow
  <2> QED
    BY <1>2, <2>1, <2>2
<1> QED
  BY <1>3, ExploitIdDef

LEMMA WritersAreRuns ==
  ASSUME IInv
  PROVE  \A table \in {"network", "exploits", "graph"} : writers[table] \subseteq 1 .. run
<1>1. writers.network \subseteq 1 .. run
  BY DEF IInv, NetworkStored
<1> QED
  BY <1>1 DEF IInv, WritersNested

(***************************************************************************)
(* The tables keep their columns, only runs that were started have         *)
(* written, and every condition make_precondition or make_postcondition    *)
(* inserts names an exploit that make_exploit inserted.                    *)
(***************************************************************************)
THEOREM TypeCorrect == Spec => []TypeOK
<1>1. ASSUME IInv PROVE TypeOK
  <2>1. DOMAIN tables = DOMAIN EmptyTables
    BY <1>1 DEF IInv, Typed, TableType, EmptyTables
  <2>2. \A table \in {"network", "exploits", "graph"} : writers[table] \subseteq 1 .. run
    BY <1>1, WritersAreRuns
  <2>3. \A r \in ToSet(tables.precondition \o tables.postcondition) :
          r.exploit_id \in ToSet(AssetIds(tables.exploit))
    <3>1. CASE NoExploitsIn
      <4>1. tables.precondition \o tables.postcondition = << >>
        BY <3>1 DEF NoExploitsIn
      <4> QED
        BY <4>1 DEF ToSet
    <3>2. CASE \E x \in ExploitFiles : ExploitsIn(x)
      <4>1. PICK x \in ExploitFiles : ExploitsIn(x)
        BY <3>2
      <4>2. x \in Seq(ExploitType)
        BY ImportAssumption
      <4> QED
        BY <4>1, <4>2, ConditionIds, ExploitIds DEF ExploitsIn
    <3> QED
      BY <1>1, <3>1, <3>2 DEF IInv, ExploitsStored
  <2> QED
    BY <1>1, <2>1, <2>2, <2>3 DEF TypeOK, IInv, Typed
<1> QED
  BY <1>1, Invariance, PTL

(***************************************************************************)
(* import_models never puts a second network, or exploits of another run,  *)
(* into the database, and save_ag_to_db never a graph of other tables: the *)
(* ids from 0 and the refusal of an empty command string see to it, for    *)
(* any files and any number of runs.                                       *)
(***************************************************************************)
THEOREM DatabaseOfOneRun == Spec => []OneRun
<1>1. ASSUME IInv PROVE OneRun
  <2>1. Cardinality(writers.network) <= 1
    <3>1. writers.network = {} \/ \E r \in 1 .. run : writers.network = {r}
      BY <1>1 DEF IInv, NetworkStored
    <3>2. CASE writers.network = {}
      <4>1. Cardinality(writers.network) = 0
        BY <3>2, FS_EmptySet, Zenon
      <4> QED
        BY <4>1
    <3>3. CASE \E r \in 1 .. run : writers.network = {r}
      <4>1. PICK r \in 1 .. run : writers.network = {r}
        BY <3>3
      <4>2. Cardinality({r}) = 1
        BY FS_Singleton, Zenon
      <4>3. Cardinality(writers.network) = 1
        BY <4>1, <4>2
      <4> QED
        BY <4>3
    <3> QED
      BY <3>1, <3>2, <3>3
  <2>2. (tables.asset = << >>) = (writers.network = {})
    <3>1. CASE NoNetworkIn /\ writers.network = {}
      BY <3>1 DEF NoNetworkIn
    <3>2. CASE \E n \in Networks, r \in 1 .. run :
                 n.assets # << >> /\ NetworkIn(n) /\ writers.network = {r}
      <4>1. PICK n \in Networks, r \in 1 .. run :
              n.assets # << >> /\ NetworkIn(n) /\ writers.network = {r}
        BY <3>2
      <4>2. n \in NetworkType
        BY ImportAssumption
      <4>3. n.assets \in Seq(STRING) /\ Len(n.assets) # 0
        BY <4>1, <4>2 DEF NetworkType
      <4>4. Len(AssetRows(n)) = Len(n.assets)
        BY <4>2, AssetRowsTyped
      <4>5. tables.asset # << >>
        BY <4>1, <4>3, <4>4 DEF NetworkIn
      <4> QED
        BY <4>1, <4>5
    <3> QED
      BY <1>1, <3>1, <3>2 DEF IInv, NetworkStored
  <2>3. (tables.exploit = << >>) = (writers.exploits = {})
    <3>1. CASE NoExploitsIn /\ writers.exploits = {}
      BY <3>1 DEF NoExploitsIn
    <3>2. CASE \E x \in ExploitFiles, r \in 1 .. run :
                 x # << >> /\ ExploitsIn(x) /\ writers.exploits = {r}
      <4>1. PICK x \in ExploitFiles, r \in 1 .. run :
              x # << >> /\ ExploitsIn(x) /\ writers.exploits = {r}
        BY <3>2
      <4>2. x \in Seq(ExploitType) /\ Len(x) # 0
        BY <4>1, ImportAssumption
      <4>3. Len(ExploitRows(x)) = Len(x)
        BY <4>2, ExploitRowsTyped
      <4>4. tables.exploit # << >>
        BY <4>1, <4>2, <4>3 DEF ExploitsIn
      <4> QED
        BY <4>1, <4>4
    <3> QED
      BY <1>1, <3>1, <3>2 DEF IInv, ExploitsStored
  <2>4. writers.exploits \subseteq writers.network /\ writers.graph \subseteq writers.exploits
    BY <1>1 DEF IInv, WritersNested
  <2> QED
    BY <2>1, <2>2, <2>3, <2>4 DEF OneRun
<1> QED
  BY <1>1, Invariance, PTL

-----------------------------------------------------------------------------
(***************************************************************************)
(* What is read back of an exploit, and what was written.                  *)
(***************************************************************************)
ReadFact(type, r) == IF type = "quality" THEN ParamQuality(r) ELSE ParamTopology(r)

ReadPre(rows, type) ==
  [k \in DOMAIN OfType(rows, type) |-> ReadFact(type, OfType(rows, type)[k])]

ReadPost(rows, type) ==
  [k \in DOMAIN OfType(rows, type) |->
     [action |-> ActionOf(OfType(rows, type)[k].action),
      fact |-> ReadFact(type, OfType(rows, type)[k])]]

LEMMA FetchDef ==
  ASSUME NEW row
  PROVE  LET pre == Collected(tables.precondition, "exploit_id", row.id)
             post == Collected(tables.postcondition, "exploit_id", row.id)
         IN  fetch_exploit(row) =
               [num_params  |-> row.params,
                preconds_q  |-> ReadPre(pre, "quality"),
                preconds_t  |-> ReadPre(pre, "topology"),
                postconds_q |-> ReadPost(post, "quality"),
                postconds_t |-> ReadPost(post, "topology")]
BY DEF fetch_exploit, Map, ReadPre, ReadPost, ReadFact

OfPosts(posts, type) == Chosen(posts, {i \in DOMAIN posts : posts[i].f.type = type})

LEMMA WrittenPreDef ==
  ASSUME NEW e, NEW type
  PROVE  WrittenConds(e, type) =
           [k \in DOMAIN OfType(e.preconditions, type) |->
              WrittenFact(e, OfType(e.preconditions, type)[k])]
BY DEF WrittenConds, Map

LEMMA WrittenPostDef ==
  ASSUME NEW e, NEW type
  PROVE  WrittenPosts(e, type) =
           [k \in DOMAIN OfPosts(e.postconditions, type) |->
              [action |-> ActionOf(OfPosts(e.postconditions, type)[k].op),
               fact |-> WrittenFact(e, OfPosts(e.postconditions, type)[k].f)]]
BY DEF WrittenPosts, OfPosts, Map, ActionOf

\* A condition says after reading what it said.
LEMMA FactRead ==
  ASSUME NEW x \in Seq(ExploitType), NEW i \in 1 .. Len(x), NEW f \in FactType,
         NEW action
  PROVE  ReadFact(f.type, ConditionRow(x, x[i], f, action)) = WrittenFact(x[i], f)
<1>1. x[i].params \in Seq(STRING)
  BY ExploitFields
<1>2. Index(x[i].params, f.from) = First(x[i].params, f.from)
  BY <1>1, IndexIsFirst
<1>3. Index(x[i].params, f.to) = First(x[i].params, f.to)
  BY <1>1, IndexIsFirst
<1>4. f.type \in {"quality", "topology"}
  BY DEF FactType
<1>5. CASE f.type = "quality"
  BY <1>2, <1>5 DEF ReadFact, WrittenFact, ConditionRow, ParamQuality
<1>6. CASE f.type = "topology"
  BY <1>2, <1>3, <1>6 DEF ReadFact, WrittenFact, ConditionRow, ParamTopology
<1> QED
  BY <1>4, <1>5, <1>6

\* Two sequences of one length are thinned out to the same places.
Together(s, t, good, n) ==
  \E l \in Nat : \E p \in [1 .. l -> good \cap 1 .. n] :
    /\ Chosen(s, good) = [k \in 1 .. l |-> s[p[k]]]
    /\ Chosen(t, good) = [k \in 1 .. l |-> t[p[k]]]

LEMMA ChosenTogether ==
  ASSUME NEW S, NEW T, NEW s \in Seq(S), NEW t \in Seq(T),
         NEW n, n = Len(s), n = Len(t), NEW good
  PROVE  Together(s, t, good, n)
<1> DEFINE p == Places(n, good)
<1>1. p \in Seq(good \cap 1 .. n)
  BY ChosenRows
<1>2. Chosen(s, good) = RowsAt(s, p) /\ Chosen(t, good) = RowsAt(t, p)
  BY ChosenRows
<1> HIDE DEF p
<1>3. PICK l \in Nat : l = Len(p)
  BY <1>1
<1>4. p \in [1 .. l -> good \cap 1 .. n]
  BY <1>1, <1>3
<1> QED
  BY <1>2, <1>3, <1>4 DEF RowsAt, Together

\* All conditions of one kind of an exploit.
LEMMA PreRead ==
  ASSUME NEW x \in Seq(ExploitType), NEW i \in 1 .. Len(x),
         NEW type \in {"quality", "topology"}
  PROVE  ReadPre(PreRows(x, i), type) = WrittenConds(x[i], type)
<1> DEFINE rows == PreRows(x, i)
           conds == x[i].preconditions
           good == {j \in DOMAIN conds : conds[j].type = type}
<1>1. rows \in Seq(ConditionType) /\ conds \in Seq(FactType) /\ Len(rows) = Len(conds)
  BY PreRowsTyped, ExploitFields
<1>2. \A j \in 1 .. Len(conds) :
        conds[j] \in FactType /\ rows[j] = ConditionRow(x, x[i], conds[j], "none")
  BY PreRowsTyped
<1>3. good = {j \in DOMAIN rows : rows[j].type = type}
  <2>1. DOMAIN rows = 1 .. Len(conds) /\ DOMAIN conds = 1 .. Len(conds)
    BY <1>1
  <2>2. \A j \in 1 .. Len(conds) : rows[j].type = conds[j].type
    <3>1. ASSUME NEW j \in 1 .. Len(conds) PROVE rows[j].type = conds[j].type
      <4>1. rows[j] = ConditionRow(x, x[i], conds[j], "none")
        BY <1>2
      <4> HIDE DEF rows, conds
      <4> QED
        BY <4>1 DEF ConditionRow
    <3> QED
      BY <3>1
  <2> HIDE DEF rows, conds
  <2> QED
    BY <2>1, <2>2
<1>4. OfType(rows, type) = Chosen(rows, good) /\ OfType(conds, type) = Chosen(conds, good)
  BY <1>3 DEF OfType
<1>5. \A j \in good \cap 1 .. Len(conds) : ReadFact(type, rows[j]) = WrittenFact(x[i], conds[j])
  <2>1. SUFFICES ASSUME NEW j \in good \cap 1 .. Len(conds)
                 PROVE  ReadFact(type, rows[j]) = WrittenFact(x[i], conds[j])
    OBVIOUS
  <2>2. conds[j].type = type /\ conds[j] \in FactType
        /\ rows[j] = ConditionRow(x, x[i], conds[j], "none")
    BY <1>2
  <2>3. ReadFact(conds[j].type, ConditionRow(x, x[i], conds[j], "none")) =
          WrittenFact(x[i], conds[j])
    BY <2>2, FactRead
  <2> QED
    BY <2>2, <2>3
<1> HIDE DEF rows, good, conds
<1>6. Together(rows, conds, good, Len(conds))
  BY <1>1, ChosenTogether
<1>7. PICK l \in Nat : \E p \in [1 .. l -> good \cap 1 .. Len(conds)] :
        /\ Chosen(rows, good) = [k \in 1 .. l |-> rows[p[k]]]
        /\ Chosen(conds, good) = [k \in 1 .. l |-> conds[p[k]]]
  BY <1>6 DEF Together
<1>8. PICK p \in [1 .. l -> good \cap 1 .. Len(conds)] :
        /\ Chosen(rows, good) = [k \in 1 .. l |-> rows[p[k]]]
        /\ Chosen(conds, good) = [k \in 1 .. l |-> conds[p[k]]]
  BY <1>7
<1>9. ReadPre(rows, type) = [k \in 1 .. l |-> ReadFact(type, rows[p[k]])]
  BY <1>4, <1>8 DEF ReadPre
<1>10. WrittenConds(x[i], type) = [k \in 1 .. l |-> WrittenFact(x[i], conds[p[k]])]
  <2>1. WrittenConds(x[i], type) =
          [k \in DOMAIN OfType(conds, type) |-> WrittenFact(x[i], OfType(conds, type)[k])]
    BY WrittenPreDef, Zenon DEF conds
  <2> QED
    BY <1>4, <1>8, <2>1
<1>11. \A k \in 1 .. l : ReadFact(type, rows[p[k]]) = WrittenFact(x[i], conds[p[k]])
  BY <1>5
<1> QED
  BY <1>9, <1>10, <1>11 DEF rows

LEMMA PostRead ==
  ASSUME NEW x \in Seq(ExploitType), NEW i \in 1 .. Len(x),
         NEW type \in {"quality", "topology"}
  PROVE  ReadPost(PostRows(x, i), type) = WrittenPosts(x[i], type)
<1> DEFINE rows == PostRows(x, i)
           conds == x[i].postconditions
           good == {j \in DOMAIN conds : conds[j].f.type = type}
<1>1. rows \in Seq(ConditionType) /\ conds \in Seq(PostType) /\ Len(rows) = Len(conds)
  BY PostRowsTyped, ExploitFields DEF PostType
<1>2. \A j \in 1 .. Len(conds) :
        conds[j].f \in FactType /\ rows[j] = ConditionRow(x, x[i], conds[j].f, conds[j].op)
  BY PostRowsTyped DEF PostType
<1>3. good = {j \in DOMAIN rows : rows[j].type = type}
  <2>1. DOMAIN rows = 1 .. Len(conds) /\ DOMAIN conds = 1 .. Len(conds)
    BY <1>1
  <2>2. \A j \in 1 .. Len(conds) : rows[j].type = conds[j].f.type
    <3>1. ASSUME NEW j \in 1 .. Len(conds) PROVE rows[j].type = conds[j].f.type
      <4>1. rows[j] = ConditionRow(x, x[i], conds[j].f, conds[j].op)
        BY <1>2
      <4> HIDE DEF rows, conds
      <4> QED
        BY <4>1 DEF ConditionRow
    <3> QED
      BY <3>1
  <2> HIDE DEF rows, conds
  <2> QED
    BY <2>1, <2>2
<1>4. OfType(rows, type) = Chosen(rows, good) /\ OfPosts(conds, type) = Chosen(conds, good)
  BY <1>3 DEF OfType, OfPosts
<1>5. \A j \in good \cap 1 .. Len(conds) :
        ReadFact(type, rows[j]) = WrittenFact(x[i], conds[j].f) /\ rows[j].action = conds[j].op
  <2>1. SUFFICES ASSUME NEW j \in good \cap 1 .. Len(conds)
                 PROVE  /\ ReadFact(type, rows[j]) = WrittenFact(x[i], conds[j].f)
                        /\ rows[j].action = conds[j].op
    OBVIOUS
  <2>2. conds[j].f.type = type /\ conds[j].f \in FactType
        /\ rows[j] = ConditionRow(x, x[i], conds[j].f, conds[j].op)
    BY <1>2
  <2>3. ReadFact(conds[j].f.type, ConditionRow(x, x[i], conds[j].f, conds[j].op)) =
          WrittenFact(x[i], conds[j].f)
    BY <2>2, FactRead
  <2>4. rows[j].action = conds[j].op
    BY <2>2 DEF ConditionRow
  <2> QED
    BY <2>2, <2>3, <2>4
<1> HIDE DEF rows, good, conds
<1>6. Together(rows, conds, good, Len(conds))
  BY <1>1, ChosenTogether
<1>7. PICK l \in Nat : \E p \in [1 .. l -> good \cap 1 .. Len(conds)] :
        /\ Chosen(rows, good) = [k \in 1 .. l |-> rows[p[k]]]
        /\ Chosen(conds, good) = [k \in 1 .. l |-> conds[p[k]]]
  BY <1>6 DEF Together
<1>8. PICK p \in [1 .. l -> good \cap 1 .. Len(conds)] :
        /\ Chosen(rows, good) = [k \in 1 .. l |-> rows[p[k]]]
        /\ Chosen(conds, good) = [k \in 1 .. l |-> conds[p[k]]]
  BY <1>7
<1>9. ReadPost(rows, type) =
        [k \in 1 .. l |-> [action |-> ActionOf(rows[p[k]].action),
                           fact |-> ReadFact(type, rows[p[k]])]]
  BY <1>4, <1>8 DEF ReadPost
<1>10. WrittenPosts(x[i], type) =
        [k \in 1 .. l |-> [action |-> ActionOf(conds[p[k]].op),
                           fact |-> WrittenFact(x[i], conds[p[k]].f)]]
  <2>1. WrittenPosts(x[i], type) =
          [k \in DOMAIN OfPosts(conds, type) |->
             [action |-> ActionOf(OfPosts(conds, type)[k].op),
              fact |-> WrittenFact(x[i], OfPosts(conds, type)[k].f)]]
    BY WrittenPostDef, Zenon DEF conds
  <2> QED
    BY <1>4, <1>8, <2>1
<1>11. \A k \in 1 .. l : /\ ReadFact(type, rows[p[k]]) = WrittenFact(x[i], conds[p[k]].f)
                         /\ ActionOf(rows[p[k]].action) = ActionOf(conds[p[k]].op)
  BY <1>5
<1> QED
  BY <1>9, <1>10, <1>11 DEF rows

\* What is there when the model goes to the generator.
LEMMA AtGenerate ==
  ASSUME IInv, phase = "generate"
  PROVE  /\ nm \in NetworkType /\ NetworkIn(nm) /\ ReferencesMet(nm)
         /\ xp \in Seq(ExploitType) /\ ExploitsIn(xp) /\ ~ ExploitsCrash(xp)
         /\ model.qualities = QualityRows(nm) /\ model.topologies = TopologyRows(nm)
         /\ model.assets =
              [i \in DOMAIN tables.asset |->
                 [name |-> tables.asset[i].name,
                  qualities |-> Collected(tables.quality, "asset_id", tables.asset[i].id)]]
         /\ model.exploits = [i \in DOMAIN tables.exploit |-> fetch_exploit(tables.exploit[i])]
         /\ ~ Unreadable
<1>1. /\ nm # NoFile /\ NetworkIn(nm) /\ ReferencesMet(nm)
      /\ xp # NoFile /\ ExploitsIn(xp) /\ ~ ExploitsCrash(xp)
  BY DEF IInv, Imported, Parsed, NetworkPhases, ExploitPhases
<1>2. nm \in NetworkType /\ xp \in Seq(ExploitType)
  BY <1>1, NetworkFile, ExploitFile DEF IInv
<1>3. model.qualities = QualityRows(nm) /\ model.topologies = TopologyRows(nm)
  BY <1>1 DEF IInv, Fetched, NetworkIn
<1> QED
  BY <1>1, <1>2, <1>3 DEF IInv, Fetched

LEMMA AssetsRead ==
  ASSUME IInv, phase = "generate"
  PROVE  /\ Map(model.assets, LAMBDA a : a.name) = nm.assets
         /\ Len(model.assets) = Len(nm.assets)
<1>1. nm.assets \in Seq(STRING) /\ NetworkIn(nm)
  BY AtGenerate DEF NetworkType
<1>2. PICK l \in Nat : l = Len(nm.assets) /\ DOMAIN nm.assets = 1 .. l
  BY <1>1
<1>3. /\ DOMAIN AssetRows(nm) = 1 .. l
      /\ \A i \in 1 .. l : AssetRows(nm)[i] = [id |-> i - 1, name |-> nm.assets[i]]
  BY <1>2, AtGenerate, AssetRowsTyped
<1>4. tables.asset = AssetRows(nm)
  BY <1>1 DEF NetworkIn
<1>5. model.assets =
        [i \in 1 .. l |->
           [name |-> tables.asset[i].name,
            qualities |-> Collected(tables.quality, "asset_id", tables.asset[i].id)]]
  BY <1>3, <1>4, AtGenerate
<1>6. /\ DOMAIN model.assets = 1 .. l
      /\ \A i \in 1 .. l : model.assets[i].name = nm.assets[i]
  BY <1>3, <1>4, <1>5
<1>7. Map(model.assets, LAMBDA a : a.name) = [i \in 1 .. l |-> nm.assets[i]]
  BY <1>6 DEF Map
<1>8. nm.assets = [i \in 1 .. l |-> nm.assets[i]]
  BY <1>1, <1>2
<1>9. Len(model.assets) = l
  BY <1>6
<1> QED
  BY <1>2, <1>7, <1>8, <1>9

\* A reference stands for the first asset of the name.
LEMMA QualitiesRead ==
  ASSUME NEW n \in NetworkType
  PROVE  QualityRows(n) =
           Map(OfType(n.facts, "quality"), LAMBDA f :
             [asset_id |-> First(n.assets, f.from),
              property |-> f.obj, op |-> f.op, value |-> f.val])
<1> DEFINE quals == OfType(n.facts, "quality")
<1>1. n.assets \in Seq(STRING)
  BY DEF NetworkType
<1>2. ASSUME NEW k \in DOMAIN quals
      PROVE  Index(n.assets, quals[k].from) = First(n.assets, quals[k].from)
  BY <1>1, IndexIsFirst
<1>3. QualityRows(n) =
        [k \in DOMAIN quals |->
           [asset_id |-> Index(n.assets, quals[k].from),
            property |-> quals[k].obj, op |-> quals[k].op, value |-> quals[k].val]]
  BY DEF QualityRows
<1> HIDE DEF quals
<1>4. QualityRows(n) =
        [k \in DOMAIN quals |->
           [asset_id |-> First(n.assets, quals[k].from),
            property |-> quals[k].obj, op |-> quals[k].op, value |-> quals[k].val]]
  BY <1>2, <1>3
<1> QED
  BY <1>4 DEF Map, quals

LEMMA TopologiesRead ==
  ASSUME NEW n \in NetworkType
  PROVE  TopologyRows(n) =
           Map(OfType(n.facts, "topology"), LAMBDA f :
             [asset_from_id |-> First(n.assets, f.from),
              asset_to_id |-> First(n.assets, f.to), direction |-> f.dir,
              property |-> f.obj, op |-> f.op, value |-> f.val])
<1> DEFINE topos == OfType(n.facts, "topology")
<1>1. n.assets \in Seq(STRING)
  BY DEF NetworkType
<1>2. ASSUME NEW k \in DOMAIN topos
      PROVE  /\ Index(n.assets, topos[k].from) = First(n.assets, topos[k].from)
             /\ Index(n.assets, topos[k].to) = First(n.assets, topos[k].to)
  BY <1>1, IndexIsFirst
<1>3. TopologyRows(n) =
        [k \in DOMAIN topos |->
           [asset_from_id |-> Index(n.assets, topos[k].from),
            asset_to_id |-> Index(n.assets, topos[k].to), direction |-> topos[k].dir,
            property |-> topos[k].obj, op |-> topos[k].op, value |-> topos[k].val]]
  BY DEF TopologyRows
<1> HIDE DEF topos
<1>4. TopologyRows(n) =
        [k \in DOMAIN topos |->
           [asset_from_id |-> First(n.assets, topos[k].from),
            asset_to_id |-> First(n.assets, topos[k].to), direction |-> topos[k].dir,
            property |-> topos[k].obj, op |-> topos[k].op, value |-> topos[k].val]]
  BY <1>2, <1>3
<1> QED
  BY <1>4 DEF Map, topos

\* With names of their own, exploits keep their conditions to themselves.
LEMMA OwnConditions ==
  ASSUME NEW x \in Seq(ExploitType), ~ ExploitsCrash(x),
         IsInjective([i \in DOMAIN x |-> x[i].name]),
         NEW i \in 1 .. Len(x)
  PROVE  /\ Collected(PreconditionRows(x), "exploit_id", i - 1) = PreRows(x, i)
         /\ Collected(PostconditionRows(x), "exploit_id", i - 1) = PostRows(x, i)
<1>1. PICK l \in Nat : l = Len(x) /\ DOMAIN x = 1 .. l
  OBVIOUS
<1>2. ASSUME NEW k \in 1 .. l PROVE ExploitId(x, x[k]) = k - 1
  <2>1. /\ ExploitId(x, x[k]) \in 0 .. l - 1
        /\ x[ExploitId(x, x[k]) + 1].name = x[k].name
    BY <1>1, ExploitIdDef
  <2>2. PICK m \in 1 .. l : m = ExploitId(x, x[k]) + 1
    BY <2>1
  <2>3. \A a, b \in 1 .. l : x[a].name = x[b].name => a = b
    BY <1>1 DEF IsInjective
  <2>4. m = k
    BY <2>1, <2>2, <2>3
  <2> QED
    BY <2>1, <2>2, <2>4
<1> DEFINE pre == [k \in 1 .. l |-> PreRows(x, k)]
           post == [k \in 1 .. l |-> PostRows(x, k)]
           key == [k \in 1 .. l |-> k - 1]
<1>3. /\ PreconditionRows(x) = FlattenSeq(pre) /\ pre \in [1 .. l -> Seq(ConditionType)]
      /\ PostconditionRows(x) = FlattenSeq(post) /\ post \in [1 .. l -> Seq(ConditionType)]
  BY <1>1, ConditionRowsTyped
<1>4. \A a, b \in 1 .. l : key[a] = key[b] => a = b
  OBVIOUS
<1>5. ASSUME NEW k \in 1 .. l, NEW p \in 1 .. Len(pre[k])
      PROVE  pre[k][p].exploit_id = key[k]
  <2>1. pre[k] = PreRows(x, k) /\ key[k] = k - 1
    OBVIOUS
  <2>2. p \in 1 .. Len(x[k].preconditions)
    BY <1>1, <2>1, PreRowsTyped
  <2>3. PreRows(x, k)[p] = ConditionRow(x, x[k], x[k].preconditions[p], "none")
    BY <1>1, <2>2, PreRowsTyped
  <2>4. PreRows(x, k)[p].exploit_id = k - 1
    BY <1>2, <2>3 DEF ConditionRow
  <2> QED
    BY <2>1, <2>4
<1>6. ASSUME NEW k \in 1 .. l, NEW p \in 1 .. Len(post[k])
      PROVE  post[k][p].exploit_id = key[k]
  <2>1. post[k] = PostRows(x, k) /\ key[k] = k - 1
    OBVIOUS
  <2>2. p \in 1 .. Len(x[k].postconditions)
    BY <1>1, <2>1, PostRowsTyped
  <2>3. PostRows(x, k)[p] =
          ConditionRow(x, x[k], x[k].postconditions[p].f, x[k].postconditions[p].op)
    BY <1>1, <2>2, PostRowsTyped
  <2>4. PostRows(x, k)[p].exploit_id = k - 1
    BY <1>2, <2>3 DEF ConditionRow
  <2> QED
    BY <2>1, <2>4
<1>7. pre[i] = PreRows(x, i) /\ post[i] = PostRows(x, i) /\ key[i] = i - 1
  BY <1>1
<1>8. pre[i] # << >> /\ post[i] # << >>
  <2>1. x[i] \in ToSet(x)
    BY <1>1 DEF ToSet
  <2>2. x[i].preconditions # << >> /\ x[i].postconditions # << >>
    BY <2>1 DEF ExploitsCrash
  <2>3. Len(x[i].preconditions) # 0 /\ Len(x[i].postconditions) # 0
    BY <2>2, ExploitFields
  <2>4. Len(PreRows(x, i)) # 0 /\ Len(PostRows(x, i)) # 0
    BY <2>3, PreRowsTyped, PostRowsTyped
  <2> QED
    BY <1>7, <2>4
<1> HIDE DEF pre, post, key
<1>9. Keyed(pre, "exploit_id", key, l) /\ Keyed(post, "exploit_id", key, l)
  BY <1>4, <1>5, <1>6 DEF Keyed
<1>10. i \in 1 .. l
  BY <1>1
<1>11. pre \in [1 .. l -> Seq(ConditionType)] /\ post \in [1 .. l -> Seq(ConditionType)]
  BY <1>3
<1>12. PartKept(pre, "exploit_id", key, i)
  BY <1>8, <1>9, <1>10, <1>11, CollectedPart, Zenon
<1>13. PartKept(post, "exploit_id", key, i)
  BY <1>8, <1>9, <1>10, <1>11, CollectedPart, Zenon
<1> QED
  BY <1>3, <1>7, <1>12, <1>13 DEF PartKept

LEMMA ExploitRead ==
  ASSUME IInv, phase = "generate", IsInjective([i \in DOMAIN xp |-> xp[i].name]),
         NEW i \in DOMAIN xp
  PROVE  model.exploits[i] = WrittenExploit(xp[i])
<1>1. /\ xp \in Seq(ExploitType) /\ ExploitsIn(xp) /\ ~ ExploitsCrash(xp)
      /\ model.exploits = [k \in DOMAIN tables.exploit |-> fetch_exploit(tables.exploit[k])]
  BY AtGenerate
<1>2. i \in 1 .. Len(xp)
  BY <1>1
<1>3. /\ tables.exploit = ExploitRows(xp)
      /\ tables.precondition = PreconditionRows(xp)
      /\ tables.postcondition = PostconditionRows(xp)
  BY <1>1 DEF ExploitsIn
<1>4. PICK row : row = [id |-> i - 1, name |-> xp[i].name, params |-> Len(xp[i].params)]
  OBVIOUS
<1>5. i \in DOMAIN ExploitRows(xp) /\ ExploitRows(xp)[i] = row
  BY <1>1, <1>2, <1>4, ExploitRowsTyped
<1>6. model.exploits[i] = fetch_exploit(row)
  BY <1>1, <1>3, <1>5
<1>7. row.id = i - 1 /\ row.params = Len(xp[i].params)
  BY <1>4
<1>8. /\ Collected(tables.precondition, "exploit_id", row.id) = PreRows(xp, i)
      /\ Collected(tables.postcondition, "exploit_id", row.id) = PostRows(xp, i)
  BY <1>1, <1>2, <1>3, <1>7, OwnConditions
<1>9. fetch_exploit(row) =
        [num_params  |-> row.params,
         preconds_q  |-> ReadPre(PreRows(xp, i), "quality"),
         preconds_t  |-> ReadPre(PreRows(xp, i), "topology"),
         postconds_q |-> ReadPost(PostRows(xp, i), "quality"),
         postconds_t |-> ReadPost(PostRows(xp, i), "topology")]
  BY <1>8, FetchDef
<1>10. /\ ReadPre(PreRows(xp, i), "quality") = WrittenConds(xp[i], "quality")
       /\ ReadPre(PreRows(xp, i), "topology") = WrittenConds(xp[i], "topology")
       /\ ReadPost(PostRows(xp, i), "quality") = WrittenPosts(xp[i], "quality")
       /\ ReadPost(PostRows(xp, i), "topology") = WrittenPosts(xp[i], "topology")
  BY <1>1, <1>2, PreRead, PostRead
<1> QED
  BY <1>6, <1>7, <1>9, <1>10 DEF WrittenExploit

(***************************************************************************)
(* What fetch_all_assets, fetch_all_qualities, fetch_all_topologies and    *)
(* fetch_all_exploits hand to the generator is what the two files of this  *)
(* run say, whatever is in them: the positions get_hashtable gives are     *)
(* those of the names, and grouping by the id before loses no condition.   *)
(***************************************************************************)
THEOREM ModelReadAsWritten == Spec => []ReadAsWritten
<1>1. ASSUME IInv PROVE ReadAsWritten
  <2>1. SUFFICES ASSUME phase = "generate" PROVE ReadAsWritten
    BY DEF ReadAsWritten
  <2>2. Map(model.assets, LAMBDA a : a.name) = nm.assets
    BY <1>1, <2>1, AssetsRead
  <2>3. nm \in NetworkType
    BY <1>1, <2>1, AtGenerate
  <2>4. model.qualities = QualityRows(nm) /\ model.topologies = TopologyRows(nm)
    BY <1>1, <2>1, AtGenerate
  <2>5. IsInjective([i \in DOMAIN xp |-> xp[i].name]) =>
          \A i \in DOMAIN xp : model.exploits[i] = WrittenExploit(xp[i])
    BY <1>1, <2>1, ExploitRead
  <2> QED
    BY <2>2, <2>3, <2>4, <2>5, QualitiesRead, TopologiesRead DEF ReadAsWritten
<1> QED
  BY <1>1, Invariance, PTL

-----------------------------------------------------------------------------
(***************************************************************************)
(* The model is well formed even if exploits share a name: whatever rows   *)
(* are collected under an id are conditions of an exploit of that name.    *)
(***************************************************************************)
LEMMA OfTypeRows ==
  ASSUME NEW R, NEW rows \in Seq(R), NEW type
  PROVE  OfType(rows, type) \in Seq({r \in R : r.type = type})
<1> DEFINE good == {i \in DOMAIN rows : rows[i].type = type}
           p == Places(Len(rows), good)
           own == {r \in R : r.type = type}
<1>1. /\ OfType(rows, type) = Chosen(rows, good)
      /\ \A i \in good : rows[i].type = type
  BY DEF OfType
<1>2. DOMAIN rows = 1 .. Len(rows) /\ \A i \in 1 .. Len(rows) : rows[i] \in R
  OBVIOUS
<1> HIDE DEF good
<1>3. p \in Seq(good \cap 1 .. Len(rows)) /\ Chosen(rows, good) = RowsAt(rows, p)
  BY ChosenRows
<1> HIDE DEF p
<1>4. PICK l \in Nat : l = Len(p)
  BY <1>3
<1>5. \A k \in 1 .. l : rows[p[k]] \in own
  <2>1. \A k \in 1 .. l : p[k] \in good \cap 1 .. Len(rows)
    BY <1>3, <1>4
  <2> QED
    BY <1>1, <1>2, <2>1
<1> HIDE DEF own
<1>6. RowsAt(rows, p) = [k \in 1 .. l |-> rows[p[k]]]
  BY <1>4 DEF RowsAt
<1>7. RowsAt(rows, p) \in [1 .. l -> own]
  BY <1>5, <1>6
<1>8. RowsAt(rows, p) \in Seq(own)
  BY <1>7, MapSeq
<1> QED
  BY <1>1, <1>3, <1>8 DEF own

PostOf(type, r) == [action |-> ActionOf(r.action), fact |-> ReadFact(type, r)]

FactsOf(R, type) == {ReadFact(type, r) : r \in {q \in R : q.type = type}}

PostsOf(R, type) == {PostOf(type, r) : r \in {q \in R : q.type = type}}

LEMMA ReadRows ==
  ASSUME NEW R, NEW rows \in Seq(R), NEW type
  PROVE  /\ ReadPre(rows, type) \in Seq(FactsOf(R, type))
         /\ ReadPost(rows, type) \in Seq(PostsOf(R, type))
<1> DEFINE own == {q \in R : q.type = type}
           facts == {ReadFact(type, r) : r \in own}
           posts == {PostOf(type, r) : r \in own}
           s == OfType(rows, type)
<1>1. s \in Seq(own)
  BY OfTypeRows
<1> HIDE DEF own, s
<1>2. PICK l \in Nat : l = Len(s) /\ DOMAIN s = 1 .. l
  BY <1>1
<1>3. \A k \in 1 .. l : s[k] \in own
  BY <1>1, <1>2
<1>4. ReadPre(rows, type) = [k \in 1 .. l |-> ReadFact(type, s[k])]
  BY <1>2 DEF ReadPre, s
<1>5. ReadPost(rows, type) = [k \in 1 .. l |-> PostOf(type, s[k])]
  BY <1>2 DEF ReadPost, PostOf, s
<1>6. ReadPre(rows, type) \in [1 .. l -> facts] /\ ReadPost(rows, type) \in [1 .. l -> posts]
  BY <1>3, <1>4, <1>5
<1> HIDE DEF facts, posts
<1>7. ReadPre(rows, type) \in Seq(facts) /\ ReadPost(rows, type) \in Seq(posts)
  BY <1>6, MapSeq
<1> QED
  BY <1>7 DEF facts, posts, own, FactsOf, PostsOf

\* What conditions under the id of an exploit may name.
SameParams(x) ==
  \A e, f \in ToSet(x) : e.name = f.name => Len(e.params) = Len(f.params)

RowInRange(r, n) ==
  /\ r.param1 \in 0 .. n - 1
  /\ r.type = "topology" => r.param2 \in 0 .. n - 1

\* A declared name is in range for every exploit its row can be entered under.
LEMMA ConditionInRange ==
  ASSUME NEW x \in Seq(ExploitType), SameParams(x),
         NEW i \in 1 .. Len(x), NEW k \in 1 .. Len(x), NEW f \in FactType,
         Declared(x[k], f), ExploitId(x, x[k]) = i - 1, NEW action
  PROVE  RowInRange(ConditionRow(x, x[k], f, action), Len(x[i].params))
<1>1. x[i].name = x[k].name
  <2>1. x[(i - 1) + 1].name = x[k].name
    BY ExploitIdDef
  <2>2. (i - 1) + 1 = i
    OBVIOUS
  <2> QED
    BY <2>1, <2>2
<1>2. x[i] \in ToSet(x) /\ x[k] \in ToSet(x)
  BY DEF ToSet
<1>3. Len(x[i].params) = Len(x[k].params)
  BY <1>1, <1>2 DEF SameParams
<1>4. x[k].params \in Seq(STRING)
  BY ExploitFields
<1>5. Index(x[k].params, f.from) \in 0 .. Len(x[k].params) - 1
  BY <1>4, IndexOfDeclared DEF Declared
<1>6. f.type = "topology" => Index(x[k].params, f.to) \in 0 .. Len(x[k].params) - 1
  BY <1>4, IndexOfDeclared DEF Declared
<1> QED
  BY <1>3, <1>5, <1>6 DEF ConditionRow, RowInRange

LEMMA RowsInRange ==
  ASSUME NEW x \in Seq(ExploitType), SameParams(x),
         \A e \in ToSet(x) : AllDeclared(e), NEW i \in 1 .. Len(x)
  PROVE  /\ \A r \in ToSet(PreconditionRows(x)) :
              r.exploit_id = i - 1 => RowInRange(r, Len(x[i].params))
         /\ \A r \in ToSet(PostconditionRows(x)) :
              r.exploit_id = i - 1 => RowInRange(r, Len(x[i].params))
<1>1. ASSUME NEW r \in ToSet(PreconditionRows(x)), r.exploit_id = i - 1
      PROVE  RowInRange(r, Len(x[i].params))
  <2>1. PICK k \in 1 .. Len(x) : \E j \in 1 .. Len(x[k].preconditions) :
          r = ConditionRow(x, x[k], x[k].preconditions[j], "none")
    BY <1>1, ConditionRowsFrom
  <2>2. PICK j \in 1 .. Len(x[k].preconditions) :
          r = ConditionRow(x, x[k], x[k].preconditions[j], "none")
    BY <2>1
  <2>3. PICK f : f = x[k].preconditions[j]
    OBVIOUS
  <2>4. f \in FactType /\ f \in ToSet(x[k].preconditions)
    BY <2>3, ExploitFields DEF ToSet
  <2>5. x[k] \in ToSet(x)
    BY DEF ToSet
  <2>6. Declared(x[k], f)
    BY <2>4, <2>5 DEF AllDeclared
  <2>7. ExploitId(x, x[k]) = i - 1
    BY <1>1, <2>2 DEF ConditionRow
  <2> QED
    BY <2>2, <2>3, <2>4, <2>6, <2>7, ConditionInRange
<1>2. ASSUME NEW r \in ToSet(PostconditionRows(x)), r.exploit_id = i - 1
      PROVE  RowInRange(r, Len(x[i].params))
  <2>1. PICK k \in 1 .. Len(x) : \E j \in 1 .. Len(x[k].postconditions) :
          r = ConditionRow(x, x[k], x[k].postconditions[j].f, x[k].postconditions[j].op)
    BY <1>2, ConditionRowsFrom
  <2>2. PICK j \in 1 .. Len(x[k].postconditions) :
          r = ConditionRow(x, x[k], x[k].postconditions[j].f, x[k].postconditions[j].op)
    BY <2>1
  <2>3. PICK f, action : f = x[k].postconditions[j].f /\ action = x[k].postconditions[j].op
    OBVIOUS
  <2>4. x[k].postconditions[j] \in PostType
        /\ x[k].postconditions[j] \in ToSet(x[k].postconditions)
    <3>1. x[k].postconditions \in Seq(PostType)
      BY ExploitFields DEF PostType
    <3> QED
      BY <3>1 DEF ToSet
  <2>5. x[k] \in ToSet(x)
    BY DEF ToSet
  <2>6. f \in FactType /\ Declared(x[k], f)
    BY <2>3, <2>4, <2>5 DEF AllDeclared, PostType
  <2>7. ExploitId(x, x[k]) = i - 1
    BY <1>2, <2>2 DEF ConditionRow
  <2> QED
    BY <2>2, <2>3, <2>6, <2>7, ConditionInRange
<1> QED
  BY <1>1, <1>2

LEMMA QualityRead ==
  ASSUME NEW r, r.type = "quality", NEW n, RowInRange(r, n)
  PROVE  ReadFact("quality", r).param \in 0 .. n - 1
BY DEF ReadFact, ParamQuality, RowInRange

LEMMA TopologyRead ==
  ASSUME NEW r, r.type = "topology", NEW n, RowInRange(r, n)
  PROVE  /\ ReadFact("topology", r).from_param \in 0 .. n - 1
         /\ ReadFact("topology", r).to_param \in 0 .. n - 1
BY DEF ReadFact, ParamTopology, RowInRange

LEMMA ActionsRead ==
  ASSUME ~ Unreadable, NEW r \in ToSet(tables.postcondition)
  PROVE  ActionOf(r.action) \in {"add", "update", "delete"}
BY DEF Unreadable, ActionKnown

LEMMA ExploitInRange ==
  ASSUME IInv, phase = "generate", SameParams(xp),
         \A e \in ToSet(xp) : AllDeclared(e),
         NEW i \in DOMAIN model.exploits
  PROVE  InRange(model.exploits[i])
<1>1. /\ xp \in Seq(ExploitType) /\ ExploitsIn(xp) /\ ~ Unreadable
      /\ model.exploits = [k \in DOMAIN tables.exploit |-> fetch_exploit(tables.exploit[k])]
  BY AtGenerate
<1>2. /\ tables.exploit = ExploitRows(xp)
      /\ tables.precondition = PreconditionRows(xp)
      /\ tables.postcondition = PostconditionRows(xp)
  BY <1>1 DEF ExploitsIn
<1>3. i \in 1 .. Len(xp)
  BY <1>1, <1>2, ExploitRowsTyped
<1>4. PICK row : row = [id |-> i - 1, name |-> xp[i].name, params |-> Len(xp[i].params)]
  OBVIOUS
<1>5. i \in DOMAIN ExploitRows(xp) /\ ExploitRows(xp)[i] = row
  BY <1>1, <1>3, <1>4, ExploitRowsTyped
<1>6. model.exploits[i] = fetch_exploit(row)
  BY <1>1, <1>2, <1>5
<1>7. PICK n : n = Len(xp[i].params)
  OBVIOUS
<1>8. row.id = i - 1 /\ row.params = n
  BY <1>4, <1>7
<1> DEFINE pre == Collected(tables.precondition, "exploit_id", row.id)
           post == Collected(tables.postcondition, "exploit_id", row.id)
           e == model.exploits[i]
           Good(r) == RowInRange(r, n)
           R == {r \in ToSet(tables.precondition) : Good(r)}
           Q == {r \in ToSet(tables.postcondition) : Good(r)}
<1>9. pre \in Seq(R)
  <2>1. pre \in Seq({r \in ToSet(tables.precondition) : r["exploit_id"] = i - 1})
    BY <1>1, <1>2, <1>8, ConditionRowsFrom, CollectedRows
  <2>2. {r \in ToSet(tables.precondition) : r["exploit_id"] = i - 1} \subseteq R
    BY <1>1, <1>2, <1>3, <1>7, RowsInRange
  <2> QED
    BY <2>1, <2>2
<1>10. post \in Seq(Q)
  <2>1. post \in Seq({r \in ToSet(tables.postcondition) : r["exploit_id"] = i - 1})
    BY <1>1, <1>2, <1>8, ConditionRowsFrom, CollectedRows
  <2>2. {r \in ToSet(tables.postcondition) : r["exploit_id"] = i - 1} \subseteq Q
    BY <1>1, <1>2, <1>3, <1>7, RowsInRange
  <2> QED
    BY <2>1, <2>2
<1>11. e = [num_params  |-> n,
            preconds_q  |-> ReadPre(pre, "quality"),
            preconds_t  |-> ReadPre(pre, "topology"),
            postconds_q |-> ReadPost(post, "quality"),
            postconds_t |-> ReadPost(post, "topology")]
  BY <1>6, <1>8, FetchDef
<1> HIDE DEF pre, post, e
<1>12. /\ e.num_params = n
       /\ e.preconds_q = ReadPre(pre, "quality")
       /\ e.preconds_t = ReadPre(pre, "topology")
       /\ e.postconds_q = ReadPost(post, "quality")
       /\ e.postconds_t = ReadPost(post, "topology")
  BY <1>11
<1>13. ASSUME NEW q \in ToSet(e.preconds_q) PROVE q.param \in 0 .. n - 1
  <2>1. e.preconds_q \in Seq(FactsOf(R, "quality"))
    BY <1>9, <1>12, ReadRows
  <2>2. PICK r \in R : r.type = "quality" /\ q = ReadFact("quality", r)
    BY <2>1, <1>13, ToSetElement DEF FactsOf
  <2> QED
    BY <2>2, QualityRead
<1>14. ASSUME NEW t \in ToSet(e.preconds_t)
       PROVE  t.from_param \in 0 .. n - 1 /\ t.to_param \in 0 .. n - 1
  <2>1. e.preconds_t \in Seq(FactsOf(R, "topology"))
    BY <1>9, <1>12, ReadRows
  <2>2. PICK r \in R : r.type = "topology" /\ t = ReadFact("topology", r)
    BY <2>1, <1>14, ToSetElement DEF FactsOf
  <2> QED
    BY <2>2, TopologyRead
<1> DEFINE posts_q == PostsOf(Q, "quality")
           posts_t == PostsOf(Q, "topology")
<1>15. e.postconds_q \in Seq(posts_q) /\ e.postconds_t \in Seq(posts_t)
  BY <1>10, <1>12, ReadRows
<1>16. ASSUME NEW p \in posts_q
       PROVE  p.fact.param \in 0 .. n - 1 /\ p.action \in {"add", "update", "delete"}
  <2>1. PICK r \in Q : r.type = "quality" /\ p = PostOf("quality", r)
    BY DEF PostsOf
  <2>2. p.action = ActionOf(r.action) /\ p.fact = ReadFact("quality", r)
    BY <2>1 DEF PostOf
  <2>3. r \in ToSet(tables.postcondition) /\ RowInRange(r, n)
    OBVIOUS
  <2>4. ReadFact("quality", r).param \in 0 .. n - 1
    BY <2>1, <2>3, QualityRead
  <2>5. ActionOf(r.action) \in {"add", "update", "delete"}
    BY <1>1, <2>3, ActionsRead
  <2> QED
    BY <2>2, <2>4, <2>5
<1>17. ASSUME NEW p \in posts_t
       PROVE  /\ p.fact.from_param \in 0 .. n - 1 /\ p.fact.to_param \in 0 .. n - 1
              /\ p.action \in {"add", "update", "delete"}
  <2>1. PICK r \in Q : r.type = "topology" /\ p = PostOf("topology", r)
    BY DEF PostsOf
  <2>2. p.action = ActionOf(r.action) /\ p.fact = ReadFact("topology", r)
    BY <2>1 DEF PostOf
  <2>3. r \in ToSet(tables.postcondition) /\ RowInRange(r, n)
    OBVIOUS
  <2>4. /\ ReadFact("topology", r).from_param \in 0 .. n - 1
        /\ ReadFact("topology", r).to_param \in 0 .. n - 1
    BY <2>1, <2>3, TopologyRead
  <2>5. ActionOf(r.action) \in {"add", "update", "delete"}
    BY <1>1, <2>3, ActionsRead
  <2> QED
    BY <2>2, <2>4, <2>5
<1> HIDE DEF posts_q, posts_t, R, Q
<1>18. \A p \in ToSet(e.postconds_q) : p \in posts_q
  BY <1>15, ToSetElement
<1>19. \A p \in ToSet(e.postconds_t) : p \in posts_t
  BY <1>15, ToSetElement
<1>20. \A p \in ToSet(e.postconds_q \o e.postconds_t) : p \in posts_q \/ p \in posts_t
  BY <1>15, <1>18, <1>19, InConcat
<1>21. \A q \in ToSet(e.preconds_q) \cup {p.fact : p \in ToSet(e.postconds_q)} :
         q.param \in 0 .. n - 1
  BY <1>13, <1>16, <1>18
<1>22. \A t \in ToSet(e.preconds_t) \cup {p.fact : p \in ToSet(e.postconds_t)} :
         {t.from_param, t.to_param} \subseteq 0 .. n - 1
  BY <1>14, <1>17, <1>19
<1>23. \A p \in ToSet(e.postconds_q \o e.postconds_t) : p.action \in {"add", "update", "delete"}
  BY <1>16, <1>17, <1>20
<1>24. InRange(e)
  BY <1>12, <1>21, <1>22, <1>23 DEF InRange
<1> QED
  BY <1>24 DEF e

(***************************************************************************)
(* The model has no fact about an asset that is not there, and if the      *)
(* names in the exploit file are declared no condition about a parameter   *)
(* that is not there, even where make_precondition enters conditions under *)
(* another exploit of the same name.                                       *)
(***************************************************************************)
THEOREM ModelWellFormed == Spec => []WellFormedModel
<1>1. ASSUME IInv, phase = "generate" PROVE WellFormedModel
  <2>1. /\ model.qualities = QualityRows(nm) /\ model.topologies = TopologyRows(nm)
        /\ ReferencesMet(nm) /\ xp \in Seq(ExploitType)
        /\ model.exploits = [i \in DOMAIN tables.exploit |-> fetch_exploit(tables.exploit[i])]
    BY <1>1, AtGenerate
  <2>2. Len(model.assets) = Len(nm.assets)
    BY <1>1, AssetsRead
  <2>3. \A r \in ToSet(model.qualities) : r.asset_id \in 0 .. Len(model.assets) - 1
    BY <2>1, <2>2 DEF ReferencesMet
  <2>4. \A r \in ToSet(model.topologies) :
          {r.asset_from_id, r.asset_to_id} \subseteq 0 .. Len(model.assets) - 1
    BY <2>1, <2>2 DEF ReferencesMet
  <2>5. ASSUME \A e \in ToSet(xp) : AllDeclared(e), SameParams(xp),
               NEW e \in ToSet(model.exploits)
        PROVE  InRange(e)
    <3>1. PICK i \in DOMAIN model.exploits : e = model.exploits[i]
      BY DEF ToSet
    <3> QED
      BY <1>1, <2>5, <3>1, ExploitInRange
  <2> QED
    BY <2>3, <2>4, <2>5 DEF WellFormedModel, SameParams
<1>2. ASSUME IInv PROVE WellFormedModel
  BY <1>1, <1>2 DEF WellFormedModel
<1> QED
  BY <1>2, Invariance, PTL

=============================================================================
