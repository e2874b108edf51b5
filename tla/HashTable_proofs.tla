--------------------------- MODULE HashTable_proofs ---------------------------
(***************************************************************************)
(* The hashtable, for every set of names, every hash function, every size  *)
(* a table is made with and any number of adds: its load, its count, where *)
(* the copies of a name stand, and that it implements StringIds.           *)
(*                                                                         *)
(* The hard part is rehash.  Its nodes come chain after chain, so that two *)
(* nodes of one name follow each other (NodesAdjacent), and none is        *)
(* dropped when they are added to the new table (NotDropped): a node would *)
(* be only if an earlier one of its name were not the last of its chain.   *)
(***************************************************************************)
EXTENDS HashTable, Induction

-----------------------------------------------------------------------------
(* Tables.                                                                 *)

Table(size) ==
  [arr : [0 .. size - 1 -> Seq(NodeType)], size : {size}, used : Nat]

Slot(tab, key) == hash[key] % tab.size

Chain(tab, key) == tab.arr[Slot(tab, key)]

\* A node is in the chain of its code.
Placed(tab) ==
  \A i \in 0 .. tab.size - 1 : \A n \in 1 .. Len(tab.arr[i]) :
    Slot(tab, tab.arr[i][n].key) = i

Adjacent(s) ==
  \A m, n \in 1 .. Len(s) : s[m].key = s[n].key /\ m < n => n = m + 1

Sound(tab) ==
  /\ tab.size \in Nat \ {0}
  /\ tab \in Table(tab.size)
  /\ Placed(tab)
  /\ \A i \in 0 .. tab.size - 1 : Adjacent(tab.arr[i])

Exact(tab) == tab.used = Len(Nodes(tab))

\* Whether the first n nodes of s have the key, and its first value there.
Has(s, n, key) == \E p \in 1 .. n : s[p].key = key

First(s, n, key, val) ==
  \E p \in 1 .. n : /\ s[p].key = key
                    /\ s[p].val = val
                    /\ \A q \in 1 .. p - 1 : s[q].key # key

HashTyped == hash \in [Keys -> Codes]

LEMMA TableParts ==
  ASSUME NEW tab, Sound(tab)
  PROVE  /\ tab = [arr |-> tab.arr, size |-> tab.size, used |-> tab.used]
         /\ tab.arr \in [0 .. tab.size - 1 -> Seq(NodeType)]
         /\ tab.used \in Nat
  BY DEF Sound, Table

LEMMA SlotRange ==
  ASSUME HashTyped, NEW tab, tab.size \in Nat \ {0}, NEW key \in Keys
  PROVE  Slot(tab, key) \in 0 .. tab.size - 1
<1> DEFINE c == hash[key]
           d == tab.size
<1>1. c \in Nat /\ d \in Nat \ {0}
  BY HashAssumption DEF HashTyped
<1>2. \A x \in Nat : \A y \in Nat \ {0} : x % y \in 0 .. y - 1
  OBVIOUS
<1> HIDE DEF c, d
<1>3. c % d \in 0 .. d - 1
  BY <1>1, <1>2
<1> QED
  BY <1>3 DEF c, d, Slot

LEMMA ChainTyped ==
  ASSUME HashTyped, NEW tab, Sound(tab), NEW key \in Keys
  PROVE  /\ Slot(tab, key) \in 0 .. tab.size - 1
         /\ Chain(tab, key) \in Seq(NodeType)
         /\ Adjacent(Chain(tab, key))
<1>1. tab.size \in Nat \ {0}
  BY DEF Sound
<1>2. Slot(tab, key) \in 0 .. tab.size - 1
  BY <1>1, SlotRange
<1>3. \A i \in 0 .. tab.size - 1 : tab.arr[i] \in Seq(NodeType) /\ Adjacent(tab.arr[i])
  BY TableParts DEF Sound
<1> QED
  BY <1>2, <1>3 DEF Chain

NodeOf(key, val) == [key |-> key, val |-> val]

Appended(tab, key, val) ==
  [arr |-> [tab.arr EXCEPT ![Slot(tab, key)] = Append(Chain(tab, key), NodeOf(key, val))],
   size |-> tab.size, used |-> tab.used + 1]

LEMMA ExceptLinked ==
  ASSUME NEW tab, NEW i, NEW chain,
         tab = [arr |-> tab.arr, size |-> tab.size, used |-> tab.used]
  PROVE  [tab EXCEPT !.arr[i] = chain, !.used = @ + 1]
           = [arr |-> [tab.arr EXCEPT ![i] = chain], size |-> tab.size,
              used |-> tab.used + 1]
<1> DEFINE half == [tab EXCEPT !.arr[i] = chain]
<1>1. half = [arr |-> [tab.arr EXCEPT ![i] = chain], size |-> tab.size, used |-> tab.used]
  OBVIOUS
<1>2. [tab EXCEPT !.arr[i] = chain, !.used = @ + 1] = [half EXCEPT !.used = @ + 1]
  OBVIOUS
<1> HIDE DEF half
<1> QED
  BY <1>1, <1>2

LEMMA LinkedCases ==
  ASSUME NEW tab,
         tab = [arr |-> tab.arr, size |-> tab.size, used |-> tab.used],
         NEW key, NEW val
  PROVE  Linked(tab, key, val) =
           IF Has(Chain(tab, key), Len(Chain(tab, key)) - 1, key)
           THEN tab ELSE Appended(tab, key, val)
<1> DEFINE i == hash[key] % tab.size
           chain == tab.arr[i]
           node == [key |-> key, val |-> val]
<1>1. [tab EXCEPT !.arr[i] = Append(chain, node), !.used = @ + 1]
        = [arr |-> [tab.arr EXCEPT ![i] = Append(chain, node)], size |-> tab.size,
           used |-> tab.used + 1]
  <2> DEFINE new == Append(chain, node)
  <2> HIDE DEF new, i
  <2>1. [tab EXCEPT !.arr[i] = new, !.used = @ + 1]
          = [arr |-> [tab.arr EXCEPT ![i] = new], size |-> tab.size,
             used |-> tab.used + 1]
    BY ExceptLinked
  <2> QED
    BY <2>1 DEF new
<1>2. /\ Slot(tab, key) = i
      /\ Chain(tab, key) = chain
      /\ NodeOf(key, val) = node
  BY DEF Slot, Chain, NodeOf
<1>3. Linked(tab, key, val) =
        IF \E n \in 1 .. Len(chain) - 1 : chain[n].key = key THEN tab
        ELSE [tab EXCEPT !.arr[i] = Append(chain, node), !.used = @ + 1]
  BY DEF Linked
<1> HIDE DEF i, chain, node
<1> QED
  BY <1>1, <1>2, <1>3, Zenon DEF Has, Appended

\* The chains after a node is linked at the end of its own.
LEMMA AppendedChains ==
  ASSUME HashTyped, NEW tab, Sound(tab), NEW key \in Keys, NEW val \in Nat
  PROVE  LET new == Appended(tab, key, val)
             chain == Chain(tab, key)
         IN  /\ new \in Table(tab.size)
             /\ new.size = tab.size /\ new.used = tab.used + 1
             /\ \A i \in 0 .. tab.size - 1 :
                  i # Slot(tab, key) => new.arr[i] = tab.arr[i]
             /\ new.arr[Slot(tab, key)] \in Seq(NodeType)
             /\ Len(new.arr[Slot(tab, key)]) = Len(chain) + 1
             /\ \A p \in 1 .. Len(chain) : new.arr[Slot(tab, key)][p] = chain[p]
             /\ new.arr[Slot(tab, key)][Len(chain) + 1] = NodeOf(key, val)
<1> DEFINE chain == Chain(tab, key)
           node == NodeOf(key, val)
           i == Slot(tab, key)
           longer == Append(chain, node)
           arr == [tab.arr EXCEPT ![i] = longer]
<1>1. node \in NodeType
  BY DEF NodeOf, NodeType
<1>2. chain \in Seq(NodeType) /\ i \in 0 .. tab.size - 1
  BY ChainTyped
<1>3. /\ longer \in Seq(NodeType)
      /\ Len(longer) = Len(chain) + 1
      /\ \A p \in 1 .. Len(chain) : longer[p] = chain[p]
      /\ longer[Len(chain) + 1] = node
  <2> HIDE DEF chain, node
  <2> QED
    BY <1>1, <1>2, AppendProperties
<1>4. tab.arr \in [0 .. tab.size - 1 -> Seq(NodeType)] /\ tab.used \in Nat
  BY TableParts
<1> HIDE DEF chain, node, i, longer
<1>5. /\ arr \in [0 .. tab.size - 1 -> Seq(NodeType)]
      /\ arr[i] = longer
      /\ \A j \in 0 .. tab.size - 1 : j # i => arr[j] = tab.arr[j]
  BY <1>2, <1>3, <1>4
<1>6. Appended(tab, key, val) = [arr |-> arr, size |-> tab.size, used |-> tab.used + 1]
  BY DEF Appended, i, longer, chain, node
<1> HIDE DEF arr
<1>7. Appended(tab, key, val) \in Table(tab.size)
  BY <1>4, <1>5, <1>6 DEF Table
<1>8. /\ Appended(tab, key, val).size = tab.size
      /\ Appended(tab, key, val).used = tab.used + 1
      /\ Appended(tab, key, val).arr = arr
  BY <1>6
<1> QED
  BY <1>3, <1>5, <1>7, <1>8 DEF chain, node, i

LEMMA AppendedSound ==
  ASSUME HashTyped, NEW tab, Sound(tab), NEW key \in Keys, NEW val \in Nat,
         ~ Has(Chain(tab, key), Len(Chain(tab, key)) - 1, key)
  PROVE  Sound(Appended(tab, key, val))
<1> DEFINE chain == Chain(tab, key)
           i == Slot(tab, key)
           new == Appended(tab, key, val)
<1>1. /\ new \in Table(tab.size)
      /\ new.size = tab.size
      /\ \A j \in 0 .. tab.size - 1 : j # i => new.arr[j] = tab.arr[j]
      /\ new.arr[i] \in Seq(NodeType)
      /\ Len(new.arr[i]) = Len(chain) + 1
      /\ \A p \in 1 .. Len(chain) : new.arr[i][p] = chain[p]
      /\ new.arr[i][Len(chain) + 1] = NodeOf(key, val)
  BY AppendedChains
<1>2. /\ chain \in Seq(NodeType) /\ i \in 0 .. tab.size - 1 /\ Adjacent(chain)
      /\ chain = tab.arr[i]
  BY ChainTyped DEF Chain
<1>3. Len(chain) \in Nat
  BY <1>2
<1>4. \A p \in 1 .. Len(chain) - 1 : chain[p].key # key
  BY DEF Has
<1>5. NodeOf(key, val).key = key
  BY DEF NodeOf
<1>6. \A k : Slot(new, k) = Slot(tab, k)
  BY <1>1 DEF Slot
<1>7. /\ \A j \in 0 .. tab.size - 1 : \A n \in 1 .. Len(tab.arr[j]) :
           Slot(tab, tab.arr[j][n].key) = j
      /\ \A j \in 0 .. tab.size - 1 : Adjacent(tab.arr[j])
      /\ tab.size \in Nat \ {0}
  BY DEF Sound, Placed
<1>8. Slot(tab, key) = i
  OBVIOUS
<1> HIDE DEF new, i, chain
<1>9. ASSUME NEW j \in 0 .. tab.size - 1, NEW n \in 1 .. Len(new.arr[j])
      PROVE  Slot(tab, new.arr[j][n].key) = j
  <2>1. CASE j # i
    BY <2>1, <1>1, <1>7
  <2>2. CASE j = i /\ n \in 1 .. Len(chain)
    BY <2>2, <1>1, <1>2, <1>7
  <2>3. CASE j = i /\ n = Len(chain) + 1
    BY <2>3, <1>1, <1>5, <1>8
  <2> QED
    BY <2>1, <2>2, <2>3, <1>1, <1>3
<1>10. Adjacent(new.arr[i])
  <2> SUFFICES ASSUME NEW m \in 1 .. Len(new.arr[i]), NEW n \in 1 .. Len(new.arr[i]),
                      new.arr[i][m].key = new.arr[i][n].key, m < n
               PROVE  n = m + 1
    BY DEF Adjacent
  <2>1. CASE n \in 1 .. Len(chain)
    <3>1. m \in 1 .. Len(chain)
      BY <2>1, <1>1, <1>3
    <3>2. chain[m].key = chain[n].key
      BY <2>1, <3>1, <1>1
    <3> QED
      BY <2>1, <3>1, <3>2, <1>2 DEF Adjacent
  <2>2. CASE n = Len(chain) + 1
    <3>1. m \in 1 .. Len(chain)
      BY <2>2, <1>1, <1>3
    <3>2. chain[m].key = key
      BY <2>2, <3>1, <1>1, <1>5
    <3> QED
      BY <2>2, <3>1, <3>2, <1>3, <1>4
  <2> QED
    BY <2>1, <2>2, <1>1, <1>3
<1>11. \A j \in 0 .. tab.size - 1 : Adjacent(new.arr[j])
  BY <1>1, <1>7, <1>10
<1>12. Placed(new)
  BY <1>1, <1>6, <1>9 DEF Placed
<1> QED
  BY <1>1, <1>7, <1>11, <1>12 DEF Sound, new

LEMMA LinkedSound ==
  ASSUME HashTyped, NEW tab, Sound(tab), NEW key \in Keys, NEW val \in Nat
  PROVE  Sound(Linked(tab, key, val)) /\ Linked(tab, key, val).size = tab.size
<1>1. tab = [arr |-> tab.arr, size |-> tab.size, used |-> tab.used]
  BY TableParts
<1>2. Appended(tab, key, val).size = tab.size
  BY DEF Appended
<1> QED
  BY <1>1, <1>2, LinkedCases, AppendedSound

-----------------------------------------------------------------------------
(* The nodes of all chains.                                                *)

Chains(tab) == [i \in 1 .. tab.size |-> tab.arr[i - 1]]

LEMMA ChainsTyped ==
  ASSUME NEW tab, tab.size \in Nat \ {0}, tab \in Table(tab.size)
  PROVE  /\ Chains(tab) \in [1 .. tab.size -> Seq(NodeType)]
         /\ Nodes(tab) = FlattenSeq(Chains(tab))
         /\ \A i \in 1 .. tab.size : Chains(tab)[i] = tab.arr[i - 1]
<1>1. tab.arr \in [0 .. tab.size - 1 -> Seq(NodeType)]
  BY DEF Table
<1>2. \A i \in 1 .. tab.size : tab.arr[i - 1] \in Seq(NodeType)
  BY <1>1
<1>3. Nodes(tab) = FlattenSeq(Chains(tab))
  BY DEF Nodes, Chains
<1> QED
  BY <1>2, <1>3 DEF Chains

LEMMA AppendedExact ==
  ASSUME HashTyped, NEW tab, Sound(tab), NEW key \in Keys, NEW val \in Nat,
         Exact(tab)
  PROVE  Exact(Appended(tab, key, val))
<1> DEFINE new == Appended(tab, key, val)
           i == Slot(tab, key)
<1>1. /\ new \in Table(tab.size)
      /\ new.size = tab.size /\ new.used = tab.used + 1
      /\ \A j \in 0 .. tab.size - 1 : j # i => new.arr[j] = tab.arr[j]
      /\ Len(new.arr[i]) = Len(tab.arr[i]) + 1
  BY AppendedChains DEF Chain
<1>2. i \in 0 .. tab.size - 1 /\ tab.size \in Nat \ {0} /\ tab \in Table(tab.size)
  BY ChainTyped DEF Sound
<1> HIDE DEF new, i
<1>3. /\ Chains(tab) \in [1 .. tab.size -> Seq(NodeType)]
      /\ Nodes(tab) = FlattenSeq(Chains(tab))
      /\ \A j \in 1 .. tab.size : Chains(tab)[j] = tab.arr[j - 1]
  BY <1>2, ChainsTyped
<1>4. /\ Chains(new) \in [1 .. tab.size -> Seq(NodeType)]
      /\ Nodes(new) = FlattenSeq(Chains(new))
      /\ \A j \in 1 .. tab.size : Chains(new)[j] = new.arr[j - 1]
  BY <1>1, <1>2, ChainsTyped
<1>5. i + 1 \in 1 .. tab.size /\ (i + 1) - 1 = i
  BY <1>2
<1>6. Len(Chains(new)[i + 1]) = Len(Chains(tab)[i + 1]) + 1
  BY <1>1, <1>3, <1>4, <1>5
<1>7. \A j \in 1 .. tab.size : j # i + 1 => Chains(new)[j] = Chains(tab)[j]
  BY <1>1, <1>2, <1>3, <1>4
<1>8. Len(FlattenSeq(Chains(new))) = Len(FlattenSeq(Chains(tab))) + 1
  <2> DEFINE k == i + 1
             n == tab.size
             a == Chains(tab)
             b == Chains(new)
  <2>1. /\ n \in Nat /\ k \in 1 .. n
        /\ a \in [1 .. n -> Seq(NodeType)] /\ b \in [1 .. n -> Seq(NodeType)]
        /\ GrownAt(k, a, b, n)
    BY <1>2, <1>3, <1>4, <1>5, <1>6, <1>7 DEF GrownAt
  <2> HIDE DEF k, n, a, b
  <2>2. Len(FlattenSeq(b)) = Len(FlattenSeq(a)) + 1
    BY <2>1, FlattenGrows
  <2> QED
    BY <2>2 DEF a, b
<1> QED
  BY <1>1, <1>3, <1>4, <1>8 DEF Exact, new

LEMMA LinkedExact ==
  ASSUME HashTyped, NEW tab, Sound(tab), NEW key \in Keys, NEW val \in Nat,
         Exact(tab)
  PROVE  Exact(Linked(tab, key, val))
<1>1. tab = [arr |-> tab.arr, size |-> tab.size, used |-> tab.used]
  BY TableParts
<1> QED
  BY <1>1, LinkedCases, AppendedExact

\* Where the nodes of each chain stand among all nodes.
Laid(off, nodes, arr, n) ==
  /\ off \in [0 .. n -> Nat]
  /\ nodes \in Seq(NodeType)
  /\ \A i \in 0 .. n - 1 : \A p \in 1 .. Len(arr[i]) :
       /\ off[i] + p \in 1 .. Len(nodes)
       /\ nodes[off[i] + p] = arr[i][p]
  /\ \A x \in 1 .. Len(nodes) :
       \E i \in 0 .. n - 1 : \E p \in 1 .. Len(arr[i]) : x = off[i] + p

LEMMA NodesLaid ==
  ASSUME NEW tab, Sound(tab)
  PROVE  \E off : Laid(off, Nodes(tab), tab.arr, tab.size)
<1> DEFINE n == tab.size
           seqs == Chains(tab)
           flat == Nodes(tab)
           arr == tab.arr
<1>1. /\ n \in Nat
      /\ seqs \in [1 .. n -> Seq(NodeType)]
      /\ flat = FlattenSeq(seqs)
      /\ \A i \in 1 .. n : seqs[i] = arr[i - 1]
  BY ChainsTyped DEF Sound
<1> HIDE DEF n, seqs, flat, arr
<1>2. PICK off : IsOffset(off, seqs, n)
  BY <1>1, OffsetExists
<1>3. Concatenated(flat, off, NodeType, seqs, n)
  BY <1>1, <1>2, FlattenPositions
<1>4. /\ flat \in Seq(NodeType)
      /\ Len(flat) = off[n]
      /\ \A i \in 1 .. n : \A p \in 1 .. Len(seqs[i]) :
           flat[off[i - 1] + p] = seqs[i][p]
  BY <1>3 DEF Concatenated
<1>5. \A i \in 1 .. n : Len(seqs[i]) \in Nat
  BY <1>1
<1>6. /\ off \in [0 .. n -> Nat]
      /\ \A i \in 1 .. n : off[i] = off[i - 1] + Len(seqs[i])
  BY <1>2 DEF IsOffset
<1>7. ASSUME NEW i \in 0 .. n - 1, NEW p \in 1 .. Len(arr[i])
      PROVE  off[i] + p \in 1 .. Len(flat) /\ flat[off[i] + p] = arr[i][p]
  <2>1. PICK j \in 1 .. n : j = i + 1
    BY <1>1
  <2>2. seqs[j] = arr[i] /\ j - 1 = i
    BY <2>1, <1>1
  <2>3. flat[off[i] + p] = arr[i][p]
    BY <1>4, <2>2
  <2>4. off[j] <= off[n]
    <3>1. j \in 0 .. n /\ n \in 0 .. n
      BY <1>1
    <3> QED
      BY <3>1, <1>1, <1>2, <1>5, OffsetMonotone
  <2>5. off[j] = off[i] + Len(arr[i])
    BY <1>6, <2>2
  <2>6. off[i] \in Nat /\ off[n] \in Nat /\ Len(arr[i]) \in Nat
    BY <1>1, <1>5, <1>6, <2>2
  <2>7. off[i] + p \in 1 .. off[n]
    BY <2>4, <2>5, <2>6
  <2> QED
    BY <2>3, <2>7, <1>4
<1>8. ASSUME NEW x \in 1 .. Len(flat)
      PROVE  \E i \in 0 .. n - 1 : \E p \in 1 .. Len(arr[i]) : x = off[i] + p
  <2>1. x \in 1 .. off[n]
    BY <1>4
  <2>0. InSequence(x, off, seqs, n)
    BY <2>1, <1>1, <1>2, <1>5, PositionOf
  <2>2. PICK j \in 1 .. n : \E p \in 1 .. Len(seqs[j]) : x = off[j - 1] + p
    BY <2>0 DEF InSequence
  <2>3. PICK i \in 0 .. n - 1 : i = j - 1
    BY <1>1
  <2> QED
    BY <2>2, <2>3, <1>1
<1>9. Laid(off, flat, arr, n)
  BY <1>4, <1>6, <1>7, <1>8 DEF Laid
<1> QED
  BY <1>9 DEF n, flat, arr

LEMMA NodesAdjacent ==
  ASSUME NEW tab, Sound(tab)
  PROVE  Nodes(tab) \in Seq(NodeType) /\ Adjacent(Nodes(tab))
<1> DEFINE nodes == Nodes(tab)
           arr == tab.arr
           size == tab.size
           last == size - 1
<1>1. PICK off : Laid(off, nodes, arr, size)
  BY NodesLaid
<1>0. size \in Nat
  BY DEF Sound
<1>3. /\ \A i \in 0 .. last : \A p \in 1 .. Len(arr[i]) :
           Slot(tab, arr[i][p].key) = i
      /\ \A i \in 0 .. last : Adjacent(arr[i])
  BY DEF Sound, Placed
<1> HIDE DEF nodes, arr, size
<1>2. /\ nodes \in Seq(NodeType)
      /\ \A i \in 0 .. last : off[i] \in Nat
      /\ \A i \in 0 .. last : \A p \in 1 .. Len(arr[i]) :
           nodes[off[i] + p] = arr[i][p]
      /\ \A x \in 1 .. Len(nodes) :
           \E i \in 0 .. last : \E p \in 1 .. Len(arr[i]) : x = off[i] + p
  <2>1. off \in [0 .. size -> Nat] /\ nodes \in Seq(NodeType)
    BY <1>1 DEF Laid
  <2>2. \A i \in 0 .. last : off[i] \in Nat
    BY <1>0, <2>1
  <2>3. \A i \in 0 .. last : \A p \in 1 .. Len(arr[i]) :
          nodes[off[i] + p] = arr[i][p]
    BY <1>1 DEF Laid
  <2>4. \A x \in 1 .. Len(nodes) :
          \E i \in 0 .. last : \E p \in 1 .. Len(arr[i]) : x = off[i] + p
    BY <1>1 DEF Laid
  <2> QED
    BY <2>1, <2>2, <2>3, <2>4
<1> HIDE DEF last
<1>4. ASSUME NEW x \in 1 .. Len(nodes), NEW y \in 1 .. Len(nodes),
             nodes[x].key = nodes[y].key, x < y
      PROVE  y = x + 1
  <2>1. PICK i \in 0 .. last : \E p \in 1 .. Len(arr[i]) : x = off[i] + p
    BY <1>2
  <2>2. PICK p \in 1 .. Len(arr[i]) : x = off[i] + p
    BY <2>1
  <2>3. PICK j \in 0 .. last : \E q \in 1 .. Len(arr[j]) : y = off[j] + q
    BY <1>2
  <2>4. PICK q \in 1 .. Len(arr[j]) : y = off[j] + q
    BY <2>3
  <2>5. arr[i][p].key = arr[j][q].key
    BY <1>2, <1>4, <2>2, <2>4
  <2>6. i = j
    BY <1>3, <2>5
  <2>7. off[i] \in Nat
    BY <1>2
  <2>8. p < q
    BY <1>4, <2>2, <2>4, <2>6, <2>7
  <2>9. q = p + 1
    BY <1>3, <2>5, <2>6, <2>8 DEF Adjacent
  <2> QED
    BY <2>2, <2>4, <2>6, <2>7, <2>9
<1> QED
  BY <1>2, <1>4 DEF Adjacent, nodes

\* A key has its first value among all nodes where its chain has it.
LEMMA NodesFirst ==
  ASSUME HashTyped, NEW tab, Sound(tab), NEW key \in Keys
  PROVE  LET nodes == Nodes(tab)
             chain == Chain(tab, key)
         IN  /\ Has(nodes, Len(nodes), key) <=> Has(chain, Len(chain), key)
             /\ \A val : First(chain, Len(chain), key, val)
                           => First(nodes, Len(nodes), key, val)
<1> DEFINE nodes == Nodes(tab)
           arr == tab.arr
           size == tab.size
           last == size - 1
           i == Slot(tab, key)
<1>1. PICK off : Laid(off, nodes, arr, size)
  BY NodesLaid
<1>0. size \in Nat
  BY DEF Sound
<1>2. /\ i \in 0 .. last
      /\ arr[i] \in Seq(NodeType)
      /\ Chain(tab, key) = arr[i]
  BY ChainTyped DEF Chain
<1>4. \A j \in 0 .. last : \A p \in 1 .. Len(arr[j]) :
        arr[j][p].key = key => j = i
  BY DEF Sound, Placed
<1> HIDE DEF nodes, arr, size, i
<1>3. /\ nodes \in Seq(NodeType)
      /\ \A j \in 0 .. last : off[j] \in Nat
      /\ \A j \in 0 .. last : \A p \in 1 .. Len(arr[j]) :
           /\ off[j] + p \in 1 .. Len(nodes)
           /\ nodes[off[j] + p] = arr[j][p]
      /\ \A x \in 1 .. Len(nodes) :
           \E j \in 0 .. last : \E p \in 1 .. Len(arr[j]) : x = off[j] + p
  BY <1>0, <1>1 DEF Laid
<1> HIDE DEF last
<1>5. ASSUME NEW x \in 1 .. Len(nodes), nodes[x].key = key
      PROVE  \E p \in 1 .. Len(arr[i]) : x = off[i] + p /\ arr[i][p].key = key
  <2>1. PICK j \in 0 .. last : \E p \in 1 .. Len(arr[j]) : x = off[j] + p
    BY <1>3
  <2>2. PICK p \in 1 .. Len(arr[j]) : x = off[j] + p
    BY <2>1
  <2>3. arr[j][p].key = key
    BY <1>3, <1>5, <2>2
  <2>4. j = i
    BY <1>4, <2>3
  <2> QED
    BY <2>2, <2>3, <2>4
<1>6. ASSUME NEW p \in 1 .. Len(arr[i])
      PROVE  off[i] + p \in 1 .. Len(nodes) /\ nodes[off[i] + p] = arr[i][p]
  BY <1>2, <1>3
<1>7. Has(nodes, Len(nodes), key) <=> Has(arr[i], Len(arr[i]), key)
  <2>1. ASSUME Has(nodes, Len(nodes), key) PROVE Has(arr[i], Len(arr[i]), key)
    BY <2>1, <1>5 DEF Has
  <2>2. ASSUME Has(arr[i], Len(arr[i]), key) PROVE Has(nodes, Len(nodes), key)
    <3>1. PICK p \in 1 .. Len(arr[i]) : arr[i][p].key = key
      BY <2>2 DEF Has
    <3>2. off[i] + p \in 1 .. Len(nodes) /\ nodes[off[i] + p].key = key
      BY <3>1, <1>6
    <3> QED
      BY <3>2 DEF Has
  <2> QED
    BY <2>1, <2>2
<1>8. ASSUME NEW val, First(arr[i], Len(arr[i]), key, val)
      PROVE  First(nodes, Len(nodes), key, val)
  <2>1. PICK p \in 1 .. Len(arr[i]) :
             /\ arr[i][p].key = key /\ arr[i][p].val = val
             /\ \A q \in 1 .. p - 1 : arr[i][q].key # key
    BY <1>8 DEF First
  <2>2. off[i] \in Nat
    BY <1>2, <1>3
  <2>3. PICK x \in 1 .. Len(nodes) : x = off[i] + p
    BY <1>6
  <2>4. nodes[x].key = key /\ nodes[x].val = val
    BY <2>1, <2>3, <1>6
  <2>5. ASSUME NEW y \in 1 .. x - 1, nodes[y].key = key PROVE FALSE
    <3>1. Len(nodes) \in Nat
      BY <1>3
    <3>2. y \in 1 .. Len(nodes)
      BY <3>1
    <3>3. PICK q \in 1 .. Len(arr[i]) : y = off[i] + q /\ arr[i][q].key = key
      BY <3>2, <2>5, <1>5
    <3>4. q \in 1 .. p - 1
      BY <3>3, <2>2, <2>3
    <3> QED
      BY <3>3, <3>4, <2>1
  <2> QED
    BY <2>4, <2>5 DEF First
<1> QED
  BY <1>2, <1>7, <1>8 DEF nodes

-----------------------------------------------------------------------------
(* rehash.                                                                 *)

\* The table holds the first n nodes, each chain in their order.
Follows(x, nodes, n) ==
  /\ x.used = n
  /\ \A i \in 0 .. x.size - 1 : \A p \in 1 .. Len(x.arr[i]) :
       \E j \in 1 .. n : x.arr[i][p].key = nodes[j].key
  /\ \A i \in 0 .. x.size - 1 : \A p, q \in 1 .. Len(x.arr[i]) :
       p < q => \E j, k \in 1 .. n : /\ j < k
                                     /\ x.arr[i][p].key = nodes[j].key
                                     /\ x.arr[i][q].key = nodes[k].key
  /\ \A key \in Keys :
       /\ Has(nodes, n, key) <=> Has(Chain(x, key), Len(Chain(x, key)), key)
       /\ \A val : First(nodes, n, key, val)
                     => First(Chain(x, key), Len(Chain(x, key)), key, val)

\* A node that is moved is never dropped.
LEMMA NotDropped ==
  ASSUME HashTyped, NEW nodes \in Seq(NodeType), Adjacent(nodes),
         NEW n \in 1 .. Len(nodes),
         NEW x, Sound(x), Follows(x, nodes, n - 1),
         NEW key \in Keys, nodes[n].key = key
  PROVE  ~ Has(Chain(x, key), Len(Chain(x, key)) - 1, key)
<1> DEFINE i == Slot(x, key)
           chain == Chain(x, key)
<1>1. i \in 0 .. x.size - 1 /\ chain \in Seq(NodeType) /\ chain = x.arr[i]
  BY ChainTyped DEF Chain
<1> HIDE DEF i, chain
<1>2. SUFFICES ASSUME NEW p \in 1 .. Len(chain) - 1, chain[p].key = key
               PROVE  FALSE
  BY DEF Has, chain
<1>3. Len(chain) \in Nat /\ p \in 1 .. Len(chain) /\ Len(chain) \in 1 .. Len(chain) /\ p < Len(chain)
  BY <1>1
<1>4. PICK j, k \in 1 .. n - 1 : j < k /\ chain[p].key = nodes[j].key
                                /\ chain[Len(chain)].key = nodes[k].key
  BY <1>1, <1>3 DEF Follows
<1>5. nodes[j].key = nodes[n].key
  BY <1>2, <1>4
<1>6. j \in 1 .. Len(nodes) /\ j < n
  BY <1>4
<1>7. n = j + 1
  BY <1>5, <1>6 DEF Adjacent
<1> QED
  BY <1>4, <1>7

\* What the first n nodes have, from what the first n - 1 have.
LEMMA OneMore ==
  ASSUME NEW n \in Nat, NEW s, NEW key
  PROVE  /\ Has(s, n + 1, key) <=> Has(s, n, key) \/ s[n + 1].key = key
         /\ \A val : First(s, n + 1, key, val) <=>
              \/ First(s, n, key, val)
              \/ ~ Has(s, n, key) /\ s[n + 1].key = key /\ s[n + 1].val = val
<1>1. 1 .. n + 1 = (1 .. n) \cup {n + 1}
  OBVIOUS
<1>2. 1 .. (n + 1) - 1 = 1 .. n
  OBVIOUS
<1> QED
  BY <1>1, <1>2 DEF Has, First

\* Sequences that agree up to n have the same keys there.
LEMMA SamePrefix ==
  ASSUME NEW n \in Nat, NEW s, NEW u, NEW key,
         \A p \in 1 .. n : s[p] = u[p]
  PROVE  /\ Has(s, n, key) <=> Has(u, n, key)
         /\ \A val : First(s, n, key, val) <=> First(u, n, key, val)
  BY DEF Has, First

LEMMA MoveNode ==
  ASSUME HashTyped, NEW nodes \in Seq(NodeType), Adjacent(nodes),
         NEW m \in Nat, NEW n \in 1 .. Len(nodes), n = m + 1,
         NEW x, Sound(x), Follows(x, nodes, m),
         NEW key \in Keys, NEW val \in Nat, nodes[n] = NodeOf(key, val)
  PROVE  Follows(Linked(x, key, val), nodes, n)
<1> DEFINE new == Appended(x, key, val)
           i == Slot(x, key)
           chain == Chain(x, key)
           longer == new.arr[i]
           len == Len(chain)
<1>1. nodes[n].key = key /\ nodes[n].val = val
  BY DEF NodeOf
<1>2. Linked(x, key, val) = new
  <2>1. m = n - 1
    OBVIOUS
  <2>2. ~ Has(Chain(x, key), Len(Chain(x, key)) - 1, key)
    BY <1>1, <2>1, NotDropped
  <2>3. x = [arr |-> x.arr, size |-> x.size, used |-> x.used]
    BY TableParts
  <2> QED
    BY <2>2, <2>3, LinkedCases
<1>3. /\ new.size = x.size /\ new.used = x.used + 1
      /\ \A j \in 0 .. x.size - 1 : j # i => new.arr[j] = x.arr[j]
      /\ longer \in Seq(NodeType)
      /\ Len(longer) = len + 1
      /\ \A p \in 1 .. len : longer[p] = chain[p]
      /\ longer[len + 1] = nodes[n]
  BY AppendedChains
<1>4. i \in 0 .. x.size - 1 /\ chain \in Seq(NodeType) /\ len \in Nat /\ chain = x.arr[i]
  BY ChainTyped DEF Chain
<1>5. \A k \in Keys : Slot(x, k) \in 0 .. x.size - 1 /\ Chain(x, k) \in Seq(NodeType)
  BY ChainTyped
<1>6. \A k : /\ Chain(new, k) = new.arr[Slot(x, k)]
             /\ Chain(x, k) = x.arr[Slot(x, k)]
  BY <1>3 DEF Chain, Slot
<1>7. /\ x.used = m
      /\ \A j \in 0 .. x.size - 1 : \A p \in 1 .. Len(x.arr[j]) :
           \E a \in 1 .. m : x.arr[j][p].key = nodes[a].key
      /\ \A j \in 0 .. x.size - 1 : \A p, q \in 1 .. Len(x.arr[j]) :
           p < q => \E a, b \in 1 .. m : /\ a < b
                                         /\ x.arr[j][p].key = nodes[a].key
                                         /\ x.arr[j][q].key = nodes[b].key
  BY DEF Follows
<1>8. \A k \in Keys :
        /\ Has(nodes, m, k) <=> Has(Chain(x, k), Len(Chain(x, k)), k)
        /\ \A v : First(nodes, m, k, v)
                    => First(Chain(x, k), Len(Chain(x, k)), k, v)
  BY DEF Follows
<1>9. i = Slot(x, key)
  OBVIOUS
<1>10. \A a \in 1 .. m : a \in 1 .. n
  OBVIOUS
<1> HIDE DEF new, i, chain, longer, len
<1>11. ASSUME NEW j \in 0 .. x.size - 1, NEW p \in 1 .. Len(new.arr[j])
       PROVE  \E a \in 1 .. n : new.arr[j][p].key = nodes[a].key
  <2>1. CASE j # i
    <3>1. new.arr[j] = x.arr[j]
      BY <2>1, <1>3
    <3>2. PICK a \in 1 .. m : x.arr[j][p].key = nodes[a].key
      BY <3>1, <1>7
    <3> QED
      BY <3>1, <3>2, <1>10
  <2>2. CASE j = i /\ p \in 1 .. len
    <3>1. new.arr[j][p] = x.arr[i][p] /\ p \in 1 .. Len(x.arr[i])
      BY <2>2, <1>3, <1>4 DEF longer, len
    <3>2. PICK a \in 1 .. m : x.arr[i][p].key = nodes[a].key
      BY <3>1, <1>4, <1>7
    <3> QED
      BY <3>1, <3>2, <1>10
  <2>3. CASE j = i /\ p = len + 1
    <3>1. new.arr[j][p] = nodes[n]
      BY <2>3, <1>3 DEF longer
    <3> QED
      BY <3>1
  <2>4. j = i => p \in 1 .. len + 1
    BY <1>3 DEF longer
  <2> QED
    BY <2>1, <2>2, <2>3, <2>4, <1>4
<1>12. ASSUME NEW j \in 0 .. x.size - 1,
              NEW p \in 1 .. Len(new.arr[j]), NEW q \in 1 .. Len(new.arr[j]), p < q
       PROVE  \E a, b \in 1 .. n : /\ a < b
                                   /\ new.arr[j][p].key = nodes[a].key
                                   /\ new.arr[j][q].key = nodes[b].key
  <2>1. CASE j # i
    <3>1. new.arr[j] = x.arr[j]
      BY <2>1, <1>3
    <3>2. \E a, b \in 1 .. m : /\ a < b
                               /\ x.arr[j][p].key = nodes[a].key
                               /\ x.arr[j][q].key = nodes[b].key
      BY <3>1, <1>7, <1>12
    <3> QED
      BY <3>1, <3>2, <1>10
  <2>2. CASE j = i /\ q \in 1 .. len
    <3>1. p \in 1 .. len
      BY <2>2, <1>12, <1>4
    <3>2. /\ new.arr[j][p] = x.arr[i][p] /\ p \in 1 .. Len(x.arr[i])
          /\ new.arr[j][q] = x.arr[i][q] /\ q \in 1 .. Len(x.arr[i])
      BY <2>2, <3>1, <1>3, <1>4 DEF longer, len
    <3>3. \E a, b \in 1 .. m : /\ a < b
                               /\ x.arr[i][p].key = nodes[a].key
                               /\ x.arr[i][q].key = nodes[b].key
      BY <3>2, <1>4, <1>7, <1>12
    <3> QED
      BY <3>2, <3>3, <1>10
  <2>3. CASE j = i /\ q = len + 1
    <3>1. p \in 1 .. len
      BY <2>3, <1>12, <1>4
    <3>2. new.arr[j][p] = x.arr[i][p] /\ p \in 1 .. Len(x.arr[i])
      BY <2>3, <3>1, <1>3, <1>4 DEF longer, len
    <3>3. PICK a \in 1 .. m : x.arr[i][p].key = nodes[a].key
      BY <3>2, <1>4, <1>7
    <3>4. new.arr[j][q].key = nodes[n].key
      BY <2>3, <1>3 DEF longer
    <3>5. a \in 1 .. n /\ n \in 1 .. n /\ a < n
      OBVIOUS
    <3> QED
      BY <3>2, <3>3, <3>4, <3>5
  <2>4. j = i => q \in 1 .. len + 1
    BY <1>3 DEF longer
  <2> QED
    BY <2>1, <2>2, <2>3, <2>4, <1>4
<1>13. ASSUME NEW k \in Keys
       PROVE  /\ Has(nodes, n, k) <=> Has(Chain(new, k), Len(Chain(new, k)), k)
              /\ \A v : First(nodes, n, k, v)
                          => First(Chain(new, k), Len(Chain(new, k)), k, v)
  <2>1. /\ Has(nodes, n, k) <=> Has(nodes, m, k) \/ nodes[n].key = k
        /\ \A v : First(nodes, n, k, v) <=>
             \/ First(nodes, m, k, v)
             \/ ~ Has(nodes, m, k) /\ nodes[n].key = k /\ nodes[n].val = v
    BY OneMore
  <2>2. CASE Slot(x, k) # i
    <3>1. k # key
      BY <2>2, <1>9
    <3>2. Chain(new, k) = Chain(x, k)
      BY <2>2, <1>3, <1>5, <1>6
    <3> QED
      BY <3>1, <3>2, <2>1, <1>1, <1>8
  <2>3. CASE Slot(x, k) = i
    <3>1. Chain(new, k) = longer /\ Chain(x, k) = chain
      BY <2>3, <1>4, <1>6 DEF longer
    <3>2. /\ Has(longer, len + 1, k) <=> Has(longer, len, k) \/ longer[len + 1].key = k
          /\ \A v : First(longer, len + 1, k, v) <=>
               \/ First(longer, len, k, v)
               \/ ~ Has(longer, len, k) /\ longer[len + 1].key = k /\ longer[len + 1].val = v
      BY <1>4, OneMore
    <3>3. /\ Has(longer, len, k) <=> Has(chain, len, k)
          /\ \A v : First(longer, len, k, v) <=> First(chain, len, k, v)
      BY <1>3, <1>4, SamePrefix
    <3>4. /\ Has(nodes, m, k) <=> Has(chain, len, k)
          /\ \A v : First(nodes, m, k, v) => First(chain, len, k, v)
      BY <3>1, <1>8 DEF len, chain
    <3>5. /\ Has(nodes, n, k) <=> Has(longer, len + 1, k)
          /\ \A v : First(nodes, n, k, v) => First(longer, len + 1, k, v)
      BY <2>1, <3>2, <3>3, <3>4, <1>3
    <3> QED
      BY <3>1, <3>5, <1>3
  <2> QED
    BY <2>2, <2>3
<1>14. new.used = n
  BY <1>3, <1>7
<1>15. Follows(new, nodes, n)
  <2>0. new.size = x.size
    BY <1>3
  <2>1. \A j \in 0 .. new.size - 1 : \A p \in 1 .. Len(new.arr[j]) :
          \E a \in 1 .. n : new.arr[j][p].key = nodes[a].key
    BY <2>0, <1>11
  <2>2. \A j \in 0 .. new.size - 1 : \A p, q \in 1 .. Len(new.arr[j]) :
          p < q => \E a, b \in 1 .. n : /\ a < b
                                        /\ new.arr[j][p].key = nodes[a].key
                                        /\ new.arr[j][q].key = nodes[b].key
    BY <2>0, <1>12
  <2> QED
    BY <2>1, <2>2, <1>13, <1>14 DEF Follows
<1> QED
  BY <1>2, <1>15

LEMMA NewTableSound ==
  ASSUME NEW size \in Nat \ {0}
  PROVE  /\ Sound(NewTable(size)) /\ Exact(NewTable(size))
         /\ NewTable(size).size = size /\ NewTable(size).used = 0
         /\ \A i \in 0 .. size - 1 : NewTable(size).arr[i] = << >>
<1> DEFINE tab == NewTable(size)
           n == tab.size
           seqs == Chains(tab)
<1>1. /\ tab.size = size /\ tab.used = 0
      /\ tab.arr = [i \in 0 .. size - 1 |-> << >>]
      /\ tab = [arr |-> tab.arr, size |-> tab.size, used |-> tab.used]
  BY DEF NewTable
<1>2. \A i \in 0 .. size - 1 : tab.arr[i] = << >>
  BY <1>1
<1>3. tab.arr \in [0 .. size - 1 -> Seq(NodeType)]
  BY <1>1
<1> HIDE DEF tab
<1>4. tab \in Table(tab.size)
  BY <1>1, <1>3 DEF Table
<1>5. Sound(tab)
  <2>1. Placed(tab)
    BY <1>1, <1>2 DEF Placed
  <2>2. \A i \in 0 .. tab.size - 1 : Adjacent(tab.arr[i])
    BY <1>1, <1>2 DEF Adjacent
  <2> QED
    BY <1>1, <1>4, <2>1, <2>2 DEF Sound
<1>6. Len(Nodes(tab)) = 0
  <2>1. /\ n \in Nat \ {0} /\ tab \in Table(n)
    BY <1>1, <1>4
  <2>2. /\ seqs \in [1 .. n -> Seq(NodeType)]
        /\ Nodes(tab) = FlattenSeq(seqs)
        /\ \A i \in 1 .. n : seqs[i] = tab.arr[i - 1]
    BY <2>1, ChainsTyped
  <2> HIDE DEF seqs
  <2>3. ASSUME NEW i \in 1 .. n PROVE seqs[i] = << >>
    <3>1. i - 1 \in 0 .. size - 1
      BY <1>1
    <3>2. tab.arr[i - 1] = << >>
      BY <3>1, <1>2
    <3> QED
      BY <3>2, <2>2
  <2> HIDE DEF n
  <2>4. PICK off : IsOffset(off, seqs, n)
    BY <2>1, <2>2, OffsetExists
  <2>5. Concatenated(FlattenSeq(seqs), off, NodeType, seqs, n)
    BY <2>1, <2>2, <2>4, FlattenPositions
  <2> DEFINE T == {k \in 0 .. n : off[k] = 0}
  <2>6. 0 \in T
    BY <2>1, <2>4 DEF IsOffset
  <2>7. ASSUME NEW k \in 0 .. n - 1, k \in T PROVE k + 1 \in T
    <3>1. PICK i \in 1 .. n : i = k + 1
      BY <2>1
    <3>2. off[i] = off[i - 1] + Len(seqs[i]) /\ off[i - 1] = 0 /\ Len(seqs[i]) = 0
      BY <2>3, <2>4, <2>7, <3>1 DEF IsOffset
    <3>3. off[i] = 0
      BY <3>2
    <3> QED
      BY <3>1, <3>3
  <2>8. n \in T
    <3> HIDE DEF T
    <3>1. 0 .. n \subseteq T
      BY <2>1, <2>6, <2>7, SetInduction
    <3> QED
      BY <2>1, <3>1
  <2> QED
    BY <2>2, <2>5, <2>8 DEF Concatenated
<1> QED
  BY <1>1, <1>2, <1>5, <1>6 DEF tab, Exact

\* The table that rehash fills, after n nodes.
Filling(into, tab) ==
  into = [n \in 0 .. Len(Nodes(tab)) |->
            IF n = 0 THEN NewTable(2 * tab.size + 1)
            ELSE Linked(into[n - 1], Nodes(tab)[n].key, Nodes(tab)[n].val)]

SoundOf(size) == {x \in Table(size) : Sound(x)}

LEMMA NodeTyped ==
  ASSUME NEW nodes \in Seq(NodeType), NEW n \in 1 .. Len(nodes)
  PROVE  /\ nodes[n].key \in Keys /\ nodes[n].val \in Nat
         /\ nodes[n] = NodeOf(nodes[n].key, nodes[n].val)
<1>1. nodes[n] \in NodeType
  OBVIOUS
<1> QED
  BY <1>1 DEF NodeType, NodeOf

LEMMA FillingExists ==
  ASSUME HashTyped, NEW tab, Sound(tab)
  PROVE  \E into : Filling(into, tab) /\ Moved(tab) = into[Len(Nodes(tab))].arr
<1> DEFINE nodes == Nodes(tab)
           len == Len(nodes)
           big == 2 * tab.size + 1
           S == SoundOf(big)
           s0 == NewTable(big)
           step(x, n) == Linked(x, nodes[n].key, nodes[n].val)
           G == [n \in 1 .. len |-> [x \in S |-> step(x, n)]]
<1>1. nodes \in Seq(NodeType) /\ len \in Nat
  BY NodesAdjacent
<1>2. big \in Nat \ {0}
  BY DEF Sound
<1> HIDE DEF nodes, big
<1>3. s0 \in S
  BY <1>2, NewTableSound DEF Sound, SoundOf
<1>4. ASSUME NEW n \in 1 .. len, NEW x \in S PROVE step(x, n) \in S
  <2>1. nodes[n].key \in Keys /\ nodes[n].val \in Nat
    BY <1>1, NodeTyped
  <2>2. Sound(x) /\ x.size = big
    BY DEF SoundOf, Table
  <2>3. Sound(step(x, n)) /\ step(x, n).size = big
    BY <2>1, <2>2, LinkedSound
  <2> HIDE DEF step
  <2>4. step(x, n) \in Table(big)
    BY <2>3 DEF Sound
  <2> QED
    BY <2>3, <2>4 DEF SoundOf
<1> HIDE DEF len, s0, S, step
<1>5. G \in [1 .. len -> [S -> S]]
  BY <1>4
<1>6. len \in Nat
  BY <1>1
<1>7. PICK g : IsRecursion(g, S, s0, len, G)
  <2> HIDE DEF G
  <2> QED
    BY <1>3, <1>5, <1>6, RecursionExists
<1>8. /\ g \in [0 .. len -> S]
      /\ g[0] = s0
      /\ \A n \in 1 .. len : g[n] = G[n][g[n - 1]]
  BY <1>7 DEF IsRecursion
<1>9. ASSUME NEW n \in 0 .. len
      PROVE  g[n] = IF n = 0 THEN s0 ELSE step(g[n - 1], n)
  <2>1. CASE n = 0
    BY <2>1, <1>8
  <2>2. CASE n # 0
    <3>1. n \in 1 .. len /\ g[n - 1] \in S
      BY <2>2, <1>6, <1>8
    <3>2. g[n] = G[n][g[n - 1]]
      BY <3>1, <1>8
    <3>3. G[n][g[n - 1]] = step(g[n - 1], n)
      BY <3>1
    <3> QED
      BY <2>2, <3>2, <3>3
  <2> QED
    BY <2>1, <2>2
<1>10. g = [n \in 0 .. len |-> IF n = 0 THEN s0 ELSE step(g[n - 1], n)]
  BY <1>8, <1>9
<1>11. Filling(g, tab)
  BY <1>10 DEF Filling, len, s0, step, big, nodes
<1> DEFINE into == CHOOSE h : Filling(h, tab)
<1>12. Filling(into, tab)
  BY <1>11
<1>13. Moved(tab) = into[Len(Nodes(tab))].arr
  BY DEF Moved, Filling
<1> HIDE DEF into
<1> QED
  BY <1>12, <1>13

LEMMA FillingFollows ==
  ASSUME HashTyped, NEW tab, Sound(tab), NEW into, Filling(into, tab)
  PROVE  LET new == into[Len(Nodes(tab))]
         IN  /\ Sound(new) /\ Exact(new) /\ new.size = 2 * tab.size + 1
             /\ Follows(new, Nodes(tab), Len(Nodes(tab)))
<1> DEFINE nodes == Nodes(tab)
           len == Len(nodes)
           big == 2 * tab.size + 1
           Good(n) == /\ Sound(into[n]) /\ Exact(into[n]) /\ into[n].size = big
                      /\ Follows(into[n], nodes, n)
           T == {n \in Nat : Good(n)}
<1>1. nodes \in Seq(NodeType) /\ Adjacent(nodes) /\ len \in Nat
  BY NodesAdjacent
<1>2. big \in Nat \ {0}
  BY DEF Sound
<1>3. into = [n \in 0 .. len |->
                IF n = 0 THEN NewTable(big)
                ELSE Linked(into[n - 1], nodes[n].key, nodes[n].val)]
  BY DEF Filling
<1> HIDE DEF nodes, len, big
<1>4. \A n \in 0 .. len :
        into[n] = IF n = 0 THEN NewTable(big)
                  ELSE Linked(into[n - 1], nodes[n].key, nodes[n].val)
  <2> DEFINE e(n) == IF n = 0 THEN NewTable(big)
                     ELSE Linked(into[n - 1], nodes[n].key, nodes[n].val)
  <2>1. into = [n \in 0 .. len |-> e(n)]
    BY <1>3
  <2> HIDE DEF e
  <2>2. \A n \in 0 .. len : into[n] = e(n)
    BY <2>1
  <2> QED
    BY <2>2 DEF e
<1>5. Good(0)
  <2>1. into[0] = NewTable(big)
    BY <1>1, <1>4 DEF len
  <2> DEFINE x == NewTable(big)
  <2>2. /\ Sound(x) /\ Exact(x) /\ x.size = big /\ x.used = 0
        /\ \A i \in 0 .. big - 1 : x.arr[i] = << >>
    BY <1>2, NewTableSound
  <2> HIDE DEF x
  <2>3. \A key \in Keys : Chain(x, key) = << >>
    BY <2>2, ChainTyped DEF Chain
  <2>4. Follows(x, nodes, 0)
    <3>1. \A i \in 0 .. x.size - 1 : Len(x.arr[i]) = 0
      BY <2>2
    <3>2. \A s, k : ~ Has(s, 0, k) /\ \A v : ~ First(s, 0, k, v)
      BY DEF Has, First
    <3>3. \A key \in Keys : Len(Chain(x, key)) = 0
      BY <2>3
    <3> QED
      BY <2>2, <3>1, <3>2, <3>3 DEF Follows
  <2> QED
    BY <2>1, <2>2, <2>4 DEF x
<1>6. ASSUME NEW m \in 0 .. len - 1, m \in T PROVE m + 1 \in T
  <2>1. PICK n \in 1 .. len : n = m + 1
    BY <1>1 DEF len
  <2> DEFINE x == into[m]
             key == nodes[n].key
             val == nodes[n].val
  <2>2. Sound(x) /\ Exact(x) /\ x.size = big /\ Follows(x, nodes, m)
    BY <1>6
  <2>3. key \in Keys /\ val \in Nat /\ nodes[n] = NodeOf(key, val)
    BY <1>1, NodeTyped DEF len
  <2>4. into[n] = Linked(x, key, val)
    <3>1. n \in 0 .. len /\ n # 0 /\ n - 1 = m
      BY <2>1
    <3> QED
      BY <3>1, <1>4
  <2> HIDE DEF x, key, val
  <2>5. m \in Nat /\ n \in 1 .. Len(nodes)
    BY DEF len
  <2>6. Follows(Linked(x, key, val), nodes, n)
    BY <1>1, <2>1, <2>2, <2>3, <2>5, MoveNode
  <2>7. Sound(Linked(x, key, val)) /\ Linked(x, key, val).size = big
    BY <2>2, <2>3, LinkedSound
  <2>8. Exact(Linked(x, key, val))
    BY <2>2, <2>3, LinkedExact
  <2>9. Good(n)
    BY <2>4, <2>6, <2>7, <2>8
  <2> HIDE DEF Good
  <2> QED
    BY <2>1, <2>9
<1>7. len \in T
  <2>1. 0 \in T /\ len \in Nat
    BY <1>1, <1>5 DEF len
  <2> HIDE DEF T
  <2>2. 0 .. len \subseteq T
    BY <2>1, <1>6, SetInduction
  <2> QED
    BY <2>1, <2>2
<1> QED
  BY <1>7 DEF len, nodes, big

\* A rehash keeps the count exact and every key's first value.
LEMMA RehashedSame ==
  ASSUME HashTyped, NEW tab, Sound(tab), Exact(tab)
  PROVE  LET new == Rehashed(tab)
         IN  /\ Sound(new) /\ Exact(new)
             /\ \A key \in Keys :
                  /\ Has(Chain(tab, key), Len(Chain(tab, key)), key)
                       <=> Has(Chain(new, key), Len(Chain(new, key)), key)
                  /\ \A val : First(Chain(tab, key), Len(Chain(tab, key)), key, val)
                                => First(Chain(new, key), Len(Chain(new, key)), key, val)
<1>1. PICK into : Filling(into, tab) /\ Moved(tab) = into[Len(Nodes(tab))].arr
  BY FillingExists
<1> DEFINE nodes == Nodes(tab)
           last == into[Len(nodes)]
<1>2. /\ Sound(last) /\ Exact(last) /\ last.size = 2 * tab.size + 1
      /\ Follows(last, nodes, Len(nodes))
  BY <1>1, FillingFollows
<1>3. Moved(tab) = last.arr
  BY <1>1
<1> HIDE DEF last
<1>4. last = [arr |-> last.arr, size |-> last.size, used |-> last.used]
  BY <1>2, TableParts
<1>5. last.used = tab.used
  BY <1>2 DEF Follows, Exact
<1>6. Rehashed(tab) = last
  BY <1>2, <1>3, <1>4, <1>5 DEF Rehashed
<1>7. ASSUME NEW key \in Keys
      PROVE  /\ Has(Chain(tab, key), Len(Chain(tab, key)), key)
                  <=> Has(Chain(last, key), Len(Chain(last, key)), key)
             /\ \A val : First(Chain(tab, key), Len(Chain(tab, key)), key, val)
                           => First(Chain(last, key), Len(Chain(last, key)), key, val)
  <2>1. /\ Has(nodes, Len(nodes), key)
             <=> Has(Chain(tab, key), Len(Chain(tab, key)), key)
        /\ \A val : First(Chain(tab, key), Len(Chain(tab, key)), key, val)
                      => First(nodes, Len(nodes), key, val)
    BY NodesFirst
  <2>2. /\ Has(nodes, Len(nodes), key)
             <=> Has(Chain(last, key), Len(Chain(last, key)), key)
        /\ \A val : First(nodes, Len(nodes), key, val)
                      => First(Chain(last, key), Len(Chain(last, key)), key, val)
    BY <1>2 DEF Follows
  <2> QED
    BY <2>1, <2>2
<1> QED
  BY <1>2, <1>6, <1>7

-----------------------------------------------------------------------------
(* Lookups.                                                                *)

HasKey(tab, key) == Has(Chain(tab, key), Len(Chain(tab, key)), key)

FirstIs(tab, key, val) == First(Chain(tab, key), Len(Chain(tab, key)), key, val)

LEMMA Lookup ==
  ASSUME HashTyped, NEW tab, Sound(tab), NEW key \in Keys
  PROVE  /\ Found(tab, key) <=> HasKey(tab, key)
         /\ HasKey(tab, key) => FirstIs(tab, key, Value(tab, key))
<1> DEFINE chain == Chain(tab, key)
           I == {i \in 1 .. Len(chain) : chain[i].key = key}
           p == IF I # {} THEN Min(I) ELSE 0
<1>1. Len(chain) \in Nat
  BY ChainTyped
<1>2. Position(tab, key) = p /\ Value(tab, key) = chain[Position(tab, key)].val
  BY DEF Position, Value, SelectInSeq, Chain, Slot
<1>3. HasKey(tab, key) <=> I # {}
  BY DEF HasKey, Has
<1>4. ASSUME I # {}
      PROVE  Min(I) \in I /\ \A y \in I : Min(I) <= y
  <2> DEFINE n == Len(chain)
  <2>1. n \in Nat /\ I \in SUBSET (1 .. n)
    BY <1>1
  <2> HIDE DEF I, n
  <2> QED
    BY <2>1, <1>4, FirstMatch
<1>5. CASE I = {}
  <2>1. Position(tab, key) = 0
    BY <1>2, <1>5
  <2> QED
    BY <1>3, <1>5, <2>1 DEF Found
<1>6. CASE I # {}
  <2>1. Position(tab, key) = Min(I)
    BY <1>2, <1>6
  <2> DEFINE m == Min(I)
  <2>2. m \in I /\ \A y \in I : m <= y
    BY <1>4, <1>6
  <2> HIDE DEF m
  <2>3. m \in 1 .. Len(chain) /\ chain[m].key = key
    BY <2>2
  <2>4. \A q \in 1 .. m - 1 : chain[q].key # key
    <3> SUFFICES ASSUME NEW q \in 1 .. m - 1, chain[q].key = key PROVE FALSE
      OBVIOUS
    <3>1. q \in 1 .. Len(chain) /\ q < m
      BY <2>3, <1>1
    <3>2. q \in I
      BY <3>1
    <3>3. m <= q
      BY <3>2, <2>2
    <3> QED
      BY <3>1, <3>3, <2>3, <1>1
  <2>5. Value(tab, key) = chain[m].val
    BY <1>2, <2>1 DEF m
  <2>6. FirstIs(tab, key, Value(tab, key))
    <3> HIDE DEF chain
    <3>1. First(chain, Len(chain), key, Value(tab, key))
      BY <2>3, <2>4, <2>5 DEF First
    <3> QED
      BY <3>1 DEF FirstIs, chain
  <2>7. Position(tab, key) # 0
    BY <2>1, <2>3, <1>1 DEF m
  <2> QED
    BY <1>3, <1>6, <2>6, <2>7 DEF Found
<1> QED
  BY <1>5, <1>6

LEMMA FirstUnique ==
  ASSUME NEW n \in Nat, NEW s, NEW key, NEW u, NEW v,
         First(s, n, key, u), First(s, n, key, v)
  PROVE  u = v
<1>1. PICK p \in 1 .. n : /\ s[p].key = key /\ s[p].val = u
                          /\ \A q \in 1 .. p - 1 : s[q].key # key
  BY DEF First
<1>2. PICK r \in 1 .. n : /\ s[r].key = key /\ s[r].val = v
                          /\ \A q \in 1 .. r - 1 : s[q].key # key
  BY DEF First
<1>3. p = r
  <2>1. ~ p < r
    BY <1>1, <1>2
  <2>2. ~ r < p
    BY <1>1, <1>2
  <2> QED
    BY <2>1, <2>2
<1> QED
  BY <1>1, <1>2, <1>3

\* Two tables in which every key has the same first value, if any.
SameFirst(old, new, key) ==
  /\ HasKey(old, key) <=> HasKey(new, key)
  /\ \A val : FirstIs(old, key, val) => FirstIs(new, key, val)

LEMMA SameLookup ==
  ASSUME HashTyped, NEW old, Sound(old), NEW new, Sound(new),
         NEW key \in Keys, SameFirst(old, new, key)
  PROVE  /\ Found(old, key) <=> Found(new, key)
         /\ Found(old, key) => Value(old, key) = Value(new, key)
<1>1. Found(old, key) <=> Found(new, key)
  BY Lookup DEF SameFirst
<1>2. ASSUME Found(old, key) PROVE Value(old, key) = Value(new, key)
  <2>1. FirstIs(new, key, Value(old, key))
    BY <1>2, Lookup DEF SameFirst
  <2>2. FirstIs(new, key, Value(new, key))
    BY <1>1, <1>2, Lookup
  <2>3. Len(Chain(new, key)) \in Nat
    BY ChainTyped
  <2> QED
    BY <2>1, <2>2, <2>3, FirstUnique DEF FirstIs
<1> QED
  BY <1>1, <1>2

\* Adding a key leaves every first value, and enters its own if there was none.
LEMMA LinkedLookup ==
  ASSUME HashTyped, NEW tab, Sound(tab), NEW key \in Keys, NEW val \in Nat
  PROVE  LET new == Linked(tab, key, val)
         IN  /\ \A k \in Keys : k # key \/ HasKey(tab, key) => SameFirst(tab, new, k)
             /\ ~ HasKey(tab, key) => FirstIs(new, key, val)
             /\ HasKey(new, key)
<1> DEFINE chain == Chain(tab, key)
           len == Len(chain)
           new == Linked(tab, key, val)
           longer == new.arr[Slot(tab, key)]
<1>1. chain \in Seq(NodeType) /\ len \in Nat /\ Slot(tab, key) \in 0 .. tab.size - 1
  BY ChainTyped
<1>2. tab = [arr |-> tab.arr, size |-> tab.size, used |-> tab.used]
  BY TableParts
<1>3. CASE Has(chain, len - 1, key)
  <2>1. new = tab
    BY <1>2, <1>3, LinkedCases
  <2>2. HasKey(tab, key)
    <3>1. \A p \in 1 .. len - 1 : p \in 1 .. len
      BY <1>1
    <3> QED
      BY <1>3, <3>1 DEF HasKey, Has
  <2> HIDE DEF new
  <2> QED
    BY <2>1, <2>2 DEF SameFirst, new
<1>4. CASE ~ Has(chain, len - 1, key)
  <2>1. new = Appended(tab, key, val)
    BY <1>2, <1>4, LinkedCases
  <2>2. /\ new.size = tab.size
        /\ \A j \in 0 .. tab.size - 1 : j # Slot(tab, key) => new.arr[j] = tab.arr[j]
        /\ longer \in Seq(NodeType)
        /\ Len(longer) = len + 1
        /\ \A p \in 1 .. len : longer[p] = chain[p]
        /\ longer[len + 1] = NodeOf(key, val)
    BY <2>1, AppendedChains
  <2>3. longer[len + 1].key = key /\ longer[len + 1].val = val
    BY <2>2 DEF NodeOf
  <2> HIDE DEF new
  <2>4. \A k : Chain(new, k) = new.arr[Slot(tab, k)] /\ Chain(tab, k) = tab.arr[Slot(tab, k)]
    BY <2>2 DEF Chain, Slot
  <2> HIDE DEF chain, len, longer
  <2>5. ASSUME NEW k
        PROVE  /\ Has(longer, len + 1, k) <=> Has(chain, len, k) \/ k = key
               /\ \A v : First(longer, len + 1, k, v) <=>
                    \/ First(chain, len, k, v)
                    \/ ~ Has(chain, len, k) /\ k = key /\ v = val
    <3>1. /\ Has(longer, len + 1, k) <=> Has(longer, len, k) \/ longer[len + 1].key = k
          /\ \A v : First(longer, len + 1, k, v) <=>
               \/ First(longer, len, k, v)
               \/ ~ Has(longer, len, k) /\ longer[len + 1].key = k /\ longer[len + 1].val = v
      BY <1>1, OneMore
    <3>2. /\ Has(longer, len, k) <=> Has(chain, len, k)
          /\ \A v : First(longer, len, k, v) <=> First(chain, len, k, v)
      BY <1>1, <2>2, SamePrefix
    <3> QED
      BY <3>1, <3>2, <2>3
  <2>6. ASSUME NEW k \in Keys, Slot(tab, k) = Slot(tab, key)
        PROVE  /\ HasKey(new, k) <=> Has(longer, len + 1, k)
               /\ HasKey(tab, k) <=> Has(chain, len, k)
               /\ \A v : FirstIs(new, k, v) <=> First(longer, len + 1, k, v)
               /\ \A v : FirstIs(tab, k, v) <=> First(chain, len, k, v)
    <3>1. Chain(new, k) = longer /\ Chain(tab, k) = chain
      BY <2>4, <2>6 DEF longer, chain, Chain
    <3> QED
      BY <3>1, <2>2 DEF HasKey, FirstIs, len
  <2>7. ASSUME NEW k \in Keys, k # key \/ HasKey(tab, key)
        PROVE  SameFirst(tab, new, k)
    <3>1. CASE Slot(tab, k) # Slot(tab, key)
      <4>1. Slot(tab, k) \in 0 .. tab.size - 1
        BY ChainTyped
      <4>2. Chain(new, k) = Chain(tab, k)
        BY <3>1, <4>1, <2>2, <2>4
      <4> QED
        BY <4>2 DEF SameFirst, HasKey, FirstIs
    <3>2. CASE Slot(tab, k) = Slot(tab, key)
      <4>1. HasKey(tab, key) <=> Has(chain, len, key)
        BY <2>6
      <4> QED
        BY <3>2, <2>5, <2>6, <2>7, <4>1 DEF SameFirst
    <3> QED
      BY <3>1, <3>2
  <2>8. ~ HasKey(tab, key) => FirstIs(new, key, val)
    BY <2>5, <2>6
  <2>9. HasKey(new, key)
    BY <2>5, <2>6
  <2> QED
    BY <2>7, <2>8, <2>9 DEF new
<1> QED
  BY <1>3, <1>4

-----------------------------------------------------------------------------
(* The load.                                                               *)

Shaped(tab) ==
  /\ tab = [arr |-> tab.arr, size |-> tab.size, used |-> tab.used]
  /\ tab.size \in Nat \ {0}
  /\ tab.used \in Nat

Below(tab) == 4 * tab.used < 3 * tab.size + 4

\* Adding a node after the check for a rehash changes the count by one at
\* the most and never the size.
LEMMA LinkedShaped ==
  ASSUME NEW tab, Shaped(tab), NEW key, NEW val
  PROVE  /\ Shaped(Linked(tab, key, val))
         /\ Linked(tab, key, val).size = tab.size
         /\ Linked(tab, key, val).used \in {tab.used, tab.used + 1}
<1> DEFINE i == hash[key] % tab.size
           linked(arr) == [arr |-> arr, size |-> tab.size, used |-> tab.used + 1]
<1>1. \/ Linked(tab, key, val) = tab
      \/ \E arr : Linked(tab, key, val) = linked(arr)
  <2>1. tab = [arr |-> tab.arr, size |-> tab.size, used |-> tab.used]
    BY DEF Shaped
  <2>2. \A chain : [tab EXCEPT !.arr[i] = chain, !.used = @ + 1]
                     = linked([tab.arr EXCEPT ![i] = chain])
    <3> HIDE DEF i
    <3> QED
      BY <2>1, ExceptLinked, Zenon
  <2> HIDE DEF linked
  <2> QED
    BY <2>2 DEF Linked
<1>2. \A arr : Shaped(linked(arr))
  BY DEF Shaped
<1> QED
  BY <1>1, <1>2

\* A table of twice the size holds the nodes and has room for more.
LEMMA RehashedShaped ==
  ASSUME NEW tab, Shaped(tab), Below(tab)
  PROVE  /\ Shaped(RehashedIfNeeded(tab))
         /\ 4 * RehashedIfNeeded(tab).used < 3 * RehashedIfNeeded(tab).size
<1>1. CASE ShouldRehash(tab)
  <2> DEFINE rehashed(arr) == [arr |-> arr, size |-> 2 * tab.size + 1, used |-> tab.used]
  <2>1. RehashedIfNeeded(tab) = rehashed(Moved(tab))
    BY <1>1 DEF RehashedIfNeeded, Rehashed
  <2>2. \A arr : /\ Shaped(rehashed(arr))
                 /\ 4 * rehashed(arr).used < 3 * rehashed(arr).size
    BY DEF Shaped, Below
  <2> QED
    BY <2>1, <2>2
<1>2. CASE ~ ShouldRehash(tab)
  BY <1>2 DEF RehashedIfNeeded, ShouldRehash, Shaped
<1> QED
  BY <1>1, <1>2

LoadInv == Shaped(t) /\ LoadBounded

LEMMA InitLoad ==
  ASSUME Init
  PROVE  LoadInv
<1>1. PICK size \in Nat \ {0} : t = NewTable(size)
  BY HashAssumption DEF Init
<1>2. \A arr : LET tab == [arr |-> arr, size |-> size, used |-> 0]
               IN  Shaped(tab) /\ Below(tab)
  BY DEF Shaped, Below
<1> QED
  BY <1>1, <1>2 DEF LoadInv, LoadBounded, Below, NewTable

LEMMA AddLoad ==
  ASSUME LoadInv, NEW key \in Keys, add_hashtable(key)
  PROVE  LoadInv'
<1> DEFINE tab == RehashedIfNeeded(t)
<1>1. Shaped(tab) /\ 4 * tab.used < 3 * tab.size
  BY RehashedShaped DEF LoadInv, LoadBounded, Below
<1>2. t' = Linked(tab, key, count)
  BY DEF add_hashtable
<1>3. /\ Shaped(t')
      /\ t'.size = tab.size
      /\ t'.used \in {tab.used, tab.used + 1}
  <2> HIDE DEF tab
  <2> QED
    BY <1>1, <1>2, LinkedShaped
<1>4. 4 * t'.used < 3 * t'.size + 4
  <2> HIDE DEF tab
  <2> QED
    BY <1>1, <1>3 DEF Shaped
<1> QED
  BY <1>3, <1>4 DEF LoadInv, LoadBounded, Shaped

\* A table is never more than one node over its load factor, whatever the
\* names and their codes: rehash never has to rehash the table it fills
\* (add_hashtable and rehash of hash.c).
THEOREM LoadStaysBounded == Spec => []LoadBounded
<1>1. LoadInv /\ [Next]_hvars => LoadInv'
  <2> SUFFICES ASSUME LoadInv, [Next]_hvars PROVE LoadInv'
    OBVIOUS
  <2>1. CASE Next
    BY <2>1, AddLoad DEF Next
  <2>2. CASE UNCHANGED hvars
    BY <2>2 DEF hvars, LoadInv, LoadBounded, Shaped
  <2> QED
    BY <2>1, <2>2
<1>2. LoadInv => LoadBounded
  BY DEF LoadInv
<1> QED
  BY InitLoad, <1>1, <1>2, PTL DEF Spec

-----------------------------------------------------------------------------
(* The specification.                                                      *)

\* The inductive invariant: sound chains and an exact count.
IInv ==
  /\ HashTyped
  /\ Sound(t)
  /\ Exact(t)
  /\ count \in 0 .. MaxAdds

LEMMA RehashedIfNeededSame ==
  ASSUME HashTyped, NEW tab, Sound(tab), Exact(tab)
  PROVE  /\ Sound(RehashedIfNeeded(tab)) /\ Exact(RehashedIfNeeded(tab))
         /\ \A key \in Keys : SameFirst(tab, RehashedIfNeeded(tab), key)
<1>1. CASE ShouldRehash(tab)
  <2>1. RehashedIfNeeded(tab) = Rehashed(tab)
    BY <1>1 DEF RehashedIfNeeded
  <2> QED
    BY <2>1, RehashedSame DEF SameFirst, HasKey, FirstIs
<1>2. CASE ~ ShouldRehash(tab)
  <2>1. RehashedIfNeeded(tab) = tab
    BY <1>2 DEF RehashedIfNeeded
  <2> QED
    BY <2>1 DEF SameFirst
<1> QED
  BY <1>1, <1>2

LEMMA InitIInv == Init => IInv
<1> SUFFICES ASSUME Init PROVE IInv
  OBVIOUS
<1>1. PICK size \in Nat \ {0} : t = NewTable(size)
  BY HashAssumption DEF Init
<1>2. Sound(t) /\ Exact(t)
  BY <1>1, NewTableSound
<1> QED
  BY <1>2, HashAssumption DEF Init, IInv, HashTyped

LEMMA AddIInv ==
  ASSUME IInv, NEW key \in Keys, add_hashtable(key)
  PROVE  IInv'
<1> DEFINE tab == RehashedIfNeeded(t)
           new == Linked(tab, key, count)
<1>1. HashTyped /\ Sound(tab) /\ Exact(tab) /\ count \in Nat
  BY RehashedIfNeededSame DEF IInv
<1> HIDE DEF tab
<1>2. Sound(new) /\ Exact(new)
  BY <1>1, LinkedSound, LinkedExact
<1>3. t' = new /\ hash' = hash /\ count' = count + 1 /\ count < MaxAdds
  BY DEF add_hashtable, tab
<1> HIDE DEF new
<1>4. Sound(t)' /\ Exact(t)'
  BY <1>2, <1>3 DEF Sound, Table, Placed, Adjacent, Slot, Exact, Nodes
<1>5. HashTyped'
  BY <1>1, <1>3 DEF HashTyped
<1>6. count' \in 0 .. MaxAdds
  BY <1>3, HashAssumption DEF IInv
<1> QED
  BY <1>4, <1>5, <1>6 DEF IInv

LEMMA NextIInv == IInv /\ [Next]_hvars => IInv'
<1> SUFFICES ASSUME IInv, [Next]_hvars PROVE IInv'
  OBVIOUS
<1>1. CASE Next
  BY <1>1, AddIInv DEF Next
<1>2. CASE UNCHANGED hvars
  BY <1>2 DEF hvars, IInv, HashTyped, Sound, Table, Placed, Adjacent, Slot, Exact, Nodes
<1> QED
  BY <1>1, <1>2

\* Every table is an array of chains as long as its size says, however many
\* rehashes made it (init_hashtable, add_hashtable and rehash of hash.c).
THEOREM TypeCorrect == Spec => []TypeOK
<1>1. IInv => TypeOK
  BY TableParts DEF IInv, TypeOK, HashTyped, Sound
<1> QED
  BY InitIInv, NextIInv, <1>1, PTL DEF Spec

\* used is the number of nodes, for every table and every sequence of adds:
\* rehash takes the old count over, and moving never drops a node (rehash of
\* hash.c, and the comparison in add_hashtable that leaves out the last node).
THEOREM UsedStaysExact == Spec => []UsedExact
<1>1. IInv => UsedExact
  BY DEF IInv, Exact, UsedExact
<1> QED
  BY InitIInv, NextIInv, <1>1, PTL DEF Spec

\* A name has two nodes at the most, one right after the other, before and
\* after any number of rehashes (add_hashtable of hash.c).
THEOREM CopiesStayAdjacent == Spec => []CopiesAdjacent
<1>1. IInv => CopiesAdjacent
  <2> SUFFICES ASSUME IInv, NEW i \in 0 .. t.size - 1,
                      NEW m \in DOMAIN t.arr[i], NEW n \in DOMAIN t.arr[i],
                      t.arr[i][m].key = t.arr[i][n].key, m < n
               PROVE  n = m + 1
    BY DEF CopiesAdjacent
  <2>1. t.arr[i] \in Seq(NodeType) /\ Adjacent(t.arr[i])
    BY TableParts DEF IInv, Sound
  <2>2. DOMAIN t.arr[i] = 1 .. Len(t.arr[i])
    BY <2>1
  <2> QED
    BY <2>1, <2>2 DEF Adjacent
<1> QED
  BY InitIInv, NextIInv, <1>1, PTL DEF Spec

-----------------------------------------------------------------------------
(* The refinement of StringIds.                                            *)

LEMMA InitAbstract ==
  ASSUME Init
  PROVE  Abstract!Init
<1>1. PICK size \in Nat \ {0} : t = NewTable(size)
  BY HashAssumption DEF Init
<1>2. Sound(t) /\ \A i \in 0 .. t.size - 1 : t.arr[i] = << >>
  BY <1>1, NewTableSound
<1>3. HashTyped
  BY DEF Init, HashTyped
<1>4. ASSUME NEW key \in Keys PROVE ~ Found(t, key)
  <2>1. Chain(t, key) = << >>
    BY <1>2, <1>3, ChainTyped DEF Chain
  <2>2. ~ HasKey(t, key)
    BY <2>1 DEF HasKey, Has
  <2> QED
    BY <1>2, <1>3, <2>2, Lookup
<1>5. {key \in Keys : Found(t, key)} = {}
  BY <1>4
<1>6. ids = [k \in {} |-> 0]
  BY <1>5 DEF ids
<1> QED
  BY <1>6 DEF Abstract!Init, Init

LEMMA AddAbstract ==
  ASSUME IInv, NEW key \in Keys, add_hashtable(key)
  PROVE  Abstract!Add(key)
<1> DEFINE tab == RehashedIfNeeded(t)
           new == Linked(tab, key, count)
           old == {k \in Keys : Found(t, k)}
<1>1. HashTyped /\ Sound(t) /\ Sound(tab) /\ Exact(tab) /\ count \in Nat
  BY RehashedIfNeededSame DEF IInv
<1>2. \A k \in Keys : SameFirst(t, tab, k)
  BY RehashedIfNeededSame DEF IInv
<1> HIDE DEF tab
<1>3. Sound(new)
  BY <1>1, LinkedSound
<1>4. t' = new /\ hash' = hash /\ count' = count + 1
  BY DEF add_hashtable, tab
<1>5. /\ \A k \in Keys : k # key \/ HasKey(tab, key) => SameFirst(tab, new, k)
      /\ ~ HasKey(tab, key) => FirstIs(new, key, count)
      /\ HasKey(new, key)
  BY <1>1, LinkedLookup
<1> HIDE DEF new
<1>6. ASSUME NEW k \in Keys, k # key \/ Found(t, key)
      PROVE  /\ Found(new, k) <=> Found(t, k)
             /\ Found(t, k) => Value(new, k) = Value(t, k)
  <2>1. Found(t, key) <=> HasKey(tab, key)
    BY <1>1, <1>2, Lookup DEF SameFirst
  <2>2. SameFirst(t, new, k)
    BY <1>2, <1>5, <1>6, <2>1 DEF SameFirst
  <2> QED
    BY <1>1, <1>3, <2>2, SameLookup
<1>7. Found(new, key) /\ (~ Found(t, key) => Value(new, key) = count)
  <2>1. Found(new, key) /\ FirstIs(new, key, Value(new, key))
    BY <1>1, <1>3, <1>5, Lookup
  <2>2. ~ Found(t, key) => FirstIs(new, key, count)
    BY <1>1, <1>2, <1>5, Lookup DEF SameFirst
  <2>3. Len(Chain(new, key)) \in Nat
    BY <1>1, <1>3, ChainTyped
  <2> QED
    BY <2>1, <2>2, <2>3, FirstUnique DEF FirstIs
<1>8. {k \in Keys : Found(new, k)} = old \cup {key}
  BY <1>6, <1>7
<1>9. \A k \in old \cup {key} :
        Value(new, k) = IF k \in old THEN Value(t, k) ELSE count
  BY <1>6, <1>7
<1>10. /\ DOMAIN ids = old
       /\ \A k \in old : ids[k] = Value(t, k)
  BY DEF ids
<1>11. ids' = [k \in {kk \in Keys : Found(new, kk)} |-> Value(new, k)]
  BY <1>4 DEF ids, Found, Value, Position, SelectInSeq
<1> HIDE DEF old
<1>12. ids' = [k \in old \cup {key} |-> IF k \in old THEN ids[k] ELSE count]
  BY <1>8, <1>9, <1>10, <1>11
<1> QED
  BY <1>4, <1>10, <1>12 DEF Abstract!Add

\* The table implements StringIds: every add of the code is an add of the
\* abstract table, so a lookup gives every name its first position, with any
\* collisions and through any number of rehashes (get_hashtable of hash.c).
THEOREM Refinement == Spec => ImplementsStringIds
<1>1. Init => Abstract!Init
  BY InitAbstract
<1>2. IInv /\ [Next]_hvars => [Abstract!Next]_<<ids, count>>
  <2> SUFFICES ASSUME IInv, [Next]_hvars PROVE [Abstract!Next]_<<ids, count>>
    OBVIOUS
  <2>1. CASE Next
    BY <2>1, AddAbstract DEF Next, Abstract!Next
  <2>2. CASE UNCHANGED hvars
    <3>1. UNCHANGED << ids, count >>
      BY <2>2 DEF hvars, ids, Found, Value, Position, SelectInSeq
    <3> QED
      BY <3>1
  <2> QED
    BY <2>1, <2>2
<1>3. Spec => Abstract!Spec
  BY InitIInv, NextIInv, <1>1, <1>2, PTL DEF Spec, Abstract!Spec
<1> QED
  BY <1>3 DEF ImplementsStringIds

=============================================================================
