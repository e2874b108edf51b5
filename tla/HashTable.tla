------------------------------ MODULE HashTable ------------------------------
(***************************************************************************)
(* The chained hashtable of util/hash.c, as its callers use it: names are  *)
(* added with their position in a list (parse_nm, parse_xp and             *)
(* str_array_to_hashtable) and looked up, and none is ever removed.        *)
(*                                                                         *)
(* add_hashtable compares the new key with every node of the chain but the *)
(* last, so a key may be there twice; and rehash moves every node to a     *)
(* table of its own, then keeps only the array and the size of that table. *)
(***************************************************************************)
EXTENDS SequencesExt, Naturals

CONSTANTS
  Keys,       \* the names
  Codes,      \* the values of hash()
  InitSizes,  \* the sizes a table is made with; 7 and 101 in the code
  MaxAdds     \* bound: the most names added

ASSUME HashAssumption ==
  /\ Codes \subseteq Nat
  /\ InitSizes \subseteq Nat \ {0}
  /\ MaxAdds \in Nat

VARIABLES
  hash,   \* the hash function, the same all along
  t,      \* the table
  count   \* the value the next name is added with

hvars == << hash, t, count >>

-----------------------------------------------------------------------------
\* init_hashtable
NewTable(size) ==
  [arr |-> [i \in 0 .. size - 1 |-> << >>], size |-> size, used |-> 0]

\* get_loadfactor(t) >= LOAD_FACTOR
ShouldRehash(tab) == 4 * tab.used >= 3 * tab.size

\* A variant that puts the new node first, and one that miscounts.
LinkedFirst(tab, key, val) ==
  LET i == hash[key] % tab.size
  IN  [tab EXCEPT !.arr[i] = << [key |-> key, val |-> val] >> \o @,
                  !.used = @ + 1]

LinkedMiscounted(tab, key, val) ==
  LET i == hash[key] % tab.size
  IN  [tab EXCEPT !.arr[i] = IF \E n \in 1 .. Len(@) - 1 : @[n].key = key
                             THEN @ ELSE Append(@, [key |-> key, val |-> val]),
                  !.used = @ + 1]

\* The rest of add_hashtable: the node is linked at the end of its chain
\* unless a node before the last one has its key.
Linked(tab, key, val) ==
  LET i == hash[key] % tab.size
      chain == tab.arr[i]
  IN  IF \E n \in 1 .. Len(chain) - 1 : chain[n].key = key
      THEN tab
      ELSE [tab EXCEPT !.arr[i] = Append(chain, [key |-> key, val |-> val]),
                       !.used = @ + 1]

(***************************************************************************)
(* rehash.  The adds to the new table would rehash it in turn if its load  *)
(* reached LOAD_FACTOR; LoadBounded says why it never does.                *)
(***************************************************************************)
Nodes(tab) == FlattenSeq([i \in 1 .. tab.size |-> tab.arr[i - 1]])

Moved(tab) ==
  LET nodes == Nodes(tab)
      into[n \in 0 .. Len(nodes)] ==
        IF n = 0 THEN NewTable(2 * tab.size + 1)
                 ELSE Linked(into[n - 1], nodes[n].key, nodes[n].val)
  IN  into[Len(nodes)].arr

\* A rehash that keeps every chain in its place.
RehashedInPlace(tab) ==
  LET size == 2 * tab.size + 1
  IN  [arr  |-> [i \in 0 .. size - 1 |-> IF i < tab.size THEN tab.arr[i] ELSE << >>],
       size |-> size,
       used |-> tab.used]

\* A rehash that forgets the new size.
RehashedArray(tab) == [tab EXCEPT !.arr = Moved(tab)]

Rehashed(tab) ==
  [arr |-> Moved(tab), size |-> 2 * tab.size + 1, used |-> tab.used]

\* A variant that rehashes a full table only.
RehashedIfFull(tab) == IF tab.used >= tab.size THEN Rehashed(tab) ELSE tab

RehashedIfNeeded(tab) == IF ShouldRehash(tab) THEN Rehashed(tab) ELSE tab

\* get_hashtable: the value of the first node of the key, or -1.
Position(tab, key) ==
  SelectInSeq(tab.arr[hash[key] % tab.size], LAMBDA node : node.key = key)

Found(tab, key) == Position(tab, key) # 0

Value(tab, key) == tab.arr[hash[key] % tab.size][Position(tab, key)].val

-----------------------------------------------------------------------------
Init ==
  /\ hash \in [Keys -> Codes]
  /\ \E size \in InitSizes : t = NewTable(size)
  /\ count = 0

add_hashtable(key) ==
  /\ count < MaxAdds
  /\ t' = Linked(RehashedIfNeeded(t), key, count)
  /\ count' = count + 1
  /\ UNCHANGED hash

Next == \E key \in Keys : add_hashtable(key)

Spec == Init /\ [][Next]_hvars

-----------------------------------------------------------------------------
NodeType == [key : Keys, val : Nat]

TypeOK ==
  /\ hash \in [Keys -> Codes]
  /\ t.size \in Nat \ {0}
  /\ t.used \in Nat
  /\ t.arr \in [0 .. t.size - 1 -> Seq(NodeType)]
  /\ count \in 0 .. MaxAdds

(***************************************************************************)
(* One node over the load factor at the most, since the load is looked at  *)
(* before a node is added and not after.  The nodes that rehash moves are  *)
(* then too few to make the new table rehash itself half way, which would  *)
(* leave the old table with an array larger than its size.                 *)
(***************************************************************************)
LoadBounded == 4 * t.used < 3 * t.size + 4

(***************************************************************************)
(* used is the number of nodes, though rehash does not take it over from   *)
(* the new table: moving never meets a reason to drop a node.  It depends  *)
(* on where the copies of a key stand, for a copy that is not the last     *)
(* node of its chain does make add_hashtable drop the next one.            *)
(***************************************************************************)
UsedExact == t.used = Len(Nodes(t))

\* A key has two nodes at the most, one right after the other, in the chain
\* of its code.
CopiesAdjacent ==
  \A i \in 0 .. t.size - 1 : \A m, n \in DOMAIN t.arr[i] :
    t.arr[i][m].key = t.arr[i][n].key /\ m < n => n = m + 1

(***************************************************************************)
(* A lookup finds every name that was added, and gives its first position. *)
(***************************************************************************)
ids == [k \in {key \in Keys : Found(t, key)} |-> Value(t, k)]

Abstract == INSTANCE StringIds

ImplementsStringIds == Abstract!Spec

=============================================================================
