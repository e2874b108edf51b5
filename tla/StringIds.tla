------------------------------ MODULE StringIds ------------------------------
(***************************************************************************)
(* What the callers of hash.c take a hashtable to be: the names of a list  *)
(* in the order they were added, each with the position of its first       *)
(* occurrence.  A name that comes again changes nothing but uses up a      *)
(* position.                                                               *)
(***************************************************************************)
EXTENDS Naturals

CONSTANT Keys

VARIABLES
  ids,    \* a name that was added |-> its position
  count   \* the names added so far, repetitions included

Init == ids = [k \in {} |-> 0] /\ count = 0

Add(key) ==
  /\ count' = count + 1
  /\ ids' = [k \in DOMAIN ids \cup {key} |->
               IF k \in DOMAIN ids THEN ids[k] ELSE count]

Next == \E key \in Keys : Add(key)

Spec == Init /\ [][Next]_<< ids, count >>

=============================================================================
