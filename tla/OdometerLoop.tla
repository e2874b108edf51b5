---------------------------- MODULE OdometerLoop ----------------------------
(***************************************************************************)
(* The constructor of Odometer: a loop that appends the current            *)
(* permutation, looks for the first digit that can still be raised, raises *)
(* it and resets the digits before it.  last_perm is a reference to        *)
(* orig_perm, so assigning it is what carries a permutation over to the    *)
(* next iteration.                                                         *)
(*                                                                         *)
(* Digits are counted from 1 here and from 0 in the code.                  *)
(***************************************************************************)
EXTENDS Odometer, FiniteSets

CONSTANTS
  MaxN,   \* bound: the most parameters an exploit has
  MaxK    \* bound: the most assets a network has

ASSUME BoundAssumption == MaxN \in Nat /\ MaxK \in Nat

VARIABLES
  N,          \* the number of digits
  K,          \* the number of values of a digit
  perms,      \* the permutations so far
  last_perm,  \* the permutation the next iteration appends
  curr_idx,   \* the digit looked at, 1 when the loop starts
  perm_idx,   \* the iterations so far
  running     \* the loop has not been left

ovars == << N, K, perms, last_perm, curr_idx, perm_idx, running >>

-----------------------------------------------------------------------------
Init ==
  /\ N \in 0 .. MaxN
  /\ K \in 0 .. MaxK
  /\ perms = << >>
  /\ last_perm = [i \in 1 .. N |-> 0]
  /\ curr_idx = 1
  /\ perm_idx = 0
  /\ running = TRUE

\* The inner loop run once at least, as a do-while would.
FirstBelowNext(perm, from) ==
  CHOOSE i \in from + 1 .. N + 2 :
    /\ i <= N => perm[i] < K - 1
    /\ \A d \in from + 1 .. i - 1 : perm[d] >= K - 1

\* The inner loop with K in place of K - 1.
FirstBelowK(perm, from) ==
  CHOOSE i \in from .. N + 1 :
    /\ i <= N => perm[i] < K
    /\ \A d \in from .. i - 1 : perm[d] >= K

\* The inner loop: past every digit that has its last value.
FirstBelow(perm, from) ==
  CHOOSE i \in from .. N + 1 :
    /\ i <= N => perm[i] < K - 1
    /\ \A d \in from .. i - 1 : perm[d] >= K - 1

\* Two ways to get it wrong: last_perm a copy, or the digits not reset.
CopyLost(idx) == last_perm

RaisedOnly(idx) == [last_perm EXCEPT ![idx] = @ + 1]

\* Digit idx is raised and the digits before it are reset.
Raised(idx) ==
  [i \in 1 .. N |-> CASE i < idx -> 0
                      [] i = idx -> last_perm[i] + 1
                      [] i > idx -> last_perm[i]]

\* An iteration that finds a digit to raise.
Raise ==
  LET idx == FirstBelow(last_perm, curr_idx)
  IN  /\ running
      /\ perm_idx < Length(N, K)
      /\ idx <= N
      /\ perms' = Append(perms, last_perm)
      /\ perm_idx' = perm_idx + 1
      /\ last_perm' = Raised(idx)
      /\ curr_idx' = 1
      /\ UNCHANGED << N, K, running >>

\* The iteration that finds none, and breaks out of the loop.
Exhausted ==
  LET idx == FirstBelow(last_perm, curr_idx)
  IN  /\ running
      /\ perm_idx < Length(N, K)
      /\ idx > N
      /\ perms' = Append(perms, last_perm)
      /\ perm_idx' = perm_idx + 1
      /\ curr_idx' = idx
      /\ running' = FALSE
      /\ UNCHANGED << N, K, last_perm >>

\* The loop condition fails.
LoopEnds ==
  /\ running
  /\ perm_idx >= Length(N, K)
  /\ running' = FALSE
  /\ UNCHANGED << N, K, perms, last_perm, curr_idx, perm_idx >>

Constructed == ~ running /\ UNCHANGED ovars

Next == Raise \/ Exhausted \/ LoopEnds \/ Constructed

Spec == Init /\ [][Next]_ovars /\ WF_ovars(Next)

-----------------------------------------------------------------------------
AssetChoices == [1 .. N -> 0 .. K - 1]

\* The order of an odometer's readings: the highest digit that differs
\* decides.
Precedes(p, q) ==
  \E d \in 1 .. N : p[d] < q[d] /\ \A i \in d + 1 .. N : p[i] = q[i]

TypeOK ==
  /\ N \in Nat /\ K \in Nat
  /\ perms \in Seq([1 .. N -> Nat])
  /\ last_perm \in [1 .. N -> Nat]
  /\ curr_idx \in 1 .. N + 1
  /\ perm_idx \in Nat
  /\ running \in BOOLEAN

(***************************************************************************)
(* Ascending and without a gap: the permutations so far are strictly       *)
(* increasing, so none is repeated, and they are all those that precede    *)
(* the one in hand.                                                        *)
(***************************************************************************)
NoneRepeated ==
  \A i, k \in DOMAIN perms : i < k => Precedes(perms[i], perms[k])

NoneSkipped ==
  running /\ Length(N, K) > 0 =>
    {perms[i] : i \in DOMAIN perms} = {p \in AssetChoices : Precedes(p, last_perm)}

(***************************************************************************)
(* A constructed odometer has every permutation, at the place module       *)
(* Odometer says, for no digits and for no values too; and the count of    *)
(* iterations has reached length(), though the break comes before it.      *)
(***************************************************************************)
AllPermutations ==
  ~ running =>
    /\ perms = Perms(N, K)
    /\ {perms[i] : i \in DOMAIN perms} = AssetChoices
    /\ perm_idx = Length(N, K)

=============================================================================
