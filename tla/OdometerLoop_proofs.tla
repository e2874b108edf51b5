------------------------ MODULE OdometerLoop_proofs ------------------------
(***************************************************************************)
(* The constructor of Odometer, for every number of parameters and assets: *)
(* its loop appends the readings one after the other, and leaves with all  *)
(* of them, be it by the break or by the loop condition.                   *)
(*                                                                         *)
(* The invariant says which reading the loop is at.  While it runs         *)
(* there is one left, unless there are no assets; so the condition can     *)
(* only end a loop that never began, and the break comes at the last       *)
(* reading and at no other, since counting one further would carry out of  *)
(* the highest digit.                                                      *)
(***************************************************************************)
EXTENDS OdometerLoop, Odometer_proofs, TLAPS

ReadingsTo(n) == [k \in 1 .. n |-> Reading(k - 1, N, K)]

IInv ==
  /\ N \in Nat /\ K \in Nat
  /\ perm_idx \in 0 .. Length(N, K)
  /\ perms = ReadingsTo(perm_idx)
  /\ last_perm \in [1 .. N -> Nat]
  /\ curr_idx \in 1 .. N + 1
  /\ running \in BOOLEAN
  /\ running => curr_idx = 1
  /\ running /\ Length(N, K) > 0 =>
       perm_idx < Length(N, K) /\ last_perm = Reading(perm_idx, N, K)
  /\ ~ running => perm_idx = Length(N, K)

-----------------------------------------------------------------------------
(* The digit that is raised.                                               *)

\* Digit i of p is the first that does not have its last value, or none is.
IsFirst(p, i) ==
  /\ i <= N => p[i] < K - 1
  /\ \A d \in 1 .. i - 1 : p[d] >= K - 1

LEMMA FirstBelowIs ==
  ASSUME N \in Nat, K \in Nat, NEW p \in [1 .. N -> Nat]
  PROVE  FirstBelow(p, 1) \in 1 .. N + 1 /\ IsFirst(p, FirstBelow(p, 1))
<1> DEFINE low == {i \in 1 .. N + 1 : i <= N => p[i] < K - 1}
<1>1. PICK i \in low : \A m \in low : i <= m
  <2>1. N + 1 \in low /\ low \subseteq Nat
    OBVIOUS
  <2> HIDE DEF low
  <2> QED
    BY <2>1, LeastNat
<1>2. IsFirst(p, i)
  <2>1. ASSUME NEW d \in 1 .. i - 1 PROVE p[d] >= K - 1
    <3>1. d \notin low /\ d \in 1 .. N
      BY <1>1
    <3>2. p[d] \in Nat
      BY <3>1
    <3> QED
      BY <3>1, <3>2
  <2> QED
    BY <2>1 DEF IsFirst
<1>3. \E m \in 1 .. N + 1 : IsFirst(p, m)
  BY <1>2
<1>4. FirstBelow(p, 1) = CHOOSE m \in 1 .. N + 1 : IsFirst(p, m)
  BY DEF FirstBelow, IsFirst
<1> QED
  BY <1>3, <1>4

\* A digit below its last value.
LEMMA LastDigit ==
  ASSUME N \in Nat, K \in Nat \ {0}, NEW k \in Nat, NEW d \in 1 .. N
  PROVE  /\ Reading(k, N, K)[d] \in Nat
         /\ Reading(k, N, K)[d] >= K - 1 <=> Reading(k, N, K)[d] = K - 1
         /\ Reading(k, N, K)[d] < K - 1 <=> Reading(k, N, K)[d] # K - 1
<1>1. Reading(k, N, K)[d] \in 0 .. K - 1
  BY ReadingIsPermutation
<1> QED
  BY <1>1

-----------------------------------------------------------------------------
LEMMA InitiallyInvariant ==
  ASSUME Init
  PROVE  IInv
<1>1. N \in Nat /\ K \in Nat
  BY BoundAssumption DEF Init
<1>2. Length(N, K) \in Nat
  BY <1>1, LengthNat
<1>3. perms = ReadingsTo(0)
  BY DEF Init, ReadingsTo
<1>4. Length(N, K) > 0 => last_perm = Reading(0, N, K)
  <2>1. CASE K = 0 /\ N # 0
    <3>1. Length(N, 0) = 0
      BY <1>1, <2>1, NoValues
    <3> QED
      BY <2>1, <3>1
  <2>2. CASE K # 0
    BY <1>1, <2>2, FirstReading DEF Init
  <2>3. CASE N = 0
    <3>1. Reading(0, 0, K) = << >>
      BY <1>1, NoDigits
    <3>2. last_perm = << >>
      BY <2>3 DEF Init
    <3> QED
      BY <2>3, <3>1, <3>2
  <2> QED
    BY <2>1, <2>2, <2>3
<1>5. last_perm \in [1 .. N -> Nat] /\ curr_idx = 1 /\ perm_idx = 0 /\ running = TRUE
  BY DEF Init
<1>6. perm_idx \in 0 .. Length(N, K) /\ curr_idx \in 1 .. N + 1
  BY <1>1, <1>2, <1>5
<1> QED
  BY <1>1, <1>2, <1>3, <1>4, <1>5, <1>6 DEF IInv

\* The permutation in hand is appended.
LEMMA Appended ==
  ASSUME IInv, running, perm_idx < Length(N, K)
  PROVE  /\ Append(perms, last_perm) = ReadingsTo(perm_idx + 1)
         /\ Length(N, K) \in Nat /\ perm_idx \in Nat
         /\ last_perm = Reading(perm_idx, N, K)
<1>1. Length(N, K) \in Nat /\ perm_idx \in Nat
  BY LengthNat DEF IInv
<1>2. last_perm = Reading(perm_idx, N, K)
  BY <1>1 DEF IInv
<1> DEFINE j == perm_idx
           R(k) == Reading(k - 1, N, K)
<1>3. Append([k \in 1 .. j |-> R(k)], R(j + 1)) = [k \in 1 .. j + 1 |-> R(k)]
  <2> HIDE DEF R
  <2> QED
    BY <1>1
<1>4. R(j + 1) = last_perm
  BY <1>1, <1>2
<1>5. perms = [k \in 1 .. j |-> R(k)] /\ ReadingsTo(j + 1) = [k \in 1 .. j + 1 |-> R(k)]
  BY DEF IInv, ReadingsTo
<1> QED
  BY <1>1, <1>2, <1>3, <1>4, <1>5

LEMMA RaiseKeeps ==
  ASSUME IInv, Raise
  PROVE  IInv'
<1> DEFINE idx == FirstBelow(last_perm, curr_idx)
           L == Length(N, K)
<1>1. /\ running /\ perm_idx < L /\ idx <= N
      /\ perms' = Append(perms, last_perm) /\ perm_idx' = perm_idx + 1
      /\ last_perm' = Raised(idx) /\ curr_idx' = 1
      /\ N' = N /\ K' = K /\ running' = running
  BY DEF Raise
<1>2. N \in Nat /\ K \in Nat /\ last_perm \in [1 .. N -> Nat] /\ curr_idx = 1
  BY <1>1 DEF IInv
<1>3. /\ Append(perms, last_perm) = ReadingsTo(perm_idx + 1)
      /\ L \in Nat /\ perm_idx \in Nat
      /\ last_perm = Reading(perm_idx, N, K)
  BY <1>1, Appended
<1>4. idx \in 1 .. N + 1 /\ IsFirst(last_perm, idx)
  BY <1>2, FirstBelowIs
<1> HIDE DEF idx
<1>5. idx \in 1 .. N /\ last_perm[idx] < K - 1 /\ \A d \in 1 .. idx - 1 : last_perm[d] >= K - 1
  BY <1>1, <1>2, <1>4 DEF IsFirst
<1>6. K \in Nat \ {0}
  BY <1>2, <1>5
<1>7. Reading(perm_idx, N, K)[idx] # K - 1
  BY <1>2, <1>3, <1>5, <1>6, LastDigit
<1>8. \A d \in 1 .. idx - 1 : Reading(perm_idx, N, K)[d] = K - 1
  <2> TAKE d \in 1 .. idx - 1
  <2>1. d \in 1 .. N
    BY <1>2, <1>5
  <2> QED
    BY <1>2, <1>3, <1>5, <1>6, <2>1, LastDigit
<1>9. /\ perm_idx + 1 < L
      /\ Reading(perm_idx + 1, N, K) = RaisedAt(Reading(perm_idx, N, K), idx, N)
  BY <1>1, <1>2, <1>3, <1>5, <1>6, <1>7, <1>8, NextReading
<1>10. Raised(idx) = RaisedAt(Reading(perm_idx, N, K), idx, N)
  BY <1>3 DEF Raised, RaisedAt
<1>11. last_perm' = Reading(perm_idx', N, K) /\ perm_idx' < L
  BY <1>1, <1>9, <1>10
<1>12. last_perm' \in [1 .. N -> Nat]
  <2>1. perm_idx' \in Nat
    BY <1>1, <1>3
  <2>2. Reading(perm_idx', N, K) \in [1 .. N -> 0 .. K - 1]
    BY <1>2, <1>6, <2>1, ReadingIsPermutation
  <2>3. 0 .. K - 1 \subseteq Nat
    OBVIOUS
  <2> QED
    BY <1>11, <2>2, <2>3
<1>13. perms' = ReadingsTo(perm_idx)'
  <2>1. ReadingsTo(perm_idx)' = [k \in 1 .. perm_idx' |-> Reading(k - 1, N', K')]
    BY DEF ReadingsTo
  <2>2. ReadingsTo(perm_idx + 1) = [k \in 1 .. perm_idx + 1 |-> Reading(k - 1, N, K)]
    BY DEF ReadingsTo
  <2> QED
    BY <1>1, <1>3, <2>1, <2>2
<1> QED
  BY <1>1, <1>2, <1>3, <1>11, <1>12, <1>13 DEF IInv

LEMMA ExhaustedKeeps ==
  ASSUME IInv, Exhausted
  PROVE  IInv'
<1> DEFINE idx == FirstBelow(last_perm, curr_idx)
           L == Length(N, K)
<1>1. /\ running /\ perm_idx < L /\ idx > N
      /\ perms' = Append(perms, last_perm) /\ perm_idx' = perm_idx + 1
      /\ curr_idx' = idx /\ running' = FALSE
      /\ N' = N /\ K' = K /\ last_perm' = last_perm
  BY DEF Exhausted
<1>2. N \in Nat /\ K \in Nat /\ last_perm \in [1 .. N -> Nat] /\ curr_idx = 1
  BY <1>1 DEF IInv
<1>3. /\ Append(perms, last_perm) = ReadingsTo(perm_idx + 1)
      /\ L \in Nat /\ perm_idx \in Nat
      /\ last_perm = Reading(perm_idx, N, K)
  BY <1>1, Appended
<1>4. idx \in 1 .. N + 1 /\ IsFirst(last_perm, idx)
  BY <1>2, FirstBelowIs
<1> HIDE DEF idx
<1>5. idx = N + 1
  BY <1>1, <1>2, <1>4
<1>6. \A d \in 1 .. N : last_perm[d] >= K - 1
  BY <1>2, <1>4, <1>5 DEF IsFirst
<1>7. perm_idx + 1 = L
  <2>1. CASE N = 0
    <3>1. L = 1
      BY <1>2, <2>1, NoDigits
    <3> QED
      BY <1>1, <1>3, <3>1
  <2>2. CASE N # 0
    <3>1. K # 0
      <4>1. K = 0 => Length(N, K) = 0
        BY <1>2, <2>2, NoValues
      <4> QED
        BY <1>1, <1>3, <4>1
    <3>2. K \in Nat \ {0}
      BY <1>2, <3>1
    <3>3. \A d \in 1 .. N : Reading(perm_idx, N, K)[d] = K - 1
      BY <1>2, <1>3, <1>6, <3>2, LastDigit
    <3> QED
      BY <1>1, <1>2, <1>3, <3>2, <3>3, LastReading
  <2> QED
    BY <2>1, <2>2
<1>8. perms' = ReadingsTo(perm_idx)'
  <2>1. ReadingsTo(perm_idx)' = [k \in 1 .. perm_idx' |-> Reading(k - 1, N', K')]
    BY DEF ReadingsTo
  <2>2. ReadingsTo(perm_idx + 1) = [k \in 1 .. perm_idx + 1 |-> Reading(k - 1, N, K)]
    BY DEF ReadingsTo
  <2> QED
    BY <1>1, <1>3, <2>1, <2>2
<1>9. perm_idx' \in 0 .. L /\ perm_idx' = L
  BY <1>1, <1>3, <1>7
<1> QED
  BY <1>1, <1>2, <1>4, <1>8, <1>9 DEF IInv

LEMMA LoopEndsKeeps ==
  ASSUME IInv, LoopEnds
  PROVE  IInv'
<1>1. /\ running' = FALSE /\ perm_idx >= Length(N, K)
      /\ N' = N /\ K' = K /\ perms' = perms /\ last_perm' = last_perm
      /\ curr_idx' = curr_idx /\ perm_idx' = perm_idx
  BY DEF LoopEnds
<1>2. perm_idx = Length(N, K)
  <2>1. N \in Nat /\ K \in Nat /\ perm_idx \in 0 .. Length(N, K)
    BY DEF IInv
  <2>2. Length(N, K) \in Nat
    BY <2>1, LengthNat
  <2> QED
    BY <1>1, <2>1, <2>2
<1>3. ReadingsTo(perm_idx)' = ReadingsTo(perm_idx)
  BY <1>1 DEF ReadingsTo
<1> QED
  BY <1>1, <1>2, <1>3 DEF IInv

LEMMA StutterKeeps ==
  ASSUME IInv, UNCHANGED ovars
  PROVE  IInv'
<1>1. /\ N' = N /\ K' = K /\ perms' = perms /\ last_perm' = last_perm
      /\ curr_idx' = curr_idx /\ perm_idx' = perm_idx /\ running' = running
  BY DEF ovars
<1>2. ReadingsTo(perm_idx)' = ReadingsTo(perm_idx)
  BY <1>1 DEF ReadingsTo
<1> QED
  BY <1>1, <1>2 DEF IInv

LEMMA Inductive ==
  ASSUME IInv, [Next]_ovars
  PROVE  IInv'
<1>1. CASE Raise
  BY <1>1, RaiseKeeps
<1>2. CASE Exhausted
  BY <1>2, ExhaustedKeeps
<1>3. CASE LoopEnds
  BY <1>3, LoopEndsKeeps
<1>4. CASE Constructed
  BY <1>4, StutterKeeps DEF Constructed
<1>5. CASE UNCHANGED ovars
  BY <1>5, StutterKeeps
<1> QED
  BY <1>1, <1>2, <1>3, <1>4, <1>5 DEF Next

-----------------------------------------------------------------------------
(* What the readings are.                                                  *)

LEMMA PermsAre ==
  ASSUME IInv
  PROVE  /\ perm_idx \in Nat /\ perm_idx <= Length(N, K) /\ Length(N, K) \in Nat
         /\ DOMAIN perms = 1 .. perm_idx
         /\ \A k \in 1 .. perm_idx : perms[k] = Reading(k - 1, N, K)
BY LengthNat DEF IInv, ReadingsTo

\* Something is appended only if there are values, or no digits.
LEMMA SomeValue ==
  ASSUME IInv, N # 0, Length(N, K) # 0
  PROVE  K \in Nat \ {0}
BY NoValues DEF IInv

LEMMA OneReading ==
  ASSUME IInv, N = 0
  PROVE  /\ Length(N, K) = 1
         /\ \A k \in 1 .. perm_idx : k = 1
         /\ \A k : Reading(k, N, K) = << >>
<1>1. Length(N, K) = 1 /\ \A k : Reading(k, N, K) = << >>
  BY NoDigits DEF IInv
<1> QED
  BY <1>1, PermsAre

LEMMA Typed ==
  ASSUME IInv
  PROVE  TypeOK
<1>1. ASSUME NEW k \in 1 .. perm_idx PROVE Reading(k - 1, N, K) \in [1 .. N -> Nat]
  <2>1. CASE N = 0
    <3>1. Reading(k - 1, N, K) = << >>
      BY <2>1, OneReading
    <3>2. << >> \in [1 .. 0 -> Nat]
      OBVIOUS
    <3> QED
      BY <2>1, <3>1, <3>2
  <2>2. CASE N # 0
    <3>1. k - 1 \in Nat /\ Length(N, K) # 0
      BY PermsAre
    <3>2. K \in Nat \ {0} /\ N \in Nat
      BY <2>2, <3>1, SomeValue DEF IInv
    <3>3. Reading(k - 1, N, K) \in [1 .. N -> 0 .. K - 1]
      BY <3>1, <3>2, ReadingIsPermutation
    <3>4. 0 .. K - 1 \subseteq Nat
      BY <3>2
    <3> QED
      BY <3>3, <3>4
  <2> QED
    BY <2>1, <2>2
<1>2. perms \in Seq([1 .. N -> Nat])
  <2>1. perms = ReadingsTo(perm_idx)
    BY DEF IInv
  <2> QED
    BY <1>1, <2>1, PermsAre DEF ReadingsTo
<1>3. perm_idx \in Nat
  BY PermsAre
<1> QED
  BY <1>2, <1>3 DEF IInv, TypeOK

LEMMA Ascending ==
  ASSUME IInv
  PROVE  NoneRepeated
<1> SUFFICES ASSUME NEW i \in 1 .. perm_idx, NEW k \in 1 .. perm_idx, i < k
             PROVE  Precedes(perms[i], perms[k])
  BY PermsAre DEF NoneRepeated
<1>1. perm_idx \in Nat /\ perm_idx <= Length(N, K) /\ Length(N, K) \in Nat
  BY PermsAre
<1>2. N # 0
  BY OneReading
<1>3. K \in Nat \ {0} /\ N \in Nat
  BY <1>1, <1>2, SomeValue DEF IInv
<1>4. i - 1 \in Nat /\ k - 1 \in Nat /\ i - 1 < k - 1 /\ k - 1 < Length(N, K)
  BY <1>1
<1>5. Ascends(Reading(i - 1, N, K), Reading(k - 1, N, K), N)
  BY <1>3, <1>4, ReadingsAscend
<1>6. perms[i] = Reading(i - 1, N, K) /\ perms[k] = Reading(k - 1, N, K)
  BY PermsAre
<1> QED
  BY <1>5, <1>6 DEF Ascends, Precedes

\* The permutations so far, as readings.
LEMMA PermsSoFar ==
  ASSUME IInv
  PROVE  {perms[i] : i \in DOMAIN perms} = {Reading(j, N, K) : j \in 0 .. perm_idx - 1}
<1>1. \A i \in 1 .. perm_idx : perms[i] = Reading(i - 1, N, K) /\ i - 1 \in 0 .. perm_idx - 1
  BY PermsAre
<1>2. \A j \in 0 .. perm_idx - 1 : j + 1 \in 1 .. perm_idx /\ perms[j + 1] = Reading(j, N, K)
  <2> TAKE j \in 0 .. perm_idx - 1
  <2>1. j + 1 \in 1 .. perm_idx /\ (j + 1) - 1 = j
    BY PermsAre
  <2>2. perms[j + 1] = Reading((j + 1) - 1, N, K)
    BY <2>1, PermsAre
  <2> QED
    BY <2>1, <2>2
<1>3. DOMAIN perms = 1 .. perm_idx
  BY PermsAre
<1> QED
  BY <1>1, <1>2, <1>3

LEMMA Gapless ==
  ASSUME IInv
  PROVE  NoneSkipped
<1> SUFFICES ASSUME running, Length(N, K) > 0
             PROVE  {perms[i] : i \in DOMAIN perms}
                      = {p \in AssetChoices : Precedes(p, last_perm)}
  BY DEF NoneSkipped
<1>1. perm_idx < Length(N, K) /\ last_perm = Reading(perm_idx, N, K)
  BY DEF IInv
<1>2. {perms[i] : i \in DOMAIN perms} = {Reading(j, N, K) : j \in 0 .. perm_idx - 1}
  BY PermsSoFar
<1>3. CASE N = 0
  <2>1. 0 .. perm_idx - 1 = {}
    BY <1>1, <1>3, OneReading, PermsAre
  <2>2. \A p : ~ Precedes(p, last_perm)
    BY <1>3 DEF Precedes
  <2> QED
    BY <1>2, <2>1, <2>2
<1>4. CASE N # 0
  <2>1. K \in Nat \ {0} /\ N \in Nat /\ perm_idx \in Nat
    BY <1>4, PermsAre, SomeValue DEF IInv
  <2>2. {Reading(j, N, K) : j \in 0 .. perm_idx - 1} =
          {p \in [1 .. N -> 0 .. K - 1] : Ascends(p, Reading(perm_idx, N, K), N)}
    BY <1>1, <2>1, ReadingsBefore
  <2>3. \A p : Ascends(p, last_perm, N) <=> Precedes(p, last_perm)
    BY DEF Ascends, Precedes
  <2> QED
    BY <1>1, <1>2, <2>2, <2>3 DEF AssetChoices
<1> QED
  BY <1>3, <1>4

LEMMA Complete ==
  ASSUME IInv
  PROVE  AllPermutations
<1> SUFFICES ASSUME ~ running
             PROVE  /\ perms = Perms(N, K)
                    /\ {perms[i] : i \in DOMAIN perms} = AssetChoices
                    /\ perm_idx = Length(N, K)
  BY DEF AllPermutations
<1>1. perm_idx = Length(N, K)
  BY DEF IInv
<1>2. perms = Perms(N, K)
  BY <1>1 DEF IInv, ReadingsTo, Perms
<1>3. {perms[i] : i \in DOMAIN perms} = {Reading(j, N, K) : j \in 0 .. Length(N, K) - 1}
  BY <1>1, PermsSoFar
<1>4. {Reading(j, N, K) : j \in 0 .. Length(N, K) - 1} = AssetChoices
  <2>0. N \in Nat /\ K \in Nat
    BY DEF IInv
  <2>1. CASE N = 0
    <3>1. Length(N, K) = 1 /\ \A k : Reading(k, N, K) = << >>
      BY <2>1, OneReading
    <3>2. {Reading(j, N, K) : j \in 0 .. Length(N, K) - 1} = {<< >>}
      BY <3>1
    <3>3. AssetChoices = {<< >>}
      <4>1. \A S : \A p \in [1 .. 0 -> S] : p = << >>
        OBVIOUS
      <4>2. \A S : << >> \in [1 .. 0 -> S]
        OBVIOUS
      <4>3. AssetChoices = [1 .. 0 -> 0 .. K - 1]
        BY <2>1 DEF AssetChoices
      <4>4. << >> \in AssetChoices
        BY <4>2, <4>3
      <4>5. \A p \in AssetChoices : p = << >>
        BY <4>1, <4>3, Zenon
      <4> QED
        BY <4>4, <4>5
    <3> QED
      BY <3>2, <3>3
  <2>2. CASE N # 0 /\ K = 0
    <3>1. Length(N, K) = 0
      BY <2>0, <2>2, NoValues
    <3>2. AssetChoices = {}
      <4>1. 0 .. K - 1 = {} /\ 1 \in 1 .. N
        BY <2>0, <2>2
      <4> QED
        BY <4>1 DEF AssetChoices
    <3> QED
      BY <3>1, <3>2
  <2>3. CASE K # 0
    <3>1. K \in Nat \ {0}
      BY <2>0, <2>3
    <3>2. \A j \in 0 .. Length(N, K) - 1 : Reading(j, N, K) \in AssetChoices
      <4> TAKE j \in 0 .. Length(N, K) - 1
      <4>1. j \in Nat
        OBVIOUS
      <4> QED
        BY <2>0, <3>1, <4>1, ReadingIsPermutation DEF AssetChoices
    <3>3. \A p \in AssetChoices : \E j \in 0 .. Length(N, K) - 1 : Reading(j, N, K) = p
      BY <2>0, <3>1, EveryPermutationIsRead DEF AssetChoices
    <3> QED
      BY <3>2, <3>3
  <2> QED
    BY <2>1, <2>2, <2>3
<1> QED
  BY <1>1, <1>2, <1>3, <1>4

-----------------------------------------------------------------------------
(***************************************************************************)
(* Theorems.                                                               *)
(***************************************************************************)

\* However often the loop of the constructor has gone round, what it has appended
\* are the readings counted so far, and the reference last_perm is at the next.
THEOREM LoopInvariance == Spec => []IInv
<1>1. Init => IInv
  BY InitiallyInvariant
<1>2. IInv /\ [Next]_ovars => IInv'
  BY Inductive
<1> QED
  BY <1>1, <1>2, PTL DEF Spec

\* The digit looked at is never more than one past the last, and what is in the
\* vector are assignments of assets.
THEOREM LoopTypeCorrect == Spec => []TypeOK
<1>1. IInv => TypeOK
  BY Typed
<1> QED
  BY LoopInvariance, <1>1, PTL

\* No permutation is appended twice: each is higher than all before it.
THEOREM LoopRepeatsNone == Spec => []NoneRepeated
<1>1. IInv => NoneRepeated
  BY Ascending
<1> QED
  BY LoopInvariance, <1>1, PTL

\* Raising a digit and resetting those before it passes over no permutation.
THEOREM LoopSkipsNone == Spec => []NoneSkipped
<1>1. IInv => NoneSkipped
  BY Gapless
<1> QED
  BY LoopInvariance, <1>1, PTL

\* When the constructor returns, by the break or by the loop condition, all has
\* every permutation at its place, for no parameters and for no assets too.
THEOREM LoopIsComplete == Spec => []AllPermutations
<1>1. IInv => AllPermutations
  BY Complete
<1> QED
  BY LoopInvariance, <1>1, PTL

=============================================================================
