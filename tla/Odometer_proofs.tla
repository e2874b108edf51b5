-------------------------- MODULE Odometer_proofs --------------------------
(***************************************************************************)
(* What module Odometer's definitions yield, for every number of digits    *)
(* and of values: each reading is a permutation, every permutation has a   *)
(* reading, and how one reading follows from the one before.               *)
(***************************************************************************)
EXTENDS Odometer, Induction

-----------------------------------------------------------------------------
(* Arithmetic, one nonlinear fact at a time.                               *)

LEMMA DivNat ==
  ASSUME NEW x \in Nat, NEW K \in Nat \ {0}
  PROVE  x \div K \in Nat
BY Z3

LEMMA ModRange ==
  ASSUME NEW x \in Nat, NEW K \in Nat \ {0}
  PROVE  x % K \in 0 .. K - 1
OBVIOUS

LEMMA DivUnique ==
  ASSUME NEW x \in Nat, NEW K \in Nat \ {0}, NEW d \in 0 .. K - 1
  PROVE  (x * K + d) \div K = x
BY Z3T(30)

LEMMA ModUnique ==
  ASSUME NEW x \in Nat, NEW K \in Nat \ {0}, NEW d \in 0 .. K - 1
  PROVE  (x * K + d) % K = d
BY Z3T(30)

LEMMA PlaceBound ==
  ASSUME NEW x \in Nat, NEW K \in Nat \ {0}, NEW L \in Nat,
         NEW d \in 0 .. K - 1, x < L
  PROVE  x * K + d \in Nat /\ x * K + d < K * L
<1>1. x * K \in Nat /\ x * K + K <= L * K
  BY Z3T(30)
<1>2. L * K = K * L
  BY Z3
<1> QED
  BY <1>1, <1>2

LEMMA TimesNat ==
  ASSUME NEW x \in Nat, NEW K \in Nat
  PROVE  K * x \in Nat
BY Z3

-----------------------------------------------------------------------------
\* The recursive definition of Length has a solution.
LEMMA LengthDef ==
  ASSUME NEW N \in Nat, NEW K \in Nat
  PROVE  \E power \in [0 .. N -> Nat] :
           /\ power[0] = 1
           /\ \A n \in 1 .. N : power[n] = K * power[n - 1]
           /\ Length(N, K) = power[N]
<1> DEFINE G == [k \in 1 .. N |-> [s \in Nat |-> K * s]]
           IsPower(f) == f = [n \in 0 .. N |-> IF n = 0 THEN 1 ELSE K * f[n - 1]]
           power == CHOOSE f : IsPower(f)
<1>1. G \in [1 .. N -> [Nat -> Nat]]
  BY TimesNat
<1>2. PICK f : IsRecursion(f, Nat, 1, N, G)
  <2> HIDE DEF G
  <2>1. 1 \in Nat
    OBVIOUS
  <2> QED
    BY <1>1, <2>1, RecursionExists
<1>3. IsPower(f)
  <2>1. ASSUME NEW k \in 1 .. N PROVE f[k] = K * f[k - 1]
    <3>1. f[k - 1] \in Nat
      BY <1>2 DEF IsRecursion
    <3> QED
      BY <1>2, <3>1 DEF IsRecursion
  <2> HIDE DEF G
  <2> QED
    BY <1>2, <2>1 DEF IsRecursion
<1>4. IsPower(power)
  <2> HIDE DEF IsPower
  <2> QED
    BY <1>3
<1> DEFINE T == {k \in 0 .. N : power[k] \in Nat}
<1>5. 0 .. N \subseteq T
  <2> HIDE DEF power
  <2>1. 0 \in T
    BY <1>4
  <2>2. ASSUME NEW k \in 0 .. N - 1, k \in T PROVE k + 1 \in T
    <3>1. power[k + 1] = K * power[k]
      BY <1>4
    <3> QED
      BY <3>1, <2>2, TimesNat
  <2>3. \A k \in 0 .. N - 1 : k \in T => k + 1 \in T
    BY <2>2
  <2> HIDE DEF T
  <2> QED
    BY <2>1, <2>3, SetInduction
<1>6. Length(N, K) = power[N]
  BY DEF Length
<1> HIDE DEF power
<1>7. power \in [0 .. N -> Nat]
  BY <1>4, <1>5
<1>8. power[0] = 1 /\ \A n \in 1 .. N : power[n] = K * power[n - 1]
  BY <1>4
<1> QED
  BY <1>6, <1>7, <1>8

LEMMA LengthNat ==
  ASSUME NEW N \in Nat, NEW K \in Nat
  PROVE  Length(N, K) \in Nat
<1>1. PICK power \in [0 .. N -> Nat] : Length(N, K) = power[N]
  BY LengthDef
<1> QED
  BY <1>1

-----------------------------------------------------------------------------
\* f lists k and what is left of it after each digit.
IsRest(f, k, N, K) ==
  /\ f \in [0 .. N -> Nat]
  /\ f[0] = k
  /\ \A i \in 1 .. N : f[i] = f[i - 1] \div K

\* The recursive definition of Reading has a solution.
LEMMA ReadingDef ==
  ASSUME NEW k \in Nat, NEW N \in Nat, NEW K \in Nat \ {0}
  PROVE  \E f : /\ IsRest(f, k, N, K)
                /\ Reading(k, N, K) = [i \in 1 .. N |-> f[i - 1] % K]
<1> DEFINE G == [i \in 1 .. N |-> [s \in Nat |-> s \div K]]
           Solves(f) == f = [i \in 0 .. N |-> IF i = 0 THEN k ELSE f[i - 1] \div K]
           rest == CHOOSE f : Solves(f)
<1>1. G \in [1 .. N -> [Nat -> Nat]]
  BY DivNat
<1>2. PICK f : IsRecursion(f, Nat, k, N, G)
  <2> HIDE DEF G
  <2> QED
    BY <1>1, RecursionExists
<1>3. Solves(f)
  <2>1. ASSUME NEW i \in 1 .. N PROVE f[i] = f[i - 1] \div K
    <3>1. f[i - 1] \in Nat
      BY <1>2 DEF IsRecursion
    <3> QED
      BY <1>2, <3>1 DEF IsRecursion
  <2> HIDE DEF G
  <2> QED
    BY <1>2, <2>1 DEF IsRecursion
<1>4. Solves(rest)
  <2> HIDE DEF Solves
  <2> QED
    BY <1>3
<1> DEFINE T == {i \in 0 .. N : rest[i] \in Nat}
<1>5. 0 .. N \subseteq T
  <2> HIDE DEF rest
  <2>1. 0 \in T
    BY <1>4
  <2>2. ASSUME NEW i \in 0 .. N - 1, i \in T PROVE i + 1 \in T
    <3>1. rest[i + 1] = rest[i] \div K
      BY <1>4
    <3> QED
      BY <3>1, <2>2, DivNat
  <2>3. \A i \in 0 .. N - 1 : i \in T => i + 1 \in T
    BY <2>2
  <2> HIDE DEF T
  <2> QED
    BY <2>1, <2>3, SetInduction
<1>6. Reading(k, N, K) = [i \in 1 .. N |-> rest[i - 1] % K]
  BY DEF Reading
<1> HIDE DEF rest
<1>7. IsRest(rest, k, N, K)
  <2>1. rest \in [0 .. N -> Nat]
    BY <1>4, <1>5
  <2>2. rest[0] = k /\ \A i \in 1 .. N : rest[i] = rest[i - 1] \div K
    BY <1>4
  <2> QED
    BY <2>1, <2>2 DEF IsRest
<1> QED
  BY <1>6, <1>7

LEMMA RestUnique ==
  ASSUME NEW f, NEW g, NEW k \in Nat, NEW N \in Nat, NEW K \in Nat \ {0},
         IsRest(f, k, N, K), IsRest(g, k, N, K)
  PROVE  \A i \in 0 .. N : f[i] = g[i]
<1> DEFINE T == {i \in 0 .. N : f[i] = g[i]}
<1>1. 0 \in T
  BY DEF IsRest
<1>2. \A i \in 0 .. N - 1 : i \in T => i + 1 \in T
  <2> SUFFICES ASSUME NEW i \in 0 .. N - 1, f[i] = g[i]
               PROVE  f[i + 1] = g[i + 1]
    OBVIOUS
  <2>1. f[i + 1] = f[i] \div K /\ g[i + 1] = g[i] \div K
    BY DEF IsRest
  <2> QED
    BY <2>1
<1>3. 0 .. N \subseteq T
  <2> HIDE DEF T
  <2> QED
    BY <1>1, <1>2, SetInduction
<1> QED
  BY <1>3

-----------------------------------------------------------------------------
(***************************************************************************)
(* Every reading of an odometer (Odometer in util/odometer.h) gives one of *)
(* K assets to each of N parameters.                                       *)
(***************************************************************************)
THEOREM ReadingIsPermutation ==
  ASSUME NEW k \in Nat, NEW N \in Nat, NEW K \in Nat \ {0}
  PROVE  Reading(k, N, K) \in [1 .. N -> 0 .. K - 1]
<1>1. PICK f : /\ IsRest(f, k, N, K)
               /\ Reading(k, N, K) = [i \in 1 .. N |-> f[i - 1] % K]
  BY ReadingDef
<1>2. ASSUME NEW i \in 1 .. N PROVE f[i - 1] % K \in 0 .. K - 1
  <2>1. f[i - 1] \in Nat
    BY <1>1 DEF IsRest
  <2> QED
    BY <2>1, ModRange
<1> QED
  BY <1>1, <1>2

(***************************************************************************)
(* No permutation is missing: each is the reading of a number that the     *)
(* constructor's loop counts to.                                           *)
(***************************************************************************)
THEOREM EveryPermutationIsRead ==
  ASSUME NEW N \in Nat, NEW K \in Nat \ {0}, NEW p \in [1 .. N -> 0 .. K - 1]
  PROVE  \E k \in 0 .. Length(N, K) - 1 : Reading(k, N, K) = p
<1>1. PICK power \in [0 .. N -> Nat] :
        /\ power[0] = 1
        /\ \A n \in 1 .. N : power[n] = K * power[n - 1]
        /\ Length(N, K) = power[N]
  BY LengthDef
<1> DEFINE Digits(q, n, k, f) == IsRest(f, k, n, K) /\ \A i \in 1 .. n : f[i - 1] % K = q[i]
           Read(n) == \A q \in [1 .. n -> 0 .. K - 1] :
                        \E k \in 0 .. power[n] - 1 : \E f : Digits(q, n, k, f)
           T == {n \in 0 .. N : Read(n)}
<1>2. 0 \in T
  <2>1. ASSUME NEW q \in [1 .. 0 -> 0 .. K - 1]
        PROVE  \E k \in 0 .. power[0] - 1 : \E f : Digits(q, 0, k, f)
    <3>1. Digits(q, 0, 0, [i \in 0 .. 0 |-> 0])
      BY DEF IsRest
    <3>2. 0 \in 0 .. power[0] - 1
      BY <1>1
    <3> HIDE DEF Digits
    <3> QED
      BY <3>1, <3>2
  <2> QED
    BY <2>1
<1>3. ASSUME NEW n \in 0 .. N - 1, Read(n)
      PROVE  Read(n + 1)
  <2> SUFFICES ASSUME NEW q \in [1 .. n + 1 -> 0 .. K - 1]
               PROVE  \E k \in 0 .. power[n + 1] - 1 : \E f : Digits(q, n + 1, k, f)
    OBVIOUS
  <2> DEFINE tail == [i \in 1 .. n |-> q[i + 1]]
  <2>1. tail \in [1 .. n -> 0 .. K - 1]
    OBVIOUS
  <2>2. PICK x \in 0 .. power[n] - 1 : \E f : Digits(tail, n, x, f)
    <3> HIDE DEF Digits, tail
    <3> QED
      BY <1>3, <2>1
  <2>3. PICK f : Digits(tail, n, x, f)
    BY <2>2
  <2>4. PICK d \in 0 .. K - 1 : d = q[1]
    OBVIOUS
  <2>5. PICK L \in Nat : L = power[n]
    BY <1>1
  <2>6. PICK k \in Nat : k < K * L /\ k \div K = x /\ k % K = d
    <3>1. x \in Nat /\ x < L
      BY <2>5
    <3>2. x * K + d \in Nat /\ x * K + d < K * L
      BY <3>1, PlaceBound
    <3>3. (x * K + d) \div K = x
      BY <3>1, DivUnique
    <3>4. (x * K + d) % K = d
      BY <3>1, ModUnique
    <3> QED
      BY <3>2, <3>3, <3>4
  <2> DEFINE g == [i \in 0 .. n + 1 |-> IF i = 0 THEN k ELSE f[i - 1]]
  <2>7. k \in 0 .. power[n + 1] - 1
    <3>1. power[n + 1] = K * L /\ power[n + 1] \in Nat
      BY <1>1, <2>5
    <3> QED
      BY <2>6, <3>1
  <2>8. IsRest(g, k, n + 1, K)
    <3>1. f \in [0 .. n -> Nat] /\ f[0] = x /\ \A i \in 1 .. n : f[i] = f[i - 1] \div K
      BY <2>3 DEF IsRest
    <3>2. g \in [0 .. n + 1 -> Nat] /\ g[0] = k
      <4>1. ASSUME NEW i \in 0 .. n + 1
            PROVE  (IF i = 0 THEN k ELSE f[i - 1]) \in Nat
        <5>1. CASE i = 0
          BY <5>1
        <5>2. CASE i # 0
          <6>1. i - 1 \in 0 .. n
            BY <5>2
          <6>2. f[i - 1] \in Nat
            BY <3>1, <6>1
          <6> QED
            BY <5>2, <6>2
        <5> QED
          BY <5>1, <5>2
      <4>2. 0 \in 0 .. n + 1
        OBVIOUS
      <4> QED
        BY <4>1, <4>2, Zenon
    <3>3. ASSUME NEW i \in 1 .. n + 1 PROVE g[i] = g[i - 1] \div K
      <4>1. CASE i = 1
        <5>1. g[i] = x /\ g[i - 1] = k
          BY <4>1, <3>1
        <5> HIDE DEF g
        <5> QED
          BY <5>1, <2>6
      <4>2. CASE i - 1 \in 1 .. n
        BY <4>2, <3>1
      <4> QED
        BY <4>1, <4>2
    <3> QED
      BY <3>2, <3>3 DEF IsRest
  <2>9. ASSUME NEW i \in 1 .. n + 1 PROVE g[i - 1] % K = q[i]
    <3>1. CASE i = 1
      <4>1. g[i - 1] = k
        BY <3>1
      <4> HIDE DEF g
      <4> QED
        BY <3>1, <4>1, <2>4, <2>6
    <3>2. CASE i - 1 \in 1 .. n
      <4>1. f[i - 1 - 1] % K = tail[i - 1]
        BY <3>2, <2>3
      <4>2. tail[i - 1] = q[i] /\ g[i - 1] = f[i - 1 - 1]
        BY <3>2
      <4> HIDE DEF g, tail
      <4> QED
        BY <4>1, <4>2
    <3>3. i = 1 \/ i - 1 \in 1 .. n
      OBVIOUS
    <3> HIDE DEF g
    <3> QED
      BY <3>1, <3>2, <3>3, Zenon
  <2>10. Digits(q, n + 1, k, g)
    BY <2>8, <2>9
  <2> HIDE DEF Digits, g
  <2> QED
    BY <2>7, <2>10
<1>4. N \in T
  <2>1. \A n \in 0 .. N - 1 : n \in T => n + 1 \in T
    <3> HIDE DEF Read
    <3> QED
      BY <1>3
  <2> HIDE DEF T
  <2>2. 0 .. N \subseteq T
    BY <1>2, <2>1, SetInduction
  <2> QED
    BY <2>2
<1>5. PICK k \in 0 .. power[N] - 1 : \E f : Digits(p, N, k, f)
  <2> HIDE DEF Digits
  <2> QED
    BY <1>4
<1>6. PICK g : Digits(p, N, k, g)
  BY <1>5
<1>7. k \in Nat
  BY <1>1
<1>8. PICK f : /\ IsRest(f, k, N, K)
               /\ Reading(k, N, K) = [i \in 1 .. N |-> f[i - 1] % K]
  BY <1>7, ReadingDef
<1>9. \A i \in 0 .. N : f[i] = g[i]
  BY <1>6, <1>7, <1>8, RestUnique
<1>10. ASSUME NEW i \in 1 .. N PROVE f[i - 1] % K = p[i]
  BY <1>6, <1>9
<1>11. Reading(k, N, K) = p
  BY <1>8, <1>10
<1> QED
  BY <1>1, <1>11

-----------------------------------------------------------------------------
(* Counting: what is left of a number after each digit.                     *)

LEMMA DivMod ==
  ASSUME NEW x \in Nat, NEW K \in Nat \ {0}
  PROVE  x = (x \div K) * K + (x % K)
BY Z3T(30)

LEMMA TimesMonotone ==
  ASSUME NEW P \in Nat, NEW a \in Nat, NEW b \in Nat, a <= b
  PROVE  P * a \in Nat /\ P * b \in Nat /\ P * a <= P * b
BY Z3T(30)

LEMMA TimesTwice ==
  ASSUME NEW P \in Nat, NEW a \in Nat, NEW b \in Nat
  PROVE  P * (a * b) = (b * P) * a
BY Z3T(30)

\* Counting one further raises the quotient only if the remainder is the last.
LEMMA DivNext ==
  ASSUME NEW x \in Nat, NEW K \in Nat \ {0}
  PROVE  /\ x % K = K - 1 => (x + 1) \div K = x \div K + 1 /\ (x + 1) % K = 0
         /\ x % K # K - 1 => (x + 1) \div K = x \div K /\ (x + 1) % K = (x % K) + 1
<1> DEFINE q == x \div K
           m == x % K
<1>1. q \in Nat /\ m \in 0 .. K - 1
  BY DivNat, ModRange
<1>2. x = q * K + m
  BY DivMod
<1> HIDE DEF q, m
<1>3. CASE m = K - 1
  <2>1. x + 1 = (q + 1) * K + 0
    <3>1. q * K \in Nat /\ (q + 1) * K = q * K + K
      BY <1>1, Z3T(30)
    <3> QED
      BY <1>1, <1>2, <1>3, <3>1
  <2>2. q + 1 \in Nat /\ 0 \in 0 .. K - 1
    BY <1>1
  <2>3. ((q + 1) * K + 0) \div K = q + 1
    BY <2>2, DivUnique
  <2>4. ((q + 1) * K + 0) % K = 0
    BY <2>2, ModUnique
  <2> QED
    BY <1>3, <2>1, <2>3, <2>4 DEF q, m
<1>4. CASE m # K - 1
  <2>1. x + 1 = q * K + (m + 1)
    <3>1. q * K \in Nat
      BY <1>1, Z3T(30)
    <3> QED
      BY <1>1, <1>2, <3>1
  <2>2. m + 1 \in 0 .. K - 1
    BY <1>1, <1>4
  <2>3. (q * K + (m + 1)) \div K = q
    BY <1>1, <2>2, DivUnique
  <2>4. (q * K + (m + 1)) % K = m + 1
    BY <1>1, <2>2, ModUnique
  <2> QED
    BY <1>4, <2>1, <2>3, <2>4 DEF q, m
<1> QED
  BY <1>3, <1>4

LEMMA DivMonotone ==
  ASSUME NEW x \in Nat, NEW y \in Nat, NEW K \in Nat \ {0}, x <= y
  PROVE  /\ x \div K <= y \div K
         /\ x \div K = y \div K => y - x = (y % K) - (x % K)
<1> DEFINE q == x \div K
           m == x % K
           r == y \div K
           n == y % K
<1>1. q \in Nat /\ m \in 0 .. K - 1 /\ r \in Nat /\ n \in 0 .. K - 1
  BY DivNat, ModRange
<1>2. x = q * K + m /\ y = r * K + n
  BY DivMod
<1> HIDE DEF q, m, r, n
<1>3. q <= r
  <2> SUFFICES ASSUME r < q PROVE FALSE
    BY <1>1
  <2>1. r * K \in Nat /\ (r + 1) * K = r * K + K
    BY <1>1, Z3T(30)
  <2>2. (r + 1) * K <= q * K /\ q * K \in Nat
    <3>1. r + 1 <= q /\ r + 1 \in Nat /\ K \in Nat
      BY <1>1
    <3>2. K * (r + 1) <= K * q /\ K * q \in Nat
      BY <1>1, <3>1, TimesMonotone
    <3>3. K * (r + 1) = (r + 1) * K /\ K * q = q * K
      BY <1>1, Z3
    <3> QED
      BY <3>2, <3>3
  <2> QED
    BY <1>1, <1>2, <2>1, <2>2
<1>4. q = r => y - x = n - m
  <2>1. q * K \in Nat
    BY <1>1, Z3T(30)
  <2> QED
    BY <1>1, <1>2, <2>1
<1> QED
  BY <1>3, <1>4 DEF q, m, r, n

-----------------------------------------------------------------------------
\* What is left after i digits, bounded by the place of the i-th.
LEMMA RestBound ==
  ASSUME NEW N \in Nat, NEW K \in Nat \ {0}, NEW k \in Nat, NEW f, IsRest(f, k, N, K),
         NEW power \in [0 .. N -> Nat], power[0] = 1,
         \A n \in 1 .. N : power[n] = K * power[n - 1]
  PROVE  power[N] * f[N] <= k /\ k < power[N] * (f[N] + 1)
<1> DEFINE Within(i) == power[i] * f[i] <= k /\ k < power[i] * (f[i] + 1)
           T == {i \in 0 .. N : Within(i)}
<1>0. f \in [0 .. N -> Nat] /\ f[0] = k /\ \A i \in 1 .. N : f[i] = f[i - 1] \div K
  BY DEF IsRest
<1>1. 0 \in T
  BY <1>0
<1>2. ASSUME NEW i \in 0 .. N - 1, Within(i) PROVE Within(i + 1)
  <2>1. PICK P \in Nat : P = power[i]
    OBVIOUS
  <2>2. PICK r \in Nat : r = f[i]
    BY <1>0
  <2>3. PICK q \in Nat : q = r \div K
    BY <2>2, DivNat
  <2>4. power[i + 1] = K * P /\ f[i + 1] = q
    <3>1. i + 1 \in 1 .. N /\ i + 1 - 1 = i
      OBVIOUS
    <3>2. power[i + 1] = K * power[i + 1 - 1] /\ f[i + 1] = f[i + 1 - 1] \div K
      BY <1>0, <3>1
    <3> QED
      BY <2>1, <2>2, <2>3, <3>1, <3>2
  <2>5. P * r <= k /\ k < P * (r + 1)
    BY <1>2, <2>1, <2>2
  <2>6. r = q * K + (r % K) /\ r % K \in 0 .. K - 1
    BY <2>2, <2>3, DivMod, ModRange
  <2>7. q * K \in Nat /\ (q + 1) * K = q * K + K
    BY <2>3, Z3T(30)
  <2>8. P * (q * K) <= P * r
    <3>1. q * K <= r
      BY <2>6, <2>7
    <3> QED
      BY <2>7, <3>1, TimesMonotone
  <2>9. P * (r + 1) <= P * ((q + 1) * K)
    <3>1. r + 1 <= (q + 1) * K /\ r + 1 \in Nat /\ (q + 1) * K \in Nat
      BY <2>6, <2>7
    <3> QED
      BY <3>1, TimesMonotone
  <2>10. P * (q * K) = (K * P) * q
    <3>1. K \in Nat
      OBVIOUS
    <3> QED
      BY <3>1, TimesTwice, Zenon
  <2>11. P * ((q + 1) * K) = (K * P) * (q + 1)
    <3>0. q + 1 \in Nat
      BY <2>3
    <3>1. PICK s \in Nat : s = q + 1
      BY <3>0, Zenon
    <3>2. K \in Nat
      OBVIOUS
    <3>3. P * (s * K) = (K * P) * s
      BY <3>2, TimesTwice, Zenon
    <3> QED
      BY <3>1, <3>3, Zenon
  <2> DEFINE low == (K * P) * q
             at == P * r
             above == P * (r + 1)
             high == (K * P) * (q + 1)
  <2>12. low <= at /\ above <= high
    BY <2>8, <2>9, <2>10, <2>11, Zenon
  <2>13. low \in Nat /\ at \in Nat /\ above \in Nat /\ high \in Nat
    <3>1. q + 1 \in Nat /\ r + 1 \in Nat /\ K * P \in Nat
      BY <2>3, TimesNat
    <3>2. low \in Nat /\ at \in Nat
      BY <3>1, TimesNat
    <3> HIDE DEF low, at
    <3> QED
      BY <3>1, <3>2, TimesNat
  <2>14. at <= k /\ k < above
    BY <2>5
  <2> HIDE DEF low, at, above, high
  <2>15. low <= k /\ k < high
    BY <2>12, <2>13, <2>14
  <2>16. power[i + 1] * f[i + 1] = low /\ power[i + 1] * (f[i + 1] + 1) = high
    BY <2>4, Zenon DEF low, high
  <2> QED
    BY <2>15, <2>16, Zenon
<1>3. N \in T
  <2>1. \A i \in 0 .. N - 1 : i \in T => i + 1 \in T
    <3> HIDE DEF Within
    <3> QED
      BY <1>2
  <2> HIDE DEF T
  <2>2. 0 .. N \subseteq T
    BY <1>1, <2>1, SetInduction
  <2> QED
    BY <2>2
<1> QED
  BY <1>3

\* The numbers below Length are those of which N digits leave nothing.
LEMMA NothingLeft ==
  ASSUME NEW N \in Nat, NEW K \in Nat \ {0}, NEW k \in Nat, NEW f, IsRest(f, k, N, K)
  PROVE  /\ f[N] \in Nat
         /\ k < Length(N, K) <=> f[N] = 0
         /\ f[N] = 1 => Length(N, K) <= k
<1>1. PICK power \in [0 .. N -> Nat] :
        /\ power[0] = 1
        /\ \A n \in 1 .. N : power[n] = K * power[n - 1]
        /\ Length(N, K) = power[N]
  BY LengthDef
<1>2. PICK L \in Nat : L = power[N]
  BY <1>1
<1>3. PICK r \in Nat : r = f[N]
  BY DEF IsRest
<1>4. L * r <= k /\ k < L * (r + 1)
  BY <1>1, <1>2, <1>3, RestBound
<1>5. r # 0 => L <= L * r
  <2> SUFFICES ASSUME r # 0 PROVE L <= L * r
    OBVIOUS
  <2>1. L * 1 <= L * r
    BY TimesMonotone
  <2> QED
    BY <2>1
<1>6. L * r \in Nat
  BY TimesNat
<1>7. r = 0 => k < L
  BY <1>4
<1>8. r # 0 => L <= k
  BY <1>4, <1>5, <1>6
<1> QED
  BY <1>1, <1>2, <1>3, <1>7, <1>8

-----------------------------------------------------------------------------
(* From one reading to the next.                                           *)

\* The readings of k and k + 1 and the numbers their digits are taken from.
Counted(f, g, k, N, K) ==
  /\ IsRest(f, k, N, K) /\ IsRest(g, k + 1, N, K)
  /\ Reading(k, N, K) = [i \in 1 .. N |-> f[i - 1] % K]
  /\ Reading(k + 1, N, K) = [i \in 1 .. N |-> g[i - 1] % K]

LEMMA CountedExist ==
  ASSUME NEW k \in Nat, NEW N \in Nat, NEW K \in Nat \ {0}
  PROVE  \E f, g : Counted(f, g, k, N, K)
<1>1. k + 1 \in Nat
  OBVIOUS
<1>2. PICK f : /\ IsRest(f, k, N, K)
               /\ Reading(k, N, K) = [i \in 1 .. N |-> f[i - 1] % K]
  BY ReadingDef
<1>3. PICK g : /\ IsRest(g, k + 1, N, K)
               /\ Reading(k + 1, N, K) = [i \in 1 .. N |-> g[i - 1] % K]
  BY <1>1, ReadingDef
<1> QED
  BY <1>2, <1>3 DEF Counted

\* As long as the digits have their last value, counting one further carries.
LEMMA Carries ==
  ASSUME NEW k \in Nat, NEW N \in Nat, NEW K \in Nat \ {0}, NEW f, NEW g,
         Counted(f, g, k, N, K), NEW n \in 0 .. N,
         \A d \in 1 .. n : Reading(k, N, K)[d] = K - 1
  PROVE  /\ g[n] = f[n] + 1
         /\ \A d \in 1 .. n : Reading(k + 1, N, K)[d] = 0
<1>0. /\ f \in [0 .. N -> Nat] /\ f[0] = k /\ \A i \in 1 .. N : f[i] = f[i - 1] \div K
      /\ g[0] = k + 1 /\ \A i \in 1 .. N : g[i] = g[i - 1] \div K
  BY DEF Counted, IsRest
<1>1. \A d \in 1 .. n : f[d - 1] % K = K - 1
  <2> TAKE d \in 1 .. n
  <2>1. d \in 1 .. N /\ Reading(k, N, K)[d] = K - 1
    OBVIOUS
  <2>2. Reading(k, N, K)[d] = f[d - 1] % K
    BY <2>1 DEF Counted
  <2> QED
    BY <2>1, <2>2
<1> DEFINE T == {i \in 0 .. n : g[i] = f[i] + 1}
<1>2. ASSUME NEW i \in 0 .. n - 1, g[i] = f[i] + 1
      PROVE  g[i + 1] = f[i + 1] + 1 /\ g[i] % K = 0
  <2>1. i + 1 \in 1 .. N /\ i + 1 \in 1 .. n /\ (i + 1) - 1 = i
    OBVIOUS
  <2>2. PICK x \in Nat : x = f[i]
    BY <1>0
  <2>3. x % K = K - 1
    BY <1>1, <2>1, <2>2
  <2>4. (x + 1) \div K = (x \div K) + 1 /\ (x + 1) % K = 0
    BY <2>3, DivNext
  <2>5. f[i + 1] = x \div K /\ g[i + 1] = (x + 1) \div K
    BY <1>0, <1>2, <2>1, <2>2
  <2> QED
    BY <1>2, <2>2, <2>4, <2>5
<1>3. 0 .. n \subseteq T
  <2>1. 0 \in T
    BY <1>0
  <2>2. \A i \in 0 .. n - 1 : i \in T => i + 1 \in T
    BY <1>2
  <2> HIDE DEF T
  <2> QED
    BY <2>1, <2>2, SetInduction
<1>4. g[n] = f[n] + 1
  BY <1>3
<1>5. ASSUME NEW d \in 1 .. n PROVE Reading(k + 1, N, K)[d] = 0
  <2>1. d - 1 \in 0 .. n - 1 /\ d \in 1 .. N
    OBVIOUS
  <2>2. g[d - 1] = f[d - 1] + 1
    BY <1>3, <2>1
  <2>3. g[d - 1] % K = 0
    BY <1>2, <2>1, <2>2
  <2>4. Reading(k + 1, N, K)[d] = g[d - 1] % K
    BY <2>1 DEF Counted
  <2> QED
    BY <2>3, <2>4
<1> QED
  BY <1>4, <1>5

\* From equal rests the same digits follow.
LEMMA RestsAgree ==
  ASSUME NEW N \in Nat, NEW K \in Nat \ {0}, NEW k \in Nat, NEW l \in Nat, NEW f, NEW g,
         IsRest(f, k, N, K), IsRest(g, l, N, K), NEW m \in 0 .. N, f[m] = g[m]
  PROVE  \A i \in m .. N : f[i] = g[i]
<1> DEFINE T == {i \in 0 .. N : i >= m => f[i] = g[i]}
<1>1. 0 \in T
  <2>1. 0 >= m => m = 0
    OBVIOUS
  <2> QED
    BY <2>1
<1>2. ASSUME NEW i \in 0 .. N - 1, i \in T PROVE i + 1 \in T
  <2>1. i + 1 \in 0 .. N /\ i + 1 \in 1 .. N /\ (i + 1) - 1 = i
    OBVIOUS
  <2>2. CASE i + 1 = m
    BY <2>1, <2>2
  <2>3. CASE i + 1 < m
    BY <2>1, <2>3
  <2>4. CASE i >= m
    <3>1. f[i] = g[i]
      BY <1>2, <2>4
    <3>2. f[i + 1] = f[i] \div K /\ g[i + 1] = g[i] \div K
      BY <2>1 DEF IsRest
    <3> QED
      BY <2>1, <3>1, <3>2
  <2> QED
    BY <2>2, <2>3, <2>4
<1>3. 0 .. N \subseteq T
  <2>1. \A i \in 0 .. N - 1 : i \in T => i + 1 \in T
    BY <1>2
  <2> HIDE DEF T
  <2> QED
    BY <1>1, <2>1, SetInduction
<1> QED
  BY <1>3

\* The next reading: the digits before the first that can be raised go to 0, that
\* digit is raised, and the ones after it stay.
RaisedAt(p, idx, N) ==
  [i \in 1 .. N |-> CASE i < idx -> 0
                      [] i = idx -> p[i] + 1
                      [] i > idx -> p[i]]

LEMMA NextReading ==
  ASSUME NEW N \in Nat, NEW K \in Nat \ {0}, NEW k \in Nat, k < Length(N, K),
         NEW idx \in 1 .. N, Reading(k, N, K)[idx] # K - 1,
         \A d \in 1 .. idx - 1 : Reading(k, N, K)[d] = K - 1
  PROVE  /\ k + 1 < Length(N, K)
         /\ Reading(k + 1, N, K) = RaisedAt(Reading(k, N, K), idx, N)
<1>1. PICK f, g : Counted(f, g, k, N, K)
  BY CountedExist
<1>2. /\ IsRest(f, k, N, K) /\ IsRest(g, k + 1, N, K)
      /\ Reading(k, N, K) = [i \in 1 .. N |-> f[i - 1] % K]
      /\ Reading(k + 1, N, K) = [i \in 1 .. N |-> g[i - 1] % K]
  BY <1>1 DEF Counted
<1>3. idx - 1 \in 0 .. N /\ k + 1 \in Nat
  OBVIOUS
<1>4. /\ g[idx - 1] = f[idx - 1] + 1
      /\ \A d \in 1 .. idx - 1 : Reading(k + 1, N, K)[d] = 0
  BY <1>1, <1>3, Carries
<1>5. PICK x \in Nat : x = f[idx - 1]
  BY <1>2, <1>3 DEF IsRest
<1>6. x % K # K - 1
  BY <1>2, <1>5
<1>7. (x + 1) \div K = x \div K /\ (x + 1) % K = (x % K) + 1
  BY <1>6, DivNext
<1>8. f[idx] = x \div K /\ g[idx] = (x + 1) \div K
  BY <1>2, <1>4, <1>5 DEF IsRest
<1>9. \A i \in idx .. N : f[i] = g[i]
  <2>1. f[idx] = g[idx] /\ idx \in 0 .. N
    BY <1>7, <1>8
  <2> QED
    BY <1>2, <1>3, <2>1, RestsAgree
<1>10. k + 1 < Length(N, K)
  <2>1. f[N] = 0
    BY <1>2, NothingLeft
  <2>2. g[N] = 0
    BY <1>9, <2>1
  <2> QED
    BY <1>2, <1>3, <2>2, NothingLeft
<1>11. ASSUME NEW i \in 1 .. N
       PROVE  Reading(k + 1, N, K)[i] = RaisedAt(Reading(k, N, K), idx, N)[i]
  <2>1. CASE i < idx
    <3>1. Reading(k + 1, N, K)[i] = 0
      BY <1>4, <2>1
    <3> QED
      BY <2>1, <3>1 DEF RaisedAt
  <2>2. CASE i = idx
    <3>1. Reading(k + 1, N, K)[i] = g[idx - 1] % K /\ Reading(k, N, K)[i] = x % K
      BY <1>2, <1>5, <2>2
    <3>2. Reading(k + 1, N, K)[i] = Reading(k, N, K)[i] + 1
      BY <1>4, <1>5, <1>7, <3>1
    <3>3. RaisedAt(Reading(k, N, K), idx, N)[i] = Reading(k, N, K)[i] + 1
      BY <2>2 DEF RaisedAt
    <3> QED
      BY <3>2, <3>3
  <2>3. CASE i > idx
    <3>1. i - 1 \in idx .. N
      BY <2>3
    <3>2. Reading(k + 1, N, K)[i] = g[i - 1] % K /\ Reading(k, N, K)[i] = f[i - 1] % K
      BY <1>2
    <3>3. RaisedAt(Reading(k, N, K), idx, N)[i] = Reading(k, N, K)[i]
      BY <2>3 DEF RaisedAt
    <3> QED
      BY <1>9, <3>1, <3>2, <3>3
  <2> QED
    BY <2>1, <2>2, <2>3
<1>12. Reading(k + 1, N, K) = RaisedAt(Reading(k, N, K), idx, N)
  <2>1. Reading(k + 1, N, K) = [i \in 1 .. N |-> Reading(k + 1, N, K)[i]]
    BY <1>2
  <2>2. RaisedAt(Reading(k, N, K), idx, N)
          = [i \in 1 .. N |-> RaisedAt(Reading(k, N, K), idx, N)[i]]
    BY DEF RaisedAt
  <2> QED
    BY <1>11, <2>1, <2>2
<1> QED
  BY <1>10, <1>12

\* With every digit at its last value, the readings have been counted.
LEMMA LastReading ==
  ASSUME NEW N \in Nat, NEW K \in Nat \ {0}, NEW k \in Nat, k < Length(N, K),
         \A d \in 1 .. N : Reading(k, N, K)[d] = K - 1
  PROVE  k + 1 = Length(N, K)
<1>1. PICK f, g : Counted(f, g, k, N, K)
  BY CountedExist
<1>2. IsRest(f, k, N, K) /\ IsRest(g, k + 1, N, K) /\ k + 1 \in Nat /\ N \in 0 .. N
  BY <1>1 DEF Counted
<1>3. f[N] = 0
  BY <1>2, NothingLeft
<1>4. g[N] = 1
  BY <1>1, <1>2, <1>3, Carries
<1>5. Length(N, K) <= k + 1
  BY <1>2, <1>4, NothingLeft
<1>6. Length(N, K) \in Nat
  BY LengthNat
<1> QED
  BY <1>5, <1>6

LEMMA FirstReading ==
  ASSUME NEW N \in Nat, NEW K \in Nat \ {0}
  PROVE  Reading(0, N, K) = [i \in 1 .. N |-> 0] /\ 0 < Length(N, K)
<1>1. PICK f : /\ IsRest(f, 0, N, K)
               /\ Reading(0, N, K) = [i \in 1 .. N |-> f[i - 1] % K]
  BY ReadingDef
<1>2. 0 \div K = 0 /\ 0 % K = 0
  <2>1. 0 * K + 0 = 0 /\ 0 \in 0 .. K - 1
    OBVIOUS
  <2>2. (0 * K + 0) \div K = 0 /\ (0 * K + 0) % K = 0
    BY <2>1, DivUnique, ModUnique
  <2> QED
    BY <2>1, <2>2
<1> DEFINE T == {i \in 0 .. N : f[i] = 0}
<1>3. 0 .. N \subseteq T
  <2>1. 0 \in T
    BY <1>1 DEF IsRest
  <2>2. ASSUME NEW i \in 0 .. N - 1, i \in T PROVE i + 1 \in T
    <3>1. i + 1 \in 1 .. N /\ (i + 1) - 1 = i
      OBVIOUS
    <3>2. f[i + 1] = f[i] \div K
      BY <1>1, <3>1 DEF IsRest
    <3> QED
      BY <1>2, <2>2, <3>1, <3>2
  <2>3. \A i \in 0 .. N - 1 : i \in T => i + 1 \in T
    BY <2>2
  <2> HIDE DEF T
  <2> QED
    BY <2>1, <2>3, SetInduction
<1>4. f[N] = 0
  BY <1>3
<1>5. 0 < Length(N, K)
  BY <1>1, <1>4, NothingLeft
<1>6. \A i \in 1 .. N : f[i - 1] % K = 0
  BY <1>2, <1>3
<1> QED
  BY <1>1, <1>5, <1>6

\* Counting is ascending, the highest digit that differs deciding.
Ascends(p, q, N) ==
  \E d \in 1 .. N : p[d] < q[d] /\ \A i \in d + 1 .. N : p[i] = q[i]

LEMMA ReadingsAscend ==
  ASSUME NEW N \in Nat, NEW K \in Nat \ {0}, NEW k \in Nat, NEW l \in Nat,
         k < l, l < Length(N, K)
  PROVE  Ascends(Reading(k, N, K), Reading(l, N, K), N)
<1>1. PICK f : /\ IsRest(f, k, N, K)
               /\ Reading(k, N, K) = [i \in 1 .. N |-> f[i - 1] % K]
  BY ReadingDef
<1>2. PICK g : /\ IsRest(g, l, N, K)
               /\ Reading(l, N, K) = [i \in 1 .. N |-> g[i - 1] % K]
  BY ReadingDef
<1>3. f[N] = 0 /\ g[N] = 0
  <2>1. k < Length(N, K)
    BY LengthNat
  <2> QED
    BY <1>1, <1>2, <2>1, NothingLeft
<1> DEFINE S == {i \in 0 .. N : f[i] = g[i]}
<1>4. \E d \in S : \A i \in S : d <= i
  <2>1. N \in S /\ S \subseteq Nat
    BY <1>3
  <2> HIDE DEF S
  <2> QED
    BY <2>1, LeastNat
<1>5. PICK d \in 0 .. N : f[d] = g[d] /\ \A i \in 0 .. N : f[i] = g[i] => d <= i
  BY <1>4
<1>6. d # 0
  BY <1>1, <1>2, <1>5 DEF IsRest
<1>7. d \in 1 .. N /\ d - 1 \in 0 .. N
  BY <1>6
<1>8. f[d - 1] # g[d - 1]
  BY <1>5, <1>7
<1> DEFINE T == {i \in 0 .. N : f[i] <= g[i]}
<1>9. 0 .. N \subseteq T
  <2>1. 0 \in T
    BY <1>1, <1>2 DEF IsRest
  <2>2. ASSUME NEW i \in 0 .. N - 1, i \in T PROVE i + 1 \in T
    <3>1. i + 1 \in 1 .. N /\ (i + 1) - 1 = i
      OBVIOUS
    <3>2. f[i + 1] = f[i] \div K /\ g[i + 1] = g[i] \div K /\ f[i] \in Nat /\ g[i] \in Nat
      BY <1>1, <1>2, <3>1 DEF IsRest
    <3>3. f[i] \div K <= g[i] \div K
      BY <2>2, <3>2, DivMonotone
    <3> QED
      BY <3>1, <3>2, <3>3
  <2>3. \A i \in 0 .. N - 1 : i \in T => i + 1 \in T
    BY <2>2
  <2> HIDE DEF T
  <2> QED
    BY <2>1, <2>3, SetInduction
<1>10. PICK x \in Nat : x = f[d - 1]
  BY <1>1, <1>7 DEF IsRest
<1>11. PICK y \in Nat : y = g[d - 1]
  BY <1>2, <1>7 DEF IsRest
<1>12. x < y
  BY <1>7, <1>8, <1>9, <1>10, <1>11
<1>13. x \div K = y \div K
  <2>1. f[d] = x \div K /\ g[d] = y \div K
    BY <1>1, <1>2, <1>7, <1>10, <1>11 DEF IsRest
  <2> QED
    BY <1>5, <2>1
<1>14. x % K < y % K
  <2>0. x <= y
    BY <1>12
  <2>1. y - x = (y % K) - (x % K)
    BY <2>0, <1>13, DivMonotone, Zenon
  <2>2. x % K \in 0 .. K - 1 /\ y % K \in 0 .. K - 1
    BY ModRange
  <2> QED
    BY <1>12, <2>1, <2>2
<1>15. Reading(k, N, K)[d] < Reading(l, N, K)[d]
  BY <1>1, <1>2, <1>7, <1>10, <1>11, <1>14
<1>16. \A i \in d .. N : f[i] = g[i]
  BY <1>1, <1>2, <1>5, RestsAgree
<1>17. ASSUME NEW i \in d + 1 .. N PROVE Reading(k, N, K)[i] = Reading(l, N, K)[i]
  <2>1. i - 1 \in d .. N /\ i \in 1 .. N
    BY <1>7
  <2>2. Reading(k, N, K)[i] = f[i - 1] % K /\ Reading(l, N, K)[i] = g[i - 1] % K
    BY <1>1, <1>2, <2>1
  <2> QED
    BY <1>16, <2>1, <2>2
<1> QED
  BY <1>7, <1>15, <1>17 DEF Ascends

LEMMA AscendsAsymmetric ==
  ASSUME NEW N \in Nat, NEW p \in [1 .. N -> Nat], NEW q \in [1 .. N -> Nat],
         Ascends(p, q, N)
  PROVE  ~ Ascends(q, p, N)
<1> SUFFICES ASSUME Ascends(q, p, N) PROVE FALSE
  OBVIOUS
<1>1. PICK d \in 1 .. N : p[d] < q[d] /\ \A i \in d + 1 .. N : p[i] = q[i]
  BY DEF Ascends
<1>2. PICK e \in 1 .. N : q[e] < p[e] /\ \A i \in e + 1 .. N : q[i] = p[i]
  BY DEF Ascends
<1>3. p[d] \in Nat /\ q[d] \in Nat /\ p[e] \in Nat /\ q[e] \in Nat
  OBVIOUS
<1>4. CASE d < e
  <2>1. e \in d + 1 .. N
    BY <1>4
  <2> QED
    BY <1>1, <1>2, <1>3, <2>1
<1>5. CASE e < d
  <2>1. d \in e + 1 .. N
    BY <1>5
  <2> QED
    BY <1>1, <1>2, <1>3, <2>1
<1>6. CASE d = e
  BY <1>1, <1>2, <1>3, <1>6
<1> QED
  BY <1>4, <1>5, <1>6

\* The readings of the numbers below k are the permutations before that of k.
LEMMA ReadingsBefore ==
  ASSUME NEW N \in Nat, NEW K \in Nat \ {0}, NEW k \in Nat, k < Length(N, K)
  PROVE  {Reading(j, N, K) : j \in 0 .. k - 1} =
           {p \in [1 .. N -> 0 .. K - 1] : Ascends(p, Reading(k, N, K), N)}
<1> DEFINE R(j) == Reading(j, N, K)
           Perm == [1 .. N -> 0 .. K - 1]
<1>0. Length(N, K) \in Nat
  BY LengthNat
<1>1. \A j \in Nat : R(j) \in Perm
  BY ReadingIsPermutation
<1>2. \A j \in Nat, l \in Nat : j < l /\ l < Length(N, K) => Ascends(R(j), R(l), N)
  BY ReadingsAscend
<1>3. \A p \in Perm : \E j \in 0 .. Length(N, K) - 1 : R(j) = p
  BY EveryPermutationIsRead
<1>4. \A p \in Perm, q \in Perm : Ascends(p, q, N) => ~ Ascends(q, p, N)
  <2>1. Perm \subseteq [1 .. N -> Nat]
    OBVIOUS
  <2> HIDE DEF Perm
  <2> QED
    BY <2>1, AscendsAsymmetric
<1> HIDE DEF R, Perm
<1>5. ASSUME NEW j \in 0 .. k - 1 PROVE R(j) \in Perm /\ Ascends(R(j), R(k), N)
  <2>1. j \in Nat /\ j < k
    OBVIOUS
  <2> QED
    BY <1>1, <1>2, <2>1
<1>6. ASSUME NEW p \in Perm, Ascends(p, R(k), N) PROVE \E j \in 0 .. k - 1 : R(j) = p
  <2>1. PICK j \in 0 .. Length(N, K) - 1 : R(j) = p
    BY <1>3
  <2>2. j \in Nat /\ j < Length(N, K)
    BY <1>0
  <2>3. ~ Ascends(R(k), p, N)
    BY <1>1, <1>4, <1>6
  <2>4. j # k
    BY <1>4, <1>6, <2>1
  <2>5. ~ (k < j)
    BY <1>2, <2>1, <2>2, <2>3
  <2> QED
    BY <2>1, <2>2, <2>4, <2>5
<1> QED
  BY <1>5, <1>6 DEF R, Perm

\* With no values there is a permutation only of no digits.
LEMMA NoValues ==
  ASSUME NEW N \in Nat \ {0}
  PROVE  Length(N, 0) = 0
<1>1. PICK power \in [0 .. N -> Nat] :
        /\ power[0] = 1
        /\ \A n \in 1 .. N : power[n] = 0 * power[n - 1]
        /\ Length(N, 0) = power[N]
  <2>1. N \in Nat /\ 0 \in Nat
    OBVIOUS
  <2> QED
    BY <2>1, LengthDef
<1>2. power[N] = 0 * power[N - 1] /\ power[N - 1] \in Nat
  BY <1>1
<1> QED
  BY <1>1, <1>2

LEMMA NoDigits ==
  ASSUME NEW K \in Nat
  PROVE  Length(0, K) = 1 /\ \A k : Reading(k, 0, K) = << >>
<1>1. Length(0, K) = 1
  <2>1. PICK power \in [0 .. 0 -> Nat] : power[0] = 1 /\ Length(0, K) = power[0]
    <3>1. 0 \in Nat
      OBVIOUS
    <3> QED
      BY <3>1, LengthDef
  <2> QED
    BY <2>1
<1>2. ASSUME NEW k PROVE Reading(k, 0, K) = << >>
  <2>1. 1 .. 0 = {}
    OBVIOUS
  <2>2. \A F : [i \in 1 .. 0 |-> F[i]] = << >>
    BY <2>1
  <2> DEFINE rest == CHOOSE rest : rest = [i \in 0 .. 0 |-> IF i = 0 THEN k ELSE rest[i - 1] \div K]
  <2>3. Reading(k, 0, K) = [i \in 1 .. 0 |-> rest[i - 1] % K]
    BY DEF Reading
  <2> HIDE DEF rest
  <2> QED
    BY <2>1, <2>3
<1> QED
  BY <1>1, <1>2

=============================================================================
