------------------------------ MODULE Odometer ------------------------------
(***************************************************************************)
(* What an Odometer holds once it is constructed: every way to give one of *)
(* K assets to each of N parameters, counted upwards in base K with the    *)
(* first parameter as the lowest digit.  Module OdometerLoop has the       *)
(* constructor itself and is checked against this definition.              *)
(***************************************************************************)
EXTENDS Integers, Sequences

\* pow(K, N), with which pow(0, 0) is 1
Length(N, K) ==
  LET power[n \in 0 .. N] == IF n = 0 THEN 1 ELSE K * power[n - 1]
  IN  power[N]

\* The digits of k in base K, the lowest first.
Reading(k, N, K) ==
  LET rest[i \in 0 .. N] == IF i = 0 THEN k ELSE rest[i - 1] \div K
  IN  [i \in 1 .. N |-> rest[i - 1] % K]

\* A variant that counts once more, back to the first permutation.
PermsOneMore(N, K) == [k \in 1 .. Length(N, K) + 1 |-> Reading(k - 1, N, K)]

Perms(N, K) == [k \in 1 .. Length(N, K) |-> Reading(k - 1, N, K)]

=============================================================================
