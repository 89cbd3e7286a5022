------------------------------ MODULE Ordering ------------------------------
(***************************************************************************)
(* sorted(): the elements of a finite set by ascending key, where no two   *)
(* have the same one.                                                      *)
(***************************************************************************)
EXTENDS Integers, FiniteSets

InOrder(S, key) ==
  LET place == [x \in S |-> Cardinality({y \in S : key[y] <= key[x]})]
  IN [i \in 1..Cardinality(S) |-> CHOOSE x \in S : place[x] = i]
=============================================================================
