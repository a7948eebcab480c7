------------------------------- MODULE Pair --------------------------------
(* The two engines of one relationship. *)
EXTENDS Integers

CONSTANTS
  Nodes,      \* the two engines
  MaxCrashes  \* bound: crashes

ASSUME PairAssumption == \E a, b \in Nodes : a # b /\ Nodes = {a, b}
ASSUME CrashAssumption == MaxCrashes \in Nat

Peer(n) == CHOOSE m \in Nodes : m # n
=============================================================================
