----------------------------- MODULE MCReconciler ----------------------------
EXTENDS Reconciler, TLC
CONSTANTS s1, s2

(* Every row has a name of its own, or all rows share one name.            *)
OwnName == [s \in Services |-> s]
SharedName == [s \in Services |-> s1]

Alike == Permutations(Clients)
=============================================================================
