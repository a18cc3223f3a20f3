----------------------- MODULE MCKeepaliveController -----------------------
(* Small instances of KeepaliveController for TLC. *)
EXTENDS KeepaliveController, TLC

CONSTANTS e1, e2

OneHost == [g \in Gpu |-> e1]

Ranks == [e \in Endpoint |-> IF e = e1 THEN 1 ELSE 2]
Symmetry == Permutations(Worker) \cup Permutations(Reconciler) \cup Permutations(Lease)
=============================================================================
