------------------------- MODULE MCKeepaliveHelper -------------------------
(* Small instances of KeepaliveHelper for TLC. *)
EXTENDS KeepaliveHelper, TLC

Symmetry == Permutations(Gpu) \cup Permutations(Call) \cup Permutations(Pid)
=============================================================================
