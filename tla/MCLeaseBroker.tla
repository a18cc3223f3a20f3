--------------------------- MODULE MCLeaseBroker ---------------------------
(* Small instances of LeaseBroker for TLC: one server. *)
EXTENDS LeaseBroker, TLC

OneHost == [g \in Gpu |-> CHOOSE e \in Endpoint : TRUE]

\* Lease rows, process identities and the GPUs of one server (when no policy
\* or fault tells them apart) are interchangeable.
Symmetry == Permutations(Lease) \cup Permutations(Proc) \cup Permutations(Gpu)
=============================================================================
