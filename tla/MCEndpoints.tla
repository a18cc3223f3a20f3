----------------------------- MODULE MCEndpoints -----------------------------
(* A small instance of Endpoints for TLC. *)
EXTENDS Endpoints

CONSTANTS e1, a1, c1

\* A file that names a server alone.
MCBare ==
    {[e \in Endpoint |->
        IF e = e1 THEN [addr |-> a1, conn |-> c1, adapter |-> FALSE, policy |-> "unnamed", owned |-> FALSE]
        ELSE None]}
=============================================================================
