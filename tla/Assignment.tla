------------------------------ MODULE Assignment ------------------------------
(***************************************************************************)
(* What the broker promises about the assignment of GPUs, whoever asks for  *)
(* it and whatever happens inside.  Only free GPUs are given, and only to   *)
(* leases that have had none; an open lease keeps its GPUs until it ends,   *)
(* or is moved to as many others that are free; a lease that has ended      *)
(* never owns a GPU again.  So a GPU goes from one lease to another only by *)
(* being free in between.                                                  *)
(***************************************************************************)
EXTENDS FiniteSets

CONSTANTS Gpu, Lease

VARIABLES
    owners,         \* per GPU: the leases it is assigned to
    stage           \* per lease: "new", "open" or "over"

vars == <<owners, stage>>

Init ==
    /\ owners = [g \in Gpu |-> {}]
    /\ stage = [l \in Lease |-> "new"]

Free == {g \in Gpu : owners[g] = {}}

In(s) == {l \in Lease : stage[l] = s}

GpusOfLease(l) == {g \in Gpu : l \in owners[g]}

\* Free GPUs are given to leases that had none, each to one.
Grant(G, to) ==
    /\ G # {}
    /\ owners' = [g \in Gpu |-> IF g \in G THEN {to[g]} ELSE owners[g]]
    /\ stage' = [l \in Lease |-> IF \E g \in G : to[g] = l THEN "open" ELSE stage[l]]

\* An open lease is moved to as many GPUs, which no other has.
Move(l, G) ==
    /\ Cardinality(G) = Cardinality(GpusOfLease(l))
    /\ \A g \in G : owners[g] \subseteq {l}
    /\ owners' = [g \in Gpu |-> IF g \in G THEN {l} ELSE owners[g] \ {l}]
    /\ UNCHANGED stage

\* Some leases end, and give up all they have.
End(L) ==
    /\ L # {}
    /\ owners' = [g \in Gpu |-> owners[g] \ L]
    /\ stage' = [l \in Lease |-> IF l \in L THEN "over" ELSE stage[l]]

Next ==
    \/ \E G \in SUBSET Free : \E to \in [G -> In("new")] : Grant(G, to)
    \/ \E l \in In("open"), G \in SUBSET Gpu : Move(l, G)
    \/ \E L \in SUBSET In("open") : End(L)

Spec == Init /\ [][Next]_vars

\* A GPU has one owner at most, and it is open.
OneOwner == \A g \in Gpu : \A l, m \in owners[g] : l = m /\ stage[l] = "open"
=============================================================================
