--------------------------- MODULE LeasePromises ---------------------------
(***************************************************************************)
(* What comments of the repository promise of the idle clock of workload    *)
(* leases.  A history variable records when a GPU was last seen busy.       *)
(***************************************************************************)
EXTENDS MCLeaseBroker

VARIABLE
    busyAt          \* per GPU: time of the last complete observation with a process on it

InitH == Init /\ busyAt = [g \in Gpu |-> None]

SeenBusy ==
    busyAt' = [g \in Gpu |->
                  IF \E p \in Proc : rows'[g][p] # None
                  THEN CHOOSE t \in Time : \E p \in Proc : rows'[g][p] = t
                  ELSE busyAt[g]]

SpecH == InitH /\ [][Next /\ SeenBusy]_<<vars, busyAt>>

\* "So the elapsed time is always a fully observed idle window" (models.py,
\* Lease.idle_since; docstring of _reconcile_idle_lease): where a lease is
\* reclaimed, the view that the last observation replaces was fresh, and its GPUs
\* were seen without a process for as long as the window is.
IdleWindowIsObserved ==
    [][\A l \in Lease : IdleReclaim(l) =>
          \A g \in lease[l].gpus :
              /\ Fresh(device, g)
              /\ busyAt[g] # None => now >= busyAt[g] + ReclaimAfter]_vars
=============================================================================
