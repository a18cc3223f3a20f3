---------------------------- MODULE LeaseBroker ----------------------------
(***************************************************************************)
(* The GPU lease state of ServerPilot's broker: src/serverpilot/service.py *)
(* over the tables of models.py.                                           *)
(*                                                                         *)
(* Every public operation of BrokerService that writes runs in one         *)
(* serialized SQLite transaction (_write: BEGIN IMMEDIATE, commit or       *)
(* rollback), so each operation is one action here, with everything it     *)
(* calls before it commits.  What interleaves is the order of operations:  *)
(* claims, releases and renewals of several agents, moves by an operator,  *)
(* the keepalive controller's own calls, and collector observations, which *)
(* may arrive late, out of order, incomplete, or not at all.               *)
(*                                                                         *)
(* An observation is any content at all: the model does not track what     *)
(* really runs on the servers, only what the collector says.               *)
(***************************************************************************)
EXTENDS Naturals, FiniteSets

CONSTANTS
    Endpoint,       \* servers
    Gpu,            \* physical GPUs
    HostOf,         \* GPU -> the endpoint it is plugged into
    Lease,          \* lease identifiers (rows of the leases table)
    Proc,           \* process identities (pid, boot, start time) on a GPU
    None,           \* SQL NULL
    Stale,          \* collector.stale_after_seconds
    AlertAfter,     \* idle_lease_alert_seconds
    ReclaimAfter,   \* idle_lease_reclaim_seconds
    Duration,       \* duration_seconds of a claim that declares one
    MinRenewal,     \* the 60 seconds of renew_lease
    Policies,       \* bound: keepalive policies the operator sets
    Lifecycles,     \* bound: lifecycle states the operator sets
    Faulty,         \* bound: GPUs on which a remote keepalive operation may fail
    CallLag,        \* bound: age of the observation a controller call rests on
    ProbeLag,       \* bound: age of an observation when it is ingested
    MaxTime,        \* bound of the clock
    Horizon         \* bound of a renewed expiry

ASSUME HostAssumption == IsFiniteSet(Gpu) /\ HostOf \in [Gpu -> Endpoint]

ASSUME BoundAssumption ==
    /\ Policies \subseteq {"disabled", "idle_keepalive"}
    /\ Lifecycles \subseteq {"active", "draining"}
    /\ Faulty \subseteq Gpu

ASSUME NoneAssumption == None \notin Nat \cup Proc

ASSUME TimeAssumption ==
    /\ Stale \in Nat /\ AlertAfter \in Nat /\ ReclaimAfter \in Nat
    /\ Duration \in Nat /\ MinRenewal \in Nat /\ CallLag \in Nat
    /\ ProbeLag \in Nat /\ MaxTime \in Nat /\ Horizon \in Nat
    /\ AlertAfter <= ReclaimAfter
    /\ CallLag <= Stale

VARIABLES
    now,            \* the broker's clock (utcnow)
    host,           \* per endpoint: lifecycle, keepalive policy, EndpointTelemetryCurrent, ProviderState
    device,         \* per GPU: inventory presence and TelemetryCurrent timestamps
    rows,           \* per GPU and process: last_seen_at of the active ProcessObservation, or None
    keeper,         \* per GPU: KeepaliveCurrent
    lease           \* per lease: Lease, its active LeaseResource rows, binding and active alerts

vars == <<now, host, device, rows, keeper, lease>>

-----------------------------------------------------------------------------
(* Types *)

Time == 0 .. MaxTime

MaybeTime == Time \cup {None}

HostRecord == [lifecycle : {"active", "draining"},
               policy    : {"disabled", "idle_keepalive"},
               observed  : MaybeTime,   \* EndpointTelemetryCurrent.observed_at
               collected : MaybeTime,   \* EndpointTelemetryCurrent.collected_at
               success   : MaybeTime,   \* ProviderState.last_success_at
               failing   : BOOLEAN]     \* ProviderState.last_error is not None

DeviceRecord == [status    : {"unknown", "present", "absent"},
                 observed  : MaybeTime,
                 collected : MaybeTime]

KeeperRecord == [actual   : {"none", "ON", "OFF", "ERROR"},
                 expected : Proc \cup {None}]

ActiveLeaseStates == {"HELD", "ACTIVE", "ORPHANED_BUSY"}

TerminalLeaseStates == {"RELEASED", "EXPIRED_EMPTY"}

BlockingAlerts == {"orphaned_busy"}

\* "unissued" is a row that does not exist yet.
LeaseRecord == [kind      : {"workload", "keepalive"},
                state     : {"unissued"} \cup ActiveLeaseStates \cup TerminalLeaseStates,
                gpus      : SUBSET Gpu,
                issued    : Time,
                expires   : Nat \cup {None},
                idleSince : MaybeTime,
                bound     : BOOLEAN,    \* some WorkloadBinding row exists
                alerts    : SUBSET {"orphaned_busy", "idle_lease"}]

NewLease == [kind |-> "workload", state |-> "unissued", gpus |-> {}, issued |-> 0,
             expires |-> None, idleSince |-> None, bound |-> FALSE, alerts |-> {}]

Init ==
    /\ now = 0
    /\ host = [e \in Endpoint |->
                 [lifecycle |-> "active", policy |-> "disabled", observed |-> None,
                  collected |-> None, success |-> None, failing |-> FALSE]]
    /\ device = [g \in Gpu |-> [status |-> "unknown", observed |-> None, collected |-> None]]
    /\ rows = [g \in Gpu |-> [p \in Proc |-> None]]
    /\ keeper = [g \in Gpu |-> [actual |-> "none", expected |-> None]]
    /\ lease = [l \in Lease |-> NewLease]

-----------------------------------------------------------------------------
(* Queries.  The arguments name the version of a table that is read: the   *)
(* steps of ingest_observation read what the earlier ones have written.    *)

GpusOf(e) == {g \in Gpu : HostOf[g] = e}

Recent(t) == t # None /\ now <= t + Stale

\* _current_processes: active rows whose last_seen_at has not aged out.
Current(rw, g) == {p \in Proc : Recent(rw[g][p])}

\* Defect: telemetry never ages.
FreshForEver(dev, g) == dev[g].status = "present"

\* _resources_have_fresh_telemetry, for one GPU.
Fresh(dev, g) == dev[g].status = "present" /\ Recent(dev[g].observed)

Owned(ls, g) == \E l \in Lease : g \in ls[l].gpus

OwnedAs(ls, kind, g) == \E l \in Lease : ls[l].kind = kind /\ g \in ls[l].gpus

\* _gpu_state is "AVAILABLE" and no lease of any kind owns the GPU, which is
\* what _eligible_gpus admits: a GPU under a keepalive lease is never free
\* capacity, whatever its worker does.  The reasons that are left out
\* (health, maintenance, reservations, labels, host capacity) only make
\* fewer GPUs eligible.
Eligible(g) ==
    /\ host[HostOf[g]].lifecycle = "active"
    /\ Fresh(device, g)
    /\ Current(rows, g) = {}
    /\ ~Owned(lease, g)

\* _validate_keepalive_observation, but for the processes it returns.
ObservedSince(e, gs, barrier) ==
    /\ host[e].collected # None /\ host[e].collected >= barrier
    /\ ~host[e].failing
    /\ host[e].success # None /\ host[e].success >= barrier
    /\ \A g \in gs :
          device[g].status = "present" =>
             /\ device[g].observed = host[e].observed
             /\ device[g].collected >= barrier

\* Processes the validation finds: it skips GPUs that are gone.
Seen(g) == IF device[g].status = "present" THEN Current(rows, g) ELSE {}

\* Defect: the LeaseResource rows of an ended lease stay active.
EndedKeepingGpus(r, final) == [r EXCEPT !.state = final, !.expires = None, !.idleSince = None]

\* A lease that ends gives up its GPUs.  The columns nothing reads in a
\* terminal lease are reset, to keep the model small.
Ended(r, final) == [NewLease EXCEPT !.kind = r.kind, !.state = final, !.alerts = r.alerts]

\* Defect: ending a lease leaves its critical alert open.
StillBlocked(r) == r

Unblocked(r) == [r EXCEPT !.alerts = @ \ BlockingAlerts]

-----------------------------------------------------------------------------
(* Reconciliation: _reconcile_leases and what it calls *)

\* Defect: stale telemetry does not reset the idle clock.
IdleTrackedBlindly(r, dev, rw) ==
    IF r.gpus = {} \/ r.expires # None
    THEN r
    ELSE IF \E g \in r.gpus : Current(rw, g) # {}
    THEN [r EXCEPT !.idleSince = None, !.alerts = @ \ {"idle_lease"}]
    ELSE IF r.idleSince = None
    THEN [r EXCEPT !.idleSince = now]
    ELSE IF now < r.idleSince + ReclaimAfter
    THEN r
    ELSE Ended(r, "EXPIRED_EMPTY")

\* _reconcile_idle_lease on a HELD or ACTIVE workload lease.
IdleTracked(r, dev, rw) ==
    IF r.gpus = {} \/ r.expires # None
    THEN r
    ELSE IF \E g \in r.gpus : Current(rw, g) # {} \/ ~Fresh(dev, g)
    THEN IF r.idleSince = None
         THEN r
         ELSE [r EXCEPT !.idleSince = None, !.alerts = @ \ {"idle_lease"}]
    ELSE IF r.idleSince = None
    THEN [r EXCEPT !.idleSince = now]
    ELSE IF now < r.idleSince + AlertAfter
    THEN r
    ELSE IF now < r.idleSince + ReclaimAfter
    THEN [r EXCEPT !.alerts = @ \cup {"idle_lease"}]
    ELSE [Ended(r, "EXPIRED_EMPTY") EXCEPT !.alerts = @ \ {"idle_lease"}]

\* Defect: a busy expired lease goes to the CONFLICT state of older versions.
ExpiredIntoConflict(r, rw) ==
    IF r.state \in {"HELD", "ACTIVE"} /\ r.expires # None /\ r.expires <= now
    THEN IF \E g \in r.gpus : Current(rw, g) # {}
         THEN [r EXCEPT !.state = "CONFLICT"]
         ELSE Ended(r, "EXPIRED_EMPTY")
    ELSE r

\* The expiry of a lease that declared a duration.
Expired(r, rw) ==
    IF r.state \in {"HELD", "ACTIVE"} /\ r.expires # None /\ r.expires <= now
    THEN IF \E g \in r.gpus : Current(rw, g) # {}
         THEN [r EXCEPT !.state = "ORPHANED_BUSY", !.alerts = @ \cup {"orphaned_busy"}]
         ELSE Ended(r, "EXPIRED_EMPTY")
    ELSE r

\* _resolve_stale_lease_alerts
Swept(r) == IF r.state \in TerminalLeaseStates \/ r.gpus = {} THEN Unblocked(r) ELSE r

\* Defect: keepalive leases are reconciled like workload leases.
ReconciledAlike(r, dev, rw) ==
    IF r.state \notin {"HELD", "ACTIVE"}
    THEN Swept(r)
    ELSE Swept(Expired(IdleTracked(r, dev, rw), rw))

ReconciledLease(r, dev, rw) ==
    IF r.state \notin ActiveLeaseStates
    THEN Swept(r)
    ELSE IF r.kind = "keepalive"
    THEN Swept([r EXCEPT !.expires = None])
    ELSE IF r.state = "ORPHANED_BUSY"
    THEN Swept(r)
    ELSE Swept(Expired(IdleTracked(r, dev, rw), rw))

Reconciled(ls, dev, rw) == [l \in Lease |-> ReconciledLease(ls[l], dev, rw)]

-----------------------------------------------------------------------------
(* Ingestion: ingest_observation, step by step *)

\* GPU inventory and telemetry: a complete observation also marks the GPUs
\* it does not list as absent.
DeviceAfter(e, at, complete, visible) ==
    [g \in Gpu |->
        IF g \in visible
        THEN [status |-> "present", observed |-> at, collected |-> now]
        ELSE IF g \in GpusOf(e) /\ complete /\ device[g].status = "present"
        THEN [device[g] EXCEPT !.status = "absent"]
        ELSE device[g]]

\* _release_absent_keepalive_leases: every keepalive lease of this endpoint
\* whose GPUs have all vanished ends; their KeepaliveCurrent rows go.
AbsentReleased(e, ls, dev) ==
    [l \in Lease |->
        IF /\ ls[l].kind = "keepalive" /\ ls[l].state \in ActiveLeaseStates
           /\ ls[l].gpus \cap GpusOf(e) # {}
           /\ \A g \in ls[l].gpus : dev[g].status # "present"
        THEN Unblocked(Ended(ls[l], "RELEASED"))
        ELSE ls[l]]

\* Defect: the KeepaliveCurrent row of a vanished GPU stays as it was.
AbsentRemembered(e, kp, dev) == kp

AbsentForgotten(e, kp, dev) ==
    [g \in Gpu |-> IF g \in GpusOf(e) /\ dev[g].status # "present"
                   THEN [actual |-> "none", expected |-> None]
                   ELSE kp[g]]

\* Defect: processes that are no longer listed stay active.
RowsAccumulated(e, complete, listed) ==
    [g \in Gpu |->
        IF g \in GpusOf(e) /\ complete
        THEN [p \in Proc |-> IF p \in listed[g] THEN now ELSE rows[g][p]]
        ELSE rows[g]]

\* Process rows: what a complete observation does not list becomes inactive.
RowsAfter(e, complete, listed) ==
    [g \in Gpu |->
        IF g \in GpusOf(e) /\ complete
        THEN [p \in Proc |-> IF p \in listed[g] THEN now ELSE None]
        ELSE rows[g]]

\* _record_observed_keepalive: worker liveness, for ACTIVE keepalive leases.
KeeperObserved(e, ls, rw, kp) ==
    [g \in Gpu |->
        IF /\ g \in GpusOf(e)
           /\ \E l \in Lease : ls[l].kind = "keepalive" /\ ls[l].state = "ACTIVE" /\ ls[l].gpus = {g}
        THEN [kp[g] EXCEPT !.actual =
                IF kp[g].expected # None /\ Current(rw, g) = {kp[g].expected} THEN "ON"
                ELSE IF Current(rw, g) # {} THEN "ERROR" ELSE "OFF"]
        ELSE kp[g]]

\* _bind_new_workload_processes: a workload seen on every GPU of its lease
\* activates the lease, once.
WorkloadBound(e, ls, rw) ==
    [l \in Lease |->
        IF /\ ls[l].kind = "workload" /\ ls[l].state \in {"HELD", "ACTIVE"} /\ ~ls[l].bound
           /\ ls[l].gpus \cap GpusOf(e) # {}
           /\ \A g \in ls[l].gpus : Current(rw, g) # {}
        THEN [ls[l] EXCEPT !.state = "ACTIVE", !.bound = TRUE]
        ELSE ls[l]]

\* _clear_keepalive_errors_for_assigned_workloads
ErrorsCleared(e, ls, dev, rw, kp) ==
    [g \in Gpu |->
        IF /\ kp[g].actual = "ERROR"
           /\ \E l \in Lease :
                 /\ ls[l].kind = "workload" /\ ls[l].state = "ACTIVE" /\ g \in ls[l].gpus
                 /\ g \in GpusOf(e)
                 /\ \A h \in ls[l].gpus \cap GpusOf(e) : Fresh(dev, h) /\ Current(rw, h) # {}
        THEN [kp[g] EXCEPT !.actual = "OFF"]
        ELSE kp[g]]

Tables(dev, rw, kp, ls) == device' = dev /\ rows' = rw /\ keeper' = kp /\ lease' = ls

\* An observation probed at time at.  An older one than the newest accepted
\* is dropped.  An incomplete one (the GPU probe failed) lists no GPU and no
\* process: the collector refuses to build any other.
Ingest(e, at, complete, visible, listed) ==
    /\ host[e].observed # None => at >= host[e].observed
    /\ ~complete => visible = {}
    /\ host' = [host EXCEPT ![e].observed = at, ![e].collected = now, ![e].failing = ~complete,
                            ![e].success = IF complete THEN now ELSE @]
    /\ LET dev == DeviceAfter(e, at, complete, visible)
           ls1 == IF complete THEN AbsentReleased(e, lease, dev) ELSE lease
           kp1 == IF complete THEN AbsentForgotten(e, keeper, dev) ELSE keeper
           rw  == RowsAfter(e, complete, listed)
           kp2 == IF complete THEN KeeperObserved(e, ls1, rw, kp1) ELSE kp1
           ls2 == WorkloadBound(e, ls1, rw)
           kp3 == IF complete THEN ErrorsCleared(e, ls2, dev, rw, kp2) ELSE kp2
       IN  Tables(dev, rw, kp3, Reconciled(ls2, dev, rw))
    /\ UNCHANGED now

Observe(e) ==
    \E at \in {t \in 0 .. now : now <= t + ProbeLag},
       complete \in BOOLEAN, visible \in SUBSET GpusOf(e) :
        \E listed \in [Gpu -> SUBSET Proc] :
            /\ \A g \in Gpu \ visible : listed[g] = {}
            /\ Ingest(e, at, complete, visible, listed)

\* record_provider_failure: the probe could not run at all.
ProviderFailure(e) ==
    /\ host' = [host EXCEPT ![e].failing = TRUE]
    /\ UNCHANGED <<now, device, rows, keeper, lease>>

\* reconcile, on request
Reconcile ==
    /\ lease' = Reconciled(lease, device, rows)
    /\ UNCHANGED <<now, host, device, rows, keeper>>

-----------------------------------------------------------------------------
(* Agents and operators *)

Issue(kind, state, gs, expires) ==
    [NewLease EXCEPT !.kind = kind, !.state = state, !.gpus = gs, !.issued = now,
                     !.expires = expires]

OnlyLease(ls) == lease' = ls /\ UNCHANGED <<now, host, device, rows, keeper>>

\* create_request: a claim is granted at once or rolled back.  A routine
\* claim is persistent, one that declares a duration expires.
Claim(l, gs, persistent) ==
    /\ lease[l].state = "unissued"
    /\ gs # {} /\ \A g \in gs : Eligible(g)
    /\ OnlyLease([lease EXCEPT ![l] =
                     Issue("workload", "HELD", gs, IF persistent THEN None ELSE now + Duration)])

\* activate_lease
Activate(l) ==
    /\ lease[l].kind = "workload" /\ lease[l].state \in {"HELD", "ACTIVE"}
    /\ OnlyLease([lease EXCEPT ![l].state = "ACTIVE"])

\* bind_workload
Bind(l) ==
    /\ lease[l].kind = "workload" /\ lease[l].state \in {"HELD", "ACTIVE"}
    /\ OnlyLease([lease EXCEPT ![l].bound = TRUE])

\* bind_observed_workload
BindObserved(l) ==
    /\ lease[l].kind = "workload" /\ lease[l].state \in {"HELD", "ACTIVE"}
    /\ \A g \in lease[l].gpus : Current(rows, g) # {}
    /\ OnlyLease([lease EXCEPT ![l].state = "ACTIVE", ![l].bound = TRUE])

\* renew_lease: a lease without an expiry counts as expiring now.
RenewedExpiry(r) ==
    LET expiry == IF r.expires = None THEN now ELSE r.expires
        length == IF expiry > r.issued + MinRenewal THEN expiry - r.issued ELSE MinRenewal
    IN  (IF expiry > now THEN expiry ELSE now) + length

Renew(l) ==
    /\ lease[l].kind = "workload" /\ lease[l].state \in {"HELD", "ACTIVE"}
    /\ RenewedExpiry(lease[l]) <= Horizon
    /\ OnlyLease([lease EXCEPT ![l].expires = RenewedExpiry(lease[l])])

\* release_lease
Release(l) ==
    /\ lease[l].kind = "workload" /\ lease[l].state \in ActiveLeaseStates
    /\ OnlyLease([lease EXCEPT ![l] = Unblocked(Ended(@, "RELEASED"))])

\* Defect: the new GPUs are not checked for other leases.
ReassignOver(l, gs) ==
    /\ lease[l].kind = "workload" /\ lease[l].state \in ActiveLeaseStates
    /\ Cardinality(gs) = Cardinality(lease[l].gpus)
    /\ \A g \in gs : device[g].status # "unknown"
    /\ OnlyLease([lease EXCEPT ![l].gpus = gs, ![l].bound = FALSE])

\* reassign_lease_gpus: any known GPUs, free of other leases, as many as
\* the lease had.  The bindings of the old placement are deleted.
Reassign(l, gs) ==
    /\ lease[l].kind = "workload" /\ lease[l].state \in ActiveLeaseStates
    /\ Cardinality(gs) = Cardinality(lease[l].gpus)
    /\ \A g \in gs : device[g].status # "unknown"
    /\ \A other \in Lease \ {l} : lease[other].gpus \cap gs = {}
    /\ OnlyLease([lease EXCEPT ![l].gpus = gs, ![l].bound = FALSE])

\* release_empty_conflicted_lease: an operator clears a lease of one
\* server on fresh evidence that all its GPUs are empty.
ReleaseEmpty(e, l, barrier) ==
    /\ lease[l].state \in ActiveLeaseStates /\ lease[l].gpus # {}
    /\ lease[l].gpus \subseteq GpusOf(e)
    /\ host[e].collected # None /\ host[e].collected >= barrier /\ Recent(host[e].collected)
    /\ ~host[e].failing
    /\ host[e].success # None /\ host[e].success >= barrier
    /\ \A g \in lease[l].gpus : device[g].status = "present" =>
          /\ device[g].collected >= barrier
          /\ Recent(device[g].observed)
          /\ Current(rows, g) = {}
    /\ OnlyLease([lease EXCEPT ![l] = Unblocked(Ended(@, "RELEASED"))])

\* pause_endpoint and resume_endpoint
SetLifecycle(e, state) ==
    /\ host[e].lifecycle # state
    /\ host' = [host EXCEPT ![e].lifecycle = state]
    /\ UNCHANGED <<now, device, rows, keeper, lease>>

-----------------------------------------------------------------------------
(* The keepalive controller *)

\* configure_keepalive_policy: leases are left to the stop transitions.
ConfigurePolicy(e, policy) ==
    /\ host[e].policy # policy
    /\ host' = [host EXCEPT ![e].policy = policy]
    /\ keeper' = [g \in Gpu |->
                    IF /\ policy = "disabled" /\ g \in GpusOf(e) /\ device[g].status # "unknown"
                       /\ ~OwnedAs(lease, "keepalive", g)
                    THEN [keeper[g] EXCEPT !.actual = "OFF"]
                    ELSE keeper[g]]
    /\ UNCHANGED <<now, device, rows, lease>>

Barriers == {b \in 0 .. now : now <= b + CallLag}

\* Defect: an activation looks for keepalive leases only.
ActivateOver(e, gs, ids, barrier) ==
    /\ host[e].policy = "idle_keepalive" /\ host[e].lifecycle = "active"
    /\ gs # {} /\ gs \subseteq GpusOf(e)
    /\ ObservedSince(e, gs, barrier)
    /\ \A g \in gs : \E p \in Proc : Seen(g) = {p}
    /\ \A g \in gs : lease[ids[g]].state = "unissued" /\ ~OwnedAs(lease, "keepalive", g)
    /\ \A g, h \in gs : ids[g] = ids[h] => g = h
    /\ lease' = [l \in Lease |->
                   IF \E g \in gs : ids[g] = l
                   THEN Issue("keepalive", "ACTIVE", {CHOOSE g \in gs : ids[g] = l}, None)
                   ELSE lease[l]]
    /\ UNCHANGED <<now, host, device, rows, keeper>>

\* activate_keepalives (and confirm_keepalive_workers, activate_keepalive):
\* after a fresh observation, one worker and nothing else on each GPU.
\* ids gives a new lease row to each GPU that has none.
ActivateKeepalives(e, gs, ids, barrier) ==
    /\ host[e].policy = "idle_keepalive" /\ host[e].lifecycle = "active"
    /\ gs # {} /\ gs \subseteq GpusOf(e)
    /\ \A g \in gs : device[g].status # "unknown" /\ ~OwnedAs(lease, "workload", g)
    /\ ObservedSince(e, gs, barrier)
    /\ \A g \in gs : \E p \in Proc : Seen(g) = {p}
    /\ \A g \in gs : IF Owned(lease, g) THEN lease[ids[g]].gpus = {g}
                                       ELSE lease[ids[g]].state = "unissued"
    /\ \A g, h \in gs : ids[g] = ids[h] => g = h
    /\ lease' = [l \in Lease |->
                   IF \E g \in gs : ids[g] = l
                   THEN LET g == CHOOSE g \in gs : ids[g] = l
                        IN  IF Owned(lease, g)
                            THEN [lease[l] EXCEPT !.state = "ACTIVE", !.expires = None]
                            ELSE Issue("keepalive", "ACTIVE", {g}, None)
                   ELSE lease[l]]
    /\ keeper' = [g \in Gpu |-> IF g \in gs
                                THEN [actual |-> "ON", expected |-> CHOOSE p \in Proc : Seen(g) = {p}]
                                ELSE keeper[g]]
    /\ UNCHANGED <<now, host, device, rows>>

\* Defect: a stop is finalized without looking for processes.
FinalizeStopBlindly(e, l, barrier) ==
    /\ lease[l].kind = "keepalive" /\ lease[l].state \in ActiveLeaseStates
    /\ \E g \in GpusOf(e) :
          /\ lease[l].gpus = {g}
          /\ ObservedSince(e, {g}, barrier)
          /\ keeper' = [keeper EXCEPT ![g] = [actual |-> "OFF", expected |-> None]]
    /\ lease' = [lease EXCEPT ![l] = Unblocked(Ended(@, "RELEASED"))]
    /\ UNCHANGED <<now, host, device, rows>>

\* finalize_keepalive_stop
FinalizeStop(e, l, barrier) ==
    /\ lease[l].kind = "keepalive" /\ lease[l].state \in ActiveLeaseStates
    /\ \E g \in GpusOf(e) :
          /\ lease[l].gpus = {g}
          /\ ObservedSince(e, {g}, barrier)
          /\ Seen(g) = {}
          /\ keeper' = [keeper EXCEPT ![g] = [actual |-> "OFF", expected |-> None]]
    /\ lease' = [lease EXCEPT ![l] = Unblocked(Ended(@, "RELEASED"))]
    /\ UNCHANGED <<now, host, device, rows>>

\* set_keepalive_error, after a failed remote operation
KeepaliveError(e, gs) ==
    /\ gs # {} /\ gs \subseteq GpusOf(e) /\ \A g \in gs : device[g].status # "unknown"
    /\ keeper' = [g \in Gpu |-> IF g \in gs THEN [keeper[g] EXCEPT !.actual = "ERROR"] ELSE keeper[g]]
    /\ UNCHANGED <<now, host, device, rows, lease>>

-----------------------------------------------------------------------------

Tick ==
    /\ now < MaxTime
    /\ now' = now + 1
    /\ UNCHANGED <<host, device, rows, keeper, lease>>

AgentStep ==
    \E l \in Lease :
        \/ \E gs \in SUBSET Gpu, persistent \in BOOLEAN : Claim(l, gs, persistent)
        \/ Activate(l)
        \/ Bind(l)
        \/ BindObserved(l)
        \/ Renew(l)
        \/ Release(l)

OperatorStep ==
    \/ \E l \in Lease, gs \in SUBSET Gpu : Reassign(l, gs)
    \/ \E e \in Endpoint, l \in Lease, barrier \in 0 .. now : ReleaseEmpty(e, l, barrier)
    \/ \E e \in Endpoint, state \in Lifecycles : SetLifecycle(e, state)
    \/ \E e \in Endpoint, policy \in Policies : ConfigurePolicy(e, policy)
    \/ Reconcile

ControllerStep ==
    \/ \E e \in Endpoint, barrier \in Barriers :
          \/ \E gs \in SUBSET Gpu : \E ids \in [gs -> Lease] : ActivateKeepalives(e, gs, ids, barrier)
          \/ \E l \in Lease : FinalizeStop(e, l, barrier)
    \/ \E e \in Endpoint, gs \in SUBSET Faulty : KeepaliveError(e, gs)

CollectorStep == \E e \in Endpoint : Observe(e) \/ ProviderFailure(e)

Next == Tick \/ AgentStep \/ OperatorStep \/ ControllerStep \/ CollectorStep

Spec == Init /\ [][Next]_vars

-----------------------------------------------------------------------------
(* Correctness *)

\* Every table keeps its columns within their types.
TypeOK ==
    /\ now \in Time
    /\ host \in [Endpoint -> HostRecord]
    /\ device \in [Gpu -> DeviceRecord]
    /\ rows \in [Gpu -> [Proc -> MaybeTime]]
    /\ keeper \in [Gpu -> KeeperRecord]
    /\ lease \in [Lease -> LeaseRecord]

\* No GPU is assigned twice, whatever the order of claims, moves and keepalive
\* activations.  (models.py states it as the unique index
\* uq_active_lease_resource_gpu; the operations must never run into it.)
ExclusiveAssignment ==
    \A l, m \in Lease : l # m => lease[l].gpus \cap lease[m].gpus = {}

\* A lease owns GPUs exactly while it is in a non-terminal state: an ended
\* lease that kept a GPU would block it for ever, an open one without GPUs
\* could never be reconciled.
OwnsWhileOpen ==
    \A l \in Lease : lease[l].gpus # {} <=> lease[l].state \in ActiveLeaseStates

\* Keepalive ownership is durable and per GPU: no timer, no idle clock and no
\* orphaning ever applies to it, and renewals and moves never reach it.
KeepaliveIsDurable ==
    \A l \in Lease :
        lease[l].kind = "keepalive" /\ lease[l].state \in ActiveLeaseStates =>
            /\ lease[l].state = "ACTIVE" /\ \E g \in Gpu : lease[l].gpus = {g}
            /\ lease[l].expires = None /\ lease[l].idleSince = None

\* The critical "orphaned_busy" alert is raised for exactly the leases that
\* are orphaned: none is lost, and none outlives the lease.
OrphanAlertIsExact ==
    \A l \in Lease : "orphaned_busy" \in lease[l].alerts <=> lease[l].state = "ORPHANED_BUSY"

\* The processes of the newest complete observation of a GPU.
LastListed(g) == {p \in Proc : rows[g][p] # None}

\* The freshness rules hang together although they read different columns:
\* a present GPU was listed by its host's last complete observation, and the
\* process rows are those of that same observation, so that a GPU cannot look
\* fresh while its processes have aged out of _current_processes.
EvidenceIsCoherent ==
    \A g \in Gpu :
        LET h == host[HostOf[g]] IN
        /\ device[g].status = "present" =>
              /\ device[g].collected = h.success
              /\ h.success \in 0 .. now
              /\ device[g].observed \in 0 .. h.success
        /\ \A p \in LastListed(g) : device[g].status = "present" /\ rows[g][p] = h.success

\* "ON" is never claimed for a GPU the controller does not own, nor while the
\* newest observation shows anything but the one expected worker.
KeeperOnIsVerified ==
    \A g \in Gpu : keeper[g].actual = "ON" =>
        /\ \E l \in Lease : lease[l].kind = "keepalive" /\ lease[l].gpus = {g}
        /\ LastListed(g) = {keeper[g].expected}

\* A GPU is granted to a workload only if the newest complete observation of
\* it, aged or not, listed no process at all.
GrantOnlyObservedEmpty ==
    [][\A l \in Lease :
          lease[l].state = "unissued" /\ lease'[l].kind = "workload" =>
              \A g \in lease'[l].gpus : LastListed(g) = {}]_vars

\* A keepalive lease ends only when the newest complete observation shows its
\* GPU without any process, so that the GPU is never offered over a worker.
KeepaliveEndsEmpty ==
    [][\A l \in Lease :
          /\ lease[l].kind = "keepalive" /\ lease[l].state \in ActiveLeaseStates
          /\ lease'[l].state \in TerminalLeaseStates
          => \A g \in lease[l].gpus : LastListed(g)' = {}]_vars

\* A lease without an expiry is ended by the broker itself only on a fresh,
\* present and process-free view of all its GPUs, after an idle window.
IdleReclaim(l) ==
    /\ lease[l].kind = "workload" /\ lease[l].expires = None
    /\ lease[l].state \in ActiveLeaseStates /\ lease'[l].state = "EXPIRED_EMPTY"

ReclaimSawEmpty ==
    [][\A l \in Lease : IdleReclaim(l) =>
          /\ lease[l].idleSince # None /\ now >= lease[l].idleSince + ReclaimAfter
          /\ \A g \in lease[l].gpus : Fresh(device, g)' /\ LastListed(g)' = {}]_vars

\* Where a lease is in its life.
StageOf(r) ==
    IF r.state = "unissued" THEN "new"
    ELSE IF r.state \in ActiveLeaseStates THEN "open" ELSE "over"

Assigned == INSTANCE Assignment WITH
    owners <- [g \in Gpu |-> {l \in Lease : g \in lease[l].gpus}],
    stage  <- [l \in Lease |-> StageOf(lease[l])]

\* Whatever agents, operators, the controller and observations do, in any order,
\* the table of leases keeps the assignment of GPUs as Assignment promises it
\* (_allocate_queued, reassign_lease_gpus, activate_keepalives, _reconcile_leases).
AssignmentImplemented == Assigned!Spec
=============================================================================
