------------------------ MODULE KeepaliveController ------------------------
(***************************************************************************)
(* The keepalive procedures of the API process (src/serverpilot/api.py),   *)
(* composed with the broker's tables (LeaseBroker) and with what really    *)
(* runs on the servers.                                                    *)
(*                                                                         *)
(* A procedure is an asyncio task: it reads a plan, sends commands to the  *)
(* helper of a server over SSH (adapters.py), has the server observed, and *)
(* writes the outcome.  Between any two awaits other tasks, the collector  *)
(* loop, agents and operators go on.  Reconciliations and claims exclude   *)
(* each other per server by locks; plain requests, releases and the        *)
(* operator's clean-ups take none.  A command whose session is lost or     *)
(* times out may have run, may run later, or never.                        *)
(*                                                                         *)
(* The helper is atomic here; module KeepaliveHelper looks inside.  Time   *)
(* stands still: what matters is the order of events, so an observation    *)
(* knows which others were probed before it, and barriers, which every     *)
(* procedure sets before its own observation, hold.                        *)
(***************************************************************************)
EXTENDS LeaseBroker

CONSTANTS
    Reconciler,     \* bound: reconciliations at a time
    Claimer,        \* bound: claims through the locks at a time
    Worker,         \* the identities of keepalive workers among Proc
    Rank,           \* the order of endpoint ids
    MaxFaults       \* bound: failed commands, failed probes and crashes

Task == Reconciler \cup Claimer

\* Who has servers observed: the tasks, and the collector loop of each server.
Observer == Task \cup Endpoint

ASSUME ControllerAssumption ==
    /\ Worker \subseteq Proc /\ MaxFaults \in Nat
    /\ Rank \in [Endpoint -> Nat] /\ \A e, f \in Endpoint : Rank[e] = Rank[f] => e = f
    /\ Reconciler \cap Claimer = {} /\ Task \cap Endpoint = {} /\ None \notin Observer \cup Lease

VARIABLES
    real,           \* per GPU: the processes that run on it
    helper,         \* per GPU: the worker in the helper's state file
    remote,         \* commands still to run although nobody waits for them
    probe,          \* per observer: the observation on its way to the broker
    spawning,       \* servers the collector loop is about to reconcile
    task,
    holder,         \* per server: the task that holds its lock
    faults,
    doubt,          \* GPUs on which a fault may have left a worker behind
    slips           \* history: GPUs whose worker ended inside an attestation

servers == <<real, helper, remote>>

cvars == <<servers, probe, spawning, task, holder, faults, doubt, slips>>

allvars == <<vars, cvars>>

\* An observation that a newer one has overtaken is dropped.
Probe == [listed : [Gpu -> SUBSET Proc], earlier : SUBSET Observer, overtaken : BOOLEAN]

ASSUME ProbeAssumption == None \notin Probe

\* A task that has a plan works on targets; recovers and stops are to follow.
TaskRecord == [pc       : {"idle", "waiting", "plan", "enable", "attest", "prepare",
                           "disable", "probe", "ingest", "settle", "claim"},
               host     : Endpoint \cup {None},
               work     : {"none", "start", "recover", "stop", "cleanup"},
               targets  : SUBSET Gpu,
               recovers : SUBSET Gpu,
               stops    : SUBSET Gpu,
               planned  : [Gpu -> Lease \cup {None}],   \* the leases of stops
               proof    : [Gpu -> Proc \cup {None}],    \* attested processes
               looking  : Gpu \cup {None},              \* between the questions of attest_workers
               failed   : BOOLEAN,                      \* the last stop command failed
               wants    : SUBSET Gpu]                   \* the placement a claim asks for

Idle == [pc |-> "idle", host |-> None, work |-> "none", targets |-> {}, recovers |-> {},
         stops |-> {}, planned |-> [g \in Gpu |-> None], proof |-> [g \in Gpu |-> None],
         looking |-> None, failed |-> FALSE, wants |-> {}]

ControllerInit ==
    /\ Init
    /\ real = [g \in Gpu |-> {}] /\ helper = [g \in Gpu |-> None]
    /\ remote = {} /\ doubt = {} /\ slips = {} /\ faults = 0 /\ spawning = {}
    /\ probe = [x \in Observer |-> None]
    /\ task = [t \in Task |-> Idle]
    /\ holder = [e \in Endpoint |-> None]

-----------------------------------------------------------------------------
(* Servers *)

\* An identity nobody remembers stands for a new process.
InUse(p) ==
    \/ \E g \in Gpu : \/ p \in real[g] \/ p = keeper[g].expected
                      \/ rows[g][p] # None
                      \/ \E t \in Task : p = task[t].proof[g]
    \/ \E x \in Observer, g \in Gpu : probe[x] # None /\ p \in probe[x].listed[g]

\* The GPUs of gs on which the helper has to start a worker.
Missing(gs) == {g \in gs : helper[g] \notin real[g]}

\* A GPU has memory for one worker only.
Startable(gs) == \A g \in Missing(gs) : real[g] \cap Worker = {}

\* The helper starts the workers that are missing.  Those in noted get into
\* its file; if it is killed too early a worker stays unrecorded.
Started(gs, noted) ==
    /\ Startable(gs)
    /\ \E new \in [Missing(gs) -> {p \in Worker : ~InUse(p)}] :
          /\ \A g, h \in Missing(gs) : new[g] = new[h] => g = h
          /\ \A g \in Missing(gs), h \in Gpu \ Missing(gs) : new[g] # helper[h]
          /\ real' = [g \in Gpu |-> IF g \in Missing(gs) THEN real[g] \cup {new[g]} ELSE real[g]]
          /\ helper' = [g \in Gpu |-> IF g \in Missing(gs) \cap noted THEN new[g] ELSE helper[g]]

\* The helper stops its workers on gs, and nothing else.
Stopped(gs) ==
    /\ real' = [g \in Gpu |-> IF g \in gs THEN real[g] \ {helper[g]} ELSE real[g]]
    /\ helper' = [g \in Gpu |-> IF g \in gs THEN None ELSE helper[g]]

Fault == faults < MaxFaults /\ faults' = faults + 1

\* attest_workers holds the lock of the helper between its questions.
HelperBusy(gs) ==
    \E t \in Task, g \in gs : /\ task[t].host = HostOf[g] /\ task[t].pc = "attest"
                             /\ (task[t].looking # None \/ \E h \in Gpu : task[t].proof[h] # None)

\* A lost command runs after all, wholly or until it is killed, or never.
Late ==
    /\ \E c \in remote :
          /\ ~HelperBusy(c.gpus)
          /\ remote' = remote \ {c}
          /\ \/ /\ c.enabled
                /\ \E gs \in SUBSET c.gpus : Started(c.gpus, gs)
                /\ doubt' = doubt \cup Missing(c.gpus)
             \/ ~c.enabled /\ Stopped(c.gpus) /\ UNCHANGED doubt
             \/ UNCHANGED <<real, helper, doubt>>
    /\ UNCHANGED <<vars, probe, spawning, task, holder, faults, slips>>

\* A program of some user starts on a GPU; any process ends by itself.
JobStarts(g, p) ==
    /\ p \in Proc \ Worker /\ ~InUse(p)
    /\ real' = [real EXCEPT ![g] = @ \cup {p}]
    /\ UNCHANGED <<vars, helper, remote, probe, spawning, task, holder, faults, doubt, slips>>

ProcessEnds(g, p) ==
    /\ p \in real[g]
    /\ real' = [real EXCEPT ![g] = @ \ {p}]
    /\ slips' = IF p = helper[g] /\ \E t \in Task : task[t].looking = g THEN slips \cup {g} ELSE slips
    /\ UNCHANGED <<vars, helper, remote, probe, spawning, task, holder, faults, doubt>>

-----------------------------------------------------------------------------
(* Observations on their way.  The facts are those of the moment when the     *)
(* observation takes its time (observed_at); reading them takes longer.       *)

\* The server an observer is at.
ServerOf(x) == IF x \in Endpoint THEN x ELSE task[x].host

\* Only observations of one server overtake each other.
Probing(x, e) ==
    probe' = [probe EXCEPT ![x] = [listed |-> [g \in Gpu |-> IF HostOf[g] = e THEN real[g] ELSE {}],
                                   earlier |-> {y \in Observer : probe[y] # None /\ ServerOf(y) = e},
                                   overtaken |-> FALSE]]

\* An answer is in, or will never be; it overtakes those in older.
Arrived(x, older) ==
    probe' = [y \in Observer |->
                 IF y = x \/ probe[y] = None THEN None
                 ELSE [probe[y] EXCEPT !.earlier = @ \ {x}, !.overtaken = @ \/ y \in older]]

\* Ingestion of an observer's answer; one that was overtaken changes nothing.
Ingested(x, e) ==
    /\ Arrived(x, probe[x].earlier)
    /\ IF probe[x].overtaken
       THEN UNCHANGED vars
       ELSE Ingest(e, now, TRUE, GpusOf(e), probe[x].listed)

\* The collector loop, for each server: observe, then reconcile unless some
\* task is already at work there.
LoopProbe(e) ==
    /\ probe[e] = None /\ e \notin spawning
    /\ Probing(e, e)
    /\ UNCHANGED <<vars, servers, spawning, task, holder, faults, doubt, slips>>

LoopIngest(e) ==
    /\ probe[e] # None
    /\ spawning' = spawning \cup {e}
    /\ UNCHANGED <<servers, task, holder, faults, doubt, slips>>
    /\ Ingested(e, e)

LoopFails(e) ==
    /\ probe[e] # None
    /\ Fault
    /\ Arrived(e, {})
    /\ ProviderFailure(e)
    /\ UNCHANGED <<servers, spawning, task, holder, doubt, slips>>

LoopSkips(e) ==
    /\ e \in spawning /\ holder[e] # None
    /\ spawning' = spawning \ {e}
    /\ UNCHANGED <<vars, servers, probe, task, holder, faults, doubt, slips>>

-----------------------------------------------------------------------------
(* Tasks *)

At(t, pc) == task[t].pc = pc

Become(t, r) == task' = [task EXCEPT ![t] = r]

\* A task ends and lets go of its locks.
Ends(t) ==
    /\ Become(t, Idle)
    /\ holder' = [e \in Endpoint |-> IF holder[e] = t THEN None ELSE holder[e]]

\* Starts come first, then recoveries, then stops, one GPU after another; a
\* claim prepares and stops one server after another.  A task with nothing left
\* to do ends, or makes its claim.
Continue(t, r) ==
    IF r.recovers # {}
    THEN /\ Become(t, [r EXCEPT !.pc = "attest", !.work = "recover", !.targets = r.recovers,
                                !.recovers = {}])
         /\ UNCHANGED holder
    ELSE IF r.stops # {}
    THEN /\ LET here == {g \in r.stops : HostOf[g] = r.host} IN
            \/ \E g \in here :
                  Become(t, [r EXCEPT !.pc = "disable", !.work = "stop", !.targets = {g},
                                      !.stops = @ \ {g}, !.failed = FALSE])
            \/ \E g \in r.stops :
                  here = {} /\ Become(t, [r EXCEPT !.pc = "prepare", !.host = HostOf[g]])
         /\ UNCHANGED holder
    ELSE IF t \in Claimer
    THEN Become(t, [r EXCEPT !.pc = "claim", !.work = "none", !.targets = {}]) /\ UNCHANGED holder
    ELSE Ends(t)

\* Defect: a failed start is not cleaned up.
FailsUncleaned(t, r) ==
    IF r.work = "stop" /\ t \in Reconciler
    THEN Continue(t, r)
    ELSE Ends(t)

\* A failed start is cleaned up.  Any other failure ends the task, but a
\* reconciliation goes on with the next GPU to stop.
Fails(t, r) ==
    IF r.work = "start"
    THEN Become(t, [r EXCEPT !.pc = "disable", !.work = "cleanup"]) /\ UNCHANGED holder
    ELSE IF r.work = "stop" /\ t \in Reconciler
    THEN Continue(t, r)
    ELSE Ends(t)

KeeperRow(l, g) == lease[l].kind = "keepalive" /\ lease[l].gpus = {g}

\* list_keepalive_transitions
ToStart(e) ==
    {g \in GpusOf(e) :
        /\ host[e].policy = "idle_keepalive"
        /\ \/ Eligible(g)
           \/ OwnedAs(lease, "keepalive", g) /\ Current(rows, g) = {}}

ToRecover(e) ==
    {g \in GpusOf(e) :
        /\ host[e].policy = "idle_keepalive" /\ OwnedAs(lease, "keepalive", g)
        /\ \E p \in Proc : Current(rows, g) = {p} /\ (keeper[g].actual = "ERROR" \/ keeper[g].expected # p)}

\* Defect: a keeper whose worker is not running is not stopped.
ToStopRunning(e) ==
    {g \in GpusOf(e) : host[e].policy = "disabled" /\ keeper[g].actual = "ON"
                       /\ OwnedAs(lease, "keepalive", g)}

ToStop(e) == {g \in GpusOf(e) : host[e].policy = "disabled" /\ OwnedAs(lease, "keepalive", g)}

PlannedLease(gs) ==
    [g \in Gpu |-> IF g \in gs THEN CHOOSE l \in Lease : KeeperRow(l, g) ELSE None]

\* reconcile_endpoint_keepalive, under the lock: the plan and the first step.
Reconciles(t, e) ==
    LET r == [Idle EXCEPT !.host = e, !.recovers = ToRecover(e), !.stops = ToStop(e),
                          !.planned = PlannedLease(ToStop(e))]
    IN  /\ holder[e] = None
        /\ IF ToStart(e) # {}
           THEN /\ Become(t, [r EXCEPT !.pc = "enable", !.work = "start", !.targets = ToStart(e)])
                /\ holder' = [holder EXCEPT ![e] = t]
           ELSE IF ToRecover(e) # {}
           THEN /\ Become(t, [r EXCEPT !.pc = "attest", !.work = "recover", !.targets = ToRecover(e),
                                       !.recovers = {}])
                /\ holder' = [holder EXCEPT ![e] = t]
           ELSE IF ToStop(e) # {}
           THEN /\ Become(t, [r EXCEPT !.pc = "prepare"])
                /\ holder' = [holder EXCEPT ![e] = t]
           ELSE Become(t, Idle) /\ UNCHANGED holder
    /\ UNCHANGED <<vars, servers, probe, faults, doubt, slips>>

LoopSpawns(e, t) ==
    /\ e \in spawning /\ At(t, "idle")
    /\ spawning' = spawning \ {e}
    /\ Reconciles(t, e)

\* set_endpoint_keepalive sets the policy before it waits for the lock.
Toggle(t, e, policy) ==
    /\ At(t, "idle")
    /\ ConfigurePolicy(e, policy)
    /\ Become(t, [Idle EXCEPT !.pc = "waiting", !.host = e])
    /\ UNCHANGED <<servers, probe, spawning, holder, faults, doubt, slips>>

ToggleReconciles(t) ==
    /\ t \in Reconciler /\ At(t, "waiting")
    /\ Reconciles(t, task[t].host)
    /\ UNCHANGED spawning

\* Commands of set_enabled: done, failed after a part of the work, or lost.
Answered(t, r) == Become(t, r) /\ UNCHANGED <<remote, faults, doubt, slips, holder>>

EnableDone(t) ==
    /\ At(t, "enable")
    /\ Started(task[t].targets, Gpu)
    /\ Answered(t, [task[t] EXCEPT !.pc = "attest"])
    /\ UNCHANGED <<vars, probe, spawning>>

\* The helper reports failure; those workers that did start are recorded.
EnableFails(t) ==
    /\ At(t, "enable")
    /\ IF Startable(task[t].targets) THEN Fault ELSE UNCHANGED faults
    /\ \E gs \in SUBSET task[t].targets : Started(gs, Gpu)
    /\ Fails(t, task[t])
    /\ UNCHANGED <<vars, remote, probe, spawning, doubt, slips>>

\* Nothing was sent (the probe of the helper fails): nothing to clean up.
EnableRefused(t) ==
    /\ At(t, "enable")
    /\ Fault
    /\ Become(t, [task[t] EXCEPT !.pc = "probe", !.work = "cleanup"])
    /\ UNCHANGED <<vars, servers, probe, spawning, holder, doubt, slips>>

Lost(t, enabled) ==
    /\ Fault
    /\ remote' = remote \cup {[enabled |-> enabled, gpus |-> task[t].targets]}
    /\ UNCHANGED <<real, helper>>

EnableLost(t) ==
    /\ At(t, "enable")
    /\ Lost(t, TRUE)
    /\ Fails(t, task[t])
    /\ UNCHANGED <<vars, probe, spawning, doubt, slips>>

DisableDone(t) ==
    /\ At(t, "disable")
    /\ Stopped(task[t].targets)
    /\ Answered(t, [task[t] EXCEPT !.pc = "probe", !.failed = FALSE])
    /\ UNCHANGED <<vars, probe, spawning>>

\* Whatever a stop command said, the server is observed next.
DisableFails(t) ==
    /\ At(t, "disable")
    /\ \/ /\ Fault
          /\ \E gs \in SUBSET task[t].targets : Stopped(gs)
          /\ UNCHANGED remote
       \/ Lost(t, FALSE)
    /\ Become(t, [task[t] EXCEPT !.pc = "probe", !.failed = TRUE])
    /\ doubt' = IF task[t].work = "cleanup" THEN doubt \cup task[t].targets ELSE doubt
    /\ UNCHANGED <<vars, probe, spawning, holder, slips>>

\* The targets whose driver PID attest_workers has still to ask for.
Unresolved(t) == {g \in task[t].targets : task[t].proof[g] = None}

\* An attestation of gs begins or fails: earlier slips that led to no adoption
\* are forgotten.
Remembered(gs) == slips \ {g \in gs : keeper[g].expected \in Worker \cup {None}}

\* Defect: the driver is asked although the recorded worker does not run.
LookUnchecked(t) ==
    /\ At(t, "attest") /\ task[t].looking = None
    /\ \E g \in Unresolved(t) : Become(t, [task[t] EXCEPT !.looking = g]) /\ UNCHANGED slips
    /\ UNCHANGED <<vars, servers, probe, spawning, holder, faults, doubt>>

\* attest_workers, for one target after the other: the recorded worker must run,
LookAtWorker(t) ==
    /\ At(t, "attest") /\ task[t].looking = None
    /\ \E g \in Unresolved(t) :
          /\ helper[g] \in real[g]
          /\ Become(t, [task[t] EXCEPT !.looking = g])
          /\ slips' = Remembered({g})
    /\ UNCHANGED <<vars, servers, probe, spawning, holder, faults, doubt>>

\* and then the driver is asked for the one process on the GPU, whatever it is.
ResolveDriver(t) ==
    LET g == task[t].looking IN
    /\ At(t, "attest") /\ g # None
    /\ \E p \in Proc :
          /\ real[g] = {p}
          /\ Become(t, [task[t] EXCEPT !.pc = IF Unresolved(t) = {g} THEN "probe" ELSE "attest",
                                       !.proof[g] = p, !.looking = None])
    /\ UNCHANGED <<vars, servers, probe, spawning, holder, faults, doubt, slips>>

\* One of the questions cannot be answered.
Unattestable(t) ==
    IF task[t].looking = None
    THEN \E g \in Unresolved(t) : helper[g] \notin real[g]
    ELSE \A p \in Proc : real[task[t].looking] # {p}

AttestFails(t) ==
    /\ At(t, "attest")
    /\ IF Unattestable(t) THEN UNCHANGED faults ELSE Fault
    /\ Fails(t, [task[t] EXCEPT !.proof = Idle.proof, !.looking = None])
    /\ slips' = Remembered(task[t].targets)
    /\ UNCHANGED <<vars, servers, probe, spawning, doubt>>

\* collect_keepalive_endpoint
TaskProbe(t) ==
    /\ At(t, "probe")
    /\ Probing(t, task[t].host)
    /\ Become(t, [task[t] EXCEPT !.pc = "ingest"])
    /\ UNCHANGED <<vars, servers, spawning, holder, faults, doubt, slips>>

TaskIngest(t) ==
    /\ At(t, "ingest")
    /\ Become(t, [task[t] EXCEPT !.pc = "settle"])
    /\ UNCHANGED <<servers, spawning, holder, faults, doubt, slips>>
    /\ Ingested(t, task[t].host)

\* A cleanup is reported even if it could not be observed.
ProbeFails(t) ==
    /\ At(t, "ingest")
    /\ Fault
    /\ Arrived(t, {})
    /\ ProviderFailure(task[t].host)
    /\ IF task[t].work = "cleanup"
       THEN Become(t, [task[t] EXCEPT !.pc = "settle"]) /\ UNCHANGED holder
       ELSE Fails(t, task[t])
    /\ UNCHANGED <<servers, spawning, doubt, slips>>

\* Defect: the process found is confirmed without comparing it to the proof.
ProvenByPresence(t) == \A g \in task[t].targets : Cardinality(Seen(g)) = 1

\* The observation shows the attested worker, alone, on every target.
Proven(t) == \A g \in task[t].targets : Seen(g) = {task[t].proof[g]}

Confirmable(t) ==
    /\ Proven(t)
    /\ host[task[t].host].policy = "idle_keepalive" /\ ~host[task[t].host].failing
    /\ \A g \in task[t].targets : ~OwnedAs(lease, "workload", g)

\* confirm_keepalive_workers
Confirm(t) ==
    /\ At(t, "settle") /\ task[t].work \in {"start", "recover"}
    /\ Confirmable(t)
    /\ \E ids \in [task[t].targets -> Lease] :
          ActivateKeepalives(task[t].host, task[t].targets, ids, now)
    /\ Continue(t, [task[t] EXCEPT !.proof = Idle.proof])
    /\ UNCHANGED <<servers, probe, spawning, faults, doubt, slips>>

ConfirmFails(t) ==
    /\ At(t, "settle") /\ task[t].work \in {"start", "recover"}
    /\ ~Confirmable(t)
    /\ Fails(t, [task[t] EXCEPT !.proof = Idle.proof])
    /\ UNCHANGED <<vars, servers, probe, spawning, faults, doubt, slips>>

\* set_keepalive_error ends a failed start.
Report(t) ==
    /\ At(t, "settle") /\ task[t].work = "cleanup"
    /\ KeepaliveError(task[t].host, task[t].targets)
    /\ Ends(t)
    /\ UNCHANGED <<servers, probe, spawning, faults, doubt, slips>>

\* prepare_keepalive_stop of every GPU to stop on a server: a reconciliation
\* skips a lease that is no longer what was planned, a claim gives up.
Prepare(t) ==
    /\ At(t, "prepare")
    /\ LET lapsed == {g \in task[t].stops : /\ HostOf[g] = task[t].host
                                            /\ ~KeeperRow(task[t].planned[g], g)} IN
       IF t \in Claimer /\ lapsed # {}
       THEN Ends(t)
       ELSE Continue(t, [task[t] EXCEPT !.stops = @ \ lapsed])
    /\ UNCHANGED <<vars, servers, probe, spawning, faults, doubt, slips>>

Finalizable(t) ==
    /\ ~host[task[t].host].failing
    /\ \A g \in task[t].targets : KeeperRow(task[t].planned[g], g) /\ Seen(g) = {}

\* finalize_keepalive_stop.  A claim whose stop command failed gives up even so.
Finalize(t) ==
    /\ At(t, "settle") /\ task[t].work = "stop"
    /\ \E g \in task[t].targets : FinalizeStop(task[t].host, task[t].planned[g], now)
    /\ IF t \in Claimer /\ task[t].failed THEN Ends(t)
       ELSE Continue(t, [task[t] EXCEPT !.planned = [g \in Gpu |-> IF g \in task[t].targets THEN None ELSE @[g]]])
    /\ UNCHANGED <<servers, probe, spawning, faults, doubt, slips>>

FinalizeFails(t) ==
    /\ At(t, "settle") /\ task[t].work = "stop"
    /\ ~Finalizable(t)
    /\ Fails(t, task[t])
    /\ UNCHANGED <<vars, servers, probe, spawning, faults, doubt, slips>>

-----------------------------------------------------------------------------
(* claim_request_now *)

Ask(t, gs) ==
    /\ t \in Claimer /\ At(t, "idle") /\ gs # {}
    /\ Become(t, [Idle EXCEPT !.pc = "waiting", !.wants = gs])
    /\ UNCHANGED <<vars, servers, probe, spawning, holder, faults, doubt, slips>>

\* Defect: the locks are taken in any order.
AcquireAny(t, e) ==
    /\ t \in Claimer /\ At(t, "waiting")
    /\ holder[e] = None
    /\ holder' = [holder EXCEPT ![e] = t]
    /\ UNCHANGED <<vars, servers, probe, spawning, task, faults, doubt, slips>>

\* Defect: a lock is taken although another task holds it.
AcquireHeld(t, e) ==
    /\ t \in Claimer /\ At(t, "waiting")
    /\ \A f \in Endpoint : Rank[f] < Rank[e] => holder[f] = t
    /\ holder' = [holder EXCEPT ![e] = t]
    /\ UNCHANGED <<vars, servers, probe, spawning, task, faults, doubt, slips>>

\* keepalive_endpoint_locks: all locks, in the order of the ids.
Acquire(t, e) ==
    /\ t \in Claimer /\ At(t, "waiting")
    /\ holder[e] = None /\ \A f \in Endpoint : Rank[f] < Rank[e] => holder[f] = t
    /\ holder' = [holder EXCEPT ![e] = t]
    /\ UNCHANGED <<vars, servers, probe, spawning, task, faults, doubt, slips>>

AllLocks(t) == \A e \in Endpoint : holder[e] = t

\* create_request: at first, and again when the keepers are out of the way.
Deciding(t) ==
    t \in Claimer /\ ((At(t, "waiting") /\ AllLocks(t)) \/ At(t, "claim"))

Grant(t) ==
    /\ Deciding(t)
    /\ \E l \in Lease : Claim(l, task[t].wants, TRUE)
    /\ Ends(t)
    /\ UNCHANGED <<servers, probe, spawning, faults, doubt, slips>>

NoCapacity(t) ==
    /\ Deciding(t)
    /\ \E g \in task[t].wants : ~Eligible(g)
    /\ IF At(t, "claim")
       THEN Ends(t)
       ELSE Become(t, [task[t] EXCEPT !.pc = "plan"]) /\ UNCHANGED holder
    /\ UNCHANGED <<vars, servers, probe, spawning, faults, doubt, slips>>

\* plan_keepalive_reclaim
Reclaimable(g) ==
    /\ \E l \in Lease : KeeperRow(l, g) /\ lease[l].state = "ACTIVE"
    /\ keeper[g].actual # "ERROR"

PlanReclaim(t) ==
    /\ At(t, "plan")
    /\ LET gs == {g \in task[t].wants : Reclaimable(g)} IN
       IF gs # {} /\ \A g \in task[t].wants : g \in gs \/ Eligible(g)
       THEN Continue(t, [task[t] EXCEPT !.stops = gs, !.planned = PlannedLease(gs)])
       ELSE Ends(t)
    /\ UNCHANGED <<vars, servers, probe, spawning, faults, doubt, slips>>

-----------------------------------------------------------------------------
(* What takes no lock, and what may always happen *)

\* POST /requests, /leases/{id}/release and .../release-empty.
Unlocked ==
    /\ \E l \in Lease :
          \/ \E gs \in SUBSET Gpu : Claim(l, gs, TRUE)
          \/ Release(l)
          \/ \E e \in Endpoint : ReleaseEmpty(e, l, now)
    /\ UNCHANGED cvars

\* Bound: an ended row that no task remembers stands for one not yet written.
Recyclable(l) ==
    lease[l].state \in TerminalLeaseStates /\ \A t \in Task, g \in Gpu : task[t].planned[g] # l

Recycle ==
    /\ lease' = [l \in Lease |-> IF Recyclable(l) THEN NewLease ELSE lease[l]]
    /\ UNCHANGED <<now, host, device, rows, keeper, cvars>>

\* The API process dies, and starts again over the same database.  Commands
\* that were under way run on.
Crash ==
    /\ Fault
    /\ \E t \in Task : ~At(t, "idle")
    /\ remote' = remote \cup
         {[enabled |-> At(t, "enable"), gpus |-> task[t].targets] :
             t \in {u \in Task : At(u, "enable") \/ At(u, "disable")}}
    /\ doubt' = doubt \cup UNION {task[t].targets : t \in {u \in Task : task[u].work \in {"start", "cleanup"}}}
    /\ task' = [t \in Task |-> Idle]
    /\ holder' = [e \in Endpoint |-> None]
    /\ probe' = [x \in Observer |-> None]
    /\ spawning' = {}
    /\ UNCHANGED <<vars, real, helper, slips>>

-----------------------------------------------------------------------------

\* What a task does on its own.
TaskStep(t) ==
    /\ ~At(t, "idle")
    /\ \/ ToggleReconciles(t)
       \/ EnableDone(t) \/ EnableFails(t) \/ EnableRefused(t) \/ EnableLost(t)
       \/ DisableDone(t) \/ DisableFails(t)
       \/ LookAtWorker(t) \/ ResolveDriver(t) \/ AttestFails(t)
       \/ TaskProbe(t) \/ TaskIngest(t) \/ ProbeFails(t)
       \/ Confirm(t) \/ ConfirmFails(t) \/ Report(t)
       \/ Prepare(t) \/ Finalize(t) \/ FinalizeFails(t)
       \/ \E e \in Endpoint : Acquire(t, e)
       \/ Grant(t) \/ NoCapacity(t) \/ PlanReclaim(t)

LoopStep(e) == LoopProbe(e) \/ LoopIngest(e) \/ LoopFails(e) \/ LoopSkips(e)

LoopSpawn(e) == \E t \in Reconciler : LoopSpawns(e, t)

Actors ==
    \/ \E t \in Task : TaskStep(t)
    \/ \E e \in Endpoint : LoopStep(e) \/ LoopSpawn(e)
    \/ \E t \in Reconciler, e \in Endpoint, policy \in Policies : Toggle(t, e, policy)
    \/ \E t \in Claimer, gs \in SUBSET Gpu : Ask(t, gs)
    \/ Unlocked
    \/ \E g \in Gpu, p \in Proc : JobStarts(g, p) \/ ProcessEnds(g, p)
    \/ Late
    \/ Crash

ControllerNext ==
    IF \E l \in Lease : Recyclable(l) THEN Recycle ELSE Actors

ControllerSpec == ControllerInit /\ [][ControllerNext]_allvars

\* Every await of a task ends, by its timeout at the latest, and asyncio locks
\* are handed over first come, first served (strong: others hold the locks in
\* between, and Recycle precedes any step); the collector loop goes on for ever
\* and does not find some task at work every single time.
FairSpec ==
    /\ ControllerSpec
    /\ WF_allvars(Recycle)
    /\ \A t \in Task : SF_allvars(TaskStep(t))
    /\ \A e \in Endpoint : WF_allvars(LoopStep(e)) /\ SF_allvars(LoopSpawn(e))

-----------------------------------------------------------------------------
(* Correctness *)

\* Every variable keeps its type, and a task past "waiting" holds the lock of
\* its server, a claim those of all servers.
ControllerTypeOK ==
    /\ TypeOK
    /\ real \in [Gpu -> SUBSET Proc]
    /\ helper \in [Gpu -> Worker \cup {None}]
    /\ remote \subseteq [enabled : BOOLEAN, gpus : SUBSET Gpu]
    /\ probe \in [Observer -> Probe \cup {None}]
    /\ spawning \subseteq Endpoint
    /\ task \in [Task -> TaskRecord]
    /\ holder \in [Endpoint -> Task \cup {None}]
    /\ faults \in 0 .. MaxFaults /\ doubt \subseteq Gpu /\ slips \subseteq Gpu
    /\ \A t \in Task : ~At(t, "idle") /\ ~At(t, "waiting") =>
          IF t \in Claimer THEN AllLocks(t) ELSE holder[task[t].host] = t

WorkerOn(g) == real[g] \cap Worker # {}

\* Some task is starting workers on a GPU, or cleaning up after it.
Starting(g) == \E t \in Task : task[t].work \in {"start", "cleanup"} /\ g \in task[t].targets

\* A worker that runs belongs to a keepalive lease, or a task is still at work
\* on its GPU: no order of failures, policy changes and claims loses one, but
\* for faults whose effect the broker cannot know.
WorkersAreAccounted ==
    \A g \in Gpu : WorkerOn(g) => OwnedAs(lease, "keepalive", g) \/ Starting(g) \/ g \in doubt

\* A program of a user is adopted as a worker only if, during the attestation
\* that its adoption rests on, the worker ended between the check of its identity
\* and the question to the driver.  One that shares the GPU with the worker, or
\* takes it before the attestation or after it, never is.
AdoptsOnlyAttested == \A g \in Gpu : keeper[g].expected \in Worker \cup {None} \/ g \in slips

\* A claim under the locks is granted no GPU on which a worker still runs or has
\* been started again since the reclaim.
ClaimsFindNoWorker ==
    [][\A l \in Lease :
          lease[l].state = "unissued" /\ lease'[l].kind = "workload" /\ lease'[l].gpus # {} /\ task' # task
          => \A g \in lease'[l].gpus : ~WorkerOn(g) \/ g \in doubt]_allvars

\* Every task ends, again and again: no lock is kept, and tasks do not wait for
\* each other (keepalive_endpoint_locks).
TasksEnd == \A t \in Task : []<>At(t, "idle")

\* Once a policy stays disabled the keepers go, whatever failed on the way,
\* unless a process that the helper does not know keeps the GPU.
DisabledKeepersEnd ==
    \A g \in Gpu :
        <>[](host[HostOf[g]].policy = "disabled" /\ real[g] \subseteq {helper[g]})
        => <>[]~OwnedAs(lease, "keepalive", g)

\* A worker does not stay on a GPU that a workload was granted meanwhile: again
\* and again there is none.
WorkersYield ==
    \A g \in Gpu : []<>~(WorkerOn(g) /\ OwnedAs(lease, "workload", g) /\ g \notin doubt)

\* "A keeper start and an ordinary claim must not race between remote start and
\* ownership persistence" (api.py, claim_request_now).
StartsExcludeClaims ==
    [][\A l \in Lease :
          lease[l].state = "unissued" /\ lease'[l].kind = "workload"
          => \A g \in lease'[l].gpus : ~(Starting(g) /\ WorkerOn(g))]_allvars

=============================================================================
