# ServerPilot (GPU-Monitor): TLA+ models and proofs

ServerPilot is a broker for the GPUs of a few servers. Agents (people, scripts,
MCP clients) claim GPUs and get a *lease*; a collector logs in to every server
over SSH and reports which processes run on which GPU; idle GPUs may be kept
warm by *keepalive* workers that give way to real claims. This directory holds
TLA+ models of the parts of it whose correctness depends on the order of events,
TLC configurations that check them on small instances, and TLAPS proofs about the
leases, the keepalive procedures and their helper, the scheduler, the calendar, the
servers, and what a request is given: placement, plans, capacity and its answer.

All source paths below are relative to `src/src/serverpilot/`.

## 1. The system

### 1.1 Components, their state and their operations

| component | state | operations |
|---|---|---|
| **Leases and admission** (`service.py`, `models.py`) | `leases`, `lease_resources` (which GPU belongs to which lease, unique per active GPU), `workload_bindings`, `alerts` | `create_request`, `activate_lease`, `bind_workload`, `bind_observed_workload`, `renew_lease`, `release_lease`, `reassign_lease_gpus`, `release_empty_conflicted_lease` |
| **Observation and reconciliation** (`service.py`, `collector.py`) | `gpu_devices`, `telemetry_current`, `endpoint_telemetry_current`, `process_observations`, `provider_states` | `ingest_observation`, `record_provider_failure`, `reconcile` |
| **Keepalive ownership** (`service.py`) | `endpoints.keepalive_policy`, `keepalive_current`, leases of kind `keepalive` | `configure_keepalive_policy`, `list_keepalive_transitions`, `activate_keepalives`, `prepare_keepalive_stop`, `finalize_keepalive_stop`, `set_keepalive_error` |
| **Keepalive helper** (`server_keepalive.py`; runs on the GPU server) | `workers.v3.json`, `control.lock`, the worker processes | `set_enabled`, `attest_workers` |
| **Keepalive orchestration** (`api.py`, `adapters.py`, `keepalive_protocol.py`) | asyncio tasks, one lock per server | reconcile a server, reclaim keepers for a claim, stop, recover |
| **Reservations, maintenance windows, placement** (`service.py`) | `reservations`, `maintenance_windows` | `create_reservation`, `cancel_reservation`, `create_maintenance`, `_select_resources`, `plan_keepalive_reclaim` |
| **Host capacity, resource claims and plans** (`service.py`, `planner.py`) | `lease_endpoint_commitments`, `resource_allocations`, plan evaluations | `create_resource_claim`, `release_resource_claim`, `evaluate_resource_plan` |
| **Scheduler jobs and transfers** (`service.py`, `slurm.py`, `adapters.py`) | `scheduler_jobs`, `scheduler_transfers` | submit, refresh, cancel, upload, deferral at a start |
| **Idempotency and clients** (`service.py`, `client.py`, `mcp_server.py`) | `idempotency_records` | every writing request |
| **Endpoint lifecycle and inventory** (`service.py`, `config.py`) | `endpoints`, `endpoint_deletions` | create, update, import (upsert), pause, resume, switch keepalive, delete, merge of the inventory file at a start |
| **Snapshots, history, metrics, audit** (`service.py`) | append-only rows | read-only projections |
| **Probes and parsing** (`server_collector.py`, `collector.py`) | none | parse `nvidia-smi` output |
| **Database, migrations, configuration** (`database.py`, `config.py`) | the SQLite file | migrate, open transactions |
| **Daemon, command line** (`daemon.py`, `cli.py`) | launchd/systemd units | install, start, stop |
| **Web and desktop user interfaces** | none of authority | views of the REST interface |

### 1.2 How they interact

- Everything authoritative is in one SQLite database. Every writing operation of
  `BrokerService` runs in one `BEGIN IMMEDIATE` transaction (`_write`,
  `service.py:596`), so operations on the tables are atomic and serialized. What
  interleaves is *the order of operations*.
- The collector loop (`collect_once`, then `ingest_observation` per server) is the
  only source of facts about the servers. Its answers arrive later than they were
  probed, possibly after newer ones, possibly incomplete, possibly not at all.
  Every `ingest_observation` ends with a reconciliation of the leases.
- Agents call over REST or MCP. A claim is granted in the same transaction or
  rejected; there is no waiting queue that outlives the request.
- The keepalive orchestration reads a plan from the tables, runs commands of the
  helper on the server over SSH, has the server observed again and only then
  writes the result, with all other operations going on in between.
- The helper's calls are processes on the GPU server. They share a state file
  under `flock` and act on workers that outlive them.
- A scheduler call alternates between transactions and commands on a login node
  (search, `sbatch`, `sacct`, `scancel`, `scp`); what a command has done outlives the
  broker, and a lost command may still run.
- A start of the broker (`initialize`) merges the inventory file into the table of
  servers and defers interrupted uploads; two commands of the command line run the
  same code in a process of their own.

### 1.3 What is hard about it, and what makes each part correct

| component | hard behaviour | what must hold |
|---|---|---|
| leases | any order of claims, moves, renewals, expiries, releases | no GPU in two leases; a lease owns GPUs exactly while open; critical alerts match the leases they are about |
| observation | late, reordered, partial, missing observations; three tables with their own ages | a GPU is offered, and a lease reclaimed, only on process-free evidence, and the evidence of one GPU always comes from one observation |
| keepalive ownership | activations and stops race with claims, moves, policy changes and vanishing GPUs | a keepalive lease never expires, ends only over an empty GPU; "ON" is said only of a verified worker |
| helper | concurrent calls, kills, PID reuse, reboots | stops hit only the worker they mean; a running worker is recorded; no call hangs |
| orchestration | multi-step remote procedures, timeouts, lost answers, crash of the API process | remote workers and ownership do not drift apart silently |
| calendar | a reservation, a claim and a renewal each check the others, from their own side | no GPU is promised twice for one time |
| placement | a plan, the yielding of workers and the claim look at the GPUs one after another, by different checks, while others act | the choice fits, and is found where there is one; workers yield for GPUs the claim takes |
| scheduler, transfers | crash or lost answer between remote effect and row | no job submitted again while the first can be seen, no upload lost or reported early |
| requests | repeated, delayed, replayed calls | one lease per call, told to its own caller |
| capacity | two bookkeepers of one capacity | what was admitted fits the server |
| endpoints | five writers of a row, restarts that merge a file | what stands on a server keeps it, and is reached as before |

`PROJECT.json` lists the hazards one by one, each with the line where it bites and
the properties about it.

## 2. Modules

| module | models | extends |
|---|---|---|
| `Assignment` | what the broker promises about the assignment of GPUs (abstract) | – |
| `LeaseBroker` | leases, observation, reconciliation, keepalive ownership; implements `Assignment` | – |
| `MCLeaseBroker` | small instances of it | `LeaseBroker` |
| `LeasePromises` | promises of comments and documents that the code does not keep | `MCLeaseBroker` |
| `LeaseBrokerProofs` | theorems about `LeaseBroker` | `LeaseBroker` |
| `KeepaliveHelper` | the helper and the processes of one server | – |
| `KeepaliveHelperProofs` | theorems about it | `KeepaliveHelper` |
| `MCKeepaliveHelper` | small instances of it | `KeepaliveHelper` |
| `KeepaliveController` | the keepalive procedures of the API process, its locks and collector loop, over the broker's tables and an atomic helper | `LeaseBroker` |
| `MCKeepaliveController` | small instances of it | `KeepaliveController` |
| `MCControllerLive` | its liveness, with two casts of tasks | `MCKeepaliveController` |
| `KeepaliveControllerProofs` | theorems about `KeepaliveController` | `KeepaliveController`, `LeaseBrokerProofs` |
| `KeepaliveWorkersProofs` | theorems about its workers and its claims | `KeepaliveControllerProofs` |
| `SubmissionLog` | what a submission under a key promises (abstract) | – |
| `SchedulerJobs` | jobs on an external Slurm; implements `SubmissionLog` | – |
| `SchedulerTransfers` | staged uploads, their threads and `scp` | – |
| `MCScheduler` | both, side by side | `SchedulerJobs`, instance of `SchedulerTransfers` |
| `SchedulerProofs` | theorems about both, with the refinement | `MCScheduler` |
| `ReservationCalendar` | reservations and maintenance windows against leases | – |
| `Endpoints` | the table of servers, the inventory file, restarts | – |
| `MCInventory` | both, side by side | `ReservationCalendar`, instance of `Endpoints` |
| `InventoryProofs` | theorems about both | `MCInventory` |
| `MCEndpoints` | an inventory that names a server alone | `Endpoints` |
| `ResourcePlanner` | `select_smallest_useful_plan` as a loop | – |
| `Placement` | `_select_resources`, the reclaim plan and the claims around it | – |
| `PlacementProofs` | theorems about it | `Placement` |
| `Capacity` | CPU and memory promised to leases and to generic claims | – |
| `RoutineCalls` | `gpu_apply`, its retry, and the replay of its answer | – |
| `MCResources` | the last four, side by side | `Placement`, instances of `ResourcePlanner`, `Capacity`, `RoutineCalls` |
| `ResourcesProofs` | theorems about all four | `MCResources`, `PlacementProofs` |

**Modules checked together.** `MCScheduler`, `MCInventory` and `MCResources` each check
modules that share no state. A variable `part`, chosen in the initial state and
never changed, says whose steps a behaviour takes; the other modules stay in their
initial state (or, where that is not unique, in one of their states). Every
behaviour of every module is a behaviour of the sum, extended by constants, and
every property of a module holds of a module at rest, so the sum satisfies a
property just if the module does. Fairness carries over in the same way: a step
of a part that is not played is not enabled, except `Boot` of `SchedulerTransfers`,
whose fairness is asked for only where its part is played. `MCControllerLive` does
the same with the `cast` of tasks that take part. A configuration
cannot name a property of an instance, so the MC modules restate it; where a module
makes several promises of one thing they are the conjuncts of one property there
(`OutcomesAreFinal`, `ServersAreKept`, `TablesAreRight`, `ChoiceIsExact`, `OneOwnLease`).

### 2.1 LeaseBroker

One action per public operation, because each is one transaction. The variables
are the tables, reduced to the columns that decisions depend on:

| variable | rows |
|---|---|
| `now` | the clock (`utcnow`) |
| `host[e]` | lifecycle and keepalive policy of `Endpoint`; `observed_at` and `collected_at` of `EndpointTelemetryCurrent`; last success and error of `ProviderState` |
| `device[g]` | presence of `GPUDevice`, times of `TelemetryCurrent` |
| `rows[g][p]` | `last_seen_at` of the active `ProcessObservation` of process `p` on `g` |
| `keeper[g]` | `KeepaliveCurrent`: actual state and expected worker |
| `lease[l]` | `Lease` with its active `LeaseResource` rows, whether a `WorkloadBinding` exists, and its active alerts |

`Ingest` follows `ingest_observation` step by step: presence of GPUs, release of
keepalive leases whose GPU vanished, process rows, liveness of keepers, binding
of new workloads, clearing of keeper errors, reconciliation of all leases, in the
code's order, each step reading what the earlier ones wrote. An observation is
arbitrary: the model does not assume that a server behaves. `Reconciled` is
`_reconcile_leases`: idle clock (`IdleTracked`), expiry (`Expired`), repair of
stale alerts (`Swept`).

Left out, because no modelled decision reads it, or because it only makes fewer
GPUs eligible: labels, health, maintenance, reservations and host capacity in
admission, the choice among eligible GPUs (any eligible set may be granted),
audit rows and history, metadata of leases. Columns of an ended lease that
nothing reads are reset.

`Assignment` knows the owners of each GPU and whether a lease is new, open or over, and
has three actions: free GPUs are given to new leases (`Grant`), an open lease is moved
to as many GPUs that no other has (`Move`), open leases end (`End`). `LeaseBroker`
implements it (`AssignmentImplemented`) with the active `LeaseResource` rows as owners:
`Claim` and `ActivateKeepalives` grant, `Reassign` moves, everything that ends leases
ends some of them, and all else is a stutter. So a GPU goes from one lease to another
only by being free in between, and no operation takes part of a lease's GPUs away.

The operators marked `Defect:` are not used by `Spec`. Each is a plausible bug in
one definition; the mutants of `PROJECT.json` put it in place of the definition
and the named property then fails.

### 2.2 KeepaliveHelper

Each call is a process with a program counter: lock, read the file, examine one
GPU after another, start workers in parallel, wait for READY, write the file;
or open a pidfd, look again, signal, forget; or compare the record, ask
`nvidia-smi`. Processes of the server have a PID and start ticks, end at any
moment, and PIDs are used again. A zombie keeps its PID until its helper ends.
A call can be killed between any two steps (lost SSH session, local timeout,
file-system error) and the server can reboot, which resets the start ticks and
changes the boot id. A worker that has not reported READY when its helper
disappears cannot report any more and ends.

Assumed of the outside, from how the code uses it: `flock` is released with its
holder; a pidfd names one process for ever; two workers cannot both reserve the
memory of one GPU (`_run_cuda_worker` allocates most of it before READY).

### 2.3 KeepaliveController

The asyncio tasks of `api.py` that command workers, composed with `LeaseBroker`:
every step that writes the tables is an action of `LeaseBroker`, conjoined with
what the task does. One action per stretch between two awaits.

| variable | state |
|---|---|
| `task[t]` | where a reconciliation (`reconcile_endpoint_keepalive`) or a claim (`claim_request_now`, `reclaim_keepalive_for_claim`) is, with its local variables: the plan, the attested workers, the GPU at work |
| `holder[e]` | `keepalive_reconcile_locks` |
| `spawning` | the reconciliations that `collector_loop` is about to make |
| `probe[x]` | an observation on its way to `ingest_observation` |
| `real[g]`, `helper[g]` | the processes that run on a GPU, and the worker the helper has recorded for it |
| `remote` | commands whose SSH session is gone and that may still run |
| `faults`, `doubt` | bookkeeping of the model: faults so far, and the GPUs on which a fault may have left a worker of which nobody can know |
| `slips` | bookkeeping of the model: the GPUs whose recorded worker ended between the two questions of an attestation that may still be used or was |

A reconciliation plans under the lock (`Reconciles`), starts all workers that are
missing in one command, has them attested and observed, and confirms them; after
any failure it stops them again, observes and reports (`Fails`, `Report`). Then
come recoveries (attest, observe, confirm), then stops, one GPU after another,
each observed and finalized on its own. A claim takes all locks in the order of
the ids (`Acquire`), tries the ordinary claim, and if that fails plans a reclaim,
stops those keepers and tries again. A command may be done (`EnableDone`), fail
after some of its GPUs (`EnableFails`), never be sent (`EnableRefused`), or be
lost and run later or never (`EnableLost`, `Late`).

An attestation takes two steps for each GPU, as `attest_workers` does: `LookAtWorker`
asks whether the recorded worker runs (`server_keepalive.py:352`), `ResolveDriver` asks
the driver for the one process on the GPU (354), and whatever it names is the proof,
the PID of another program included. The helper's lock is held meanwhile
(`HelperBusy`), so that no late command runs in between; programs of users and
ends of processes are not held up. The confirmation compares the observed process with
the proof and nothing else (`Proven`; `service.py:1857` compares PID and boot). So the
broker can adopt a program that took the GPU inside the attestation, and
`AdoptsOnlyAttested` says that this is the only way: `slips` records that a worker ended
between the two questions, and is forgotten when a later attestation looks at the GPU
again. A process is taken for another one only if it is another one: PIDs are not
reused between an attestation and its confirmation.

`Crash` loses every task, lock
and observation and keeps the tables, the servers and the commands under way.

What takes no lock in the code takes none in the model: plain requests, releases
and the operator's clean-ups (`Unlocked`), the policy switch before it reconciles
(`Toggle`), programs of users, ends of processes.

Abstractions. *Time stands still*: only the order of events matters, so staleness,
expiry and idle reclaims, which `LeaseBroker` covers, do not occur; observations of a
server keep the order of their stamps by remembering which were under way before them,
and an observation shows the moment it is stamped. *The commands of the helper are
atomic*, but for the attestation; their inside is `KeepaliveHelper`. *Lease rows are
used again* (`Recycle`) once they have ended and no task remembers them, which bounds
the rows and not the history. The reclaim made for a move of a lease, which takes the
same locks in the same way, is left out.

### 2.4 SchedulerJobs, SubmissionLog and SchedulerTransfers

`SchedulerJobs`: a call runs in a thread of its own; `call[c].at` is where it is
between two transactions or commands. A submission prepares the row (`Prepare`),
searches the queue and the accounting for a job of its name (`Hits`, `Misses`,
`SearchErrs`), submits (`Accepts`), and completes or records the failure. Only
submissions hold `_scheduler_submit_lock`. `Refresh`/`Query`/`Update` and
`Cancel`/`Scancel`/`RecordCancel` run beside them and beside each other. A command may be
refused, fail after it was done (`Loses`), or lose its session and be carried out
later (`LateRuns`) or never (`LateDies`). The job's name on the cluster is derived from
actor, key and input, so `Key` stands for all three. `SUSPENDED` stands for every raw
state `broker_state` has no name for.

The broker calls the outcome of a failed `sbatch` unknown, and then never submits
again, unless the failure looks like one of access (`ACCESS_REQUIRED`). A connection
that breaks *after* the command was sent looks like that too (ssh ends with 255), and
the next request of the key searches and, if the lost command has not run yet,
submits once more. The history variable `lost` names the keys for which this can
happen; `OneJobPerKey` (the first part of `JobRowsAreTrue`) and `SubmissionLog` except
exactly those.

A search by name (`Visible`) lists what `squeue` shows, the active jobs, and what `sacct
--name` shows. The latter is given no start time (`slurm.py:531-540`), and its window
then begins at 00:00 of the day; the comment above it (`slurm.py:523-525`) takes it for
the history. `past` holds the jobs that ended before the last `Midnight`, which no
search finds any more. If a job ends and midnight comes before its answer was recorded,
a retry of a row that is `SUBMITTING` or `ACCESS_REQUIRED` submits a second job although
no command is under way, and a row that is `UNKNOWN` is never resolved. The models do
both, and the properties say that it takes a midnight: `OneJobPerKey` that of two jobs of
a key one ended on an earlier day, `RetriesFindTheJob` that a client that repeats is told
its job unless all its jobs did, `SubmissionLog` that another job is accepted only while
the caller has been told none and the earlier ones are out of sight. Refreshes ask by
number (`sacct -j`), which has no such window.

`SubmissionLog` is what the caller and the scheduler see: jobs accepted for a key, the
job the caller was told, and the jobs out of sight. `SchedulerJobs` implements it under
`accepted` = the jobs of the key's name that are not merely under way, `told` = the
remembered answer (`LogImplemented`).

`SchedulerTransfers`: a thread makes a remote directory, runs `scp`, records the
outcome; `scp` may outlive a broker that stops. `Boot` and `CommandLine` are the two ways
`initialize` runs. An error that is not one of the provider's ends the thread and
leaves the row `TRANSFERRING` until the next start; the model has every command end
in one of the provider's ways.

### 2.5 ReservationCalendar

Time, leases, reservations and maintenance windows. `Reserve` asks that the interval
meets no other reservation and no lease of its GPUs; `Claim` and `Renew` that the time
to be given meets no reservation; `Keep` (a keepalive worker) and `Move` (by an operator)
look at no calendar; a maintenance window stops claims only. The time a renewal
gives is the code's: from now, as long as from issue to the present end, at least
`Shortest`. A reservation blocks its GPUs for everyone, its owner too.

The two kinds of windows meet nowhere but in the guard of `Claim`, so the instance
plays them apart (`"bookings"`, `"repairs"`).

### 2.6 Endpoints

One action per operation on a row of `endpoints`, plus `Boot`, which is
`_upsert_inventory` for every entry of the file in one transaction, and `Stop`. What
stands on a server is reduced to `holds` (leases), `keepers` and `unit` (claims). `conn`
stands for the settings by which a server is reached. `Update` also writes the owner.
`broker = "failed"` is a start that raised.

### 2.7 Placement, Capacity, ResourcePlanner

`Placement` takes every set of free and kept GPUs and every request `validate_topology`
admits through `claim_request_now`: the claim, the plan of `plan_keepalive_reclaim`, the
yielding of the planned workers, the second claim. `SelectResources` is the code's
case split, by numbers of servers and GPUs in their order; `ChosenFits` and
`RefusedOnlyIfImpossible` compare it with `Fits`, which states the constraints and
nothing else. `_fair_order` and `_queue_candidates` are left out: a claim never leaves a
request in the queue, so there is one request to order.

The plan checks less than the claim it is made for, and time passes between them:

- a kept GPU enters the plan without the checks of `_gpu_state` (`service.py:6979-6992`:
  health, maintenance, enabled) and of the free memory (7005-7011), so `Release(g)` makes
  it a candidate or does not;
- the limits of the project (6561-6581) are asked by a claim and not by the plan, so
  `Create` meets the free GPUs or none;
- the workers are stopped one by one (`api.py:786-845`), each with awaits in between
  (`Yield`, one GPU at a time), and a stop that fails ends the request when others may
  have yielded already (`StopFails`);
- meanwhile requests that take no lock, and programs of users, take GPUs, and others
  become free (`OthersAct`).

So the second claim may be refused although workers have yielded for it, and a project at
its limit makes workers yield for nothing. `PlanIsEnough` states what the choice itself
owes: where workers have yielded and the claim meets all GPUs of the plan, it
succeeds, and unless it is spread or meets GPUs the plan did not, it takes exactly the
planned ones.

`Capacity` counts CPU in thirtieths of a core because the code rounds to tenths before
it compares (`Rounded`). Assumed: a server keeps its number of cores and its memory; the
code takes them from each reading, and they change only when the machine does. Readings
come and go; leases commit on every server they touch, claims on one. A move takes the
commitments along without asking, so moved leases are excepted from `AdmittedFits`.

`ResourcePlanner` is the loop over the candidates with its early returns, and the
storing of the result; one state per turn, so that the loop invariant can be
stated, checked and proved.

### 2.8 RoutineCalls

A call of `gpu_apply` is sent, and sent a second time under the same key when the
first attempt ends without an answer. The broker may carry out an attempt after
the agent has given it up. Attempts wait in `queue` for the locks of all servers; the
lease and the record of its answer are one transaction; a refusal records nothing;
between a failed claim and the one after a reclaim the attempt keeps the locks while
plain requests and releases go on (`Others`, `Ends`). `Crash` loses attempts.

Assumed: the two attempts of one call come to the locks in the order they were sent
and ask for the same servers (`asyncio.Lock` is first come, first served; the set changes
only when a server is added or deleted). The record is compared by key alone, not by
the data of the request; `gpu_apply` never uses a key for other data.

## 3. Runs

| run | instance | shows |
|---|---|---|
| `workload` | 1 server, 2 GPUs, 2 leases, 1 process identity, time 0..2, persistent and timed claims | the abstract assignment is implemented; exact orphan alerts, grants and idle reclaims only on process-free evidence, for every order of agent, operator and collector steps |
| `keepalive` | 1 server, 1 GPU, 2 leases, 2 process identities, policy, lifecycle, remote errors, observations up to 1 old | a keeper and a workload compete for a GPU: ownership is exclusive and durable, ON is verified, evidence is coherent, a keeper ends over an empty GPU |
| `helper` | 2 GPUs, 2 calls, 2 PIDs, 2 starts per boot, 1 reboot, 1 kill | the right worker is stopped, no worker is lost but by a killed helper, stops are complete, nobody waits for ever |
| `controller` | 1 server, 1 GPU, 2 leases, 2 worker identities, 1 other program, 1 reconciliation and 1 claim at a time, 1 fault | a worker is owned, or a task is at work on it, or a fault left it in doubt; a program is adopted only if it took the GPU inside the attestation; a claim under the locks meets no worker |
| `controller_live` | cast "keepers": 1 GPU, 1 lease, 1 reconciliation; cast "claims": 2 servers, 2 claims; 1 fault | a disabled policy ends the keepers whatever failed, a worker leaves a GPU that was granted meanwhile, and no claim waits for ever |
| `scheduler` | 1 key, 2 calls, 2 job numbers; 2 uploads | no second job for a key while the first can be seen, rows tell the truth about their job, `SubmissionLog` is implemented; a client that repeats finds its job, one that polls sees its end; outcomes of uploads are true, final, and come (108 thousand states) |
| `resources` | up to 3 candidates of 5 sizes and 3 run times; 3 servers of 2 GPUs, up to 3 GPUs a request; 2 leases and 2 claims on 2 servers; 2 calls, 2 leases, 2 GPUs | planner, placement, capacity, and one lease per call (1.5 million states) |
| `inventory` | 2 GPUs, 2 leases, 2 reservations, 1 maintenance window, time 0..2; 2 servers, 2 addresses, 2 ways to reach them, 1 lease, 1 claim, a file with one entry | no GPU promised twice for a time; servers keep what stands on them (645 thousand states) |
| `promise_window`, `promise_attest`, `promise_race`, `promise_restart` | as small as the violation allows | the findings of section 5 |

**Bounds.** *Two leases* are enough for every property that relates two leases;
all the others are about one lease, one GPU or one server, and the second lease is
the interference. *Two GPUs* make a lease of two GPUs, a partial observation and a
move possible. *Two process identities* tell the expected worker from another
process. *Time 0..2* with a staleness of 1, an alert after 1 and a reclaim after 2
lets an observation age out, an idle clock run, warn and reclaim, and a timer of 1
expire; the proofs cover every other value. In `helper`, *two calls* interleave
in all ways (a third would only wait for the lock), *two PIDs* and *two starts per
boot* make PID reuse possible within a boot and across a reboot; *one kill* and
*one reboot* each occur at every step. In the
`controller` runs *two worker identities* let a worker be replaced by another one
while the old is remembered, *one fault* occurs at every step of every procedure
(a failed cleanup of a start that failed because a request came in between needs
one), and the claim, the reconciliation and an unlocked request compete for *one
GPU*: procedures on different servers share nothing but the locks, which the cast
"claims" of `controller_live` takes on two servers with two claims, because two tasks
that each wait for the other is the only way to a cycle. The number of policy
changes, claims, observations and process starts is not bounded.

In `scheduler`, keys share nothing but the submit lock and the job numbers, so *one key*
with *two calls* has every race of two operations on one job; *two job numbers* make a
second submission visible. Numbers of jobs and callers only tell them apart, so the
least is taken first, and a target that was opened stays open (`Bounded`): closing it
only keeps calls from beginning. The number of requests, crashes, failures and midnights
is not bounded. In `inventory`, *two* of everything that is compared in pairs; a lease
of 2 in a time of 0..2 reaches before, into and over every reservation, and is renewed
up to 6. In `resources`, *three candidates* make a step that pays after one that does
not; five sizes have a chain of three, a pair that cannot be compared, and the empty
one; keys are only compared, so a new key is taken to be the least not used yet
(`KeysInOrder`). *Three servers of two GPUs* let servers run dry in different rounds.
*One act of others* (`OneAct`), when all workers have yielded, takes a planned GPU away
or adds one the plan did not know (an earlier act commutes with the yielding of other
GPUs); the proof covers any number. The loads of `Capacity` leave thirtieths of a core
free, which round to a tenth that is there only in part, and the asks lie on both sides
of it. *Two calls with two attempts each* overtake each other in all ways; the second
GPU is the other call's, a keeper's or a stranger's.

`Symmetry` and `Alike` permute identifiers no constant tells apart, and are used only in
runs without liveness properties.

**Deadlock** is checked in the `controller` runs, where the collector loop never
stops. It is not in the others: a bounded clock, one-use rows or calls made once
mean that those models really stop.

**Fairness.** `LeaseBroker` and the modules of `inventory` and `resources` state safety
only and have none: nobody is obliged to claim, observe or tick. `KeepaliveHelper` has
weak fairness of the own steps of each call, and none of requests, of processes or
of kills. The code justifies it: a call is a running process, READY is awaited with a
timeout, ending a worker escalates to SIGKILL with a timeout, and `flock` wakes a
waiter when the lock is free. `CallsFinish` needs no more, because two calls cannot
overtake each other for ever (each call is made once).

`KeepaliveController` (`FairSpec`) has strong fairness of the steps of each task:
every command and observation ends by its timeout at the latest (`adapters.py:494`,
`collector.py:803`), and an `asyncio.Lock` is handed over first come, first served.
The collector loop is weakly fair, since it is an endless `while` that survives
every exception (`api.py:936-985`); its reconciliations are strongly fair: the loop
skips a server whose lock is held, and without this a lock could be held each time
the loop comes by. Requests, policy changes, programs of users, faults and late
commands have none.

`SchedulerJobs` and `SchedulerTransfers` have weak fairness of the steps of a thread
(every command has a timeout), of the end of an `scp` (likewise) and of `Boot`: launchd
restarts a broker that failed, and otherwise its user does. What a client or the
scheduler must do is not in the specification but in the premises of the two
properties that need it: `RetriesFindTheJob` is about a client that repeats its
request for ever and searches that stop failing, `PolledRowsCatchUp` about a client
that polls for ever and is answered again and again.

## 4. Proofs

`LeaseBrokerProofs` proves, for every set of endpoints, GPUs, leases and
processes and every value of the time constants, that

- `IInv` is inductive (theorem `Invariant`). It is the conjunction of the seven
  state invariants; none is inductive alone. For example, an activation keeps
  assignments exclusive only because a lease that owns GPUs is open
  (`OwnsWhileOpen`), so that the query for *active* leases of a GPU sees it; a
  keeper stays verified between observations only because keepalive leases are
  never reconciled away (`KeepaliveIsDurable`) and the process rows of a GPU change
  only together with its presence (`EvidenceIsCoherent`).
- each of the seven is an invariant (`TypeCorrect`, `Exclusive`, `Ownership`,
  `DurableKeepalive`, `ExactOrphanAlert`, `CoherentEvidence`, `VerifiedKeeper`);
- the broker implements `Assignment` (`ImplementsAssignment`), whose promise is that a
  GPU has one owner at most, and an open one (`OpenOwners`);
- three action properties follow from it: a grant goes only to GPUs whose newest
  complete observation listed no process (`GrantsAreEmpty`), a keepalive lease
  ends only over such a GPU (`KeepaliveEndsSafely`), and the broker reclaims an
  idle lease only after an elapsed idle clock and on fresh, empty views of all its
  GPUs (`ReclaimsAreEmpty`).

The argument is per row: `Sound(r)` collects what the invariants say of one lease row,
and a lemma for each operator of the reconciliation (`IdleTracked`, `Expired`, `Swept`,
`Reconciled`) says that it keeps a row sound and never gives it GPUs. A lemma for each
action then assembles `IInv'`; `IngestStep` has one step per table. For the refinement a
row of the assignment stays as it is or ends (`SameRow`, `OverRow`, put together for all
rows by `SameOrOver`); `RewrittenStage` shows it of what observations and
reconciliations write, and `Granted`, `ReassignMoves` treat the steps that assign.
Assumptions: the named ASSUMEs of `LeaseBroker` (finitely many GPUs, `None` is no time
and no process, the alert does not come after the reclaim, a controller call is no older
than the staleness limit), and atomic transactions. `CallLag <= Stale` says that a
controller call rests on an observation that has not aged out. The code provides it: the
controller has the server observed as the last thing before every such call
(`collect_keepalive_endpoint`, `api.py:333`), so that the observation is seconds old
even when the barrier itself, set before the remote command, is older. The proof needs
it: `_validate_keepalive_observation` compares times with the barrier only, and an
aged-out observation would show no process at all.

`KeepaliveControllerProofs` proves, for every set of servers, GPUs, leases, tasks,
processes and workers and any number of faults, that `CInv` is inductive
(`ControllerInvariant`), and from it

- `ControllerTypeCorrect`: types, and that a task past its beginning holds the lock
  of its server, a claim those of all servers; hence two tasks never work on the
  same server (`OneTaskAtATime`);
- `AdoptsOnlyAttestedWorkers`: a program that was not started as a worker is expected as a
  keeper only if it took the GPU between the two questions of the attestation;
- `BrokerInvariantsKept`: the broker's invariants hold whatever the procedures
  interleave with.

`CInv` adds to `IInv` what each task may hold across an await (`TaskSound`): it knows
its server while it works, a reconciliation stops keepers of that server only (so that
the one lock it holds is the one it needs); that an observation on its way lists
processes of its own server only (`OfServer`); and the locks (`Locked`). `Moves(t)` is
what almost every step does to its task: a sound new record, no lock of another task
touched. A lemma for each way to go on (`ContinueMoves`, `FailsMoves`, `EndsMoves`)
shows it, a lemma for each call of the broker (`IngestedBroker`, `ActivateBroker`, ...)
reuses the lemmas about `LeaseBroker`, and each action combines the two.

For adoption `AInv` is inductive on top of `CInv`: `Attesting` says in which phases, and of
which GPUs, a task carries a proof or is between the two questions, and `Grounded` that
the worker it has just looked at runs, and the process it holds as attested is a worker,
or the end of the worker in between is recorded (`slips`). A process that starts beside
the worker makes the question to the driver fail; one that takes the GPU before the
look finds the worker gone; one that takes it after the answer is not the process
attested, and a GPU that is gone or shows two processes shows no such process. What a
`slip` records may be forgotten only when no proof rests on it, which the locks
guarantee: one task at a time works on a server (`OneTask`). Assumed beyond `LeaseBroker`:
tasks and servers have distinct names, workers are processes, and `None` is no task,
server, lease or observation.

`KeepaliveWorkersProofs` adds `WInv`, inductive together with `CInv`
(`WorkersInvariant`), and proves from it that no worker is lost (`AccountsForWorkers`)
and that a claim under the locks is granted no GPU with a worker (`ClaimsMeetNoWorker`).
The difficulty is a confirmation that rests on an observation which is late: an older
one of the collector loop, made before the worker started, may arrive after it and show
the GPU empty, upon which a claim would be granted. `Shown(g)` says that the broker sees
a process on `g` and that no observation still on its way would have it believe
otherwise (`Blind`); `Settled`, that this holds, with a keepalive lease, wherever a
worker runs and no task is at work. Two further facts carry it: `Ordered`, that
observations of one server are ordered by the time they were made, and that one that was
overtaken has overtaken all older ones; and `Fetched`, that every observation which
would blind the broker to a new worker is older than the one its start waits for, which
therefore overtakes it. `Frame` reduces a step to what it does to its own task and to
the view; `ArrivalShows`, `ArrivalOthers` and `ArrivalOwn` treat an answer that is
taken, dropped or never comes. Workers under `doubt` are excepted: a command that was
lost may start them when nobody looks. Nothing is assumed beyond
`KeepaliveControllerProofs`.

`KeepaliveHelperProofs` proves, for every number of GPUs, calls, PIDs, boots and kills, that
its `Inv` is inductive (`Invariant`), and from it that records name workers of their own
GPU (`TrueRecords`), that a worker whose helper is gone is recorded unless the helper was
killed (`RecordedWorkers`), that a call touches no process but the worker it means
(`Untouched`), and that a stop that reports success leaves none (`CompleteStops`). The
properties themselves say nothing of a call under way; `Inv` adds two things. *An identity
names one process for ever*: start ticks grow within a boot (`Processes`, `Records`,
lemma `SameStays`), so that a PID taken again is told from the recorded one. *Only the
holder of the lock knows*: it has the file in memory and its children (`Agree`, `Children`,
`Parents`), a stop aims at the recorded worker or at nothing (`Stopping`) and has emptied
what it has passed (`Stopped`), and every other call has nothing (`Quiet`). Steps of the
holder, of processes and ends of calls each reduce to one lemma (`StepInv`,
`HolderProcInv`, `LeaveInv`). Assumed: `HelperAssumption` (bounds are naturals, `None` is
nothing else).

**The modules checked together** are proved together: `SchedulerProofs`,
`InventoryProofs` and `ResourcesProofs` prove the theorems of each part of its own
specification, then that every step of the sum is a step of the part played and a
stutter of the others (`PartsMove`, `PartsAreKept`), so that each theorem holds of what
the run checks.

`SchedulerProofs` proves, for every number of keys, calls and job numbers, that its
`Inv` is inductive (`Invariant`), that the tables are true (`TrueRows`, `FinalStates`),
and that the jobs implement `SubmissionLog` (`Implementation`): the steps `Accepts` and
`LateRuns` of a key map to `Accept`, `Complete` to `Tell`, `Midnight` to `Pass`, `Loses`
and a `Crash` at `sbatch` to `Lose`, everything else to a stutter. `OneJobPerKey` alone
is not inductive: `Inv` adds that a submission under way holds the lock and finds its
row as it left it (`Locked`, `RowFits`), that every job of the name ended on an earlier
day where `sbatch` is to be run (`NoneYet`), which the search before it has shown, the
lock preserves and a midnight does not harm, and that a command that may still run
belongs to a key called unknown (`LateIsUnknown`), which is never submitted again. For
the final states it adds that what a call has heard stays true until it writes it,
because a job that ended stays so (`EndedStays`). Of the transfers it proves, for any
number of them, that what is called completed is there as a whole and that outcomes are
final (`TransfersAreKept`). `TransferInv` adds when a thread and an `scp` may exist
(`HasThread`) and what is in the directory meanwhile (`CopyIsRight`): a thread works on
a row that is `TRANSFERRING`, or that the command line has deferred under it, and an
`scp` runs only where its thread waits for it or went with a broker that stopped.
Assumed: `JobsAssumption`.

`InventoryProofs` proves of the calendar, for every number of GPUs, leases, reservations and
windows and every time, that the conjunction of `TypeOK`, `ReservationsAreDisjoint` and
`LeasesKeepClear` is inductive (`Invariant`; the last two are not without the types, which
tie a lease's GPUs to its being open). One lemma per operation; the
renewal is the hard one, since it gives a new end computed from the old
(`RenewedType`); `OthersKeepClear` and `SameReservations` reduce a step to what it must
show of the one lease it touches. Of the inventory it proves, for every number of servers,
leases, claims and inventory files, that what stands on a server keeps it, that deleted
servers stay deleted and a policy has its adapter (`KeptServers`), and that a server with
a worker is reached as before (`ReachableWorkers`). The second needs that a server with a
worker has an adapter (`WorkersHaveAdapters`): the switch would attach one otherwise.
`PutRow` says what a write of one row must show; `BootSafe` does the same for the merge
of all rows at once. Assumed: `CalendarAssumption` (lengths are naturals, a renewal is at
least one long, `Never` is no time) and `InventoryAssumption` (`None` is no row, and every
entry of a file is one that `EndpointConfig` accepts).

`PlacementProofs` proves of `_select_resources`, for every set of servers and GPUs and
every request, that what is chosen is free, allowed and as much as asked for
(`ChoiceFits`), that nothing is refused that some choice could give (`RefusalIsRight`),
that a spread choice is even (`SpreadingIsEven`), and that a claim that meets the GPUs
of its plan after workers have yielded succeeds, and gets what was planned unless it is
spread or meets others too (`PlansAreEnough`). The choices are made of *the first n in
some order*: of the GPUs of a server, of the servers by number, of the servers by free
GPUs (`Firsts`), so lemmas about such a set (`CountFirsts`, `FirstsStay`) carry the
counting, and `EvenlyLoaded` adds it up over servers. Refusal is right because servers
sorted by free GPUs are tried from the fullest on (`HostsSuffice`). The claim then
succeeds because the choice depends on no GPU that it leaves (`SelectStays`), and where
there are more some choice is possible (`RefusalIsRight`). Turns over the servers are a
recursion over finite sets; that it has a value (`TurnsExist`, `TurnsDetermined`) and
that each turn keeps the shares even (`TurnsGive`) is shown on a smallest set where it
fails (`Smallest`). Assumed: `PlacementAssumption` (numbers of servers and GPUs are
finitely many naturals, `None` is no set of them and no request).

`ResourcesProofs` proves

- of the planner's loop, for any number of candidates, any sizes, times and
  thresholds, what holds at every turn (`Loop`), and from it that the choice is the last
  candidate reached by steps that pay (`PlanIsSmallestUseful`), that it saves the
  threshold once for every step it is larger (`SavingsAreReal`), and that the record
  marks it alone (`TablesStayRight`);
- of the capacity, for any number of leases and claims and any readings, that what is
  admitted on a server fits into it beside what was promised before
  (`PromisesAreKept`). `CapacityInv` is inductive as it stands; the work is in the sums:
  a sum over a finite set does not depend on the order (`AnyFirst`), so a lease or
  claim that comes adds its share and one that goes takes it along (`TotalWith`), and
  rounding to tenths is worth half a tenth at most (`RoundedIs`, `RoomOfCores`);
- of the calls, for any number of calls and GPUs, that a call has one lease, its own,
  whatever is repeated, lost or answered late (`CallsGetTheirOwn`), and that a refused
  call holds nothing (`RefusalIsFinal`). `CallsInv` ties the three places together where
  a lease is known: the table, the record of the key and the answers on their way
  (`RecordsMatch`, `AnswersMatch`); that the attempts of a call wait in the order they
  were sent, so that the second one finds the record of the first (`AttemptsInOrder`);
  and that a refused call has nothing left in the queue (`RefusalsAreLast`).

Assumed: `ResourcesAssumption` (the bounds are positive naturals; there is a plan, and
sizes are pairs of naturals; leases and claims are finitely many; a grant of a call is told
from `None`).

Only model-checked, because liveness is outside the prover's reach: `CallsFinish`,
`DisabledKeepersEnd`, `WorkersYield`, `TasksEnd`, `RetriesFindTheJob`,
`PolledRowsCatchUp` and `TransfersGetAnOutcome`; and the four violations. Every other
property of a passing run is a theorem.

## 5. Where the code differs from its documentation

Each of the four is a violation run: TLC's counterexample is the shortest such history.

1. **An outage counts as idle time** (`IdleWindowIsObserved`). The docstring of
   `_reconcile_idle_lease` says an outage "can never accumulate into a reclaim",
   but nothing reconciles while the collector fails, and the first fresh
   observation after it finds the old `idle_since`. A move breaks the same promise:
   `reassign_lease_gpus` does not reset `idle_since`, and the new GPUs may have been
   busy a moment before the lease is reclaimed.
2. **An attestation may name a foreign process** (`ProofNamesWorker`). Between the
   identity check and the `nvidia-smi` query the worker may end and another
   program take the GPU; its PID is returned, and the broker adopts it as the keeper
   (`service.py:1857` compares it with the observation and with nothing else).
3. **A plain request races with a keeper start** (`StartsExcludeClaims`).
   `claim_request_now` takes all locks so that "a keeper start and an ordinary claim
   must not race" (`api.py:867`); `POST /api/v1/requests` takes none. The confirmation
   then refuses the GPU and the cleanup stops the worker, as `controller_live`
   confirms, but until then the new lease shares its GPU with a keeper.
4. **A restart may fail after the keepalive switch** (`RestartsSucceed`). The switch
   attaches an adapter to a row whose inventory entry names none; while any server
   has no owner, every start merges the inventory and raises
   `keepalive_adapter_required` for that row (`service.py:428-436`), against the
   comment that follows (`service.py:438-440`).

Met while modelling, and visible in the models, though no run is about them:

- After a start whose cleanup failed the worker may run on without an owner, the GPU
  then counts as busy, and the retry that the message of `api.py:541` announces does
  not come, since the planner starts only on GPUs without processes. A worker that
  its killed helper did not record keeps a disabled keeper's lease open, because every
  stop leaves that process alone. `WorkersAreAccounted` and `DisabledKeepersEnd` except
  exactly these.
- Releasing a lease leaves its idle warning open: only the blocking alert types are
  resolved (`service.py:875`).
- A renewal gives a routine lease, which has no end, one (`service.py:7625`), and
  doubles the length of any other each time.
- A move looks at no reservation, no maintenance window (`service.py:7881`) and not at
  the CPU and memory left on the new server (`service.py:7944`). `LeasesKeepClear` and
  `AdmittedFits` except moved leases.
- For a spread request the plan and the claim after it may choose different servers, so
  that a worker yields for nothing (`service.py:7125`). The claim may also be refused after
  workers have yielded, because the plan checks less than the claim and others act
  meanwhile (section 2.7), although the docstring of `reclaim_keepalive_for_claim` promises
  to make "only a fully matching, verified keeper placement claimable" (`api.py:740`).
- The search that is to find a job whose submission timed out "must also inspect sacct
  history" (`slurm.py:523-525`) but sees no job that ended before midnight: a retry on
  the next day may submit it twice, or never learn its outcome (section 2.4).
- Importing a known server again resets its keepalive policy to the default, off
  (`service.py:11095`), and leaves the tombstone of a deleted one; a merge at a start
  undoes edits of metadata.
- A job seen once in a raw state without a name is never asked about again
  (`service.py:10348`); `PolledRowsCatchUp` excepts it. A running upload that the command
  line has deferred overwrites `DEFERRED` when it ends (`cli.py:122`).
- When both answers of a call are lost, the lease stays with a call whose agent does
  not know it; a replayed answer may name a lease that has ended since. A repeated
  call that reclaims the same GPU again is answered from the record of the first stop
  (`api.py:820`), so it is refused although the worker has left.

## 6. Plan

Done: leases, observation, keepalive ownership, the helper, the orchestration,
the scheduler, the calendar, placement, capacity, plans, endpoints and routine calls.
What is left, in this order:

1. **Keepalive**: the reclaim for a move of a lease in `KeepaliveController`.
2. **Requests**: the `no_capacity` path of `RoutineCalls` over `KeepaliveController` instead
   of counted GPUs; `gpu_move` and `gpu_release`.
3. **Abstract specifications**: an atomic helper that `KeepaliveHelper` implements but for
   kills.

## 7. Not modelled

- *Snapshots, history, metrics, audit*: read-only or append-only; nothing decides on them.
- *Probe and output parsing*: pure functions of text; the models use what they guarantee,
  that an incomplete observation lists no GPU.
- *Database, migrations, configuration*: the serialized transaction is the atomicity of
  every action here; migrations run once, before anything else.
- *Daemon and command line*: installation and supervision; of the command line only the
  two commands that run `initialize` beside a broker are modelled
  (`SchedulerTransfers!CommandLine`), and of supervision that a broker is started again.
- *Web and desktop interfaces*: no state of authority.
- In the modelled parts: labels and health in admission; a change of the cores or the
  memory of a server; PIDs used again between an attestation and its confirmation;
  scheduler profiles, job payloads and the access status shown to users (written from
  the outcomes of commands, read by no decision but the flag `open`); a corrupt or
  legacy state file of the helper; the format checks of keepalive messages; an
  observation in flight for a server that is deleted and created again under its id.
