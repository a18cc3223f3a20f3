-------------------------- MODULE KeepaliveHelper --------------------------
(***************************************************************************)
(* The per-GPU keepalive helper that ServerPilot runs on a server over SSH *)
(* (src/serverpilot/server_keepalive.py): set_enabled and attest_workers   *)
(* of LocalKeepaliveController, TorchSubprocessProvider, and the worker's  *)
(* own start-up.                                                           *)
(*                                                                         *)
(* Every call is a process of its own.  Calls exclude each other by flock, *)
(* share the state file workers.v3.json, and act on workers that outlive   *)
(* them.  Processes end at any moment, PIDs are used again, a call may be  *)
(* killed between any two steps (the SSH connection is lost, the caller    *)
(* times out), and the server may reboot.                                  *)
(***************************************************************************)
EXTENDS Naturals, FiniteSets

CONSTANTS
    Gpu,            \* GPUs of the server
    Call,           \* invocations of the helper
    Pid,            \* process identifiers
    None,
    MaxTicks,       \* bound: processes started per boot
    MaxBoot,        \* bound: reboots
    MaxKills        \* bound: calls that are killed

Identity == [pid : Pid, boot : 0 .. MaxBoot, ticks : 0 .. MaxTicks]

ASSUME HelperAssumption ==
    /\ MaxTicks \in Nat /\ MaxBoot \in Nat /\ MaxKills \in Nat
    /\ None \notin Pid \cup Gpu \cup Call \cup Identity

VARIABLES
    boot,           \* Linux boot id
    clock,          \* start_time_ticks of the newest process of this boot
    proc,           \* the process table
    file,           \* workers.v3.json: GPU -> recorded identity
    lock,           \* holder of control.lock
    call,           \* state of each call
    kills

vars == <<boot, clock, proc, file, lock, call, kills>>

MaybeIdentity == Identity \cup {None}

\* A loading worker has not reported READY.  A zombie is an ended child that
\* its helper has not reaped: its PID is still taken.
Process == [kind   : {"free", "loading", "worker", "zombie", "foreign"},
            gpu    : Gpu \cup {None},
            ticks  : 0 .. MaxTicks,
            parent : Call \cup {None}]

CallRecord == [pc      : {"new", "locking", "checking", "opening", "rechecking",
                          "signalling", "forgetting", "querying",
                          "done", "failed", "killed"},
               op      : {"enable", "disable", "attest"},
               asked   : SUBSET Gpu,      \* the requested GPUs
               todo    : SUBSET Gpu,      \* not yet examined
               pending : SUBSET Gpu,      \* workers to start, not yet started or failed
               child   : [Gpu -> Pid \cup {None}],
               ids     : [Gpu -> MaybeIdentity],
               target  : Gpu \cup {None}, \* the GPU being stopped or attested
               pidfd   : MaybeIdentity,
               faults  : BOOLEAN,         \* some worker could not start
               proof   : [Gpu -> MaybeIdentity]]  \* attested driver processes

NoProcess == [kind |-> "free", gpu |-> None, ticks |-> 0, parent |-> None]

NoIdentities == [g \in Gpu |-> None]

NewCall == [pc |-> "new", op |-> "attest", asked |-> {}, todo |-> {}, pending |-> {},
            child |-> NoIdentities, ids |-> NoIdentities, target |-> None, pidfd |-> None,
            faults |-> FALSE, proof |-> NoIdentities]

Init ==
    /\ boot = 0 /\ clock = 0 /\ kills = 0
    /\ proc = [p \in Pid |-> NoProcess]
    /\ file = NoIdentities
    /\ lock = None
    /\ call = [c \in Call |-> NewCall]

-----------------------------------------------------------------------------

IdentityOf(p) == [pid |-> p, boot |-> boot, ticks |-> proc[p].ticks]

\* Defect: the boot id is not compared.
MatchesAnyBoot(i) ==
    /\ i # None
    /\ proc[i.pid].kind \in {"loading", "worker"} /\ proc[i.pid].ticks = i.ticks

\* _worker_process_matches: boot, start time and command line of the PID.  A
\* zombie has no command line, a foreign process not the worker's marker.
Matches(i) ==
    /\ i # None
    /\ i.boot = boot
    /\ proc[i.pid].kind \in {"loading", "worker"} /\ proc[i.pid].ticks = i.ticks

\* Processes that nvidia-smi lists on a GPU.
ComputeOn(g) == {p \in Pid : proc[p].gpu = g /\ proc[p].kind \in {"loading", "worker", "foreign"}}

Alive(c) == call[c].pc \notin {"new", "done", "failed", "killed"}

At(c, op, pc) == call[c].op = op /\ call[c].pc = pc

\* The ended children of a call that is gone are left to init.
Reaped(c) == [p \in Pid |-> IF proc[p].kind = "zombie" /\ proc[p].parent = c THEN NoProcess ELSE proc[p]]

\* Defect: a call that raises keeps the lock.
LeaveLocked(c, pc) ==
    /\ call' = [call EXCEPT ![c] = [NewCall EXCEPT !.pc = pc, !.proof = call[c].proof]]
    /\ lock' = IF lock = c /\ pc # "failed" THEN None ELSE lock
    /\ proc' = Reaped(c)

\* A call that returns, raises or is killed releases the lock.
Leave(c, pc) ==
    /\ call' = [call EXCEPT ![c] = [NewCall EXCEPT !.pc = pc, !.proof = call[c].proof]]
    /\ lock' = IF lock = c THEN None ELSE lock
    /\ proc' = Reaped(c)

-----------------------------------------------------------------------------
(* set_enabled and attest_workers, up to the lock *)

\* A request that passed validation: known, non-empty GPUs.
Request(c, op, gs) ==
    /\ call[c].pc = "new" /\ gs # {}
    /\ call' = [call EXCEPT ![c].pc = "locking", ![c].op = op, ![c].asked = gs, ![c].todo = gs]
    /\ UNCHANGED <<boot, clock, proc, file, lock, kills>>

\* Defect: the lock does not exclude.
EnterFreely(c) ==
    /\ call[c].pc = "locking"
    /\ call' = [call EXCEPT ![c].pc = "checking", ![c].ids = file]
    /\ UNCHANGED <<boot, clock, proc, file, lock, kills>>

\* flock, and _read_identities under it.
Lock(c) ==
    /\ call[c].pc = "locking" /\ lock = None
    /\ lock' = c
    /\ call' = [call EXCEPT ![c].pc = "checking", ![c].ids = file]
    /\ UNCHANGED <<boot, clock, proc, file, kills>>

\* The worker of a GPU is dropped from the identities, which are written.
Forgotten(c, g) == [call[c].ids EXCEPT ![g] = None]

-----------------------------------------------------------------------------
(* _enable *)

\* A recorded worker that runs is left alone; a stale record is dropped.
CheckRecorded(c, g) ==
    /\ At(c, "enable", "checking") /\ g \in call[c].todo
    /\ LET recorded == call[c].ids[g] IN
       /\ file' = IF recorded # None /\ ~Matches(recorded) THEN Forgotten(c, g) ELSE file
       /\ call' = [call EXCEPT ![c].todo = @ \ {g},
                               ![c].ids[g] = IF Matches(recorded) THEN @ ELSE None,
                               ![c].pending = IF Matches(recorded) THEN @ ELSE @ \cup {g}]
    /\ UNCHANGED <<boot, clock, proc, lock, kills>>

Starting(c) == At(c, "enable", "checking") /\ call[c].todo = {}

\* start, one thread per GPU: Popen ...
Spawn(c, g, p) ==
    /\ Starting(c) /\ g \in call[c].pending /\ call[c].child[g] = None
    /\ proc[p].kind = "free" /\ clock < MaxTicks
    /\ clock' = clock + 1
    /\ proc' = [proc EXCEPT ![p] = [kind |-> "loading", gpu |-> g, ticks |-> clock + 1, parent |-> c]]
    /\ call' = [call EXCEPT ![c].child[g] = p]
    /\ UNCHANGED <<boot, file, lock, kills>>

\* ... then, once READY arrives, the identity of the running child ...
Capture(c, g) ==
    /\ Starting(c) /\ g \in call[c].pending /\ call[c].child[g] # None
    /\ proc[call[c].child[g]].kind = "worker"
    /\ call' = [call EXCEPT ![c].pending = @ \ {g}, ![c].ids[g] = IdentityOf(call[c].child[g])]
    /\ UNCHANGED <<boot, clock, proc, file, lock, kills>>

\* ... or a failure: the spawn itself, a child that ends, no READY in time, no
\* identity.  The child is ended through its Popen handle.
StartFails(c, g) ==
    /\ Starting(c) /\ g \in call[c].pending
    /\ proc' = [p \in Pid |-> IF p = call[c].child[g] THEN NoProcess ELSE proc[p]]
    /\ call' = [call EXCEPT ![c].pending = @ \ {g}, ![c].child[g] = None, ![c].faults = TRUE]
    /\ UNCHANGED <<boot, clock, file, lock, kills>>

\* Defect: after a failure the workers that did start are not recorded.
RecordOnSuccess(c) ==
    /\ Starting(c) /\ call[c].pending = {}
    /\ file' = IF call[c].faults THEN file ELSE call[c].ids
    /\ Leave(c, IF call[c].faults THEN "failed" ELSE "done")
    /\ UNCHANGED <<boot, clock, kills>>

\* The workers that did start are recorded even when others failed.  (When
\* nothing had to be started the file says so already.)
Record(c) ==
    /\ Starting(c) /\ call[c].pending = {}
    /\ file' = call[c].ids
    /\ Leave(c, IF call[c].faults THEN "failed" ELSE "done")
    /\ UNCHANGED <<boot, clock, kills>>

-----------------------------------------------------------------------------
(* _disable, GPU after GPU, and stop *)

CheckStop(c, g) ==
    /\ At(c, "disable", "checking") /\ g \in call[c].todo
    /\ call' = [call EXCEPT ![c].todo = @ \ {g}, ![c].target = IF call[c].ids[g] = None THEN None ELSE g,
                            ![c].pc = IF call[c].ids[g] = None THEN "checking"
                                      ELSE IF Matches(call[c].ids[g]) THEN "opening"
                                      ELSE "forgetting"]
    /\ UNCHANGED <<boot, clock, proc, file, lock, kills>>

\* pidfd_open pins whatever process has the PID now.
OpenPidfd(c) ==
    /\ At(c, "disable", "opening")
    /\ LET p == call[c].ids[call[c].target].pid IN
       call' = IF proc[p].kind = "free"
               THEN [call EXCEPT ![c].pc = "forgetting"]
               ELSE [call EXCEPT ![c].pc = "rechecking", ![c].pidfd = IdentityOf(p)]
    /\ UNCHANGED <<boot, clock, proc, file, lock, kills>>

\* Defect: no second look at the process after its pidfd was opened.
RecheckNothing(c) ==
    /\ At(c, "disable", "rechecking")
    /\ call' = [call EXCEPT ![c].pc = "signalling"]
    /\ UNCHANGED <<boot, clock, proc, file, lock, kills>>

Recheck(c) ==
    /\ At(c, "disable", "rechecking")
    /\ call' = [call EXCEPT ![c].pc = IF Matches(call[c].ids[call[c].target])
                                      THEN "signalling" ELSE "forgetting"]
    /\ UNCHANGED <<boot, clock, proc, file, lock, kills>>

\* SIGTERM, then SIGKILL, to the pinned process, until it ends.
Signal(c) ==
    /\ At(c, "disable", "signalling")
    /\ LET i == call[c].pidfd IN
       proc' = IF proc[i.pid].kind # "free" /\ proc[i.pid].ticks = i.ticks
               THEN [proc EXCEPT ![i.pid] = NoProcess]
               ELSE proc
    /\ call' = [call EXCEPT ![c].pc = "forgetting"]
    /\ UNCHANGED <<boot, clock, file, lock, kills>>

\* The pidfd cannot be opened or signalled, or the process does not end.
StopFails(c) ==
    /\ At(c, "disable", "opening") \/ At(c, "disable", "signalling")
    /\ Leave(c, "failed")
    /\ UNCHANGED <<boot, clock, file, kills>>

Forget(c) ==
    /\ At(c, "disable", "forgetting")
    /\ file' = Forgotten(c, call[c].target)
    /\ call' = [call EXCEPT ![c].pc = "checking", ![c].ids = Forgotten(c, call[c].target),
                            ![c].target = None, ![c].pidfd = None]
    /\ UNCHANGED <<boot, clock, proc, lock, kills>>

AllStopped(c) ==
    /\ At(c, "disable", "checking") /\ call[c].todo = {}
    /\ Leave(c, "done")
    /\ UNCHANGED <<boot, clock, file, kills>>

-----------------------------------------------------------------------------
(* attest_workers *)

CheckAttested(c, g) ==
    /\ At(c, "attest", "checking") /\ g \in call[c].todo
    /\ Matches(call[c].ids[g])
    /\ call' = [call EXCEPT ![c].todo = @ \ {g}, ![c].target = g, ![c].pc = "querying"]
    /\ UNCHANGED <<boot, clock, proc, file, lock, kills>>

\* _resolve_keepalive_driver_pid: the one compute process on the GPU.
QueryDriver(c) ==
    /\ At(c, "attest", "querying")
    /\ \E p \in Pid :
          /\ ComputeOn(call[c].target) = {p}
          /\ call' = [call EXCEPT ![c].pc = "checking", ![c].target = None,
                                  ![c].proof[call[c].target] = IdentityOf(p)]
    /\ UNCHANGED <<boot, clock, proc, file, lock, kills>>

AttestFails(c) ==
    /\ \/ /\ At(c, "attest", "checking")
          /\ \E g \in call[c].todo : ~Matches(call[c].ids[g])
       \/ /\ At(c, "attest", "querying")
          /\ Cardinality(ComputeOn(call[c].target)) # 1
    /\ Leave(c, "failed")
    /\ UNCHANGED <<boot, clock, file, kills>>

AllAttested(c) ==
    /\ At(c, "attest", "checking") /\ call[c].todo = {}
    /\ Leave(c, "done")
    /\ UNCHANGED <<boot, clock, file, kills>>

-----------------------------------------------------------------------------
(* The server *)

\* _run_cuda_worker: the worker reserves its memory, which no two workers of
\* one GPU can, and reports READY to a helper that must still be there.
Ready(p) ==
    /\ proc[p].kind = "loading" /\ Alive(proc[p].parent)
    /\ \A q \in Pid : ~(proc[q].kind = "worker" /\ proc[q].gpu = proc[p].gpu)
    /\ proc' = [proc EXCEPT ![p].kind = "worker"]
    /\ UNCHANGED <<boot, clock, file, lock, call, kills>>

\* A process ends by itself; a loading worker without a helper always does.
Exit(p) ==
    /\ proc[p].kind \in {"loading", "worker", "foreign"}
    /\ proc' = [proc EXCEPT ![p] =
                  IF proc[p].parent # None /\ Alive(proc[p].parent)
                  THEN [@ EXCEPT !.kind = "zombie"] ELSE NoProcess]
    /\ UNCHANGED <<boot, clock, file, lock, call, kills>>

\* Some other program starts on a GPU, or on none.
Foreign(p, g) ==
    /\ proc[p].kind = "free" /\ clock < MaxTicks
    /\ clock' = clock + 1
    /\ proc' = [proc EXCEPT ![p] = [kind |-> "foreign", gpu |-> g, ticks |-> clock + 1, parent |-> None]]
    /\ UNCHANGED <<boot, file, lock, call, kills>>

\* The helper is killed, or an error of the file system ends it.
Kill(c) ==
    /\ Alive(c) /\ kills < MaxKills
    /\ kills' = kills + 1
    /\ Leave(c, "killed")
    /\ UNCHANGED <<boot, clock, file>>

Reboot ==
    /\ boot < MaxBoot
    /\ boot' = boot + 1 /\ clock' = 0 /\ lock' = None
    /\ proc' = [p \in Pid |-> NoProcess]
    /\ call' = [c \in Call |-> IF Alive(c) THEN [NewCall EXCEPT !.pc = "killed"] ELSE call[c]]
    /\ UNCHANGED <<file, kills>>

-----------------------------------------------------------------------------

\* What a call does on its own, once it was made.
CallStep(c) ==
    \/ Lock(c)
    \/ \E g \in Gpu : CheckRecorded(c, g) \/ Capture(c, g) \/ StartFails(c, g)
                      \/ CheckStop(c, g) \/ CheckAttested(c, g)
    \/ \E g \in Gpu, p \in Pid : Spawn(c, g, p)
    \/ Record(c)
    \/ OpenPidfd(c) \/ Recheck(c) \/ Signal(c) \/ StopFails(c) \/ Forget(c) \/ AllStopped(c)
    \/ QueryDriver(c) \/ AttestFails(c) \/ AllAttested(c)

ServerStep ==
    \/ \E p \in Pid : Ready(p) \/ Exit(p) \/ \E g \in Gpu \cup {None} : Foreign(p, g)
    \/ \E c \in Call : Kill(c)
    \/ Reboot

Next ==
    \/ \E c \in Call, op \in {"enable", "disable", "attest"}, gs \in SUBSET Gpu : Request(c, op, gs)
    \/ \E c \in Call : CallStep(c)
    \/ ServerStep

\* A call's own steps are never put off for ever: starts and stops have
\* timeouts, and flock wakes a waiter.
Spec == Init /\ [][Next]_vars /\ \A c \in Call : WF_vars(CallStep(c))

-----------------------------------------------------------------------------
(* Correctness *)

\* Every variable keeps its type, and a call is past the lock exactly while it
\* holds it.
TypeOK ==
    /\ boot \in 0 .. MaxBoot /\ clock \in 0 .. MaxTicks /\ kills \in 0 .. MaxKills
    /\ proc \in [Pid -> Process]
    /\ file \in [Gpu -> MaybeIdentity]
    /\ lock \in Call \cup {None}
    /\ call \in [Call -> CallRecord]
    /\ \A c \in Call : lock = c <=> call[c].pc \in {"checking", "opening", "rechecking",
                                                   "signalling", "forgetting", "querying"}

\* A record that matches a process matches the worker of that very GPU, through
\* PID reuse and reboots: stopping GPU A never stops GPU B.
RecordsOwnWorker ==
    \A g \in Gpu : Matches(file[g]) => proc[file[g].pid].gpu = g

\* Calls, processes and records have their types, and a record that names a
\* running process names the worker that was started for it, in spite of PIDs
\* used again and of reboots (_worker_process_matches).
RecordsAreRight == TypeOK /\ RecordsOwnWorker

\* A running worker is recorded, or its helper is still at work: only a helper
\* that is killed between READY and the write leaves an unrecorded worker.
NoUnrecordedWorker ==
    \A p \in Pid : proc[p].kind = "worker" =>
        \/ file[proc[p].gpu] = IdentityOf(p)
        \/ Alive(proc[p].parent)
        \/ call[proc[p].parent].pc = "killed"

\* No step of a helper ends a foreign process, or a worker that it neither
\* started itself nor was asked to stop.
OthersUntouched ==
    [][\A p \in Pid :
          /\ boot' = boot /\ call' # call
          /\ proc[p].kind = "foreign" \/ proc[p].kind = "worker"
          /\ proc'[p].kind = "free"
          => /\ proc[p].kind = "worker"
             /\ \E c \in Call : \/ call[c].op = "disable" /\ proc[p].gpu \in call[c].asked
                               \/ call[c].child[proc[p].gpu] = p]_vars

\* A stop that reports success leaves no worker on its GPUs, but for one that a
\* killed helper never recorded.
StopIsComplete ==
    [][\A c \in Call, p \in Pid :
          /\ Alive(c) /\ call[c].op = "disable" /\ call'[c].pc = "done"
          /\ proc[p].kind = "worker" /\ proc[p].gpu \in call[c].asked
          => call[proc[p].parent].pc = "killed"]_vars

\* No call waits for ever: the lock is released by whatever ends its holder.
CallsFinish == \A c \in Call : call[c].pc = "locking" ~> call[c].pc \in {"done", "failed", "killed"}

\* "A caller receives evidence for every requested UUID only if ... its exact
\* ... identity still matches a live process", "rather than adopting an
\* arbitrary CUDA PID" (attest_workers): a proof names a worker.
ProofNamesWorker ==
    \A c \in Call, g \in Gpu :
        /\ call[c].pc = "done" /\ call[c].proof[g] # None
        /\ call[c].proof[g].boot = boot
        /\ proc[call[c].proof[g].pid].ticks = call[c].proof[g].ticks
        => proc[call[c].proof[g].pid].kind # "foreign"

=============================================================================
