----------------------- MODULE KeepaliveWorkersProofs -----------------------
(* Proofs about KeepaliveController, for every number of servers, GPUs,    *)
(* tasks, workers and faults: no worker is lost, and no claim under the    *)
(* locks is granted a GPU with a worker.  A start confirms a worker on the *)
(* strength of an observation that may arrive late, after newer ones, or   *)
(* never; the invariant says what every observation on its way may still   *)
(* do to the broker's view of a GPU.                                       *)
EXTENDS KeepaliveControllerProofs

\* A worker of which somebody has to know.
Astray(g) == WorkerOn(g) /\ g \notin doubt

\* A keepalive lease holds the GPU.
Kept(g) == OwnedAs(lease, "keepalive", g)

\* The GPUs on which a task starts workers, or cleans up after it.
Aims(t) == IF task[t].work \in {"start", "cleanup"} THEN task[t].targets ELSE {}

\* The helper knows its workers.
Recorded == \A g \in Gpu : Astray(g) => real[g] \cap Worker \subseteq {helper[g]}

\* Observation x will have the broker believe that GPU g is empty.
Blind(x, g) ==
    /\ probe[x] # None /\ ServerOf(x) = HostOf[g]
    /\ ~probe[x].overtaken /\ probe[x].listed[g] = {}

\* The broker sees a process on g, and goes on seeing one.
Shown(g) == Seen(g) # {} /\ \A x \in Observer : ~Blind(x, g)

\* Observations of a server are ordered by the time they were made.
Ordered ==
    /\ \A t \in Task : probe[t] # None => At(t, "ingest")
    /\ \A x \in Observer : probe[x] # None =>
          /\ x \notin probe[x].earlier
          /\ \A y \in probe[x].earlier :
                /\ y \in Observer /\ probe[y] # None /\ ServerOf(y) = ServerOf(x)
                /\ probe[y].earlier \subseteq probe[x].earlier
                /\ probe[x].overtaken => probe[y].overtaken

\* Where the work of a start stands.
Placed(t) ==
    /\ At(t, "enable") => task[t].work = "start"
    /\ task[t].work = "start" => task[t].pc \in {"enable", "attest", "probe", "ingest", "settle"}
    /\ task[t].work = "cleanup" => task[t].pc \in {"disable", "probe", "ingest", "settle"}
    /\ task[t].work \in {"start", "cleanup"} =>
          t \in Reconciler /\ task[t].targets \subseteq GpusOf(task[t].host)

\* The observation that a start has made shows the worker, or a newer one has.
Fetched(t, g) ==
    IF probe[t].overtaken
    THEN Shown(g)
    ELSE probe[t].listed[g] # {} /\ \A x \in Observer : Blind(x, g) => x \in probe[t].earlier

\* What a start may rely on of a worker on one of its GPUs.
Fits(t, g) ==
    g \in Aims(t) /\ Astray(g) =>
        /\ IF task[t].work = "start" THEN ~At(t, "enable") ELSE At(t, "disable")
        /\ At(t, "ingest") => Fetched(t, g)
        /\ At(t, "settle") => Shown(g)

Settled == \A g \in Gpu : Astray(g) /\ ~Starting(g) => Kept(g) /\ Shown(g)

\* The inductive invariant, on top of CInv.
WInv ==
    /\ Recorded /\ Ordered /\ Settled
    /\ \A t \in Task : Placed(t)
    /\ \A t \in Task, g \in Gpu : Fits(t, g)

-----------------------------------------------------------------------------
(* One task per GPU *)

LEMMA StartingAims ==
  ASSUME NEW g
  PROVE  Starting(g) <=> \E t \in Task : g \in Aims(t)
  BY DEF Starting, Aims

LEMMA AimsAt ==
  ASSUME TasksSound, NEW t \in Task, Placed(t), NEW g \in Aims(t)
  PROVE  /\ g \in Gpu /\ HostOf[g] = task[t].host /\ HostOf[g] \in Endpoint
         /\ t \in Reconciler /\ task[t].pc \notin {"idle", "waiting"}
         /\ holder[HostOf[g]] = t
  <1>1. /\ task[t].work \in {"start", "cleanup"} /\ g \in GpusOf(task[t].host) /\ t \in Reconciler
    BY DEF Aims, Placed
  <1>2. task[t].pc \notin {"idle", "waiting"}
    BY <1>1 DEF Placed
  <1> QED
    BY <1>1, <1>2, HostAssumption, Names DEF GpusOf, TasksSound, Locked

LEMMA OneAims ==
  ASSUME TasksSound, NEW t \in Task, NEW u \in Task, Placed(t), Placed(u),
         NEW g, g \in Aims(t), g \in Aims(u)
  PROVE  t = u
  BY AimsAt

-----------------------------------------------------------------------------
(* What a step must show *)

\* Tasks in T move, the others stay.
LEMMA Frame ==
  ASSUME TasksSound, WInv, NEW T \in SUBSET Task, \A u \in Task \ T : task'[u] = task[u],
         Recorded', Ordered',
         \A g \in Gpu : Astray(g)' => Astray(g) \/ \E t \in T : g \in Aims(t) /\ At(t, "enable"),
         \A g \in Gpu : Astray(g) /\ Astray(g)' /\ Shown(g) => Shown(g)',
         \A g \in Gpu : Kept(g) /\ Shown(g) /\ Shown(g)' => Kept(g)',
         \A u \in Task \ T, g \in Gpu :
            g \in Aims(u) /\ Astray(g) /\ Astray(g)' /\ Fits(u, g) => Fits(u, g)',
         \A t \in T : Placed(t)' /\ \A g \in Gpu : Fits(t, g)',
         \A t \in T, g \in Gpu : g \in Aims(t) /\ g \notin Aims(t)' /\ Astray(g)' => Kept(g)' /\ Shown(g)'
  PROVE  WInv'
  <1>1. \A u \in Task \ T : Aims(u)' = Aims(u) /\ Placed(u)'
    BY DEF Aims, Placed, At, WInv
  <1>2. ASSUME NEW u \in Task, NEW g \in Gpu
        PROVE  Fits(u, g)'
    <2>1. CASE u \in T
      BY <2>1
    <2>2. CASE u \notin T /\ g \in Aims(u) /\ Astray(g)'
      <3>1. Astray(g)
        BY <2>2, OneAims DEF WInv
      <3> QED
        BY <2>2, <3>1 DEF WInv
    <2>3. CASE u \notin T /\ ~(g \in Aims(u) /\ Astray(g)')
      BY <1>1, <2>3 DEF Fits
    <2> QED
      BY <2>1, <2>2, <2>3
  <1>3. ASSUME NEW g \in Gpu, Astray(g)', ~Starting(g)'
        PROVE  Kept(g)' /\ Shown(g)'
    <2>1. \A t \in Task : g \notin Aims(t)'
      BY <1>3, StartingAims DEF Starting, Aims
    <2>2. CASE \E t \in T : g \in Aims(t)
      BY <1>3, <2>1, <2>2
    <2>3. CASE \A t \in T : g \notin Aims(t)
      <3>1. Astray(g) /\ ~Starting(g)
        BY <1>1, <1>3, <2>1, <2>3, StartingAims
      <3> QED
        BY <1>3, <3>1 DEF WInv, Settled
    <2> QED
      BY <2>2, <2>3
  <1> QED
    BY <1>1, <1>2, <1>3 DEF WInv, Settled

\* The broker sees what it saw, and the observations on their way are the same.
LEMMA SameView ==
  ASSUME UNCHANGED <<now, device, rows, probe>>, Ordered,
         NEW T \in SUBSET Task, \A u \in Task \ T : task'[u] = task[u],
         \A t \in T : probe[t] = None
  PROVE  /\ Ordered'
         /\ \A g : Shown(g)' <=> Shown(g)
         /\ \A u \in Task \ T, g \in Gpu : Fits(u, g) /\ (Astray(g)' => Astray(g)) => Fits(u, g)'
  <1>1. \A x \in Observer : probe[x] # None => ServerOf(x)' = ServerOf(x)
    BY Names DEF ServerOf, Observer
  <1>2. \A x \in Observer : \A g : Blind(x, g)' <=> Blind(x, g)
    BY <1>1 DEF Blind
  <1>3. \A g : Seen(g)' = Seen(g)
    BY DEF Seen, Current, Recent
  <1>4. \A g : Shown(g)' <=> Shown(g)
    BY <1>2, <1>3 DEF Shown
  <1>5. Ordered'
    BY <1>1 DEF Ordered, At
  <1>6. ASSUME NEW u \in Task \ T, NEW g \in Gpu, Fits(u, g), Astray(g)' => Astray(g)
        PROVE  Fits(u, g)'
    <2>1. Aims(u)' = Aims(u) /\ task'[u] = task[u]
      BY DEF Aims
    <2>2. Fetched(u, g)' <=> Fetched(u, g)
      BY <1>2, <1>4 DEF Fetched
    <2> QED
      BY <1>4, <1>6, <2>1, <2>2 DEF Fits, At
  <1> QED
    BY <1>4, <1>5, <1>6

-----------------------------------------------------------------------------
(* The broker's side *)

LEMMA SeenWasListed ==
  ASSUME NEW g, Seen(g) # {}
  PROVE  LastListed(g) # {}
  BY DEF Seen, Current, Recent, LastListed

\* A keeper keeps its GPU as long as the newest observation lists a process.
LEMMA OwnershipKept ==
  ASSUME IInv, IInv', [Next]_vars, NEW g \in Gpu, Kept(g), LastListed(g)' # {}
  PROVE  Kept(g)'
  <1>1. PICK l \in Lease : lease[l].kind = "keepalive" /\ g \in lease[l].gpus
    BY DEF Kept, OwnedAs
  <1>2. lease[l].state \in ActiveLeaseStates /\ lease[l].state # "unissued" /\ lease[l].kind # "workload"
    BY <1>1 DEF IInv, OwnsWhileOpen, ActiveLeaseStates
  <1>3. lease'[l].kind = "keepalive" /\ g \in lease'[l].gpus
    <2>1. CASE lease'[l] = lease[l]
      BY <1>1, <2>1
    <2>2. CASE EndedEmpty(l)
      BY <1>1, <2>2 DEF EndedEmpty, LastListed
    <2>3. CASE Rewritten(l)
      <3>1. PICK r : /\ Sound(r) /\ Shrinks(lease[l], r)
                     /\ lease'[l] = ReconciledLease(r, device', rows')
                     /\ r = lease[l] \/ \A h \in lease[l].gpus : device'[h].status # "present"
        BY <1>2, <2>3 DEF Rewritten
      <3>2. r = lease[l]
        BY <1>1, <3>1 DEF IInv, EvidenceIsCoherent
      <3>3. now \in Time
        BY DEF IInv, TypeOK
      <3> HIDE DEF IInv
      <3>4. Shrinks(r, lease'[l]) /\ lease'[l].gpus = r.gpus
        BY <1>1, <3>1, <3>2, <3>3, ReconciledLeaseSound
      <3> QED
        BY <1>1, <3>2, <3>4 DEF Shrinks
    <2> QED
      BY <1>2, <2>1, <2>2, <2>3, EveryRowStep DEF RowStep, Claimed, Worked, Activated
  <1> QED
    BY <1>3 DEF Kept, OwnedAs

\* What an observation has the broker see.
LEMMA IngestView ==
  ASSUME IInv, NEW e \in Endpoint, NEW listed \in [Gpu -> SUBSET Proc],
         Ingest(e, now, TRUE, GpusOf(e), listed)
  PROVE  /\ now' = now
         /\ \A g \in Gpu : Seen(g)' = IF HostOf[g] = e THEN listed[g] ELSE Seen(g)
  <1>1. /\ now' = now /\ device' = DeviceAfter(e, now, TRUE, GpusOf(e))
        /\ rows' = RowsAfter(e, TRUE, listed)
    BY DEF Ingest, Tables
  <1>2. now \in Nat /\ Stale \in Nat /\ now # None
    BY TimeFacts, TimeAssumption, NoneAssumption DEF IInv, TypeOK
  <1>3. ASSUME NEW g \in Gpu, HostOf[g] = e
        PROVE  Seen(g)' = listed[g]
    <2>1. g \in GpusOf(e)
      BY <1>3 DEF GpusOf
    <2>2. device'[g].status = "present"
      BY <1>1, <2>1 DEF DeviceAfter
    <2>3. rows'[g] = [p \in Proc |-> IF p \in listed[g] THEN now ELSE None]
      BY <1>1, <2>1 DEF RowsAfter
    <2>4. ASSUME NEW p \in Proc
          PROVE  Recent(rows[g][p])' <=> p \in listed[g]
      <3>1. rows'[g][p] = IF p \in listed[g] THEN now ELSE None
        BY <2>3
      <3>2. now <= now + Stale /\ now # None
        BY <1>2
      <3>3. CASE p \in listed[g]
        BY <1>1, <3>1, <3>2, <3>3 DEF Recent
      <3>4. CASE p \notin listed[g]
        BY <3>1, <3>4 DEF Recent
      <3> QED
        BY <3>3, <3>4
    <2>5. Current(rows, g)' = listed[g]
      BY <2>4 DEF Current
    <2> QED
      BY <2>2, <2>5 DEF Seen
  <1>4. ASSUME NEW g \in Gpu, HostOf[g] # e
        PROVE  Seen(g)' = Seen(g)
    <2>1. g \notin GpusOf(e)
      BY <1>4 DEF GpusOf
    <2>2. device'[g] = device[g] /\ rows'[g] = rows[g]
      BY <1>1, <2>1 DEF DeviceAfter, RowsAfter
    <2> QED
      BY <1>1, <2>2 DEF Seen, Current, Recent
  <1> QED
    BY <1>1, <1>3, <1>4

-----------------------------------------------------------------------------
(* Steps that leave the observations alone *)

\* The broker sees what it saw, and a GPU loses no keeper but when it is empty.
SameBroker ==
    /\ UNCHANGED <<now, device, rows>>
    /\ \A g \in Gpu : Kept(g) /\ Shown(g) => Kept(g)'

\* No worker goes astray.
NoneAstray == Recorded' /\ \A g \in Gpu : Astray(g)' => Astray(g)

\* A record with which a task starts no worker and cleans up after none.
Quiet(r) == r.work \notin {"start", "cleanup"} /\ r.pc # "enable"

LEMMA QuietAims ==
  ASSUME NEW t \in Task
  PROVE  Quiet(task[t]) => Aims(t) = {} /\ Placed(t) /\ \A g : Fits(t, g)
  BY DEF Quiet, Aims, Placed, Fits, At

\* No task moves.
LEMMA StillStep ==
  ASSUME TasksSound, WInv, UNCHANGED <<task, probe>>, SameBroker, NoneAstray
  PROVE  WInv'
  <1>1. UNCHANGED <<now, device, rows, probe>> /\ Ordered /\ {} \in SUBSET Task
        /\ \A u \in Task \ {} : task'[u] = task[u]
    BY DEF SameBroker, WInv
  <1>2. /\ Ordered'
        /\ \A g : Shown(g)' <=> Shown(g)
        /\ \A u \in Task \ {}, g \in Gpu : Fits(u, g) /\ (Astray(g)' => Astray(g)) => Fits(u, g)'
    <2> HIDE DEF Ordered
    <2> QED
      BY <1>1, SameView
  <1> QED
    BY <1>1, <1>2, Frame DEF SameBroker, NoneAstray

\* What a task that moves has to show: the workers it gives up on have a keeper.
LEMMA TaskMoves ==
  ASSUME TasksSound, WInv, NEW t \in Task, NEW r, Become(t, r), ~At(t, "ingest"),
         UNCHANGED probe, SameBroker, Recorded',
         \A g \in Gpu : Astray(g)' => Astray(g) \/ (g \in Aims(t) /\ At(t, "enable")),
         Placed(t)', \A g \in Gpu : Fits(t, g)',
         \A g \in Gpu : g \in Aims(t) /\ g \notin Aims(t)' /\ Astray(g)' => Kept(g)' /\ Shown(g)
  PROVE  WInv'
  <1>1. /\ UNCHANGED <<now, device, rows, probe>> /\ Ordered /\ {t} \in SUBSET Task
        /\ \A u \in Task \ {t} : task'[u] = task[u]
    BY DEF SameBroker, WInv, Become, TasksSound
  <1>2. \A u \in {t} : probe[u] = None
    BY <1>1 DEF Ordered
  <1>3. /\ Ordered'
        /\ \A g : Shown(g)' <=> Shown(g)
        /\ \A u \in Task \ {t}, g \in Gpu : Fits(u, g) /\ (Astray(g)' => Astray(g)) => Fits(u, g)'
    BY <1>1, <1>2, SameView
  <1> QED
    BY <1>1, <1>3, Frame DEF SameBroker

\* A task goes quiet.
LEMMA GoesQuiet ==
  ASSUME TasksSound, WInv, NEW t \in Task, NEW r, Quiet(r), Become(t, r), ~At(t, "ingest"),
         UNCHANGED probe, SameBroker, NoneAstray,
         \A g \in Aims(t) : Astray(g)' => Kept(g)' /\ Shown(g)
  PROVE  WInv'
  <1>1. task'[t] = r
    BY DEF Become, TasksSound
  <1>2. Aims(t)' = {} /\ Placed(t)' /\ \A g : Fits(t, g)'
    BY <1>1 DEF Quiet, Aims, Placed, Fits, At
  <1> QED
    BY <1>2, TaskMoves DEF NoneAstray

\* A task that is quiet stays so.
LEMMA StaysQuiet ==
  ASSUME TasksSound, WInv, NEW t \in Task, Quiet(task[t]), NEW r, Quiet(r), Become(t, r),
         ~At(t, "ingest"), UNCHANGED probe, SameBroker, NoneAstray
  PROVE  WInv'
  BY QuietAims, GoesQuiet

\* Where a task goes when a plan goes on.
LEMMA ContinueQuiet ==
  ASSUME NEW t \in Task, NEW r, TaskSound(t, r), Continue(t, r), t \in Reconciler \/ Quiet(r)
  PROVE  \E s : Quiet(s) /\ Become(t, s)
  <1>1. r \in TaskRecord
    BY DEF TaskSound
  <1>2. CASE r.recovers # {}
    <2> DEFINE s == [r EXCEPT !.pc = "attest", !.work = "recover", !.targets = r.recovers,
                              !.recovers = {}]
    <2>1. Quiet(s) /\ Become(t, s)
      BY <1>1, <1>2 DEF Continue, Quiet, TaskRecord
    <2> QED
      BY <2>1
  <1>3. CASE r.recovers = {} /\ r.stops # {}
    <2> DEFINE here == {g \in r.stops : HostOf[g] = r.host}
               s(g) == [r EXCEPT !.pc = "disable", !.work = "stop", !.targets = {g},
                                 !.stops = @ \ {g}, !.failed = FALSE]
               p(g) == [r EXCEPT !.pc = "prepare", !.host = HostOf[g]]
    <2>1. PICK g \in r.stops : \/ Become(t, s(g))
                               \/ here = {} /\ Become(t, p(g))
      BY <1>3 DEF Continue
    <2>2. Quiet(s(g))
      BY <1>1 DEF Quiet, TaskRecord
    <2>3. CASE here = {} /\ Become(t, p(g))
      <3>1. Quiet(r)
        BY <2>3 DEF TaskSound, GpusOf
      <3>2. Quiet(p(g))
        BY <1>1, <3>1 DEF Quiet, TaskRecord
      <3> QED
        BY <2>3, <3>2
    <2> QED
      BY <2>1, <2>2, <2>3
  <1>4. CASE r.recovers = {} /\ r.stops = {} /\ t \in Claimer
    <2> DEFINE s == [r EXCEPT !.pc = "claim", !.work = "none", !.targets = {}]
    <2>1. Quiet(s) /\ Become(t, s)
      BY <1>1, <1>4 DEF Continue, Quiet, TaskRecord
    <2> QED
      BY <2>1
  <1>5. CASE r.recovers = {} /\ r.stops = {} /\ t \notin Claimer
    BY <1>5 DEF Continue, Ends, Quiet, Idle
  <1> QED
    BY <1>2, <1>3, <1>4, <1>5

\* Where a task goes when something fails that was not a start.
LEMMA FailsQuiet ==
  ASSUME NEW t \in Task, NEW r, TaskSound(t, r), Fails(t, r), r.work # "start"
  PROVE  \E s : Quiet(s) /\ Become(t, s)
  <1>1. Quiet(Idle)
    BY DEF Quiet, Idle
  <1> QED
    BY <1>1, ContinueQuiet DEF Fails, Ends

\* A failed start is cleaned up.
LEMMA FailsToCleanup ==
  ASSUME TasksSound, WInv, NEW t \in Task, NEW r, Placed(t), task[t].work = "start",
         r \in TaskRecord, r.work = "start", r.targets = task[t].targets, r.host = task[t].host,
         Fails(t, r)
  PROVE  /\ \E s : Become(t, s)
         /\ Aims(t)' = Aims(t) /\ Placed(t)' /\ \A g : Fits(t, g)'
  <1> DEFINE s == [r EXCEPT !.pc = "disable", !.work = "cleanup"]
  <1>1. Become(t, s)
    BY DEF Fails
  <1>2. /\ task'[t].pc = "disable" /\ task'[t].work = "cleanup" /\ task'[t].targets = task[t].targets
        /\ task'[t].host = task[t].host
    BY <1>1 DEF Become, TasksSound, TaskRecord
  <1> QED
    BY <1>1, <1>2 DEF Aims, Placed, Fits, At

-----------------------------------------------------------------------------
(* The servers *)

LEMMA SameVars ==
  ASSUME UNCHANGED vars
  PROVE  SameBroker
  BY DEF vars, SameBroker, Kept, OwnedAs

LEMMA SameServers ==
  ASSUME WInv, UNCHANGED <<real, helper>>, doubt \subseteq doubt'
  PROVE  NoneAstray
  BY DEF NoneAstray, WInv, Recorded, Astray, WorkerOn

\* A helper that is not killed knows the workers it has started.
LEMMA StartedWorkers ==
  ASSUME WorldSound, WInv, NEW gs \in SUBSET Gpu, Started(gs, Gpu), UNCHANGED doubt
  PROVE  /\ Recorded'
         /\ \A g \in Gpu : Astray(g)' => Astray(g) \/ g \in gs
  <1>1. PICK new \in [Missing(gs) -> Worker] :
          /\ real' = [g \in Gpu |-> IF g \in Missing(gs) THEN real[g] \cup {new[g]} ELSE real[g]]
          /\ helper' = [g \in Gpu |-> IF g \in Missing(gs) \cap Gpu THEN new[g] ELSE helper[g]]
    BY DEF Started
  <1>2. ASSUME NEW g \in Gpu, g \in Missing(gs)
        PROVE  g \in gs /\ real'[g] \cap Worker \subseteq {helper'[g]}
    BY <1>1, <1>2 DEF Started, Startable, Missing
  <1>3. ASSUME NEW g \in Gpu, g \notin Missing(gs)
        PROVE  real'[g] = real[g] /\ helper'[g] = helper[g]
    BY <1>1, <1>3
  <1> QED
    BY <1>2, <1>3 DEF WInv, Recorded, Astray, WorkerOn

\* A command to stop leaves no worker that the helper knows.
LEMMA StoppedWorkers ==
  ASSUME WInv, NEW gs, Stopped(gs), doubt \subseteq doubt'
  PROVE  NoneAstray /\ \A g \in Gpu \cap gs : ~Astray(g)'
  <1>1. ASSUME NEW g \in Gpu
        PROVE  IF g \in gs THEN real'[g] = real[g] \ {helper[g]}
                           ELSE real'[g] = real[g] /\ helper'[g] = helper[g]
    BY DEF Stopped
  <1> QED
    BY <1>1 DEF NoneAstray, WInv, Recorded, Astray, WorkerOn

-----------------------------------------------------------------------------
(* The steps of tasks *)

\* A task at work on its server, as both invariants see it.
LEMMA AtPhase ==
  ASSUME CInv, WInv, NEW t \in Task, NEW pc \in Working, At(t, pc)
  PROVE  /\ TasksSound /\ WorldSound /\ IInv /\ TaskSound(t, task[t]) /\ task[t] \in TaskRecord
         /\ task[t].targets \in SUBSET Gpu /\ Placed(t) /\ task[t].pc = pc
         /\ Quiet(task[t]) \/ (Aims(t) = task[t].targets /\ t \in Reconciler
                               /\ task[t].targets \subseteq GpusOf(task[t].host))
         /\ \A g \in Gpu : Fits(t, g)
  <1>1. Placed(t) /\ \A g \in Gpu : Fits(t, g)
    BY DEF WInv
  <1>2. IInv
    BY DEF CInv
  <1> HIDE DEF WInv
  <1> QED
    BY <1>1, <1>2, AtWork DEF Quiet, Aims, Placed, At

LEMMA EnableWorkers ==
  ASSUME CInv, WInv, NEW t \in Task,
         EnableDone(t) \/ EnableFails(t) \/ EnableRefused(t) \/ EnableLost(t)
  PROVE  WInv'
  <1>0. At(t, "enable") /\ "enable" \in Working /\ UNCHANGED probe /\ UNCHANGED vars
        /\ UNCHANGED doubt /\ ~At(t, "ingest")
    BY DEF EnableDone, EnableFails, EnableRefused, EnableLost, Working, Answered, At
  <1>1. /\ TasksSound /\ WorldSound /\ TaskSound(t, task[t]) /\ task[t] \in TaskRecord
        /\ task[t].targets \in SUBSET Gpu /\ Placed(t)
        /\ Aims(t) = task[t].targets /\ t \in Reconciler /\ task[t].work = "start"
        /\ task[t].targets \subseteq GpusOf(task[t].host)
        /\ \A g \in Gpu : Fits(t, g)
        /\ SameBroker
    BY <1>0, AtPhase, SameVars DEF Placed, Aims
  <1>2. CASE EnableDone(t)
    <2> DEFINE r == [task[t] EXCEPT !.pc = "attest"]
    <2>1. Become(t, r) /\ Started(task[t].targets, Gpu)
      BY <1>2 DEF EnableDone, Answered
    <2>2. /\ task'[t].pc = "attest" /\ task'[t].work = "start"
          /\ task'[t].targets = task[t].targets /\ task'[t].host = task[t].host
      BY <1>1, <2>1 DEF Become, TasksSound, TaskRecord
    <2>3. Aims(t)' = Aims(t) /\ Placed(t)' /\ \A g : Fits(t, g)'
      BY <1>1, <2>2 DEF Aims, Placed, Fits, At
    <2>4. Recorded' /\ \A g \in Gpu : Astray(g)' => Astray(g) \/ g \in Aims(t)
      BY <1>0, <1>1, <2>1, StartedWorkers
    <2> HIDE DEF r
    <2> QED
      BY <1>0, <1>1, <2>1, <2>3, <2>4, TaskMoves
  <1>3. CASE EnableFails(t) \/ EnableLost(t)
    <2>1. Fails(t, task[t])
      BY <1>3 DEF EnableFails, EnableLost
    <2>2. /\ \E s : Become(t, s)
          /\ Aims(t)' = Aims(t) /\ Placed(t)' /\ \A g : Fits(t, g)'
      BY <1>1, <2>1, FailsToCleanup
    <2>3. Recorded' /\ \A g \in Gpu : Astray(g)' => Astray(g) \/ g \in Aims(t)
      <3>1. CASE EnableFails(t)
        <4>1. PICK gs \in SUBSET task[t].targets : Started(gs, Gpu)
          BY <3>1 DEF EnableFails
        <4> QED
          BY <1>0, <1>1, <4>1, StartedWorkers
      <3>2. CASE EnableLost(t)
        BY <1>0, <3>2, SameServers DEF EnableLost, Lost, NoneAstray
      <3> QED
        BY <1>3, <3>1, <3>2
    <2> QED
      BY <1>0, <1>1, <2>2, <2>3, TaskMoves
  <1>4. CASE EnableRefused(t)
    <2> DEFINE r == [task[t] EXCEPT !.pc = "probe", !.work = "cleanup"]
    <2>1. Become(t, r) /\ UNCHANGED servers
      BY <1>4 DEF EnableRefused
    <2>2. /\ task'[t].pc = "probe" /\ task'[t].work = "cleanup"
          /\ task'[t].targets = task[t].targets /\ task'[t].host = task[t].host
      BY <1>1, <2>1 DEF Become, TasksSound, TaskRecord
    <2>3. NoneAstray
      BY <1>0, <2>1, SameServers DEF servers
    <2>4. Aims(t)' = Aims(t) /\ Placed(t)'
      BY <1>1, <2>2 DEF Aims, Placed, At
    <2>5. \A g \in Gpu : Fits(t, g)'
      BY <1>0, <1>1, <2>3, <2>4 DEF Fits, NoneAstray
    <2> HIDE DEF r
    <2> QED
      BY <1>0, <1>1, <2>1, <2>3, <2>4, <2>5, TaskMoves DEF NoneAstray
  <1> QED
    BY <1>2, <1>3, <1>4

LEMMA DisableWorkers ==
  ASSUME CInv, WInv, NEW t \in Task, DisableDone(t) \/ DisableFails(t)
  PROVE  WInv'
  <1>0. At(t, "disable") /\ "disable" \in Working /\ UNCHANGED probe /\ UNCHANGED vars
        /\ ~At(t, "ingest") /\ doubt \subseteq doubt'
    BY DEF DisableDone, DisableFails, Working, Answered, At
  <1>1. /\ TasksSound /\ TaskSound(t, task[t]) /\ task[t] \in TaskRecord
        /\ task[t].targets \in SUBSET Gpu /\ Placed(t)
        /\ Quiet(task[t]) \/ (Aims(t) = task[t].targets /\ task[t].work = "cleanup")
        /\ SameBroker
    BY <1>0, AtPhase, SameVars DEF Placed, At, Quiet
  <1>2. NoneAstray /\ \A g \in Aims(t) : g \in Gpu => ~Astray(g)'
    <2>1. CASE DisableDone(t)
      BY <1>0, <1>1, <2>1, StoppedWorkers, QuietAims DEF DisableDone
    <2>2. CASE DisableFails(t)
      <3>1. NoneAstray
        <4>1. CASE \E gs : Stopped(gs)
          BY <1>0, <4>1, StoppedWorkers
        <4>2. CASE Lost(t, FALSE)
          BY <1>0, <4>2, SameServers DEF Lost
        <4> QED
          BY <2>2, <4>1, <4>2 DEF DisableFails
      <3>2. \A g \in Aims(t) : g \in doubt'
        BY <1>1, <2>2, QuietAims DEF DisableFails
      <3> QED
        BY <3>1, <3>2 DEF Astray
    <2> QED
      BY <2>1, <2>2
  <1> DEFINE r(failed) == [task[t] EXCEPT !.pc = "probe", !.failed = failed]
  <1>3. PICK failed \in BOOLEAN : Become(t, r(failed))
    BY DEF DisableDone, DisableFails, Answered
  <1>4. /\ r(failed).pc = "probe" /\ r(failed).work = task[t].work
        /\ r(failed).targets = task[t].targets /\ r(failed).host = task[t].host
        /\ task'[t] = r(failed)
    BY <1>1, <1>3 DEF Become, TasksSound, TaskRecord
  <1> HIDE DEF r
  <1>5. CASE Quiet(task[t])
    <2>1. Quiet(r(failed))
      BY <1>4, <1>5 DEF Quiet
    <2> QED
      BY <1>0, <1>1, <1>2, <1>3, <1>5, <2>1, StaysQuiet
  <1>6. CASE Aims(t) = task[t].targets /\ task[t].work = "cleanup"
    <2>1. Aims(t)' = Aims(t) /\ Placed(t)'
      BY <1>1, <1>4, <1>6 DEF Aims, Placed, At
    <2>2. \A g \in Gpu : Fits(t, g)'
      BY <1>2, <2>1 DEF Fits
    <2> QED
      BY <1>0, <1>1, <1>2, <1>3, <2>1, <2>2, TaskMoves DEF NoneAstray
  <1> QED
    BY <1>1, <1>5, <1>6

LEMMA AttestWorkers ==
  ASSUME CInv, WInv, NEW t \in Task, LookAtWorker(t) \/ ResolveDriver(t) \/ AttestFails(t)
  PROVE  WInv'
  <1>0. At(t, "attest") /\ "attest" \in Working /\ UNCHANGED probe /\ UNCHANGED vars
        /\ UNCHANGED <<servers, doubt>> /\ ~At(t, "ingest") /\ ~At(t, "enable")
    BY DEF LookAtWorker, ResolveDriver, AttestFails, Working, At
  <1>1. /\ TasksSound /\ TaskSound(t, task[t]) /\ task[t] \in TaskRecord
        /\ Placed(t) /\ (Quiet(task[t]) \/ task[t].work = "start")
        /\ SameBroker /\ NoneAstray
    BY <1>0, AtPhase, SameVars, SameServers DEF Placed, At, Quiet, servers
  <1>2. CASE LookAtWorker(t) \/ ResolveDriver(t)
    <2>1. PICK r : Asks(t, r) /\ r.pc \in {"attest", "probe"}
      BY <1>1, <1>2, Looks, Resolves
    <2>2. /\ Become(t, r) /\ r.work = task[t].work
          /\ r.targets = task[t].targets /\ r.host = task[t].host /\ task'[t] = r
      BY <1>1, <2>1 DEF Asks, Become, TasksSound
    <2>3. CASE Quiet(task[t])
      BY <1>0, <1>1, <2>1, <2>2, <2>3, StaysQuiet DEF Quiet
    <2>4. CASE task[t].work = "start"
      <3>1. Aims(t)' = Aims(t) /\ Placed(t)' /\ \A g \in Gpu : Fits(t, g)'
        BY <1>1, <2>1, <2>2, <2>4 DEF Aims, Placed, At, Fits
      <3> QED
        BY <1>0, <1>1, <2>2, <3>1, TaskMoves DEF NoneAstray
    <2> QED
      BY <1>1, <2>3, <2>4
  <1>3. CASE AttestFails(t)
    <2>1. PICK r \in TaskRecord :
             /\ Fails(t, r) /\ r.pc = "attest" /\ r.host = task[t].host
             /\ r.work = task[t].work /\ r.targets = task[t].targets
             /\ r.recovers = task[t].recovers /\ r.stops = task[t].stops
      BY <1>1, <1>3, GivesUp
    <2>2. CASE task[t].work = "start"
      BY <1>0, <1>1, <2>1, <2>2, FailsToCleanup, TaskMoves DEF NoneAstray
    <2>3. CASE task[t].work # "start"
      <3>1. TaskSound(t, r)
        BY <1>0, <1>1, <2>1 DEF TaskSound, At
      <3>2. PICK s : Quiet(s) /\ Become(t, s)
        BY <2>1, <2>3, <3>1, FailsQuiet
      <3> QED
        BY <1>0, <1>1, <2>3, <3>2, StaysQuiet
    <2> QED
      BY <2>2, <2>3
  <1> QED
    BY <1>2, <1>3

\* A confirmation leaves every target under a keepalive lease.
LEMMA ConfirmKeeps ==
  ASSUME NEW e, NEW gs \in SUBSET Gpu, NEW ids \in [gs -> Lease], ActivateKeepalives(e, gs, ids, now),
         IInv, NEW g \in gs
  PROVE  Kept(g)'
  <1>1. /\ ids[g] \in Lease /\ \A h \in gs : ids[h] = ids[g] => h = g
        /\ ~OwnedAs(lease, "workload", g)
        /\ Owned(lease, g) => lease[ids[g]].gpus = {g}
    BY DEF ActivateKeepalives
  <1>2. lease'[ids[g]] = IF Owned(lease, g)
                         THEN [lease[ids[g]] EXCEPT !.state = "ACTIVE", !.expires = None]
                         ELSE Issue("keepalive", "ACTIVE", {g}, None)
    <2>1. (CHOOSE h \in gs : ids[h] = ids[g]) = g
      BY <1>1
    <2> QED
      BY <1>1, <2>1 DEF ActivateKeepalives
  <1>3. lease'[ids[g]].kind = "keepalive" /\ g \in lease'[ids[g]].gpus
    <2>1. CASE Owned(lease, g)
      <3>1. lease[ids[g]] \in LeaseRecord /\ lease[ids[g]].gpus = {g}
        BY <1>1, <2>1 DEF IInv, TypeOK
      <3>2. lease[ids[g]].kind # "workload"
        BY <1>1, <3>1 DEF OwnedAs
      <3> QED
        BY <1>2, <2>1, <3>1, <3>2 DEF LeaseRecord
    <2>2. CASE ~Owned(lease, g)
      BY <1>2, <2>2 DEF Issue, NewLease
    <2> QED
      BY <2>1, <2>2
  <1> QED
    BY <1>1, <1>3 DEF Kept, OwnedAs

\* A step of the broker that leaves its view alone.
LEMMA BrokerCall ==
  ASSUME IInv, IInv', Next, UNCHANGED <<now, device, rows>>
  PROVE  SameBroker
  <1>1. ASSUME NEW g \in Gpu, Kept(g), Shown(g)
        PROVE  Kept(g)'
    <2>1. LastListed(g)' # {}
      BY <1>1, SeenWasListed DEF Shown, LastListed
    <2> QED
      BY <1>1, <2>1, OwnershipKept
  <1> QED
    BY <1>1 DEF SameBroker

LEMMA SettleWorkers ==
  ASSUME CInv, CInv', WInv, NEW t \in Task,
         Confirm(t) \/ ConfirmFails(t) \/ Report(t) \/ Finalize(t) \/ FinalizeFails(t)
  PROVE  WInv'
  <1>0. At(t, "settle") /\ "settle" \in Working /\ UNCHANGED probe /\ IInv /\ IInv'
        /\ UNCHANGED <<servers, doubt>> /\ ~At(t, "ingest") /\ ~At(t, "enable")
    BY DEF Confirm, ConfirmFails, Report, Finalize, FinalizeFails, Working, At, CInv
  <1>1. /\ TasksSound /\ TaskSound(t, task[t]) /\ task[t] \in TaskRecord
        /\ task[t].targets \in SUBSET Gpu
        /\ Placed(t) /\ NoneAstray
        /\ Quiet(task[t]) \/ (Aims(t) = task[t].targets /\ t \in Reconciler)
        /\ Quiet(task[t]) <=> task[t].work \notin {"start", "cleanup"}
        /\ \A g \in Gpu : Fits(t, g)
    BY <1>0, AtPhase, SameServers DEF Quiet, servers, At
  <1> DEFINE r == [task[t] EXCEPT !.proof = Idle.proof]
  <1>2. /\ r \in TaskRecord /\ TaskSound(t, r) /\ r.work = task[t].work /\ r.targets = task[t].targets
        /\ r.host = task[t].host /\ r.pc = task[t].pc
    <2>1. Idle.proof = [g \in Gpu |-> None]
      BY DEF Idle
    <2>2. /\ r \in TaskRecord /\ r.work = task[t].work /\ r.targets = task[t].targets
          /\ r.host = task[t].host /\ r.pc = task[t].pc /\ r.stops = task[t].stops
          /\ r.recovers = task[t].recovers
      BY <1>1, <2>1 DEF TaskRecord
    <2> HIDE DEF r
    <2> QED
      BY <1>1, <2>1, <2>2 DEF TaskSound
  <1>3. CASE Confirm(t)
    <2>1. PICK ids \in [task[t].targets -> Lease] :
             ActivateKeepalives(task[t].host, task[t].targets, ids, now)
      BY <1>3 DEF Confirm
    <2>2. Next /\ UNCHANGED <<now, device, rows>>
      <3>1. task[t].host \in Endpoint /\ now \in Barriers
        BY <1>0, NowFacts, TaskAtWork, <1>1 DEF At
      <3> QED
        BY <1>1, <2>1, <3>1 DEF ActivateKeepalives, Next, ControllerStep
    <2>3. SameBroker
      BY <1>0, <2>2, BrokerCall
    <2>4. Continue(t, r)
      BY <1>3 DEF Confirm
    <2> HIDE DEF r
    <2>5. PICK s : Quiet(s) /\ Become(t, s)
      BY <1>1, <1>2, <2>4, ContinueQuiet DEF Quiet
    <2>6. ASSUME NEW g \in Aims(t), Astray(g)'
          PROVE  Kept(g)' /\ Shown(g)
      <3>1. g \in task[t].targets /\ g \in Gpu
        BY <1>1, QuietAims
      <3>2. Kept(g)'
        BY <1>0, <1>1, <2>1, <3>1, ConfirmKeeps
      <3>3. Astray(g)
        BY <1>1, <2>6, <3>1 DEF NoneAstray
      <3> QED
        BY <1>0, <1>1, <2>6, <3>1, <3>2, <3>3 DEF Fits
    <2> QED
      BY <1>0, <1>1, <2>3, <2>5, <2>6, GoesQuiet
  <1>4. CASE ConfirmFails(t)
    <2>1. Fails(t, r) /\ UNCHANGED vars
      BY <1>4 DEF ConfirmFails
    <2>2. SameBroker
      BY <2>1, SameVars
    <2> HIDE DEF r
    <2>3. CASE task[t].work = "start"
      BY <1>0, <1>1, <1>2, <2>1, <2>2, <2>3, FailsToCleanup, TaskMoves DEF NoneAstray
    <2>4. CASE task[t].work # "start"
      <3>1. PICK s : Quiet(s) /\ Become(t, s)
        BY <1>2, <2>1, <2>4, FailsQuiet
      <3>2. Quiet(task[t])
        BY <1>1, <1>4, <2>4 DEF ConfirmFails
      <3> QED
        BY <1>0, <1>1, <2>2, <3>1, <3>2, StaysQuiet
    <2> QED
      BY <2>3, <2>4
  <1>5. CASE Report(t)
    <2>1. Become(t, Idle) /\ Quiet(Idle)
      BY <1>5 DEF Report, Ends, Quiet, Idle
    <2>2. SameBroker
      BY <1>5 DEF Report, KeepaliveError, SameBroker, Kept, OwnedAs
    <2>3. \A g \in Aims(t) : ~Astray(g)'
      BY <1>0, <1>1, <1>5, QuietAims DEF Report, Fits, At, NoneAstray
    <2> QED
      BY <1>0, <1>1, <2>1, <2>2, <2>3, GoesQuiet
  <1>6. CASE Finalize(t)
    <2>1. PICK g \in task[t].targets : FinalizeStop(task[t].host, task[t].planned[g], now)
      BY <1>6 DEF Finalize
    <2>2. SameBroker
      <3>1. CASE task[t].planned[g] \in Lease
        <4>1. task[t].host \in Endpoint /\ now \in Barriers
          BY <1>0, NowFacts, TaskAtWork, <1>1 DEF At
        <4>2. Next
          BY <2>1, <3>1, <4>1 DEF Next, ControllerStep
        <4> QED
          BY <1>0, <2>1, <4>2, BrokerCall DEF FinalizeStop
      <3>2. CASE task[t].planned[g] \notin Lease
        <4>1. task[t].planned[g] = None
          BY <1>1, <2>1, <3>2 DEF TaskRecord
        <4>2. lease' = lease
          BY <1>0, <2>1, <4>1, ControllerAssumption DEF FinalizeStop, IInv, TypeOK
        <4> QED
          BY <2>1, <4>2 DEF FinalizeStop, SameBroker, Kept, OwnedAs
      <3> QED
        BY <3>1, <3>2
    <2> DEFINE s == [task[t] EXCEPT !.planned = [h \in Gpu |-> IF h \in task[t].targets THEN None ELSE @[h]]]
    <2>3. Ends(t) \/ Continue(t, s)
      BY <1>6 DEF Finalize
    <2>4. /\ s \in TaskRecord /\ s.work = task[t].work /\ s.pc = task[t].pc
          /\ s.host = task[t].host /\ s.stops = task[t].stops
          /\ s.recovers = task[t].recovers
      BY <1>1 DEF TaskRecord
    <2> HIDE DEF s
    <2>5. TaskSound(t, s) /\ Quiet(s) /\ Quiet(task[t]) /\ Quiet(Idle)
      BY <1>1, <1>6, <2>4 DEF TaskSound, Quiet, Finalize, Idle
    <2>6. PICK q : Quiet(q) /\ Become(t, q)
      BY <2>3, <2>5, ContinueQuiet DEF Ends
    <2> QED
      BY <1>0, <1>1, <2>2, <2>5, <2>6, StaysQuiet
  <1>7. CASE FinalizeFails(t)
    <2>1. task[t].work # "start" /\ Fails(t, task[t]) /\ Quiet(task[t]) /\ UNCHANGED vars
      BY <1>1, <1>7 DEF FinalizeFails
    <2>2. PICK q : Quiet(q) /\ Become(t, q)
      BY <1>1, <2>1, FailsQuiet
    <2> QED
      BY <1>0, <1>1, <2>1, <2>2, SameVars, StaysQuiet
  <1> QED
    BY <1>3, <1>4, <1>5, <1>6, <1>7

\* A task that is neither enabling, observing nor settling is quiet.
LEMMA QuietPhases ==
  ASSUME CInv, WInv, NEW t \in Task, task[t].pc \in {"idle", "waiting", "plan", "claim", "prepare"}
  PROVE  /\ Quiet(task[t]) /\ ~At(t, "ingest")
         /\ TasksSound /\ IInv /\ TaskSound(t, task[t]) /\ task[t] \in TaskRecord
  <1>1. Placed(t) /\ TasksSound /\ IInv
    BY DEF WInv, CInv
  <1> QED
    BY <1>1 DEF Placed, Quiet, At, TasksSound, TaskSound

\* A quiet task goes on, and the broker grants or changes nothing.
LEMMA QuietStep ==
  ASSUME CInv, WInv, NEW t \in Task, Quiet(task[t]), ~At(t, "ingest"),
         NEW r, Quiet(r), Become(t, r), UNCHANGED <<servers, probe, doubt>>, SameBroker
  PROVE  WInv'
  BY StaysQuiet, SameServers DEF CInv, servers

\* A claim gives no keeper's GPU away.
LEMMA ClaimKeeps ==
  ASSUME CInv, CInv', NEW l \in Lease, NEW gs \in SUBSET Gpu, Claim(l, gs, TRUE)
  PROVE  SameBroker
  <1>1. Next
    BY DEF Next, AgentStep
  <1> QED
    BY <1>1, BrokerCall DEF CInv, Claim, OnlyLease

LEMMA ClaimerWorkers ==
  ASSUME CInv, CInv', WInv, NEW t \in Task,
         Prepare(t) \/ (\E e \in Endpoint : Acquire(t, e)) \/ Grant(t) \/ NoCapacity(t) \/ PlanReclaim(t)
  PROVE  WInv'
  <1>0. /\ UNCHANGED <<servers, probe, doubt>>
        /\ task[t].pc \in {"idle", "waiting", "plan", "claim", "prepare"}
        /\ Quiet(Idle)
    BY DEF Prepare, Acquire, Grant, NoCapacity, PlanReclaim, Deciding, At, Quiet, Idle
  <1>1. /\ Quiet(task[t]) /\ ~At(t, "ingest")
        /\ TasksSound /\ IInv /\ TaskSound(t, task[t]) /\ task[t] \in TaskRecord
    BY <1>0, QuietPhases
  <1>2. CASE Prepare(t)
    <2> DEFINE r(lapsed) == [task[t] EXCEPT !.stops = @ \ lapsed]
    <2>1. PICK lapsed : Ends(t) \/ Continue(t, r(lapsed))
      BY <1>2 DEF Prepare
    <2>2. /\ r(lapsed) \in TaskRecord /\ r(lapsed).work = task[t].work /\ r(lapsed).pc = task[t].pc
          /\ r(lapsed).host = task[t].host /\ r(lapsed).stops \subseteq task[t].stops
          /\ r(lapsed).recovers = task[t].recovers
      BY <1>1 DEF TaskRecord
    <2> HIDE DEF r
    <2>3. TaskSound(t, r(lapsed)) /\ Quiet(r(lapsed))
      BY <1>1, <2>2 DEF TaskSound, Quiet
    <2>4. PICK q : Quiet(q) /\ Become(t, q)
      BY <1>0, <2>1, <2>3, ContinueQuiet DEF Ends
    <2> QED
      BY <1>0, <1>1, <1>2, <2>4, SameVars, QuietStep DEF Prepare
  <1>3. CASE \E e \in Endpoint : Acquire(t, e)
    BY <1>0, <1>1, <1>3, SameVars, SameServers, StillStep DEF Acquire, servers
  <1>4. CASE Grant(t)
    <2>1. PICK l \in Lease : Claim(l, task[t].wants, TRUE)
      BY <1>4 DEF Grant
    <2>2. SameBroker
      BY <1>1, <2>1, ClaimKeeps DEF TaskRecord
    <2> QED
      BY <1>0, <1>1, <1>4, <2>2, QuietStep DEF Grant, Ends
  <1>5. CASE NoCapacity(t)
    <2> DEFINE r == [task[t] EXCEPT !.pc = "plan"]
    <2>1. Become(t, Idle) \/ Become(t, r)
      BY <1>5 DEF NoCapacity, Ends
    <2>2. Quiet(r)
      BY <1>1 DEF Quiet, TaskRecord
    <2> HIDE DEF r
    <2> QED
      BY <1>0, <1>1, <1>5, <2>1, <2>2, SameVars, QuietStep DEF NoCapacity
  <1>6. CASE PlanReclaim(t)
    <2> DEFINE r(gs) == [task[t] EXCEPT !.stops = gs, !.planned = PlannedLease(gs)]
               reclaims == {g \in task[t].wants : Reclaimable(g)}
    <2>1. PICK gs : /\ gs = reclaims /\ (Ends(t) \/ Continue(t, r(gs)))
      BY <1>6 DEF PlanReclaim
    <2>2. gs \in SUBSET Gpu /\ \A g \in gs : \E l \in Lease : KeeperRow(l, g)
      BY <1>1, <2>1 DEF TaskRecord, Reclaimable
    <2>3. PlannedLease(gs) \in [Gpu -> Lease \cup {None}]
      BY <2>2, PlanSound
    <2>4. /\ r(gs) \in TaskRecord /\ r(gs).work = task[t].work /\ r(gs).pc = "plan"
          /\ r(gs).recovers = task[t].recovers
          /\ r(gs).host = task[t].host
      BY <1>1, <1>6, <2>2, <2>3 DEF PlanReclaim, At, TaskRecord
    <2> HIDE DEF r
    <2>5. t \in Claimer /\ t \notin Reconciler
      BY <1>1, <1>6, Names DEF PlanReclaim, At, TaskSound
    <2>6. TaskSound(t, r(gs)) /\ Quiet(r(gs))
      BY <1>1, <1>6, <2>4, <2>5 DEF TaskSound, Quiet, Working
    <2>7. PICK q : Quiet(q) /\ Become(t, q)
      BY <1>0, <2>1, <2>6, ContinueQuiet DEF Ends
    <2> QED
      BY <1>0, <1>1, <1>6, <2>7, SameVars, QuietStep DEF PlanReclaim
  <1> QED
    BY <1>2, <1>3, <1>4, <1>5, <1>6

LEMMA BeginWorkers ==
  ASSUME CInv, WInv, NEW t \in Task,
         \/ \E e \in Endpoint, policy \in Policies : Toggle(t, e, policy)
         \/ \E gs \in SUBSET Gpu : Ask(t, gs)
  PROVE  WInv'
  <1>1. /\ UNCHANGED <<servers, probe, doubt>> /\ task[t].pc = "idle"
        /\ UNCHANGED <<now, device, rows, lease>>
    BY DEF Toggle, Ask, At, ConfigurePolicy, vars
  <1>2. Quiet(task[t]) /\ ~At(t, "ingest") /\ SameBroker
    BY <1>1, QuietPhases DEF SameBroker, Kept, OwnedAs
  <1>3. PICK e, gs : \/ Become(t, [Idle EXCEPT !.pc = "waiting", !.host = e])
                     \/ Become(t, [Idle EXCEPT !.pc = "waiting", !.wants = gs])
    BY DEF Toggle, Ask
  <1>4. /\ Quiet([Idle EXCEPT !.pc = "waiting", !.host = e])
        /\ Quiet([Idle EXCEPT !.pc = "waiting", !.wants = gs])
    BY DEF Quiet, Idle
  <1> QED
    BY <1>1, <1>2, <1>3, <1>4, QuietStep

\* A reconciliation plans to start only where no worker can be.
LEMMA ReconcilesWorkers ==
  ASSUME CInv, WInv, NEW t \in Task,
         ToggleReconciles(t) \/ (t \in Reconciler /\ \E e \in Endpoint : LoopSpawns(e, t))
  PROVE  WInv'
  <1>1. /\ t \in Reconciler /\ task[t].pc \in {"idle", "waiting"} /\ \E f : Reconciles(t, f)
    BY DEF ToggleReconciles, LoopSpawns, At
  <1>2. PICK e : Reconciles(t, e)
    BY <1>1
  <1> DEFINE r == [Idle EXCEPT !.host = e, !.recovers = ToRecover(e), !.stops = ToStop(e),
                               !.planned = PlannedLease(ToStop(e))]
             s1 == [r EXCEPT !.pc = "enable", !.work = "start", !.targets = ToStart(e)]
             s2 == [r EXCEPT !.pc = "attest", !.work = "recover", !.targets = ToRecover(e),
                             !.recovers = {}]
             s3 == [r EXCEPT !.pc = "prepare"]
  <1>3. /\ UNCHANGED <<servers, probe, doubt>> /\ SameBroker
        /\ Quiet(task[t]) /\ ~At(t, "ingest") /\ TasksSound
    BY <1>1, <1>2, QuietPhases, SameVars DEF Reconciles
  <1>4. /\ Quiet(s2) /\ Quiet(s3) /\ Quiet(Idle)
        /\ s1.pc = "enable" /\ s1.work = "start" /\ s1.targets = ToStart(e) /\ s1.host = e
    BY DEF Quiet, Idle
  <1>5. holder[e] = None /\ (Become(t, s1) \/ Become(t, s2) \/ Become(t, s3) \/ Become(t, Idle))
    BY <1>2 DEF Reconciles
  <1> HIDE DEF r, s1, s2, s3
  <1>6. CASE Become(t, s1)
    <2>1. task'[t] = s1
      BY <1>3, <1>6 DEF Become, TasksSound
    <2>2. ToStart(e) \subseteq GpusOf(e)
      BY DEF ToStart
    <2>3. Aims(t)' = ToStart(e) /\ Placed(t)'
      BY <1>1, <1>4, <2>1, <2>2 DEF Aims, Placed, At
    <2>4. ASSUME NEW g \in ToStart(e)
          PROVE  ~Astray(g)
      <3>1. g \in Gpu /\ HostOf[g] = e
        BY <2>2 DEF GpusOf
      <3>2. ~Starting(g)
        <4>1. \A u \in Task : Placed(u)
          BY DEF WInv
        <4> QED
          BY <1>3, <1>5, <3>1, <4>1, StartingAims, AimsAt, Names
      <3>3. Current(rows, g) = {}
        BY DEF ToStart, Eligible
      <3>4. ~Shown(g)
        BY <3>3 DEF Shown, Seen
      <3> QED
        BY <3>1, <3>2, <3>4 DEF WInv, Settled
    <2>5. NoneAstray /\ Aims(t) = {}
      BY <1>3, SameServers, QuietAims DEF servers
    <2>6. \A g \in Gpu : Fits(t, g)'
      BY <2>3, <2>4, <2>5 DEF Fits, NoneAstray
    <2> QED
      BY <1>3, <1>6, <2>3, <2>5, <2>6, TaskMoves DEF NoneAstray
  <1>7. CASE Become(t, s2) \/ Become(t, s3) \/ Become(t, Idle)
    BY <1>3, <1>4, <1>7, QuietStep
  <1> QED
    BY <1>5, <1>6, <1>7

-----------------------------------------------------------------------------
(* Observations that are made *)

\* A worker that runs is seen by the observation made now.
LEMMA ProbingShows ==
  ASSUME CInv, WInv, NEW x \in Observer, NEW e \in Endpoint, Probing(x, e), probe[x] = None,
         UNCHANGED <<now, device, rows, real, doubt>>,
         \A y \in Observer : ServerOf(y)' = ServerOf(y), ServerOf(x) = e
  PROVE  /\ \A y \in Observer \ {x} : probe'[y] = probe[y]
         /\ probe'[x] # None /\ ~probe'[x].overtaken
         /\ probe'[x].earlier = {y \in Observer : probe[y] # None /\ ServerOf(y) = e}
         /\ \A g \in Gpu : HostOf[g] = e => probe'[x].listed[g] = real[g]
         /\ \A g \in Gpu, y \in Observer : Astray(g) => (Blind(y, g)' <=> Blind(y, g) /\ y # x)
         /\ \A g \in Gpu : Astray(g) => (Shown(g) <=> Shown(g)')
  <1> DEFINE q == [listed |-> [g \in Gpu |-> IF HostOf[g] = e THEN real[g] ELSE {}],
                   earlier |-> {y \in Observer : probe[y] # None /\ ServerOf(y) = e},
                   overtaken |-> FALSE]
  <1>0. probe \in [Observer -> Probe \cup {None}] /\ real \in [Gpu -> SUBSET Proc]
    BY DEF CInv, ProbesSound, WorldSound
  <1>1. probe' = [probe EXCEPT ![x] = q]
    BY DEF Probing
  <1>2. /\ q \in Probe /\ ~q.overtaken
        /\ q.earlier = {y \in Observer : probe[y] # None /\ ServerOf(y) = e}
        /\ \A g \in Gpu : HostOf[g] = e => q.listed[g] = real[g]
    BY <1>0 DEF Probe
  <1> HIDE DEF q
  <1>3. probe'[x] = q /\ q # None /\ \A y \in Observer \ {x} : probe'[y] = probe[y]
    BY <1>0, <1>1, <1>2, ProbeAssumption
  <1>4. ASSUME NEW g \in Gpu, NEW y \in Observer, Astray(g)
        PROVE  Blind(y, g)' <=> Blind(y, g) /\ y # x
    <2>1. CASE y = x
      BY <1>2, <1>3, <1>4, <2>1 DEF Blind, Astray, WorkerOn
    <2>2. CASE y # x
      BY <1>3, <2>2 DEF Blind
    <2> QED
      BY <2>1, <2>2
  <1>5. ASSUME NEW g \in Gpu, Astray(g)
        PROVE  Shown(g) <=> Shown(g)'
    <2>1. Seen(g)' = Seen(g)
      BY DEF Seen, Current, Recent
    <2>2. ~Blind(x, g)
      BY DEF Blind
    <2> QED
      BY <1>4, <1>5, <2>1, <2>2 DEF Shown
  <1> QED
    BY <1>2, <1>3, <1>4, <1>5

\* The order of the observations, with a new one.
LEMMA ProbingOrdered ==
  ASSUME CInv, WInv, NEW x \in Observer, NEW e \in Endpoint, Probing(x, e), probe[x] = None,
         UNCHANGED <<now, device, rows, real, doubt>>,
         \A y \in Observer : ServerOf(y)' = ServerOf(y), ServerOf(x) = e,
         \A t \in Task : probe'[t] # None => At(t, "ingest")'
  PROVE  Ordered'
  <1>1. /\ \A y \in Observer \ {x} : probe'[y] = probe[y]
        /\ probe'[x] # None /\ ~probe'[x].overtaken
        /\ probe'[x].earlier = {y \in Observer : probe[y] # None /\ ServerOf(y) = e}
    BY ProbingShows
  <1>2. Ordered
    BY DEF WInv
  <1>3. ASSUME NEW z \in Observer, probe'[z] # None
        PROVE  /\ z \notin probe'[z].earlier
               /\ \A y \in probe'[z].earlier :
                     /\ y \in Observer /\ probe'[y] # None /\ ServerOf(y)' = ServerOf(z)'
                     /\ probe'[y].earlier \subseteq probe'[z].earlier
                     /\ probe'[z].overtaken => probe'[y].overtaken
    <2>1. CASE z = x
      BY <1>1, <1>2, <2>1 DEF Ordered
    <2>2. CASE z # x
      <3>1. probe'[z] = probe[z] /\ probe[z] # None
        BY <1>1, <1>3, <2>2
      <3>2. \A y \in probe[z].earlier : y # x /\ y \in Observer
        BY <1>2, <3>1 DEF Ordered
      <3> QED
        BY <1>1, <1>2, <3>1, <3>2 DEF Ordered
    <2> QED
      BY <2>1, <2>2
  <1> QED
    BY <1>3 DEF Ordered

LEMMA ProbingOthers ==
  ASSUME CInv, WInv, NEW x \in Observer, NEW e \in Endpoint, Probing(x, e), probe[x] = None,
         UNCHANGED <<now, device, rows, real, doubt>>,
         \A y \in Observer : ServerOf(y)' = ServerOf(y), ServerOf(x) = e,
         NEW u \in Task \ {x}, task'[u] = task[u], NEW g \in Gpu, Astray(g), Fits(u, g)
  PROVE  Fits(u, g)'
  <1>1. /\ probe'[u] = probe[u]
        /\ \A y \in Observer : Astray(g) => (Blind(y, g)' <=> Blind(y, g) /\ y # x)
        /\ Shown(g) <=> Shown(g)'
    BY ProbingShows, Names
  <1>2. Fetched(u, g) => Fetched(u, g)'
    BY <1>1 DEF Fetched
  <1>3. Aims(u)' = Aims(u) /\ (Astray(g)' <=> Astray(g))
    BY DEF Aims, Astray, WorkerOn
  <1> QED
    BY <1>1, <1>2, <1>3 DEF Fits, At

LEMMA LoopProbeWorkers ==
  ASSUME CInv, WInv, NEW e \in Endpoint, LoopProbe(e)
  PROVE  WInv'
  <1>1. /\ UNCHANGED <<now, device, rows, real, doubt, helper, task, lease>> /\ Probing(e, e)
        /\ probe[e] = None /\ e \in Observer /\ e \notin Task
        /\ ServerOf(e) = e /\ TasksSound
    BY Names DEF LoopProbe, vars, servers, ServerOf, CInv
  <1>2. \A y \in Observer : ServerOf(y)' = ServerOf(y)
    BY <1>1 DEF ServerOf
  <1>3. /\ \A y \in Observer \ {e} : probe'[y] = probe[y]
        /\ \A g \in Gpu : Astray(g) => (Shown(g) <=> Shown(g)')
    BY <1>1, <1>2, ProbingShows
  <1>4. \A t \in Task : probe'[t] # None => At(t, "ingest")'
    BY <1>1, <1>3, Names DEF WInv, Ordered, At
  <1>5. Ordered'
    BY <1>1, <1>2, <1>4, ProbingOrdered
  <1>6. \A u \in Task, g \in Gpu : Astray(g) /\ Fits(u, g) => Fits(u, g)'
    BY <1>1, <1>2, ProbingOthers
  <1>7. \A g \in Gpu : (Astray(g)' <=> Astray(g)) /\ (Kept(g)' <=> Kept(g))
    BY <1>1 DEF Astray, WorkerOn, Kept, OwnedAs
  <1>8. Recorded'
    BY <1>1, <1>7 DEF WInv, Recorded
  <1>9. {} \in SUBSET Task /\ \A u \in Task \ {} : task'[u] = task[u]
    BY <1>1
  <1> QED
    BY <1>1, <1>3, <1>5, <1>6, <1>7, <1>8, <1>9, Frame

LEMMA TaskProbeWorkers ==
  ASSUME CInv, WInv, NEW t \in Task, TaskProbe(t)
  PROVE  WInv'
  <1>0. /\ At(t, "probe") /\ "probe" \in Working /\ ~At(t, "ingest") /\ ~At(t, "enable")
    BY DEF TaskProbe, Working, At
  <1>1. /\ TasksSound /\ task[t] \in TaskRecord /\ task[t].targets \in SUBSET Gpu /\ Placed(t)
        /\ Quiet(task[t]) \/ (Aims(t) = task[t].targets /\ t \in Reconciler
                              /\ task[t].targets \subseteq GpusOf(task[t].host))
        /\ \A g \in Gpu : Fits(t, g)
    BY <1>0, AtPhase
  <1>2. task[t].host \in Endpoint
    BY <1>0, <1>1, TaskAtWork DEF At
  <1> DEFINE e == task[t].host
             r == [task[t] EXCEPT !.pc = "ingest"]
  <1>3. Become(t, r)
    BY DEF TaskProbe
  <1>4. /\ task'[t] = r /\ r.pc = "ingest" /\ r.work = task[t].work /\ r.host = e
        /\ r.targets = task[t].targets /\ \A u \in Task \ {t} : task'[u] = task[u]
    BY <1>1, <1>3 DEF Become, TasksSound, TaskRecord
  <1> HIDE DEF r
  <1>5. /\ UNCHANGED <<now, device, rows, real, doubt, helper, lease>> /\ Probing(t, e)
        /\ probe[t] = None /\ t \in Observer /\ t \notin Endpoint /\ ServerOf(t) = e
    BY <1>0, Names DEF TaskProbe, vars, servers, ServerOf, WInv, Ordered
  <1>6. \A y \in Observer : ServerOf(y)' = ServerOf(y)
    BY <1>4, <1>5, Names DEF ServerOf, Observer
  <1>7. /\ \A y \in Observer \ {t} : probe'[y] = probe[y]
        /\ probe'[t] # None /\ ~probe'[t].overtaken
        /\ probe'[t].earlier = {y \in Observer : probe[y] # None /\ ServerOf(y) = e}
        /\ \A g \in Gpu : HostOf[g] = e => probe'[t].listed[g] = real[g]
        /\ \A g \in Gpu, y \in Observer : Astray(g) => (Blind(y, g)' <=> Blind(y, g) /\ y # t)
        /\ \A g \in Gpu : Astray(g) => (Shown(g) <=> Shown(g)')
    <2> HIDE DEF e
    <2> QED
      BY <1>2, <1>5, <1>6, ProbingShows DEF e
  <1>8. Ordered'
    <2>1. \A u \in Task : probe'[u] # None => At(u, "ingest")'
      BY <1>4, <1>7, Names DEF WInv, Ordered, At
    <2> HIDE DEF e
    <2> QED
      BY <1>2, <1>5, <1>6, <2>1, ProbingOrdered DEF e
  <1>9. \A u \in Task \ {t}, g \in Gpu : Astray(g) /\ Fits(u, g) => Fits(u, g)'
    <2> HIDE DEF e
    <2> QED
      BY <1>2, <1>4, <1>5, <1>6, ProbingOthers DEF e
  <1>10. \A g \in Gpu : (Astray(g)' <=> Astray(g)) /\ (Kept(g)' <=> Kept(g))
    BY <1>5 DEF Astray, WorkerOn, Kept, OwnedAs
  <1>11. Recorded'
    BY <1>5, <1>10 DEF WInv, Recorded
  <1>12. Aims(t)' = Aims(t) /\ Placed(t)'
    BY <1>0, <1>1, <1>4 DEF Aims, Placed, At, Quiet
  <1>13. ASSUME NEW g \in Gpu
         PROVE  Fits(t, g)'
    <2>1. CASE g \in Aims(t) /\ Astray(g)
      <3>1. task[t].work = "start" /\ HostOf[g] = e
        BY <1>0, <1>1, <2>1, QuietAims DEF Fits, At, GpusOf
      <3>2. real[g] # {}
        BY <2>1 DEF Astray, WorkerOn
      <3>3. \A y \in Observer : Blind(y, g)' => y \in probe'[t].earlier
        BY <1>7, <2>1, <3>1 DEF Blind
      <3>4. Fetched(t, g)'
        BY <1>7, <3>1, <3>2, <3>3 DEF Fetched
      <3> QED
        BY <1>4, <3>1, <3>4 DEF Fits, At
    <2>2. CASE ~(g \in Aims(t) /\ Astray(g))
      BY <1>10, <1>12, <2>2 DEF Fits
    <2> QED
      BY <2>1, <2>2
  <1>14. {t} \in SUBSET Task
    OBVIOUS
  <1> QED
    BY <1>1, <1>4, <1>7, <1>8, <1>9, <1>10, <1>11, <1>12, <1>13, <1>14, Frame

-----------------------------------------------------------------------------
(* Observations that arrive *)

LEMMA ArrivedPlaces ==
  ASSUME CInv, NEW x \in Observer, NEW older, Arrived(x, older)
  PROVE  /\ probe'[x] = None
         /\ \A y \in Observer : probe[y] = None => probe'[y] = None
         /\ \A y \in Observer \ {x} : probe[y] # None =>
               /\ probe'[y] # None /\ probe'[y].listed = probe[y].listed
               /\ probe'[y].earlier = probe[y].earlier \ {x}
               /\ probe'[y].overtaken <=> probe[y].overtaken \/ y \in older
  <1>0. probe \in [Observer -> Probe \cup {None}]
    BY DEF CInv, ProbesSound
  <1>1. /\ probe'[x] = None
        /\ \A y \in Observer : probe[y] = None => probe'[y] = None
        /\ \A y \in Observer \ {x} : probe[y] # None =>
              probe'[y] # None /\ probe'[y].listed = probe[y].listed
    BY <1>0, ArrivedKeeps
  <1>2. ASSUME NEW y \in Observer \ {x}, probe[y] # None
        PROVE  /\ probe'[y].earlier = probe[y].earlier \ {x}
               /\ probe'[y].overtaken <=> probe[y].overtaken \/ y \in older
    <2>1. probe[y] \in Probe
      BY <1>0, <1>2
    <2>2. probe'[y] = [probe[y] EXCEPT !.earlier = @ \ {x}, !.overtaken = @ \/ y \in older]
      BY <1>2 DEF Arrived
    <2> QED
      BY <2>1, <2>2 DEF Probe
  <1> QED
    BY <1>1, <1>2

\* The answer for x is taken, dropped, or does not come.
Taken(x) ==
    /\ Arrived(x, probe[x].earlier) /\ ~probe[x].overtaken
    /\ \A g \in Gpu : Seen(g)' = IF HostOf[g] = ServerOf(x) THEN probe[x].listed[g] ELSE Seen(g)

Dropped(x) ==
    /\ Arrived(x, probe[x].earlier) /\ probe[x].overtaken
    /\ \A g \in Gpu : Seen(g)' = Seen(g)

Failed(x) ==
    /\ Arrived(x, {})
    /\ \A g \in Gpu : Seen(g)' = Seen(g)

\* The other observers stay where they are.
Steady(x) == \A y \in Observer \ {x} : probe[y] # None => ServerOf(y)' = ServerOf(y)

\* No answer makes the broker blind.
LEMMA ArrivalShows ==
  ASSUME CInv, WInv, NEW x \in Observer, probe[x] # None, Steady(x),
         Taken(x) \/ Dropped(x) \/ Failed(x)
  PROVE  /\ \A y \in Observer, g \in Gpu : Blind(y, g)' =>
               Blind(y, g) /\ (y \in probe[x].earlier => Failed(x))
         /\ \A g \in Gpu : Shown(g) => Shown(g)'
  <1>1. PICK older : /\ Arrived(x, older)
                     /\ older = probe[x].earlier \/ Failed(x)
    BY DEF Taken, Dropped, Failed
  <1>2. /\ probe'[x] = None
        /\ \A y \in Observer : probe[y] = None => probe'[y] = None
        /\ \A y \in Observer \ {x} : probe[y] # None =>
              /\ probe'[y] # None /\ probe'[y].listed = probe[y].listed
              /\ probe'[y].earlier = probe[y].earlier \ {x}
              /\ probe'[y].overtaken <=> probe[y].overtaken \/ y \in older
    BY <1>1, ArrivedPlaces
  <1>3. ASSUME NEW y \in Observer, NEW g \in Gpu, Blind(y, g)'
        PROVE  Blind(y, g) /\ (y \in probe[x].earlier => Failed(x))
    <2>1. y # x /\ probe[y] # None
      BY <1>2, <1>3 DEF Blind
    <2> QED
      BY <1>1, <1>2, <1>3, <2>1 DEF Blind, Steady
  <1>4. ASSUME NEW g \in Gpu, Shown(g)
        PROVE  Shown(g)'
    <2>1. Seen(g)' # {}
      BY <1>4 DEF Shown, Blind, Taken, Dropped, Failed
    <2> QED
      BY <1>3, <1>4, <2>1 DEF Shown
  <1> QED
    BY <1>3, <1>4

LEMMA ArrivalOrdered ==
  ASSUME CInv, WInv, NEW x \in Observer, probe[x] # None, Steady(x),
         Taken(x) \/ Dropped(x) \/ Failed(x),
         \A t \in Task \ {x} : task'[t] = task[t]
  PROVE  Ordered'
  <1>1. PICK older : /\ Arrived(x, older)
                     /\ older = probe[x].earlier \/ older = {}
    BY DEF Taken, Dropped, Failed
  <1>2. /\ probe'[x] = None
        /\ \A y \in Observer : probe[y] = None => probe'[y] = None
        /\ \A y \in Observer \ {x} : probe[y] # None =>
              /\ probe'[y] # None /\ probe'[y].listed = probe[y].listed
              /\ probe'[y].earlier = probe[y].earlier \ {x}
              /\ probe'[y].overtaken <=> probe[y].overtaken \/ y \in older
    BY <1>1, ArrivedPlaces
  <1>3. Ordered
    BY DEF WInv
  <1>4. ASSUME NEW z \in Observer, probe'[z] # None
        PROVE  /\ z \notin probe'[z].earlier
               /\ \A y \in probe'[z].earlier :
                     /\ y \in Observer /\ probe'[y] # None /\ ServerOf(y)' = ServerOf(z)'
                     /\ probe'[y].earlier \subseteq probe'[z].earlier
                     /\ probe'[z].overtaken => probe'[y].overtaken
    <2>1. z # x /\ probe[z] # None
      BY <1>2, <1>4
    <2>2. z \notin probe'[z].earlier
      BY <1>2, <1>3, <2>1 DEF Ordered
    <2>3. ASSUME NEW y \in probe'[z].earlier
          PROVE  /\ y \in Observer /\ probe'[y] # None /\ ServerOf(y)' = ServerOf(z)'
                 /\ probe'[y].earlier \subseteq probe'[z].earlier
                 /\ probe'[z].overtaken => probe'[y].overtaken
      <3>1. y \in probe[z].earlier /\ y # x
        BY <1>2, <2>1
      <3>2. /\ y \in Observer /\ probe[y] # None /\ ServerOf(y) = ServerOf(z)
            /\ probe[y].earlier \subseteq probe[z].earlier
            /\ probe[z].overtaken => probe[y].overtaken
        BY <1>3, <2>1, <3>1 DEF Ordered
      <3>3. z \in older => y \in older
        BY <1>1, <1>3, <3>1 DEF Ordered
      <3> QED
        BY <1>2, <2>1, <3>1, <3>2, <3>3 DEF Steady
    <2> QED
      BY <2>2, <2>3
  <1>5. \A t \in Task : probe'[t] # None => At(t, "ingest")'
    BY <1>2, <1>3, Names DEF Ordered, At
  <1> QED
    BY <1>4, <1>5 DEF Ordered

\* The start of another task can rely on what it could.
LEMMA ArrivalOthers ==
  ASSUME CInv, WInv, NEW x \in Observer, probe[x] # None, Steady(x),
         Taken(x) \/ Dropped(x) \/ Failed(x), UNCHANGED <<real, doubt>>,
         NEW u \in Task \ {x}, task'[u] = task[u], NEW g \in Gpu, Astray(g), Fits(u, g)
  PROVE  Fits(u, g)'
  <1>1. PICK older : /\ Arrived(x, older)
                     /\ \/ older = probe[x].earlier /\ (Taken(x) \/ Dropped(x))
                        \/ older = {} /\ Failed(x)
    BY DEF Taken, Dropped, Failed
  <1>2. /\ \A y \in Observer : Blind(y, g)' => Blind(y, g) /\ (y \in probe[x].earlier => Failed(x))
        /\ Shown(g) => Shown(g)'
    BY ArrivalShows
  <1>3. Aims(u)' = Aims(u) /\ (Astray(g)' <=> Astray(g)) /\ u \in Observer
    BY Names DEF Aims, Astray, WorkerOn
  <1>4. ASSUME At(u, "ingest"), g \in Aims(u), Fetched(u, g)
        PROVE  Fetched(u, g)'
    <2>1. probe[u] # None /\ ServerOf(u) = HostOf[g]
      <3>1. Placed(u) /\ u \notin Endpoint
        BY Names DEF WInv
      <3>2. HostOf[g] = task[u].host
        BY <1>4, <3>1, AimsAt DEF CInv
      <3> QED
        BY <1>4, <3>1, <3>2 DEF CInv, ProbesSound, OfServer, ServerOf
    <2>2. /\ probe'[u] # None /\ probe'[u].listed = probe[u].listed
          /\ probe'[u].earlier = probe[u].earlier \ {x}
          /\ probe'[u].overtaken <=> probe[u].overtaken \/ u \in older
      BY <1>1, <1>3, <2>1, ArrivedPlaces
    <2>3. CASE probe[u].overtaken
      BY <1>2, <1>4, <2>2, <2>3 DEF Fetched
    <2>4. CASE ~probe[u].overtaken /\ u \notin older
      <3>1. \A y \in Observer : Blind(y, g)' => y # x
        BY <1>1, ArrivedPlaces DEF Blind
      <3> QED
        BY <1>2, <1>4, <2>2, <2>4, <3>1 DEF Fetched
    <2>5. CASE ~probe[u].overtaken /\ u \in older
      <3>1. /\ u \in probe[x].earlier /\ older = probe[x].earlier /\ (Taken(x) \/ Dropped(x))
        BY <1>1, <2>5
      <3>2. /\ ServerOf(x) = HostOf[g] /\ probe[u].earlier \subseteq probe[x].earlier
            /\ ~probe[x].overtaken /\ x \notin probe[x].earlier
        BY <2>1, <2>5, <3>1 DEF WInv, Ordered
      <3>3. Taken(x) /\ ~Blind(x, g)
        BY <1>4, <2>5, <3>1, <3>2 DEF Dropped, Fetched
      <3>4. Seen(g)' # {}
        BY <3>2, <3>3 DEF Taken, Blind
      <3>5. \A y \in Observer : ~Blind(y, g)'
        <4> SUFFICES ASSUME NEW y \in Observer, Blind(y, g)' PROVE FALSE
          OBVIOUS
        <4>1. y \in probe[x].earlier
          BY <1>2, <1>4, <2>5, <3>2 DEF Fetched
        <4>2. probe'[y] # None /\ ~probe'[y].overtaken /\ y # x
          BY <3>2, <4>1 DEF Blind
        <4>3. probe'[y].overtaken
          BY <1>1, <3>1, <4>1, <4>2, ArrivedPlaces
        <4> QED
          BY <4>2, <4>3
      <3>6. probe'[u].overtaken /\ Shown(g)'
        BY <2>2, <2>5, <3>4, <3>5 DEF Shown
      <3> QED
        BY <3>6 DEF Fetched
    <2> QED
      BY <2>3, <2>4, <2>5
  <1> QED
    BY <1>2, <1>3, <1>4 DEF Fits, At

\* The answer that a start has waited for, or a newer one, shows the worker.
LEMMA ArrivalOwn ==
  ASSUME CInv, WInv, NEW t \in Task, probe[t] # None, Steady(t), Taken(t) \/ Dropped(t),
         NEW g \in Gpu, ServerOf(t) = HostOf[g], Fetched(t, g)
  PROVE  Shown(g)'
  <1>0. t \in Observer
    BY Names
  <1>1. /\ \A y \in Observer : Blind(y, g)' => Blind(y, g) /\ (y \in probe[t].earlier => Failed(t))
        /\ Shown(g) => Shown(g)'
    BY <1>0, ArrivalShows
  <1>2. CASE Dropped(t)
    BY <1>1, <1>2 DEF Dropped, Fetched
  <1>3. CASE Taken(t)
    <2>1. Seen(g)' # {} /\ \A y \in Observer : Blind(y, g) => y \in probe[t].earlier
      BY <1>3 DEF Taken, Fetched
    <2>2. \A y \in Observer : ~Blind(y, g)'
      <3> SUFFICES ASSUME NEW y \in Observer, Blind(y, g)' PROVE FALSE
        OBVIOUS
      <3>1. y \in probe[t].earlier /\ y # t
        BY <1>0, <1>1, <2>1 DEF WInv, Ordered
      <3>2. probe'[y] # None /\ ~probe'[y].overtaken /\ probe[y] # None
        BY <1>1 DEF Blind
      <3> QED
        BY <1>0, <1>3, <3>1, <3>2, ArrivedPlaces DEF Taken
    <2> QED
      BY <2>1, <2>2 DEF Shown
  <1> QED
    BY <1>2, <1>3

LEMMA IngestedIs ==
  ASSUME CInv, NEW x \in Observer, NEW e \in Endpoint, OfServer(probe[x], e), ServerOf(x) = e,
         Ingested(x, e)
  PROVE  /\ Taken(x) \/ Dropped(x)
         /\ UNCHANGED vars \/ Next
  <1>1. CASE probe[x].overtaken
    <2>1. UNCHANGED vars
      BY <1>1 DEF Ingested
    <2>2. \A g : Seen(g)' = Seen(g)
      BY <2>1 DEF vars, Seen, Current, Recent
    <2> QED
      BY <1>1, <2>1, <2>2 DEF Dropped, Ingested
  <1>2. CASE ~probe[x].overtaken
    <2> DEFINE listed == probe[x].listed
    <2>1. Ingest(e, now, TRUE, GpusOf(e), listed)
      BY <1>2 DEF Ingested
    <2>2. listed \in [Gpu -> SUBSET Proc] /\ \A g \in Gpu \ GpusOf(e) : listed[g] = {}
      BY DEF CInv, ProbesSound, OfServer, Probe, GpusOf
    <2>3. IInv
      BY DEF CInv
    <2>4. Taken(x)
      <3>1. \A g \in Gpu : Seen(g)' = IF HostOf[g] = e THEN listed[g] ELSE Seen(g)
        <4> HIDE DEF listed
        <4> QED
          BY <2>1, <2>2, <2>3, IngestView
      <3> QED
        BY <1>2, <3>1 DEF Taken, Ingested
    <2>5. Next
      <3>1. now \in 0 .. now /\ now \in Nat /\ ProbeLag \in Nat
        BY <2>3, NowFacts, TimeFacts, TimeAssumption DEF IInv, TypeOK
      <3>2. now \in {t \in 0 .. now : now <= t + ProbeLag}
        BY <3>1
      <3> HIDE DEF listed
      <3>3. Observe(e)
        BY <2>1, <2>2, <3>2 DEF Observe
      <3> QED
        BY <3>3 DEF Next, CollectorStep
    <2> QED
      BY <2>4, <2>5
  <1> QED
    BY <1>1, <1>2

LEMMA FailureIs ==
  ASSUME NEW x, NEW e \in Endpoint, Arrived(x, {}), ProviderFailure(e)
  PROVE  Failed(x) /\ Next
  <1>1. \A g : Seen(g)' = Seen(g)
    BY DEF ProviderFailure, Seen, Current, Recent
  <1> QED
    BY <1>1 DEF Failed, Next, CollectorStep

\* What an answer leaves of the invariant, but for the task that waited for it.
LEMMA ArrivalWorkers ==
  ASSUME CInv, CInv', WInv, NEW x \in Observer, probe[x] # None, Steady(x),
         Taken(x) \/ Dropped(x) \/ Failed(x), UNCHANGED vars \/ Next,
         UNCHANGED servers, UNCHANGED doubt,
         \A u \in Task \ {x} : task'[u] = task[u],
         \A t \in Task \cap {x} :
            /\ Placed(t)' /\ ~At(t, "enable")
            /\ \A g \in Gpu : Fits(t, g)'
            /\ \A g \in Gpu : Astray(g) /\ g \in Aims(t) => g \in Aims(t)'
  PROVE  WInv'
  <1> DEFINE T == Task \cap {x}
  <1>1. T \in SUBSET Task /\ \A u \in Task \ T : task'[u] = task[u] /\ u \in Task \ {x}
    OBVIOUS
  <1>2. \A g \in Gpu : Astray(g)' <=> Astray(g)
    BY DEF servers, Astray, WorkerOn
  <1>3. Recorded' /\ Ordered'
    BY <1>2, ArrivalOrdered DEF WInv, Recorded, servers
  <1>4. \A g \in Gpu : Shown(g) => Shown(g)'
    BY ArrivalShows
  <1>5. ASSUME NEW g \in Gpu, Kept(g), Shown(g)'
        PROVE  Kept(g)'
    <2>1. LastListed(g)' # {}
      BY <1>5, SeenWasListed DEF Shown, Seen, Current, Recent, LastListed
    <2> QED
      BY <1>5, <2>1, OwnershipKept DEF CInv
  <1>6. \A u \in Task \ T, g \in Gpu : Astray(g) /\ Fits(u, g) => Fits(u, g)'
    BY <1>1, ArrivalOthers DEF servers
  <1>7. TasksSound
    BY DEF CInv
  <1> HIDE DEF T
  <1>8. \A t \in T : Placed(t)' /\ \A g \in Gpu : Fits(t, g)'
    BY DEF T
  <1>9. \A t \in T, g \in Gpu : g \in Aims(t) /\ Astray(g) => g \in Aims(t)'
    BY DEF T
  <1> QED
    BY <1>1, <1>2, <1>3, <1>4, <1>5, <1>6, <1>7, <1>8, <1>9, Frame

LEMMA LoopArrivalWorkers ==
  ASSUME CInv, CInv', WInv, NEW e \in Endpoint, LoopIngest(e) \/ LoopFails(e)
  PROVE  WInv'
  <1>1. /\ e \in Observer /\ e \notin Task /\ ServerOf(e) = e /\ probe[e] # None
        /\ UNCHANGED <<servers, task, doubt>>
    BY Names DEF ServerOf, LoopIngest, LoopFails
  <1>2. Steady(e) /\ \A u \in Task \ {e} : task'[u] = task[u]
    BY <1>1 DEF Steady, ServerOf
  <1>3. /\ Taken(e) \/ Dropped(e) \/ Failed(e)
        /\ UNCHANGED vars \/ Next
    <2>1. CASE LoopIngest(e)
      <3>1. OfServer(probe[e], e)
        BY <1>1 DEF CInv, ProbesSound
      <3> QED
        BY <1>1, <2>1, <3>1, IngestedIs DEF LoopIngest
    <2>2. CASE LoopFails(e)
      BY <2>2, FailureIs DEF LoopFails
    <2> QED
      BY <2>1, <2>2
  <1> QED
    BY <1>1, <1>2, <1>3, ArrivalWorkers

LEMMA TaskArrivalWorkers ==
  ASSUME CInv, CInv', WInv, NEW t \in Task, TaskIngest(t) \/ ProbeFails(t)
  PROVE  WInv'
  <1>0. /\ At(t, "ingest") /\ "ingest" \in Working /\ ~At(t, "enable") /\ ~At(t, "disable")
        /\ UNCHANGED <<servers, doubt>>
    BY DEF TaskIngest, ProbeFails, Working, At
  <1>1. /\ TasksSound /\ TaskSound(t, task[t]) /\ task[t] \in TaskRecord /\ Placed(t)
        /\ Quiet(task[t]) \/ (Aims(t) = task[t].targets /\ t \in Reconciler)
        /\ \A g \in Gpu : Fits(t, g)
    BY <1>0, AtPhase
  <1>2. task[t].host \in Endpoint /\ OfServer(probe[t], task[t].host)
    BY <1>0, <1>1, TaskAtWork DEF At, CInv, ProbesSound
  <1>3. t \in Observer /\ t \notin Endpoint /\ ServerOf(t) = task[t].host /\ probe[t] # None
    BY <1>2, Names DEF ServerOf, OfServer
  <1>4. \E r : Become(t, r)
    BY DEF TaskIngest, ProbeFails, Fails, Continue, Ends
  <1>5. \A u \in Task \ {t} : task'[u] = task[u]
    BY <1>1, <1>4 DEF Become, TasksSound
  <1>6. Steady(t)
    BY <1>5, Names DEF Steady, ServerOf, Observer
  <1>7. /\ Taken(t) \/ Dropped(t) \/ Failed(t)
        /\ TaskIngest(t) => Taken(t) \/ Dropped(t)
        /\ UNCHANGED vars \/ Next
    <2>1. CASE TaskIngest(t)
      BY <1>2, <1>3, <2>1, IngestedIs DEF TaskIngest
    <2>2. CASE ProbeFails(t) /\ ~TaskIngest(t)
      BY <1>2, <2>2, FailureIs DEF ProbeFails
    <2> QED
      BY <2>1, <2>2
  <1>8. \A g \in Gpu : Astray(g)' <=> Astray(g)
    BY <1>0 DEF servers, Astray, WorkerOn
  <1>9. /\ Placed(t)' /\ \A g \in Gpu : Fits(t, g)'
        /\ \A g \in Gpu : Astray(g) /\ g \in Aims(t) => g \in Aims(t)'
    <2> DEFINE r == [task[t] EXCEPT !.pc = "settle"]
    <2>1. CASE Become(t, r) /\ (TaskIngest(t) \/ task[t].work = "cleanup")
      <3>1. /\ task'[t].pc = "settle" /\ task'[t].work = task[t].work /\ task'[t].host = task[t].host
            /\ task'[t].targets = task[t].targets
        BY <1>1, <2>1 DEF Become, TasksSound, TaskRecord
      <3>2. Aims(t)' = Aims(t) /\ Placed(t)'
        BY <1>0, <1>1, <3>1 DEF Aims, Placed, At
      <3>3. ASSUME NEW g \in Gpu, g \in Aims(t), Astray(g)
            PROVE  task[t].work = "start" /\ Shown(g)'
        <4>1. task[t].work = "start" /\ Fetched(t, g)
          BY <1>0, <1>1, <3>3 DEF Fits, Aims
        <4>2. HostOf[g] = ServerOf(t)
          BY <1>1, <1>3, <3>3, AimsAt
        <4> QED
          BY <1>3, <1>6, <1>7, <2>1, <4>1, <4>2, ArrivalOwn
      <3>4. \A g \in Gpu : Fits(t, g)'
        BY <1>8, <3>1, <3>2, <3>3 DEF Fits, At
      <3> QED
        BY <3>2, <3>4
    <2>2. CASE Fails(t, task[t]) /\ task[t].work = "start"
      BY <1>1, <2>2, FailsToCleanup
    <2>3. CASE Fails(t, task[t]) /\ task[t].work \notin {"start", "cleanup"}
      <3>1. PICK s : Quiet(s) /\ Become(t, s)
        BY <1>1, <2>3, FailsQuiet
      <3>2. task'[t] = s
        BY <1>1, <3>1 DEF Become, TasksSound
      <3>3. Aims(t) = {}
        BY <2>3 DEF Aims
      <3> QED
        BY <3>1, <3>2, <3>3 DEF Quiet, Aims, Placed, Fits, At
    <2>4. \/ Become(t, r) /\ (TaskIngest(t) \/ task[t].work = "cleanup")
          \/ Fails(t, task[t]) /\ task[t].work # "cleanup"
      BY DEF TaskIngest, ProbeFails
    <2> QED
      BY <2>1, <2>2, <2>3, <2>4
  <1> QED
    BY <1>0, <1>3, <1>5, <1>6, <1>7, <1>9, ArrivalWorkers

-----------------------------------------------------------------------------
(* The other actors *)

LEMMA ServerWorkers ==
  ASSUME CInv, WInv, (\E g \in Gpu, p \in Proc : JobStarts(g, p) \/ ProcessEnds(g, p)) \/ Late
  PROVE  WInv'
  <1>1. UNCHANGED <<vars, probe, task>> /\ TasksSound /\ SameBroker
    BY SameVars DEF JobStarts, ProcessEnds, Late, CInv
  <1>2. NoneAstray
    <2>1. CASE \E g \in Gpu, p \in Proc : JobStarts(g, p) \/ ProcessEnds(g, p)
      <3>1. \A h \in Gpu : real'[h] \cap Worker \subseteq real[h] \cap Worker
        BY <2>1 DEF JobStarts, ProcessEnds, CInv, WorldSound
      <3>2. UNCHANGED <<helper, doubt>>
        BY <2>1 DEF JobStarts, ProcessEnds
      <3> QED
        BY <3>1, <3>2 DEF NoneAstray, WInv, Recorded, Astray, WorkerOn
    <2>2. CASE Late
      <3>1. PICK c \in remote :
               \/ /\ \E gs \in SUBSET c.gpus : Started(c.gpus, gs)
                  /\ doubt' = doubt \cup Missing(c.gpus)
               \/ Stopped(c.gpus) /\ UNCHANGED doubt
               \/ UNCHANGED <<real, helper, doubt>>
        BY <2>2 DEF Late
      <3>2. CASE /\ \E gs \in SUBSET c.gpus : Started(c.gpus, gs)
                 /\ doubt' = doubt \cup Missing(c.gpus)
        <4>1. \A g \in Gpu \ Missing(c.gpus) : real'[g] = real[g] /\ helper'[g] = helper[g]
          BY <3>2 DEF Started
        <4> QED
          BY <3>2, <4>1 DEF NoneAstray, WInv, Recorded, Astray, WorkerOn
      <3>3. CASE Stopped(c.gpus) /\ UNCHANGED doubt
        BY <3>3, StoppedWorkers
      <3>4. CASE UNCHANGED <<real, helper, doubt>>
        BY <3>4, SameServers
      <3> QED
        BY <3>1, <3>2, <3>3, <3>4
    <2> QED
      BY <2>1, <2>2
  <1> QED
    BY <1>1, <1>2, StillStep

LEMMA UnlockedWorkers ==
  ASSUME CInv, CInv', WInv, Unlocked
  PROVE  WInv'
  <1>1. PICK l \in Lease : \/ \E gs \in SUBSET Gpu : Claim(l, gs, TRUE)
                           \/ Release(l)
                           \/ \E e \in Endpoint : ReleaseEmpty(e, l, now)
    BY DEF Unlocked
  <1>2. IInv /\ IInv' /\ now \in 0 .. now /\ TasksSound
    BY NowFacts DEF CInv
  <1>3. Next /\ UNCHANGED <<now, device, rows>>
    BY <1>1, <1>2 DEF Next, AgentStep, OperatorStep, Claim, Release, ReleaseEmpty, OnlyLease
  <1>4. SameBroker
    BY <1>2, <1>3, BrokerCall
  <1>5. UNCHANGED <<task, probe, real, helper, doubt>>
    BY DEF Unlocked, cvars, servers
  <1> QED
    BY <1>2, <1>4, <1>5, SameServers, StillStep

LEMMA RecycleWorkers ==
  ASSUME CInv, WInv, Recycle
  PROVE  WInv'
  <1>1. UNCHANGED <<now, device, rows, task, probe, real, helper, doubt>> /\ TasksSound
    BY DEF Recycle, cvars, servers, CInv
  <1>2. ASSUME NEW g \in Gpu, Kept(g)
        PROVE  Kept(g)'
    <2>1. PICK l \in Lease : lease[l].kind = "keepalive" /\ g \in lease[l].gpus
      BY <1>2 DEF Kept, OwnedAs
    <2>2. lease[l].state \notin TerminalLeaseStates
      BY <2>1 DEF CInv, IInv, OwnsWhileOpen, ActiveLeaseStates, TerminalLeaseStates
    <2>3. lease'[l] = lease[l]
      BY <2>2 DEF Recycle, Recyclable
    <2> QED
      BY <2>1, <2>3 DEF Kept, OwnedAs
  <1>3. SameBroker
    BY <1>1, <1>2 DEF SameBroker
  <1> QED
    BY <1>1, <1>3, SameServers, StillStep

\* A crash leaves behind the workers that somebody was at work on.
LEMMA CrashWorkers ==
  ASSUME CInv, WInv, Crash
  PROVE  WInv'
  <1>1. /\ task' = [t \in Task |-> Idle] /\ probe' = [x \in Observer |-> None]
        /\ UNCHANGED <<now, device, rows, lease, real, helper>>
        /\ doubt' = doubt \cup UNION {task[t].targets :
                                        t \in {u \in Task : task[u].work \in {"start", "cleanup"}}}
    BY DEF Crash, vars
  <1>2. ASSUME NEW g \in Gpu, Astray(g)'
        PROVE  Astray(g) /\ ~Starting(g)
    BY <1>1, <1>2 DEF Astray, WorkerOn, Starting
  <1>3. \A t \in Task : task'[t].pc = "idle" /\ task'[t].work = "none" /\ probe'[t] = None
    BY <1>1, Names DEF Idle
  <1>4. Recorded' /\ Ordered' /\ \A t \in Task : Placed(t)' /\ \A g \in Gpu : Fits(t, g)'
    <2>1. Ordered'
      BY <1>1, Names DEF Ordered
    <2>2. Recorded'
      BY <1>1, <1>2 DEF WInv, Recorded
    <2> QED
      BY <1>3, <2>1, <2>2 DEF Placed, Fits, Aims, At
  <1>5. ASSUME NEW g \in Gpu, Astray(g)'
        PROVE  Kept(g)' /\ Shown(g)'
    <2>1. Kept(g) /\ Shown(g)
      BY <1>2, <1>5 DEF WInv, Settled
    <2>2. Kept(g)'
      BY <1>1, <2>1 DEF Kept, OwnedAs
    <2>3. Seen(g)' = Seen(g)
      BY <1>1 DEF Seen, Current, Recent
    <2>4. \A x \in Observer : ~Blind(x, g)'
      BY <1>1 DEF Blind
    <2> QED
      BY <2>1, <2>2, <2>3, <2>4 DEF Shown
  <1> QED
    BY <1>4, <1>5 DEF WInv, Settled

-----------------------------------------------------------------------------
(* Every behaviour *)

LEMMA WInit == ControllerInit => WInv
  <1> SUFFICES ASSUME ControllerInit PROVE WInv
    OBVIOUS
  <1>1. /\ \A g \in Gpu : real[g] = {}
        /\ \A t \in Task : task[t].pc = "idle" /\ task[t].work = "none"
        /\ \A x \in Observer : probe[x] = None
    BY DEF ControllerInit, Idle
  <1>2. \A g \in Gpu : ~Astray(g)
    BY <1>1 DEF Astray, WorkerOn
  <1>3. Ordered
    BY <1>1, Names DEF Ordered
  <1>4. \A t \in Task : Placed(t)
    BY <1>1 DEF Placed, At
  <1> QED
    BY <1>2, <1>3, <1>4 DEF WInv, Recorded, Settled, Fits

LEMMA NextWInv == CInv /\ CInv' /\ WInv /\ [ControllerNext]_allvars => WInv'
  <1> SUFFICES ASSUME CInv, CInv', WInv, [ControllerNext]_allvars PROVE WInv'
    OBVIOUS
  <1>1. CASE Recycle
    BY <1>1, RecycleWorkers
  <1>2. CASE \E t \in Task : TaskStep(t)
    BY <1>2, EnableWorkers, DisableWorkers, AttestWorkers, TaskProbeWorkers, TaskArrivalWorkers,
       SettleWorkers, ClaimerWorkers, ReconcilesWorkers
    DEF TaskStep
  <1>3. CASE \E e \in Endpoint : LoopStep(e)
    <2>1. ASSUME NEW e \in Endpoint, LoopSkips(e)
          PROVE  WInv'
      <3>1. UNCHANGED <<vars, task, probe, real, helper, doubt>> /\ TasksSound
        BY <2>1 DEF LoopSkips, servers, CInv
      <3> QED
        BY <3>1, SameVars, SameServers, StillStep
    <2> QED
      BY <1>3, <2>1, LoopProbeWorkers, LoopArrivalWorkers DEF LoopStep
  <1>4. CASE \E e \in Endpoint : LoopSpawn(e)
    BY <1>4, Names, ReconcilesWorkers DEF LoopSpawn
  <1>5. CASE \/ \E t \in Reconciler, e \in Endpoint, policy \in Policies : Toggle(t, e, policy)
             \/ \E t \in Claimer, gs \in SUBSET Gpu : Ask(t, gs)
    <2>1. Reconciler \subseteq Task /\ Claimer \subseteq Task
      BY Names
    <2> QED
      BY <1>5, <2>1, BeginWorkers
  <1>6. CASE Unlocked
    BY <1>6, UnlockedWorkers
  <1>7. CASE (\E g \in Gpu, p \in Proc : JobStarts(g, p) \/ ProcessEnds(g, p)) \/ Late
    BY <1>7, ServerWorkers
  <1>8. CASE Crash
    BY <1>8, CrashWorkers
  <1>9. CASE UNCHANGED allvars
    <2>1. UNCHANGED <<vars, task, probe, real, helper, doubt>> /\ TasksSound
      BY <1>9 DEF allvars, cvars, servers, CInv
    <2> QED
      BY <2>1, SameVars, SameServers, StillStep
  <1> QED
    BY <1>1, <1>2, <1>3, <1>4, <1>5, <1>6, <1>7, <1>8, <1>9 DEF ControllerNext, Actors

\* The invariant about workers and observations holds through every order of
\* the procedures of the API process, faults and crashes.
THEOREM WorkersInvariant == ControllerSpec => []WInv
  <1>1. CInv /\ CInv' /\ WInv /\ [ControllerNext]_allvars => WInv'
    BY NextWInv
  <1>2. ControllerInit => WInv
    BY WInit
  <1> QED
    BY <1>1, <1>2, ControllerInvariant, PTL DEF ControllerSpec

\* A worker that runs belongs to a keepalive lease, or a task is at work on its
\* GPU, whatever fails, is switched off or claimed meanwhile.
THEOREM AccountsForWorkers == ControllerSpec => []WorkersAreAccounted
  <1>1. WInv => WorkersAreAccounted
    BY DEF WInv, Settled, Astray, Kept, WorkersAreAccounted
  <1> QED
    BY <1>1, WorkersInvariant, PTL

\* Of the steps of tasks, only a grant assigns a GPU to a workload.
LEMMA OnlyGrants ==
  ASSUME CInv, NEW t \in Task, TaskStep(t) \/ (t \in Reconciler /\ \E e \in Endpoint : LoopSpawns(e, t)),
         NEW l \in Lease,
         lease[l].state = "unissued", lease'[l].kind = "workload", lease'[l].gpus # {}
  PROVE  Grant(t)
  <1>1. IInv /\ lease[l].gpus = {} /\ lease'[l] # lease[l] /\ lease[l].state \notin ActiveLeaseStates
    BY DEF CInv, IInv, OwnsWhileOpen, ActiveLeaseStates
  <1>2. CASE Confirm(t)
    <2>1. PICK ids : ActivateKeepalives(task[t].host, task[t].targets, ids, now)
      BY <1>2 DEF Confirm
    <2>2. PICK g \in task[t].targets : ids[g] = l /\ (CHOOSE h \in task[t].targets : ids[h] = l) = g
      BY <1>1, <2>1 DEF ActivateKeepalives
    <2>3. ~Owned(lease, g)
      BY <1>1, <2>1, <2>2 DEF ActivateKeepalives
    <2>4. lease'[l] = Issue("keepalive", "ACTIVE", {g}, None)
      BY <2>1, <2>2, <2>3 DEF ActivateKeepalives
    <2> QED
      BY <2>4 DEF Issue, NewLease
  <1>3. CASE TaskIngest(t)
    <2>0. At(t, "ingest") /\ "ingest" \in Working /\ t \in Observer /\ ~probe[t].overtaken
      BY <1>1, <1>3, Names DEF TaskIngest, Working, Ingested, vars
    <2>1. task[t].host \in Endpoint /\ OfServer(probe[t], task[t].host)
      BY <2>0, AtWork DEF CInv, ProbesSound
    <2> DEFINE e == task[t].host
               listed == probe[t].listed
    <2>2. Ingest(e, now, TRUE, GpusOf(e), listed)
      BY <1>3, <2>0 DEF TaskIngest, Ingested
    <2>3. listed \in [Gpu -> SUBSET Proc]
      BY <2>0, <2>1 DEF CInv, ProbesSound, OfServer, Probe
    <2>4. now \in 0 .. now
      BY <1>1, NowFacts
    <2> HIDE DEF e, listed
    <2>5. \E r : /\ Sound(r) /\ Shrinks(lease[l], r)
                 /\ lease'[l] = ReconciledLease(r, device', rows')
      BY <1>1, <2>1, <2>2, <2>3, <2>4, IngestLeases DEF e
    <2>6. Shrinks(lease[l], lease'[l])
      BY <1>1, <2>5, RewriteShrinks
    <2> QED
      BY <1>1, <2>6 DEF Shrinks
  <1>4. CASE Finalize(t)
    <2>1. PICK g \in task[t].targets : FinalizeStop(task[t].host, task[t].planned[g], now)
      BY <1>4 DEF Finalize
    <2>2. lease \in [Lease -> LeaseRecord]
      BY <1>1 DEF IInv, TypeOK
    <2> QED
      BY <1>1, <2>1, <2>2 DEF FinalizeStop
  <1>5. CASE Grant(t)
    BY <1>5
  <1>6. CASE UNCHANGED lease
    BY <1>1, <1>6
  <1>7. Confirm(t) \/ TaskIngest(t) \/ Finalize(t) \/ Grant(t) \/ UNCHANGED lease
    BY DEF TaskStep, ToggleReconciles, LoopSpawns, Reconciles, EnableDone, EnableFails, EnableRefused,
           EnableLost, DisableDone, DisableFails, LookAtWorker, ResolveDriver, AttestFails, TaskProbe, ProbeFails,
           ProviderFailure, ConfirmFails, Report, KeepaliveError, Prepare, FinalizeFails, Acquire,
           NoCapacity, PlanReclaim, vars
  <1> QED
    BY <1>2, <1>3, <1>4, <1>5, <1>6, <1>7

\* A claim that waited for the locks is granted no GPU with a worker.
LEMMA GrantFindsNone ==
  ASSUME CInv, WInv, NEW t \in Task, Grant(t), NEW l \in Lease,
         lease[l].state = "unissued", lease'[l].gpus # {}, NEW g \in lease'[l].gpus
  PROVE  ~WorkerOn(g) \/ g \in doubt
  <1>1. /\ lease[l].gpus = {} /\ lease \in [Lease -> LeaseRecord] /\ TasksSound
        /\ \A u \in Task : Placed(u)
    BY DEF CInv, IInv, TypeOK, OwnsWhileOpen, ActiveLeaseStates, WInv
  <1>2. PICK k \in Lease : Claim(k, task[t].wants, TRUE)
    BY DEF Grant
  <1>3. k = l
    BY <1>1, <1>2 DEF Claim, OnlyLease
  <1>4. lease'[l].gpus = task[t].wants
    BY <1>1, <1>2, <1>3 DEF Claim, OnlyLease, Issue, NewLease
  <1>5. g \in Gpu /\ Eligible(g)
    BY <1>1, <1>2, <1>4 DEF Claim, TasksSound, TaskRecord
  <1>6. ~Shown(g)
    BY <1>5 DEF Eligible, Shown, Seen
  <1>7. AllLocks(t) /\ t \in Claimer
    BY <1>1 DEF Grant, Deciding, TasksSound, Locked, AllLocks, At
  <1>8. ~Starting(g)
    BY <1>1, <1>5, <1>7, StartingAims, AimsAt, Names DEF AllLocks
  <1> QED
    BY <1>5, <1>6, <1>8 DEF WInv, Settled, Astray

LEMMA GrantWorkers ==
  ASSUME CInv, WInv, [ControllerNext]_allvars, NEW l \in Lease,
         lease[l].state = "unissued", lease'[l].kind = "workload", lease'[l].gpus # {}, task' # task,
         NEW g \in lease'[l].gpus
  PROVE  ~WorkerOn(g) \/ g \in doubt
  <1>1. CASE \E t \in Task : TaskStep(t) \/ (t \in Reconciler /\ \E e \in Endpoint : LoopSpawns(e, t))
    BY <1>1, OnlyGrants, GrantFindsNone
  <1>2. CASE UNCHANGED lease
    BY <1>2 DEF CInv, IInv, OwnsWhileOpen, ActiveLeaseStates
  <1>3. CASE \E e \in Endpoint : LoopSpawn(e)
    BY <1>1, <1>3, Names DEF LoopSpawn
  <1>4. CASE \E e \in Endpoint : LoopStep(e)
    BY <1>4 DEF LoopStep, LoopProbe, LoopIngest, LoopFails, LoopSkips
  <1>5. CASE \/ \E t \in Reconciler, e \in Endpoint, policy \in Policies : Toggle(t, e, policy)
             \/ \E t \in Claimer, gs \in SUBSET Gpu : Ask(t, gs)
    BY <1>2, <1>5 DEF Toggle, Ask, ConfigurePolicy, vars
  <1>6. CASE Late \/ Crash \/ \E h \in Gpu, p \in Proc : JobStarts(h, p) \/ ProcessEnds(h, p)
    BY <1>2, <1>6 DEF Late, Crash, JobStarts, ProcessEnds, vars
  <1> QED
    BY <1>1, <1>2, <1>3, <1>4, <1>5, <1>6
    DEF ControllerNext, Actors, Recycle, Unlocked, cvars, allvars

\* A claim that took the locks is granted no GPU on which a worker runs, whether
\* one was never stopped or one was started again since the reclaim.
THEOREM ClaimsMeetNoWorker == ControllerSpec => ClaimsFindNoWorker
  <1>1. CInv /\ WInv /\ [ControllerNext]_allvars =>
          [\A l \in Lease :
              lease[l].state = "unissued" /\ lease'[l].kind = "workload" /\ lease'[l].gpus # {} /\ task' # task
              => \A g \in lease'[l].gpus : ~WorkerOn(g) \/ g \in doubt]_allvars
    BY GrantWorkers
  <1> QED
    BY <1>1, ControllerInvariant, WorkersInvariant, PTL DEF ControllerSpec, ClaimsFindNoWorker

=============================================================================
