--------------------- MODULE KeepaliveControllerProofs ---------------------
(* Proofs about KeepaliveController, for every number of servers, GPUs,    *)
(* leases, tasks, workers and faults: the invariants that LeaseBroker      *)
(* proves of the broker's tables survive the procedures of the API         *)
(* process, these hold the locks they rely on, and a program that is       *)
(* adopted as a worker took the GPU in the middle of an attestation.       *)
EXTENDS KeepaliveController, LeaseBrokerProofs

\* The phases in which a task works on the server named by its host.
Working == {"enable", "attest", "prepare", "disable", "probe", "ingest", "settle"}

\* A record task t may have: it knows its server while it works, only claims
\* go through their own phases, and a reconciliation stops keepers of its own
\* server only.
TaskSound(t, r) ==
    /\ r \in TaskRecord
    /\ r.pc \in Working \/ r.recovers # {} => r.host \in Endpoint
    /\ r.pc \in {"plan", "claim"} => t \in Claimer
    /\ t \in Reconciler => r.stops \subseteq GpusOf(r.host)

\* Task t, in phase pc on server e, has the locks it needs.
Locked(t, pc, e, locks) ==
    pc \notin {"idle", "waiting"} =>
        IF t \in Claimer THEN \A f \in Endpoint : locks[f] = t ELSE locks[e] = t

TasksSound ==
    /\ task \in [Task -> TaskRecord] /\ holder \in [Endpoint -> Task \cup {None}]
    /\ \A t \in Task : TaskSound(t, task[t]) /\ Locked(t, task[t].pc, task[t].host, holder)

\* An observation lists processes of its server only.
OfServer(q, e) == q # None /\ \A g \in Gpu : HostOf[g] # e => q.listed[g] = {}

ProbesSound ==
    /\ probe \in [Observer -> Probe \cup {None}]
    /\ \A t \in Task : At(t, "ingest") => OfServer(probe[t], task[t].host)
    /\ \A e \in Endpoint : probe[e] # None => OfServer(probe[e], e)

WorldSound ==
    /\ real \in [Gpu -> SUBSET Proc] /\ helper \in [Gpu -> Worker \cup {None}]
    /\ remote \subseteq [enabled : BOOLEAN, gpus : SUBSET Gpu]
    /\ spawning \subseteq Endpoint
    /\ faults \in 0 .. MaxFaults /\ doubt \subseteq Gpu /\ slips \subseteq Gpu

\* The inductive invariant: the broker's, and the controller's on top of it.
CInv == IInv /\ TasksSound /\ ProbesSound /\ WorldSound

\* Names do not clash.
LEMMA Names ==
  /\ Task = Reconciler \cup Claimer /\ Reconciler \cap Claimer = {}
  /\ Task \cap Endpoint = {} /\ None \notin Task /\ None \notin Endpoint
  /\ Task \subseteq Observer /\ Endpoint \subseteq Observer
  BY ControllerAssumption DEF Task, Observer

LEMMA IdleSound ==
  ASSUME NEW t \in Task
  PROVE  TaskSound(t, Idle) /\ Idle.pc = "idle"
  BY DEF TaskSound, Idle, TaskRecord, Working

LEMMA CInit == ControllerInit => CInv
  <1> SUFFICES ASSUME ControllerInit PROVE CInv
    OBVIOUS
  <1>1. IInv
    BY InitIInv DEF ControllerInit
  <1>3. TasksSound
    BY IdleSound DEF ControllerInit, TasksSound, TaskSound, Locked
  <1>4. ProbesSound
    BY IdleSound, Names DEF ControllerInit, ProbesSound, At
  <1>5. WorldSound
    BY ControllerAssumption DEF ControllerInit, WorldSound
  <1> QED
    BY <1>1, <1>3, <1>4, <1>5 DEF CInv

-----------------------------------------------------------------------------
(* Tasks and their locks *)

\* Task t goes on with a sound record that awaits no observation, and touches
\* no lock of another task.
Moves(t) ==
    \E r \in TaskRecord :
        /\ TaskSound(t, r) /\ r.pc # "ingest"
        /\ task' = [task EXCEPT ![t] = r]
        /\ holder' \in [Endpoint -> Task \cup {None}]
        /\ \A e \in Endpoint : holder[e] \in Task \ {t} => holder'[e] = holder[e]
        /\ Locked(t, r.pc, r.host, holder')

\* Another task keeps its record and its locks.
LEMMA OthersSound ==
  ASSUME TasksSound, NEW t \in Task, NEW r,
         TaskSound(t, r), task' = [task EXCEPT ![t] = r],
         holder' \in [Endpoint -> Task \cup {None}],
         \A e \in Endpoint : holder[e] \in Task \ {t} => holder'[e] = holder[e],
         Locked(t, r.pc, r.host, holder')
  PROVE  TasksSound'
  <1>1. task' \in [Task -> TaskRecord] /\ task'[t] = r
    BY DEF TasksSound, TaskSound
  <1>2. ASSUME NEW u \in Task
        PROVE  TaskSound(u, task'[u]) /\ Locked(u, task'[u].pc, task'[u].host, holder')
    <2>1. CASE u = t
      BY <1>1, <2>1
    <2>2. CASE u # t
      <3>1. task'[u] = task[u] /\ TaskSound(u, task[u]) /\ u \in Task \ {t}
            /\ Locked(u, task[u].pc, task[u].host, holder)
        BY <2>2 DEF TasksSound
      <3>2. CASE u \in Claimer
        BY <3>1, <3>2 DEF Locked
      <3>3. CASE u \notin Claimer /\ task[u].pc \notin {"idle", "waiting"}
        <4>1. task[u].host \in Endpoint
          BY <3>1, <3>3 DEF TaskSound, TaskRecord, Working
        <4> QED
          BY <3>1, <3>3, <4>1 DEF Locked
      <3> QED
        BY <3>1, <3>2, <3>3 DEF Locked
    <2> QED
      BY <2>1, <2>2
  <1> QED
    BY <1>1, <1>2 DEF TasksSound, TaskSound

LEMMA MovesTasks ==
  ASSUME TasksSound, NEW t \in Task, Moves(t)
  PROVE  TasksSound'
  BY OthersSound DEF Moves

LEMMA EndsMoves ==
  ASSUME TasksSound, NEW t \in Task, Ends(t)
  PROVE  Moves(t)
  <1>1. Idle \in TaskRecord /\ Locked(t, Idle.pc, Idle.host, holder')
    BY IdleSound DEF TaskSound, Locked
  <1> QED
    BY <1>1, IdleSound DEF Ends, Become, Moves, TasksSound

LEMMA BecomeMoves ==
  ASSUME TasksSound, NEW t \in Task, NEW r, TaskSound(t, r), r.pc # "ingest",
         Become(t, r), UNCHANGED holder, Locked(t, r.pc, r.host, holder)
  PROVE  Moves(t)
  BY DEF Become, Moves, TasksSound, TaskSound

\* Whatever comes next for a task that holds its locks.
LEMMA ContinueMoves ==
  ASSUME TasksSound, NEW t \in Task, NEW r, TaskSound(t, r), Locked(t, "settle", r.host, holder),
         Continue(t, r)
  PROVE  Moves(t)
  <1>1. r \in TaskRecord
    BY DEF TaskSound
  <1>2. CASE r.recovers # {}
    <2> DEFINE s == [r EXCEPT !.pc = "attest", !.work = "recover", !.targets = r.recovers,
                              !.recovers = {}]
    <2>1. /\ s \in TaskRecord /\ s.pc = "attest" /\ s.host = r.host /\ s.stops = r.stops
      BY <1>1 DEF TaskRecord
    <2>2. Become(t, s) /\ UNCHANGED holder
      BY <1>2 DEF Continue
    <2> HIDE DEF s
    <2>3. TaskSound(t, s) /\ Locked(t, s.pc, s.host, holder)
      BY <1>2, <2>1 DEF TaskSound, Locked
    <2> QED
      BY <2>1, <2>2, <2>3, BecomeMoves
  <1>3. CASE r.recovers = {} /\ r.stops # {}
    <2> DEFINE here == {g \in r.stops : HostOf[g] = r.host}
               s(g) == [r EXCEPT !.pc = "disable", !.work = "stop", !.targets = {g},
                                 !.stops = @ \ {g}, !.failed = FALSE]
               p(g) == [r EXCEPT !.pc = "prepare", !.host = HostOf[g]]
    <2>1. PICK g \in r.stops : /\ \/ g \in here /\ Become(t, s(g))
                                  \/ here = {} /\ Become(t, p(g))
                               /\ UNCHANGED holder
      BY <1>3 DEF Continue
    <2>2. g \in Gpu /\ HostOf[g] \in Endpoint
      BY <1>1, HostAssumption DEF TaskRecord
    <2>3. CASE g \in here /\ Become(t, s(g))
      <3>1. /\ s(g) \in TaskRecord /\ s(g).pc = "disable" /\ s(g).host = r.host
            /\ s(g).stops \subseteq r.stops /\ r.host \in Endpoint
        BY <1>1, <2>2, <2>3 DEF TaskRecord
      <3> HIDE DEF s
      <3>2. TaskSound(t, s(g)) /\ Locked(t, s(g).pc, s(g).host, holder)
        BY <3>1 DEF TaskSound, Locked
      <3> QED
        BY <2>1, <2>3, <3>1, <3>2, BecomeMoves
    <2>4. CASE here = {} /\ Become(t, p(g))
      <3>1. t \in Claimer
        BY <2>2, <2>4, Names DEF TaskSound, GpusOf
      <3>2. /\ p(g) \in TaskRecord /\ p(g).pc = "prepare" /\ p(g).host = HostOf[g]
        BY <1>1, <2>2 DEF TaskRecord
      <3> HIDE DEF p
      <3>3. TaskSound(t, p(g)) /\ Locked(t, p(g).pc, p(g).host, holder)
        BY <2>2, <3>1, <3>2, Names DEF TaskSound, Locked
      <3> QED
        BY <2>1, <2>4, <3>2, <3>3, BecomeMoves
    <2> QED
      BY <2>1, <2>3, <2>4
  <1>4. CASE r.recovers = {} /\ r.stops = {} /\ t \in Claimer
    <2> DEFINE s == [r EXCEPT !.pc = "claim", !.work = "none", !.targets = {}]
    <2>1. /\ s \in TaskRecord /\ s.pc = "claim" /\ s.host = r.host /\ s.stops = {}
          /\ s.recovers = {}
      BY <1>1, <1>4 DEF TaskRecord
    <2>2. Become(t, s) /\ UNCHANGED holder
      BY <1>4 DEF Continue
    <2> HIDE DEF s
    <2>3. TaskSound(t, s) /\ Locked(t, s.pc, s.host, holder)
      BY <1>4, <2>1 DEF TaskSound, Locked, Working
    <2> QED
      BY <2>1, <2>2, <2>3, BecomeMoves
  <1>5. CASE r.recovers = {} /\ r.stops = {} /\ t \notin Claimer
    BY <1>5, EndsMoves DEF Continue
  <1> QED
    BY <1>2, <1>3, <1>4, <1>5

\* A failure, of a task that works on a server.
LEMMA FailsMoves ==
  ASSUME TasksSound, NEW t \in Task, NEW r, TaskSound(t, r), Locked(t, "settle", r.host, holder),
         r.pc \in Working, Fails(t, r)
  PROVE  Moves(t)
  <1>1. CASE r.work = "start"
    <2> DEFINE s == [r EXCEPT !.pc = "disable", !.work = "cleanup"]
    <2>1. /\ s \in TaskRecord /\ s.pc = "disable" /\ s.host = r.host /\ s.stops = r.stops
          /\ s.recovers = r.recovers
      BY DEF TaskSound, TaskRecord
    <2>2. Become(t, s) /\ UNCHANGED holder
      BY <1>1 DEF Fails
    <2> HIDE DEF s
    <2>3. TaskSound(t, s) /\ Locked(t, s.pc, s.host, holder)
      BY <2>1 DEF TaskSound, Locked
    <2> QED
      BY <2>1, <2>2, <2>3, BecomeMoves
  <1> QED
    BY <1>1, ContinueMoves, EndsMoves DEF Fails

\* Both apply to a task as it stands when it works on a server.
LEMMA TaskAtWork ==
  ASSUME TasksSound, NEW t \in Task, task[t].pc \in Working
  PROVE  /\ TaskSound(t, task[t]) /\ task[t] \in TaskRecord
         /\ \A pc : Locked(t, pc, task[t].host, holder)
         /\ task[t].host \in Endpoint
  BY DEF TasksSound, TaskSound, Locked, Working

\* A task stays at work on its server.
LEMMA WorkMoves ==
  ASSUME TasksSound, NEW t \in Task, NEW r \in TaskRecord, task[t].pc \in Working,
         r.pc \in Working \ {"ingest"}, r.host = task[t].host, r.stops = task[t].stops,
         Become(t, r), UNCHANGED holder
  PROVE  Moves(t)
  <1>1. TaskSound(t, r)
    BY TaskAtWork DEF TaskSound, Working
  <1> QED
    BY <1>1, TaskAtWork, BecomeMoves

-----------------------------------------------------------------------------
(* Observations on their way *)

\* An answer changes no other observation, but for its place in the order.
LEMMA ArrivedKeeps ==
  ASSUME probe \in [Observer -> Probe \cup {None}], NEW x \in Observer, NEW older, Arrived(x, older)
  PROVE  /\ probe' \in [Observer -> Probe \cup {None}]
         /\ probe'[x] = None
         /\ \A y \in Observer : probe[y] = None => probe'[y] = None
         /\ \A y \in Observer \ {x} : probe[y] # None =>
               probe'[y] # None /\ probe'[y].listed = probe[y].listed
  <1> DEFINE q(y) == [probe[y] EXCEPT !.earlier = @ \ {x}, !.overtaken = @ \/ y \in older]
  <1>1. ASSUME NEW y \in Observer, probe[y] # None
        PROVE  q(y) \in Probe /\ q(y).listed = probe[y].listed /\ q(y) # None
    <2>1. probe[y] \in Probe
      BY <1>1
    <2>2. q(y).listed = probe[y].listed
      BY <2>1 DEF Probe
    <2>3. q(y) \in Probe
      BY <2>1 DEF Probe
    <2> QED
      BY <2>2, <2>3, ProbeAssumption
  <1>2. probe' = [y \in Observer |-> IF y = x \/ probe[y] = None THEN None ELSE q(y)]
    BY DEF Arrived
  <1> HIDE DEF q
  <1> QED
    BY <1>1, <1>2

\* The processes that run on a server now, and only those.
LEMMA ProbingSound ==
  ASSUME probe \in [Observer -> Probe \cup {None}], real \in [Gpu -> SUBSET Proc],
         NEW x \in Observer, NEW e, Probing(x, e)
  PROVE  /\ probe' \in [Observer -> Probe \cup {None}] /\ OfServer(probe'[x], e)
         /\ \A y \in Observer \ {x} : probe'[y] = probe[y]
  <1> DEFINE q == [listed |-> [g \in Gpu |-> IF HostOf[g] = e THEN real[g] ELSE {}],
                   earlier |-> {y \in Observer : probe[y] # None /\ ServerOf(y) = e},
                   overtaken |-> FALSE]
  <1>1. q \in Probe /\ \A g \in Gpu : HostOf[g] # e => q.listed[g] = {}
    BY DEF Probe
  <1>2. probe' = [probe EXCEPT ![x] = q]
    BY DEF Probing
  <1> HIDE DEF q
  <1> QED
    BY <1>1, <1>2, ProbeAssumption DEF OfServer

LEMMA MovesProbes ==
  ASSUME ProbesSound, TasksSound, NEW t \in Task, Moves(t),
         UNCHANGED probe \/ \E older : Arrived(t, older)
  PROVE  ProbesSound'
  <1>1. PICK r \in TaskRecord : r.pc # "ingest" /\ task' = [task EXCEPT ![t] = r]
    BY DEF Moves
  <1>2. task'[t].pc # "ingest" /\ \A u \in Task \ {t} : task'[u] = task[u]
    BY <1>1 DEF TasksSound
  <1>3. CASE UNCHANGED probe
    BY <1>2, <1>3 DEF ProbesSound, At
  <1>4. CASE \E older : Arrived(t, older)
    <2>1. PICK older : Arrived(t, older)
      BY <1>4
    <2>2. /\ probe' \in [Observer -> Probe \cup {None}]
          /\ \A y \in Observer : probe[y] = None => probe'[y] = None
          /\ \A y \in Observer \ {t} : probe[y] # None =>
                probe'[y] # None /\ probe'[y].listed = probe[y].listed
      BY <2>1, Names, ArrivedKeeps DEF ProbesSound
    <2> QED
      BY <1>2, <2>2, Names DEF ProbesSound, At, OfServer
  <1> QED
    BY <1>3, <1>4

LEMMA LoopProbes ==
  ASSUME ProbesSound, NEW e \in Endpoint, UNCHANGED task, NEW older, Arrived(e, older)
  PROVE  ProbesSound'
  <1>1. /\ probe' \in [Observer -> Probe \cup {None}]
        /\ \A y \in Observer : probe[y] = None => probe'[y] = None
        /\ \A y \in Observer \ {e} : probe[y] # None =>
              probe'[y] # None /\ probe'[y].listed = probe[y].listed
        /\ probe'[e] = None
    BY Names, ArrivedKeeps DEF ProbesSound
  <1> QED
    BY <1>1, Names DEF ProbesSound, At, OfServer

-----------------------------------------------------------------------------
(* The broker's tables under the controller's calls *)

LEMMA BrokerStutter ==
  ASSUME IInv, UNCHANGED vars
  PROVE  IInv'
  BY StutterStep DEF vars

\* An observation forgets the expected worker of a GPU that is gone.
LEMMA IngestForgets ==
  ASSUME IInv, NEW e \in Endpoint, NEW at, NEW complete \in BOOLEAN, NEW visible, NEW listed,
         Ingest(e, at, complete, visible, listed)
  PROVE  \A g \in Gpu : keeper'[g].expected \in {keeper[g].expected, None}
  <1> DEFINE dev == DeviceAfter(e, at, complete, visible)
             ls1 == IF complete THEN AbsentReleased(e, lease, dev) ELSE lease
             kp1 == IF complete THEN AbsentForgotten(e, keeper, dev) ELSE keeper
             rw  == RowsAfter(e, complete, listed)
             kp2 == IF complete THEN KeeperObserved(e, ls1, rw, kp1) ELSE kp1
             ls2 == WorkloadBound(e, ls1, rw)
             kp3 == IF complete THEN ErrorsCleared(e, ls2, dev, rw, kp2) ELSE kp2
  <1>1. keeper' = kp3
    BY DEF Ingest, Tables
  <1>2. /\ kp1 \in [Gpu -> KeeperRecord]
        /\ \A g \in Gpu : kp1[g].expected \in {keeper[g].expected, None}
    BY DEF AbsentForgotten, KeeperRecord, IInv, TypeOK
  <1> HIDE DEF dev, ls1, kp1, rw
  <1>3. kp2 \in [Gpu -> KeeperRecord] /\ \A g \in Gpu : kp2[g].expected = kp1[g].expected
    BY <1>2 DEF KeeperObserved, KeeperRecord
  <1> HIDE DEF kp2, ls2
  <1>4. \A g \in Gpu : kp3[g].expected = kp2[g].expected
    BY <1>3 DEF ErrorsCleared, KeeperRecord
  <1> QED
    BY <1>1, <1>2, <1>3, <1>4

LEMMA NowFacts ==
  ASSUME IInv
  PROVE  now \in 0 .. now /\ now \in Barriers
  <1>1. now \in Nat /\ CallLag \in Nat
    BY TimeFacts, TimeAssumption DEF IInv, TypeOK
  <1> QED
    BY <1>1 DEF Barriers

\* A server that has a GPU is a server.
LEMMA HasGpu ==
  ASSUME NEW e, NEW g \in GpusOf(e)
  PROVE  e \in Endpoint /\ g \in Gpu
  BY HostAssumption DEF GpusOf

LEMMA ClaimBroker ==
  ASSUME IInv, NEW l \in Lease, NEW gs \in SUBSET Gpu, Claim(l, gs, TRUE)
  PROVE  IInv'
  <1>1. IInv'
    BY ClaimStep
  <1> QED
    BY <1>1 DEF Claim, OnlyLease

LEMMA ReleaseBroker ==
  ASSUME IInv, NEW l \in Lease, Release(l) \/ \E e \in Endpoint : ReleaseEmpty(e, l, now)
  PROVE  IInv'
  <1>1. IInv' /\ UNCHANGED keeper
    BY NowFacts, ReleaseStep, ReleaseEmptyStep DEF Release, ReleaseEmpty, OnlyLease
  <1> QED
    BY <1>1

LEMMA PolicyBroker ==
  ASSUME IInv, NEW e \in Endpoint, NEW policy \in Policies, ConfigurePolicy(e, policy)
  PROVE  IInv'
  <1>1. IInv'
    BY ConfigurePolicyStep
  <1>2. keeper \in [Gpu -> KeeperRecord]
    BY DEF IInv, TypeOK
  <1>3. \A g \in Gpu : keeper'[g].expected = keeper[g].expected
    BY <1>2 DEF ConfigurePolicy, KeeperRecord
  <1> QED
    BY <1>1, <1>3

\* A stop that is finalized; of no lease it would end none.
LEMMA FinalizeBroker ==
  ASSUME IInv, NEW e, NEW l \in Lease \cup {None}, FinalizeStop(e, l, now)
  PROVE  IInv'
  <1>1. PICK g \in GpusOf(e) : keeper' = [keeper EXCEPT ![g] = [actual |-> "OFF", expected |-> None]]
    BY DEF FinalizeStop
  <1>2. g \in Gpu /\ e \in Endpoint /\ keeper \in [Gpu -> KeeperRecord]
    BY <1>1, HasGpu DEF IInv, TypeOK
  <1>3. \A h \in Gpu : keeper'[h].expected \in {keeper[h].expected, None}
    BY <1>1, <1>2
  <1>4. CASE l \in Lease
    BY <1>2, <1>3, <1>4, NowFacts, FinalizeStopStep
  <1>5. CASE l = None
    <2>1. lease' = lease
      BY <1>5, ControllerAssumption DEF FinalizeStop, IInv, TypeOK
    <2>2. /\ keeper' \in [Gpu -> KeeperRecord]
          /\ \A h \in Gpu : keeper'[h].actual = "ON" => keeper'[h] = keeper[h]
      BY <1>1, <1>2 DEF KeeperRecord
    <2>3. IInv'
      BY <2>1, <2>2, HostOrKeeperStep DEF FinalizeStop, IInv, TypeOK
    <2> QED
      BY <1>3, <2>3
  <1> QED
    BY <1>4, <1>5

LEMMA ErrorBroker ==
  ASSUME IInv, NEW e, NEW gs \in SUBSET Gpu, KeepaliveError(e, gs)
  PROVE  IInv'
  <1>1. e \in Endpoint
    BY HasGpu DEF KeepaliveError
  <1>2. IInv'
    BY <1>1, KeepaliveErrorStep
  <1>3. keeper \in [Gpu -> KeeperRecord]
    BY DEF IInv, TypeOK
  <1>4. \A g \in Gpu : keeper'[g].expected = keeper[g].expected
    BY <1>3 DEF KeepaliveError, KeeperRecord
  <1> QED
    BY <1>2, <1>4

LEMMA FailureBroker ==
  ASSUME IInv, NEW e \in Endpoint, ProviderFailure(e)
  PROVE  IInv'
  BY ProviderFailureStep DEF ProviderFailure

\* Ingestion of an observation of server e.
LEMMA IngestedBroker ==
  ASSUME IInv, ProbesSound, NEW x \in Observer, NEW e \in Endpoint,
         OfServer(probe[x], e), Ingested(x, e)
  PROVE  IInv'
  <1>1. CASE probe[x].overtaken
    BY <1>1, BrokerStutter DEF Ingested
  <1>2. CASE ~probe[x].overtaken
    <2> DEFINE listed == probe[x].listed
    <2>1. Ingest(e, now, TRUE, GpusOf(e), listed)
      BY <1>2 DEF Ingested
    <2>2. listed \in [Gpu -> SUBSET Proc]
      BY DEF ProbesSound, OfServer, Probe
    <2>3. \A g \in Gpu \ GpusOf(e) : listed[g] = {}
      BY DEF OfServer, GpusOf
    <2> HIDE DEF listed
    <2>4. IInv'
      <3>1. IInv /\ now \in 0 .. now /\ GpusOf(e) \in SUBSET GpusOf(e) /\ TRUE \in BOOLEAN
        BY NowFacts
      <3> QED
        BY <2>1, <2>2, <2>3, <3>1, IngestStep
    <2>5. \A g \in Gpu : keeper'[g].expected \in {keeper[g].expected, None}
      BY <2>1, IngestForgets
    <2> QED
      BY <2>4, <2>5
  <1> QED
    BY <1>1, <1>2

LEMMA ActivateBroker ==
  ASSUME IInv, NEW e, NEW gs \in SUBSET Gpu, NEW ids \in [gs -> Lease],
         ActivateKeepalives(e, gs, ids, now)
  PROVE  IInv'
  <1>1. e \in Endpoint
    BY HasGpu DEF ActivateKeepalives
  <1> QED
    BY <1>1, NowFacts, ActivateKeepalivesStep

\* A row that has ended owns nothing: it can be taken for one not yet written.
LEMMA RecycleBroker ==
  ASSUME IInv, Recycle
  PROVE  IInv'
  <1>1. IInv /\ RowsSound
    BY RowsAreSound DEF IInv
  <1>2. ASSUME NEW l \in Lease
        PROVE  /\ Sound(lease'[l])
               /\ lease'[l] # lease[l] => lease[l].gpus = {} /\ lease'[l].gpus = {}
    <2>1. Sound(lease[l]) /\ Sound(NewLease) /\ NewLease.gpus = {}
      BY <1>1, NewLeaseSound DEF RowsSound, NewLease
    <2>2. lease'[l] = IF Recyclable(l) THEN NewLease ELSE lease[l]
      BY DEF Recycle
    <2>3. Recyclable(l) => lease[l].gpus = {}
      BY <2>1 DEF Recyclable, Sound, ActiveLeaseStates, TerminalLeaseStates
    <2>4. lease'[l] = NewLease \/ lease'[l] = lease[l]
      BY <2>2
    <2>5. Sound(lease'[l])
      BY <2>1, <2>4
    <2> QED
      BY <2>1, <2>2, <2>3, <2>5
  <1>3. TypeOK'
    BY <1>1, <1>2 DEF Recycle, IInv, TypeOK, Sound
  <1>4. ExclusiveAssignment'
    BY <1>1, <1>2 DEF IInv, ExclusiveAssignment
  <1>5. OwnsWhileOpen' /\ KeepaliveIsDurable' /\ OrphanAlertIsExact'
    BY <1>2, <1>3, NextRowsAreSound
  <1>6. EvidenceIsCoherent'
    BY <1>1 DEF Recycle, IInv, EvidenceIsCoherent, LastListed
  <1>7. KeeperOnIsVerified'
    <2>1. \A g \in Gpu : LastListed(g)' = LastListed(g)
      BY DEF Recycle, LastListed
    <2> QED
      BY <1>1, <1>2, <2>1 DEF Recycle, IInv, KeeperOnIsVerified
  <1> QED
    BY <1>1, <1>3, <1>4, <1>5, <1>6, <1>7 DEF IInv, Recycle

-----------------------------------------------------------------------------
(* The servers *)

LEMMA FaultWorld ==
  ASSUME WorldSound, Fault \/ UNCHANGED faults
  PROVE  faults' \in 0 .. MaxFaults
  BY ControllerAssumption DEF WorldSound, Fault

LEMMA StartedWorld ==
  ASSUME WorldSound, NEW gs \in SUBSET Gpu, NEW noted, Started(gs, noted)
  PROVE  real' \in [Gpu -> SUBSET Proc] /\ helper' \in [Gpu -> Worker \cup {None}]
  <1>1. PICK new \in [Missing(gs) -> Worker] :
          /\ real' = [g \in Gpu |-> IF g \in Missing(gs) THEN real[g] \cup {new[g]} ELSE real[g]]
          /\ helper' = [g \in Gpu |-> IF g \in Missing(gs) \cap noted THEN new[g] ELSE helper[g]]
    BY DEF Started
  <1> QED
    BY <1>1, ControllerAssumption DEF WorldSound

LEMMA StoppedWorld ==
  ASSUME WorldSound, NEW gs, Stopped(gs)
  PROVE  real' \in [Gpu -> SUBSET Proc] /\ helper' \in [Gpu -> Worker \cup {None}]
  BY DEF WorldSound, Stopped

LEMMA LostWorld ==
  ASSUME WorldSound, NEW t \in Task, task[t].targets \in SUBSET Gpu, NEW enabled \in BOOLEAN,
         Lost(t, enabled)
  PROVE  /\ real' \in [Gpu -> SUBSET Proc] /\ helper' \in [Gpu -> Worker \cup {None}]
         /\ remote' \subseteq [enabled : BOOLEAN, gpus : SUBSET Gpu]
         /\ faults' \in 0 .. MaxFaults
  <1>1. [enabled |-> enabled, gpus |-> task[t].targets] \in [enabled : BOOLEAN, gpus : SUBSET Gpu]
    OBVIOUS
  <1>2. remote' = remote \cup {[enabled |-> enabled, gpus |-> task[t].targets]}
    BY DEF Lost
  <1>3. remote' \subseteq [enabled : BOOLEAN, gpus : SUBSET Gpu]
    BY <1>1, <1>2 DEF WorldSound
  <1> QED
    BY <1>3, FaultWorld DEF Lost, WorldSound

LEMMA WorldStutter ==
  ASSUME WorldSound, UNCHANGED <<servers, spawning, doubt>>, Fault \/ UNCHANGED faults,
         UNCHANGED slips \/ slips' \subseteq slips
  PROVE  WorldSound'
  BY FaultWorld DEF WorldSound, servers

-----------------------------------------------------------------------------
(* The steps of tasks *)

\* What is left to show of a step of one task.
LEMMA TaskStepSound ==
  ASSUME CInv, NEW t \in Task, Moves(t), UNCHANGED probe \/ \E older : Arrived(t, older),
         IInv', WorldSound'
  PROVE  CInv'
  BY MovesTasks, MovesProbes DEF CInv

\* Every GPU that a plan wants to stop is under a keepalive lease.
LEMMA PlanSound ==
  ASSUME NEW gs \in SUBSET Gpu, \A g \in gs : \E l \in Lease : KeeperRow(l, g)
  PROVE  PlannedLease(gs) \in [Gpu -> Lease \cup {None}]
  BY DEF PlannedLease

LEMMA OwnedRow ==
  ASSUME IInv, NEW g \in Gpu, OwnedAs(lease, "keepalive", g)
  PROVE  \E l \in Lease : KeeperRow(l, g)
  <1>1. PICK l \in Lease : lease[l].kind = "keepalive" /\ g \in lease[l].gpus
    BY DEF OwnedAs
  <1>2. lease[l].gpus = {g}
    BY <1>1 DEF IInv, OwnsWhileOpen, KeepaliveIsDurable
  <1> QED
    BY <1>1, <1>2 DEF KeeperRow

LEMMA ReconcilesMoves ==
  ASSUME IInv, TasksSound, NEW t \in Reconciler, NEW e, Reconciles(t, e)
  PROVE  Moves(t)
  <1> DEFINE r == [Idle EXCEPT !.host = e, !.recovers = ToRecover(e), !.stops = ToStop(e),
                               !.planned = PlannedLease(ToStop(e))]
             s1 == [r EXCEPT !.pc = "enable", !.work = "start", !.targets = ToStart(e)]
             s2 == [r EXCEPT !.pc = "attest", !.work = "recover", !.targets = ToRecover(e),
                             !.recovers = {}]
             s3 == [r EXCEPT !.pc = "prepare"]
  <1>0. t \in Task /\ t \notin Claimer
    BY Names
  <1>1. CASE Become(t, Idle) /\ UNCHANGED holder
    <2>1. TaskSound(t, Idle) /\ Locked(t, Idle.pc, Idle.host, holder) /\ Idle.pc # "ingest"
      BY <1>0, IdleSound DEF Locked
    <2> QED
      BY <1>0, <1>1, <2>1, BecomeMoves
  <1>2. CASE e \in Endpoint /\ holder[e] = None /\ holder' = [holder EXCEPT ![e] = t]
             /\ (Become(t, s1) \/ Become(t, s2) \/ Become(t, s3))
    <2>1. /\ ToStart(e) \in SUBSET Gpu /\ ToRecover(e) \in SUBSET Gpu /\ ToStop(e) \in SUBSET Gpu
          /\ ToStop(e) \subseteq GpusOf(e)
          /\ PlannedLease(ToStop(e)) \in [Gpu -> Lease \cup {None}]
      BY PlanSound, OwnedRow DEF ToStart, ToRecover, ToStop, GpusOf
    <2>2. /\ Idle \in TaskRecord /\ Idle.proof = [g \in Gpu |-> None]
      BY <1>0, IdleSound DEF TaskSound, Idle
    <2>3. ASSUME NEW s \in {s1, s2, s3}
          PROVE  /\ s \in TaskRecord /\ s.host = e /\ s.stops = ToStop(e)
                 /\ s.pc \in Working \ {"ingest"}
      <3>1. r \in TaskRecord /\ r.host = e /\ r.stops = ToStop(e)
        BY <1>2, <2>1, <2>2 DEF TaskRecord
      <3> HIDE DEF r
      <3> QED
        BY <2>1, <3>1 DEF TaskRecord, Working
    <2> HIDE DEF s1, s2, s3
    <2>4. PICK s \in {s1, s2, s3} : task' = [task EXCEPT ![t] = s]
      BY <1>2 DEF Become
    <2>5. TaskSound(t, s)
      BY <1>0, <1>2, <2>1, <2>2, <2>3 DEF TaskSound, Working
    <2>6. /\ holder' \in [Endpoint -> Task \cup {None}] /\ holder'[e] = t
          /\ \A f \in Endpoint : holder[f] \in Task \ {t} => holder'[f] = holder[f]
      BY <1>0, <1>2, Names DEF TasksSound
    <2>7. Locked(t, s.pc, s.host, holder')
      BY <1>0, <2>3, <2>6 DEF Locked
    <2> QED
      BY <2>3, <2>4, <2>5, <2>6, <2>7 DEF Moves
  <1>3. ToStart(e) # {} \/ ToRecover(e) # {} \/ ToStop(e) # {} => e \in Endpoint
    BY HasGpu DEF ToStart, ToRecover, ToStop
  <1> HIDE DEF s1, s2, s3
  <1>4. holder[e] = None
    BY DEF Reconciles
  <1>5. \/ ToStart(e) # {} /\ Become(t, s1) /\ holder' = [holder EXCEPT ![e] = t]
        \/ ToRecover(e) # {} /\ Become(t, s2) /\ holder' = [holder EXCEPT ![e] = t]
        \/ ToStop(e) # {} /\ Become(t, s3) /\ holder' = [holder EXCEPT ![e] = t]
        \/ Become(t, Idle) /\ UNCHANGED holder
    BY DEF Reconciles, s1, s2, s3
  <1> QED
    BY <1>1, <1>2, <1>3, <1>4, <1>5


\* What the invariant says of a task that works on a server.
LEMMA AtWork ==
  ASSUME CInv, NEW t \in Task, NEW pc \in Working, At(t, pc)
  PROVE  /\ TasksSound /\ task[t].pc = pc /\ task[t].pc \in Working
         /\ TaskSound(t, task[t]) /\ task[t] \in TaskRecord /\ task[t].host \in Endpoint
         /\ task[t].targets \in SUBSET Gpu
         /\ \A phase : Locked(t, phase, task[t].host, holder)
         /\ WorldSound /\ IInv
  BY TaskAtWork DEF CInv, At, TaskRecord

LEMMA EnableStep ==
  ASSUME CInv, NEW t \in Task,
         EnableDone(t) \/ EnableFails(t) \/ EnableRefused(t) \/ EnableLost(t)
  PROVE  CInv'
  <1>0. At(t, "enable") /\ "enable" \in Working /\ UNCHANGED probe /\ UNCHANGED vars
    BY DEF EnableDone, EnableFails, EnableRefused, EnableLost, Working
  <1>1. IInv'
    BY <1>0, AtWork, BrokerStutter
  <1>2. CASE EnableDone(t)
    <2> DEFINE r == [task[t] EXCEPT !.pc = "attest"]
    <2>1. /\ r \in TaskRecord /\ r.pc = "attest" /\ r.host = task[t].host /\ r.stops = task[t].stops
          /\ Become(t, r) /\ UNCHANGED holder
      BY <1>0, <1>2, AtWork DEF EnableDone, Answered, TaskRecord
    <2> HIDE DEF r
    <2>2. Moves(t)
      BY <1>0, <2>1, AtWork, WorkMoves DEF TaskSound, Working
    <2>3. WorldSound'
      BY <1>0, <1>2, AtWork, StartedWorld DEF EnableDone, Answered, WorldSound
    <2> QED
      BY <1>0, <1>1, <2>2, <2>3, TaskStepSound
  <1>3. CASE EnableFails(t)
    <2>1. Moves(t)
      BY <1>0, <1>3, AtWork, FailsMoves DEF EnableFails
    <2>2. PICK gs \in SUBSET task[t].targets : Started(gs, Gpu)
      BY <1>3 DEF EnableFails
    <2>3. gs \in SUBSET Gpu
      BY <1>0, AtWork
    <2>4. real' \in [Gpu -> SUBSET Proc] /\ helper' \in [Gpu -> Worker \cup {None}]
      BY <1>0, <2>2, <2>3, AtWork, StartedWorld
    <2>5. WorldSound'
      BY <1>0, <1>3, <2>4, AtWork, FaultWorld DEF EnableFails, WorldSound
    <2> QED
      BY <1>0, <1>1, <2>1, <2>5, TaskStepSound
  <1>4. CASE EnableRefused(t)
    <2> DEFINE r == [task[t] EXCEPT !.pc = "probe", !.work = "cleanup"]
    <2>1. /\ r \in TaskRecord /\ r.pc = "probe" /\ r.host = task[t].host /\ r.stops = task[t].stops
          /\ Become(t, r) /\ UNCHANGED holder
      BY <1>0, <1>4, AtWork DEF EnableRefused, TaskRecord
    <2> HIDE DEF r
    <2>2. Moves(t)
      BY <1>0, <2>1, AtWork, WorkMoves DEF TaskSound, Working
    <2>3. WorldSound'
      BY <1>0, <1>4, AtWork, WorldStutter DEF EnableRefused
    <2> QED
      BY <1>0, <1>1, <2>2, <2>3, TaskStepSound
  <1>5. CASE EnableLost(t)
    <2>1. Moves(t)
      BY <1>0, <1>5, AtWork, FailsMoves DEF EnableLost
    <2>2. WorldSound'
      <3>1. Lost(t, TRUE) /\ UNCHANGED <<spawning, doubt, slips>>
        BY <1>5 DEF EnableLost
      <3> QED
        BY <1>0, <3>1, AtWork, LostWorld DEF WorldSound
    <2> QED
      BY <1>0, <1>1, <2>1, <2>2, TaskStepSound
  <1> QED
    BY <1>2, <1>3, <1>4, <1>5

LEMMA DisableStep ==
  ASSUME CInv, NEW t \in Task, DisableDone(t) \/ DisableFails(t)
  PROVE  CInv'
  <1>0. At(t, "disable") /\ "disable" \in Working /\ UNCHANGED probe /\ UNCHANGED vars
    BY DEF DisableDone, DisableFails, Working
  <1>1. IInv'
    BY <1>0, AtWork, BrokerStutter
  <1>2. Moves(t)
    <2> DEFINE r(failed) == [task[t] EXCEPT !.pc = "probe", !.failed = failed]
    <2>0. task[t] \in TaskRecord
      BY <1>0, AtWork
    <2>1. ASSUME NEW failed \in BOOLEAN
          PROVE  /\ r(failed) \in TaskRecord /\ r(failed).pc = "probe" /\ r(failed).host = task[t].host
                 /\ r(failed).stops = task[t].stops
      BY <2>0 DEF TaskRecord
    <2>2. PICK failed \in BOOLEAN : Become(t, r(failed)) /\ UNCHANGED holder
      BY DEF DisableDone, DisableFails, Answered
    <2> HIDE DEF r
    <2> QED
      BY <1>0, <2>1, <2>2, AtWork, WorkMoves DEF TaskSound, Working
  <1>3. WorldSound'
    <2>1. CASE DisableDone(t)
      BY <1>0, <2>1, AtWork, StoppedWorld DEF DisableDone, Answered, WorldSound
    <2>2. CASE DisableFails(t)
      <3> DEFINE Typed ==
              /\ real' \in [Gpu -> SUBSET Proc] /\ helper' \in [Gpu -> Worker \cup {None}]
              /\ remote' \subseteq [enabled : BOOLEAN, gpus : SUBSET Gpu]
              /\ faults' \in 0 .. MaxFaults
      <3>1. Typed
        <4>1. CASE Lost(t, FALSE)
          BY <1>0, <4>1, AtWork, LostWorld
        <4>2. ASSUME Fault, UNCHANGED remote, NEW gs \in SUBSET task[t].targets, Stopped(gs)
              PROVE  Typed
          BY <1>0, <4>2, AtWork, StoppedWorld, FaultWorld DEF WorldSound
        <4> QED
          BY <2>2, <4>1, <4>2 DEF DisableFails
      <3> QED
        BY <1>0, <2>2, <3>1, AtWork DEF DisableFails, WorldSound
    <2> QED
      BY <2>1, <2>2
  <1> QED
    BY <1>0, <1>1, <1>2, <1>3, TaskStepSound

\* What an attestation changes of the record of its task.
Asks(t, r) ==
    /\ r \in TaskRecord /\ Become(t, r) /\ UNCHANGED holder
    /\ r.host = task[t].host /\ r.work = task[t].work /\ r.targets = task[t].targets
    /\ r.recovers = task[t].recovers /\ r.stops = task[t].stops

LEMMA Looks ==
  ASSUME NEW t \in Task, task[t] \in TaskRecord, LookAtWorker(t)
  PROVE  \E g \in Gpu, r \in TaskRecord :
            /\ Asks(t, r) /\ r.pc = "attest" /\ r.looking = g /\ r.proof = task[t].proof
            /\ g \in Unresolved(t) /\ helper[g] \in real[g] /\ slips' = Remembered({g})
  <1>1. PICK g \in Unresolved(t) : /\ Become(t, [task[t] EXCEPT !.looking = g])
                                   /\ helper[g] \in real[g] /\ slips' = Remembered({g})
    BY DEF LookAtWorker
  <1>2. g \in Gpu
    BY DEF Unresolved, TaskRecord
  <1> DEFINE r == [task[t] EXCEPT !.looking = g]
  <1>3. /\ r \in TaskRecord /\ r.host = task[t].host /\ r.work = task[t].work
        /\ r.targets = task[t].targets /\ r.recovers = task[t].recovers /\ r.stops = task[t].stops
        /\ r.pc = "attest" /\ r.looking = g /\ r.proof = task[t].proof
    BY <1>2 DEF LookAtWorker, At, TaskRecord
  <1>4. Become(t, r) /\ UNCHANGED holder
    BY <1>1 DEF LookAtWorker
  <1> HIDE DEF r
  <1> QED
    BY <1>1, <1>2, <1>3, <1>4 DEF Asks

LEMMA Resolves ==
  ASSUME NEW t \in Task, task[t] \in TaskRecord, ResolveDriver(t)
  PROVE  \E p \in Proc, r \in TaskRecord :
            /\ Asks(t, r) /\ r.pc \in {"attest", "probe"} /\ r.looking = None
            /\ r.proof = [task[t].proof EXCEPT ![task[t].looking] = p]
            /\ task[t].looking # None /\ real[task[t].looking] = {p}
  <1> DEFINE g == task[t].looking
             pc == IF Unresolved(t) = {g} THEN "probe" ELSE "attest"
  <1>1. PICK p \in Proc : /\ real[g] = {p} /\ g # None /\ UNCHANGED holder
                          /\ Become(t, [task[t] EXCEPT !.pc = pc, !.proof[g] = p, !.looking = None])
    BY DEF ResolveDriver
  <1> DEFINE pf == [task[t].proof EXCEPT ![g] = p]
             r == [task[t] EXCEPT !.pc = pc, !.proof = pf, !.looking = None]
  <1>2. [task[t] EXCEPT !.pc = pc, !.proof[g] = p, !.looking = None] = r
    BY DEF TaskRecord
  <1>3. pc \in {"attest", "probe"} /\ pf \in [Gpu -> Proc \cup {None}]
    BY DEF TaskRecord
  <1> HIDE DEF pc, pf
  <1>4. r \in TaskRecord
    BY <1>3 DEF TaskRecord
  <1>5. /\ r.host = task[t].host /\ r.work = task[t].work
        /\ r.targets = task[t].targets /\ r.recovers = task[t].recovers /\ r.stops = task[t].stops
        /\ r.pc = pc /\ r.looking = None /\ r.proof = pf
    BY DEF TaskRecord
  <1>6. Become(t, r)
    BY <1>1, <1>2
  <1> HIDE DEF r
  <1> QED
    BY <1>1, <1>3, <1>4, <1>5, <1>6 DEF Asks, pf

\* An attestation that fails proves nothing.
LEMMA GivesUp ==
  ASSUME NEW t \in Task, task[t] \in TaskRecord, AttestFails(t)
  PROVE  \E r \in TaskRecord :
            /\ Fails(t, r) /\ r.pc = "attest" /\ r.looking = None
            /\ r.proof = [g \in Gpu |-> None]
            /\ r.host = task[t].host /\ r.work = task[t].work /\ r.targets = task[t].targets
            /\ r.recovers = task[t].recovers /\ r.stops = task[t].stops
  <1> DEFINE r == [task[t] EXCEPT !.proof = Idle.proof, !.looking = None]
  <1>1. Idle.proof = [g \in Gpu |-> None]
    BY DEF Idle
  <1>2. r \in TaskRecord
    BY <1>1 DEF TaskRecord
  <1>3. /\ r.pc = "attest" /\ r.looking = None /\ r.proof = [g \in Gpu |-> None]
        /\ r.host = task[t].host /\ r.work = task[t].work /\ r.targets = task[t].targets
        /\ r.recovers = task[t].recovers /\ r.stops = task[t].stops
    BY <1>1 DEF AttestFails, At, TaskRecord
  <1>4. Fails(t, r)
    BY DEF AttestFails
  <1> HIDE DEF r
  <1> QED
    BY <1>2, <1>3, <1>4

LEMMA AttestStep ==
  ASSUME CInv, NEW t \in Task, LookAtWorker(t) \/ ResolveDriver(t) \/ AttestFails(t)
  PROVE  CInv'
  <1>0. At(t, "attest") /\ "attest" \in Working /\ UNCHANGED probe /\ UNCHANGED vars
    BY DEF LookAtWorker, ResolveDriver, AttestFails, Working
  <1>1. IInv' /\ task[t] \in TaskRecord
    BY <1>0, AtWork, BrokerStutter
  <1>2. WorldSound'
    <2>1. WorldSound /\ slips' \subseteq slips
      BY <1>0, AtWork DEF LookAtWorker, ResolveDriver, AttestFails, Remembered
    <2> QED
      BY <2>1, WorldStutter DEF LookAtWorker, ResolveDriver, AttestFails
  <1>3. ASSUME NEW r, Asks(t, r), r.pc \in {"attest", "probe"}
        PROVE  CInv'
    <2>1. Moves(t)
      BY <1>0, <1>3, AtWork, WorkMoves DEF Asks, Working
    <2> QED
      BY <1>0, <1>1, <1>2, <2>1, TaskStepSound
  <1>4. CASE LookAtWorker(t)
    BY <1>1, <1>3, <1>4, Looks
  <1>5. CASE ResolveDriver(t)
    BY <1>1, <1>3, <1>5, Resolves
  <1>6. CASE AttestFails(t)
    <2>1. PICK r \in TaskRecord :
             /\ Fails(t, r) /\ r.pc = "attest" /\ r.host = task[t].host
             /\ r.recovers = task[t].recovers /\ r.stops = task[t].stops
      BY <1>1, <1>6, GivesUp
    <2>2. TaskSound(t, r) /\ Locked(t, "settle", r.host, holder)
      BY <1>0, <2>1, AtWork DEF TaskSound
    <2>3. Moves(t)
      BY <1>0, <2>1, <2>2, AtWork, FailsMoves
    <2> QED
      BY <1>0, <1>1, <1>2, <2>3, TaskStepSound
  <1> QED
    BY <1>4, <1>5, <1>6


LEMMA ObservationStep ==
  ASSUME CInv, NEW t \in Task, TaskProbe(t) \/ TaskIngest(t) \/ ProbeFails(t)
  PROVE  CInv'
  <1>1. CASE TaskProbe(t)
    <2> DEFINE r == [task[t] EXCEPT !.pc = "ingest"]
    <2>0. At(t, "probe") /\ "probe" \in Working
      BY <1>1 DEF TaskProbe, Working
    <2>1. /\ r \in TaskRecord /\ r.pc = "ingest" /\ r.host = task[t].host /\ r.stops = task[t].stops
      BY <2>0, AtWork DEF TaskRecord
    <2>2. task' = [task EXCEPT ![t] = r] /\ UNCHANGED holder /\ UNCHANGED vars
      BY <1>1 DEF TaskProbe, Become
    <2> HIDE DEF r
    <2>3. TaskSound(t, r) /\ Locked(t, r.pc, r.host, holder)
      BY <2>0, <2>1, AtWork DEF TaskSound
    <2>4. TasksSound'
      <3>1. holder' = holder /\ holder \in [Endpoint -> Task \cup {None}]
        BY <2>2 DEF CInv, TasksSound
      <3> QED
        BY <2>2, <2>3, <3>1, OthersSound DEF CInv
    <2>5. ProbesSound'
      <3>1. /\ probe' \in [Observer -> Probe \cup {None}] /\ OfServer(probe'[t], task[t].host)
            /\ \A y \in Observer \ {t} : probe'[y] = probe[y]
        BY <1>1, Names, ProbingSound DEF TaskProbe, CInv, ProbesSound, WorldSound
      <3>2. task'[t] = r /\ \A u \in Task \ {t} : task'[u] = task[u]
        BY <2>2 DEF CInv, TasksSound
      <3>3. ASSUME NEW u \in Task, task'[u].pc = "ingest"
            PROVE  OfServer(probe'[u], task'[u].host)
        <4>1. CASE u = t
          BY <2>1, <3>1, <3>2, <4>1
        <4>2. CASE u # t
          BY <3>1, <3>2, <3>3, <4>2, Names DEF CInv, ProbesSound, At
        <4> QED
          BY <4>1, <4>2
      <3>4. \A e \in Endpoint : probe'[e] # None => OfServer(probe'[e], e)
        BY <3>1, Names DEF CInv, ProbesSound
      <3> QED
        BY <3>1, <3>3, <3>4 DEF ProbesSound, At
    <2>6. WorldSound' /\ IInv'
      BY <1>1, <2>0, <2>2, AtWork, WorldStutter, BrokerStutter DEF TaskProbe
    <2> QED
      BY <2>4, <2>5, <2>6 DEF CInv
  <1>2. ASSUME At(t, "ingest")
        PROVE  /\ "ingest" \in Working /\ OfServer(probe[t], task[t].host)
               /\ task[t].host \in Endpoint /\ t \in Observer /\ ProbesSound /\ WorldSound /\ IInv
               /\ TasksSound
    BY <1>2, AtWork, Names DEF Working, CInv, ProbesSound
  <1> DEFINE s == [task[t] EXCEPT !.pc = "settle"]
  <1>3. ASSUME At(t, "ingest"), Become(t, s), UNCHANGED holder
        PROVE  Moves(t)
    <2>1. /\ s \in TaskRecord /\ s.pc = "settle" /\ s.host = task[t].host /\ s.stops = task[t].stops
      BY <1>2, <1>3, AtWork DEF TaskRecord
    <2> HIDE DEF s
    <2> QED
      BY <1>2, <1>3, <2>1, AtWork, WorkMoves DEF TaskSound, Working
  <1>4. CASE TaskIngest(t)
    <2>0. At(t, "ingest") /\ Ingested(t, task[t].host)
      BY <1>4 DEF TaskIngest
    <2>1. Moves(t)
      BY <1>3, <1>4 DEF TaskIngest
    <2>2. IInv'
      BY <1>2, <2>0, IngestedBroker
    <2>3. WorldSound'
      BY <1>2, <1>4, <2>0, WorldStutter DEF TaskIngest
    <2>4. \E older : Arrived(t, older)
      BY <2>0 DEF Ingested
    <2> QED
      BY <2>1, <2>2, <2>3, <2>4, TaskStepSound
  <1>5. CASE ProbeFails(t)
    <2>0. At(t, "ingest") /\ Arrived(t, {})
      BY <1>5 DEF ProbeFails
    <2>1. Moves(t)
      <3>1. CASE task[t].work = "cleanup"
        BY <1>3, <1>5, <3>1 DEF ProbeFails
      <3>2. CASE task[t].work # "cleanup"
        BY <1>2, <1>5, <2>0, <3>2, AtWork, FailsMoves DEF ProbeFails
      <3> QED
        BY <3>1, <3>2
    <2>2. IInv'
      BY <1>2, <1>5, <2>0, FailureBroker DEF ProbeFails
    <2>3. WorldSound'
      BY <1>2, <1>5, <2>0, WorldStutter DEF ProbeFails
    <2> QED
      BY <2>0, <2>1, <2>2, <2>3, TaskStepSound
  <1> QED
    BY <1>1, <1>4, <1>5


\* Settling what an observation has shown.
LEMMA SettleStep ==
  ASSUME CInv, NEW t \in Task,
         Confirm(t) \/ ConfirmFails(t) \/ Report(t) \/ Finalize(t) \/ FinalizeFails(t)
  PROVE  CInv'
  <1>0. At(t, "settle") /\ "settle" \in Working /\ UNCHANGED probe
    BY DEF Confirm, ConfirmFails, Report, Finalize, FinalizeFails, Working
  <1>1. WorldSound'
    BY <1>0, AtWork, WorldStutter DEF Confirm, ConfirmFails, Report, Finalize, FinalizeFails
  <1> DEFINE r == [task[t] EXCEPT !.proof = Idle.proof]
             s == [task[t] EXCEPT !.planned = [g \in Gpu |-> IF g \in task[t].targets THEN None ELSE @[g]]]
  <1>2. TaskSound(t, r) /\ r.pc \in Working /\ Locked(t, "settle", r.host, holder)
    <2>1. Idle.proof = [g \in Gpu |-> None]
      BY DEF Idle
    <2>2. /\ r \in TaskRecord /\ r.pc = "settle" /\ r.host = task[t].host /\ r.stops = task[t].stops
          /\ r.recovers = task[t].recovers /\ r.proof = [g \in Gpu |-> None]
      BY <1>0, <2>1, AtWork DEF TaskRecord
    <2> HIDE DEF r
    <2> QED
      BY <1>0, <2>2, AtWork DEF TaskSound
  <1>3. TaskSound(t, s) /\ Locked(t, "settle", s.host, holder)
    <2>1. [g \in Gpu |-> IF g \in task[t].targets THEN None ELSE task[t].planned[g]]
             \in [Gpu -> Lease \cup {None}]
      BY <1>0, AtWork DEF TaskRecord
    <2>2. /\ s \in TaskRecord /\ s.pc = "settle" /\ s.host = task[t].host /\ s.stops = task[t].stops
          /\ s.recovers = task[t].recovers
      BY <1>0, <2>1, AtWork DEF TaskRecord
    <2> HIDE DEF s
    <2> QED
      BY <1>0, <2>2, AtWork DEF TaskSound
  <1> HIDE DEF r, s
  <1>4. CASE Confirm(t)
    <2>1. Moves(t)
      BY <1>0, <1>2, <1>4, AtWork, ContinueMoves DEF Confirm, r
    <2>2. PICK ids \in [task[t].targets -> Lease] :
             ActivateKeepalives(task[t].host, task[t].targets, ids, now)
      BY <1>4 DEF Confirm
    <2>5. IInv'
      BY <1>0, <2>2, AtWork, ActivateBroker
    <2> QED
      BY <1>0, <1>1, <2>1, <2>5, TaskStepSound
  <1>5. CASE ConfirmFails(t)
    <2>1. Moves(t)
      BY <1>0, <1>2, <1>5, AtWork, FailsMoves DEF ConfirmFails, r
    <2>2. IInv'
      BY <1>0, <1>5, AtWork, BrokerStutter DEF ConfirmFails
    <2> QED
      BY <1>0, <1>1, <2>1, <2>2, TaskStepSound
  <1>6. CASE Report(t)
    <2>1. Moves(t)
      BY <1>0, <1>6, AtWork, EndsMoves DEF Report
    <2>2. IInv'
      BY <1>0, <1>6, AtWork, ErrorBroker DEF Report
    <2> QED
      BY <1>0, <1>1, <2>1, <2>2, TaskStepSound
  <1>7. CASE Finalize(t)
    <2>1. Moves(t)
      BY <1>0, <1>3, <1>7, AtWork, EndsMoves, ContinueMoves DEF Finalize, s
    <2>2. PICK g \in task[t].targets : FinalizeStop(task[t].host, task[t].planned[g], now)
      BY <1>7 DEF Finalize
    <2>3. task[t].planned[g] \in Lease \cup {None}
      BY <1>0, AtWork DEF TaskRecord
    <2>4. IInv'
      BY <1>0, <2>2, <2>3, AtWork, FinalizeBroker
    <2> QED
      BY <1>0, <1>1, <2>1, <2>4, TaskStepSound
  <1>8. CASE FinalizeFails(t)
    <2>1. Moves(t)
      BY <1>0, <1>8, AtWork, FailsMoves DEF FinalizeFails
    <2>2. IInv'
      BY <1>0, <1>8, AtWork, BrokerStutter DEF FinalizeFails
    <2> QED
      BY <1>0, <1>1, <2>1, <2>2, TaskStepSound
  <1> QED
    BY <1>4, <1>5, <1>6, <1>7, <1>8

LEMMA PrepareStep ==
  ASSUME CInv, NEW t \in Task, Prepare(t)
  PROVE  CInv'
  <1>0. At(t, "prepare") /\ "prepare" \in Working /\ UNCHANGED probe
    BY DEF Prepare, Working
  <1>1. WorldSound' /\ IInv'
    BY <1>0, AtWork, WorldStutter, BrokerStutter DEF Prepare
  <1> DEFINE lapsed == {g \in task[t].stops : /\ HostOf[g] = task[t].host
                                              /\ ~KeeperRow(task[t].planned[g], g)}
             r == [task[t] EXCEPT !.stops = @ \ lapsed]
  <1>2. Ends(t) \/ Continue(t, r)
    BY DEF Prepare
  <1> HIDE DEF lapsed
  <1>3. TaskSound(t, r) /\ Locked(t, "settle", r.host, holder)
    <2>1. /\ r \in TaskRecord /\ r.pc = "prepare" /\ r.host = task[t].host
          /\ r.stops \subseteq task[t].stops /\ r.recovers = task[t].recovers
      BY <1>0, AtWork DEF TaskRecord
    <2> HIDE DEF r
    <2> QED
      BY <1>0, <2>1, AtWork DEF TaskSound
  <1> HIDE DEF r
  <1>4. Moves(t)
    BY <1>0, <1>2, <1>3, AtWork, EndsMoves, ContinueMoves
  <1> QED
    BY <1>0, <1>1, <1>4, TaskStepSound


\* The steps of a claim.
LEMMA ClaimerStep ==
  ASSUME CInv, NEW t \in Task,
         (\E e \in Endpoint : Acquire(t, e)) \/ Grant(t) \/ NoCapacity(t) \/ PlanReclaim(t)
  PROVE  CInv'
  <1>0. /\ TasksSound /\ WorldSound /\ IInv /\ IInv /\ task[t] \in TaskRecord
        /\ TaskSound(t, task[t]) /\ Locked(t, task[t].pc, task[t].host, holder)
    BY DEF CInv, TasksSound
  <1>1. UNCHANGED probe /\ WorldSound'
    BY <1>0, WorldStutter DEF Acquire, Grant, NoCapacity, PlanReclaim, servers
  <1>2. CASE \E e \in Endpoint : Acquire(t, e)
    <2>1. PICK e \in Endpoint : Acquire(t, e)
      BY <1>2
    <2>2. /\ holder' \in [Endpoint -> Task \cup {None}]
          /\ \A f \in Endpoint : holder[f] \in Task \ {t} => holder'[f] = holder[f]
      BY <1>0, <2>1, Names DEF Acquire, TasksSound
    <2>3. task' = [task EXCEPT ![t] = task[t]] /\ task[t].pc = "waiting"
      BY <1>0, <2>1 DEF Acquire, At, TasksSound
    <2>4. Moves(t)
      BY <1>0, <2>2, <2>3 DEF Moves, Locked
    <2>5. IInv'
      BY <1>0, <2>1, BrokerStutter DEF Acquire
    <2> QED
      BY <1>1, <2>4, <2>5, TaskStepSound
  <1>3. CASE Grant(t)
    <2>1. Moves(t)
      BY <1>0, <1>3, EndsMoves DEF Grant
    <2>2. IInv'
      BY <1>0, <1>3, ClaimBroker DEF Grant, TaskRecord
    <2> QED
      BY <1>1, <2>1, <2>2, TaskStepSound
  <1>4. CASE NoCapacity(t)
    <2> DEFINE r == [task[t] EXCEPT !.pc = "plan"]
    <2>1. ASSUME At(t, "claim")
          PROVE  Moves(t)
      BY <1>0, <1>4, <2>1, EndsMoves DEF NoCapacity
    <2>2. ASSUME At(t, "waiting"), AllLocks(t), t \in Claimer, Become(t, r), UNCHANGED holder
          PROVE  Moves(t)
      <3>1. /\ r \in TaskRecord /\ r.pc = "plan" /\ r.host = task[t].host /\ r.stops = task[t].stops
            /\ r.recovers = task[t].recovers
        BY <1>0 DEF TaskRecord
      <3> HIDE DEF r
      <3>2. TaskSound(t, r) /\ Locked(t, r.pc, r.host, holder)
        BY <1>0, <2>2, <3>1 DEF TaskSound, Locked, AllLocks, Working
      <3> QED
        BY <1>0, <2>2, <3>1, <3>2, BecomeMoves
    <2>3. Moves(t)
      BY <1>4, <2>1, <2>2 DEF NoCapacity, Deciding, At
    <2>4. IInv'
      BY <1>0, <1>4, BrokerStutter DEF NoCapacity
    <2> QED
      BY <1>1, <2>3, <2>4, TaskStepSound
  <1>5. CASE PlanReclaim(t)
    <2> DEFINE gs == {g \in task[t].wants : Reclaimable(g)}
               r == [task[t] EXCEPT !.stops = gs, !.planned = PlannedLease(gs)]
    <2>1. Ends(t) \/ Continue(t, r)
      BY <1>5 DEF PlanReclaim
    <2>2. gs \in SUBSET Gpu /\ \A g \in gs : \E l \in Lease : KeeperRow(l, g)
      BY <1>0 DEF TaskRecord, Reclaimable
    <2>3. PlannedLease(gs) \in [Gpu -> Lease \cup {None}]
      BY <2>2, PlanSound
    <2> HIDE DEF gs
    <2>4. /\ r \in TaskRecord /\ r.pc = "plan" /\ r.host = task[t].host
          /\ r.recovers = task[t].recovers
      BY <1>0, <1>5, <2>2, <2>3 DEF PlanReclaim, At, TaskRecord
    <2>5. t \in Claimer /\ t \notin Reconciler
      BY <1>0, <1>5, Names DEF PlanReclaim, At, TaskSound
    <2> HIDE DEF r
    <2>6. TaskSound(t, r) /\ Locked(t, "settle", r.host, holder)
      BY <1>0, <1>5, <2>4, <2>5 DEF PlanReclaim, At, TaskSound, Locked, Working
    <2>7. Moves(t)
      BY <1>0, <2>1, <2>6, EndsMoves, ContinueMoves
    <2>8. IInv'
      BY <1>0, <1>5, BrokerStutter DEF PlanReclaim
    <2> QED
      BY <1>1, <2>7, <2>8, TaskStepSound
  <1> QED
    BY <1>2, <1>3, <1>4, <1>5

\* Tasks that begin.
LEMMA BeginStep ==
  ASSUME CInv, NEW t \in Task,
         \/ t \in Reconciler /\ \E e \in Endpoint, policy \in Policies : Toggle(t, e, policy)
         \/ t \in Claimer /\ \E gs \in SUBSET Gpu : Ask(t, gs)
  PROVE  CInv'
  <1>0. /\ TasksSound /\ WorldSound /\ IInv
        /\ TaskSound(t, Idle) /\ Idle.pc = "idle" /\ Idle \in TaskRecord
        /\ Idle.recovers = {} /\ Idle.stops = {}
    BY IdleSound DEF CInv, TaskSound, Idle
  <1>1. UNCHANGED probe /\ WorldSound' /\ UNCHANGED holder
    BY <1>0, WorldStutter DEF Toggle, Ask, servers
  <1>2. ASSUME NEW r \in TaskRecord, r.pc = "waiting", r.recovers = {}, r.stops = {},
               Become(t, r)
        PROVE  Moves(t)
    <2>1. TaskSound(t, r) /\ Locked(t, r.pc, r.host, holder)
      BY <1>0, <1>2 DEF TaskSound, Locked, Working
    <2> QED
      BY <1>0, <1>1, <1>2, <2>1, BecomeMoves
  <1>3. CASE t \in Reconciler /\ \E e \in Endpoint, policy \in Policies : Toggle(t, e, policy)
    <2>1. PICK e \in Endpoint, policy \in Policies : Toggle(t, e, policy)
      BY <1>3
    <2> DEFINE r == [Idle EXCEPT !.pc = "waiting", !.host = e]
    <2>2. /\ r \in TaskRecord /\ r.pc = "waiting" /\ r.recovers = {} /\ r.stops = {}
      BY <1>0 DEF TaskRecord
    <2>3. Become(t, r) /\ ConfigurePolicy(e, policy)
      BY <2>1 DEF Toggle
    <2> HIDE DEF r
    <2> QED
      BY <1>0, <1>1, <1>2, <2>2, <2>3, PolicyBroker, TaskStepSound
  <1>4. CASE t \in Claimer /\ \E gs \in SUBSET Gpu : Ask(t, gs)
    <2>1. PICK gs \in SUBSET Gpu : Ask(t, gs)
      BY <1>4
    <2> DEFINE r == [Idle EXCEPT !.pc = "waiting", !.wants = gs]
    <2>2. /\ r \in TaskRecord /\ r.pc = "waiting" /\ r.recovers = {} /\ r.stops = {}
      BY <1>0 DEF TaskRecord
    <2>3. Become(t, r) /\ UNCHANGED vars
      BY <2>1 DEF Ask
    <2> HIDE DEF r
    <2> QED
      BY <1>0, <1>1, <1>2, <2>2, <2>3, BrokerStutter, TaskStepSound
  <1> QED
    BY <1>3, <1>4

\* A reconciliation that gets its lock, of the loop or of a policy change.
LEMMA ReconcilesStep ==
  ASSUME CInv, NEW t \in Task,
         ToggleReconciles(t) \/ (t \in Reconciler /\ \E e \in Endpoint : LoopSpawns(e, t))
  PROVE  CInv'
  <1>1. PICK e : t \in Reconciler /\ Reconciles(t, e)
    BY DEF ToggleReconciles, LoopSpawns
  <1>2. Moves(t)
    BY <1>1, ReconcilesMoves DEF CInv
  <1>3. IInv' /\ UNCHANGED probe
    BY <1>1, BrokerStutter DEF Reconciles, CInv
  <1>4. WorldSound'
    BY <1>1 DEF ToggleReconciles, LoopSpawns, Reconciles, CInv, WorldSound, servers
  <1> QED
    BY <1>2, <1>3, <1>4, TaskStepSound


\* Everything a task does on its own.
LEMMA AnyTaskStep ==
  ASSUME CInv, NEW t \in Task, TaskStep(t)
  PROVE  CInv'
  BY EnableStep, DisableStep, AttestStep, ObservationStep, SettleStep, PrepareStep, ClaimerStep,
     ReconcilesStep
  DEF TaskStep

-----------------------------------------------------------------------------
(* The other actors *)

LEMMA TasksStutter ==
  ASSUME CInv, UNCHANGED <<task, holder>>
  PROVE  TasksSound'
  BY DEF CInv, TasksSound

LEMMA ProbesStutter ==
  ASSUME CInv, UNCHANGED <<task, probe>>
  PROVE  ProbesSound'
  BY DEF CInv, ProbesSound, At

LEMMA AnyLoopStep ==
  ASSUME CInv, NEW e \in Endpoint, LoopStep(e)
  PROVE  CInv'
  <1>0. /\ UNCHANGED <<task, holder>> /\ TasksSound' /\ IInv /\ ProbesSound /\ WorldSound
        /\ e \in Observer
    BY TasksStutter, Names
    DEF LoopStep, LoopProbe, LoopIngest, LoopFails, LoopSkips, CInv
  <1>1. WorldSound'
    BY <1>0, FaultWorld
    DEF LoopStep, LoopProbe, LoopIngest, LoopFails, LoopSkips, WorldSound, servers
  <1>2. CASE LoopProbe(e)
    <2>1. /\ probe' \in [Observer -> Probe \cup {None}] /\ OfServer(probe'[e], e)
          /\ \A y \in Observer \ {e} : probe'[y] = probe[y]
      BY <1>0, <1>2, ProbingSound DEF LoopProbe, ProbesSound, WorldSound
    <2>2. ProbesSound'
      BY <1>0, <2>1, Names DEF ProbesSound, At
    <2>3. IInv'
      BY <1>0, <1>2, BrokerStutter DEF LoopProbe
    <2> QED
      BY <1>0, <1>1, <2>2, <2>3 DEF CInv
  <1>3. CASE LoopIngest(e)
    <2>1. OfServer(probe[e], e) /\ Ingested(e, e)
      BY <1>0, <1>3 DEF LoopIngest, ProbesSound
    <2>2. IInv'
      BY <1>0, <2>1, IngestedBroker
    <2>3. ProbesSound'
      BY <1>0, <2>1, LoopProbes DEF Ingested
    <2> QED
      BY <1>0, <1>1, <2>2, <2>3 DEF CInv
  <1>4. CASE LoopFails(e)
    <2>1. IInv'
      BY <1>0, <1>4, FailureBroker DEF LoopFails
    <2>2. ProbesSound'
      BY <1>0, <1>4, LoopProbes DEF LoopFails
    <2> QED
      BY <1>0, <1>1, <2>1, <2>2 DEF CInv
  <1>5. CASE LoopSkips(e)
    <2>1. IInv' /\ ProbesSound'
      BY <1>0, <1>5, BrokerStutter, ProbesStutter DEF LoopSkips
    <2> QED
      BY <1>0, <1>1, <2>1 DEF CInv
  <1> QED
    BY <1>2, <1>3, <1>4, <1>5 DEF LoopStep

\* Requests and releases that take no lock.
LEMMA UnlockedStep ==
  ASSUME CInv, Unlocked
  PROVE  CInv'
  <1>1. PICK l \in Lease : \/ \E gs \in SUBSET Gpu : Claim(l, gs, TRUE)
                           \/ Release(l)
                           \/ \E e \in Endpoint : ReleaseEmpty(e, l, now)
    BY DEF Unlocked
  <1>2. IInv'
    BY <1>1, ClaimBroker, ReleaseBroker DEF CInv
  <1>3. UNCHANGED cvars /\ TasksSound' /\ ProbesSound'
    BY TasksStutter, ProbesStutter DEF Unlocked, cvars
  <1>4. WorldSound'
    BY <1>3 DEF cvars, servers, CInv, WorldSound
  <1> QED
    BY <1>2, <1>3, <1>4 DEF CInv

\* What happens on the servers by itself.
LEMMA ServerStep ==
  ASSUME CInv, (\E g \in Gpu, p \in Proc : JobStarts(g, p) \/ ProcessEnds(g, p)) \/ Late
  PROVE  CInv'
  <1>1. UNCHANGED <<vars, probe, spawning, task, holder, faults>> /\ slips' \subseteq Gpu
    BY DEF JobStarts, ProcessEnds, Late, CInv, WorldSound
  <1>2. IInv' /\ TasksSound' /\ ProbesSound'
    BY <1>1, BrokerStutter, TasksStutter, ProbesStutter DEF CInv
  <1>3. WorldSound
    BY DEF CInv
  <1>4. WorldSound'
    <2>1. CASE \E g \in Gpu, p \in Proc : JobStarts(g, p) \/ ProcessEnds(g, p)
      BY <1>1, <1>3, <2>1 DEF JobStarts, ProcessEnds, WorldSound
    <2>2. CASE Late
      <3>1. PICK c \in remote :
               /\ remote' = remote \ {c}
               /\ \/ /\ \E gs \in SUBSET c.gpus : Started(c.gpus, gs)
                     /\ doubt' = doubt \cup Missing(c.gpus)
                  \/ Stopped(c.gpus) /\ UNCHANGED doubt
                  \/ UNCHANGED <<real, helper, doubt>>
        BY <2>2 DEF Late
      <3>2. c.gpus \in SUBSET Gpu /\ Missing(c.gpus) \subseteq Gpu
        BY <1>3 DEF WorldSound, Missing
      <3>3. real' \in [Gpu -> SUBSET Proc] /\ helper' \in [Gpu -> Worker \cup {None}]
        <4>1. CASE \E gs \in SUBSET c.gpus : Started(c.gpus, gs)
          BY <1>3, <3>2, <4>1, StartedWorld
        <4>2. CASE Stopped(c.gpus)
          BY <1>3, <4>2, StoppedWorld
        <4>3. CASE UNCHANGED <<real, helper>>
          BY <1>3, <4>3 DEF WorldSound
        <4> QED
          BY <3>1, <4>1, <4>2, <4>3
      <3> QED
        BY <1>1, <1>3, <3>1, <3>2, <3>3 DEF WorldSound
    <2> QED
      BY <2>1, <2>2
  <1> QED
    BY <1>2, <1>4 DEF CInv

\* A crash forgets the tasks and their locks, and what they had on its way.
LEMMA CrashStep ==
  ASSUME CInv, Crash
  PROVE  CInv'
  <1>1. IInv'
    BY BrokerStutter DEF CInv, Crash
  <1>2. TasksSound'
    <2>1. \A t \in Task : Idle \in TaskRecord /\ TaskSound(t, Idle) /\ Idle.pc = "idle"
      BY IdleSound DEF TaskSound
    <2>2. task' = [t \in Task |-> Idle] /\ holder' = [e \in Endpoint |-> None]
      BY DEF Crash
    <2> QED
      BY <2>1, <2>2 DEF TasksSound, Locked
  <1>3. ProbesSound'
    BY IdleSound, Names DEF Crash, ProbesSound, At
  <1>4. WorldSound'
    <2>1. \A t \in Task : task[t].targets \in SUBSET Gpu
      BY DEF CInv, TasksSound, TaskRecord
    <2>2. ASSUME NEW t \in Task
          PROVE  [enabled |-> At(t, "enable"), gpus |-> task[t].targets]
                     \in [enabled : BOOLEAN, gpus : SUBSET Gpu]
      BY <2>1 DEF At
    <2>3. remote' \subseteq [enabled : BOOLEAN, gpus : SUBSET Gpu]
      BY <2>2 DEF Crash, CInv, WorldSound
    <2>4. doubt' \subseteq Gpu
      BY <2>1 DEF Crash, CInv, WorldSound
    <2>5. faults' \in 0 .. MaxFaults
      BY FaultWorld DEF Crash, CInv
    <2> QED
      BY <2>3, <2>4, <2>5 DEF Crash, CInv, WorldSound
  <1> QED
    BY <1>1, <1>2, <1>3, <1>4 DEF CInv

LEMMA RecycleStep ==
  ASSUME CInv, Recycle
  PROVE  CInv'
  <1>1. IInv'
    BY RecycleBroker DEF CInv
  <1>2. UNCHANGED cvars /\ TasksSound' /\ ProbesSound'
    BY TasksStutter, ProbesStutter DEF Recycle, cvars
  <1>3. WorldSound'
    BY <1>2 DEF cvars, servers, CInv, WorldSound
  <1> QED
    BY <1>1, <1>2, <1>3 DEF CInv

LEMMA NextCInv == CInv /\ [ControllerNext]_allvars => CInv'
  <1> SUFFICES ASSUME CInv, [ControllerNext]_allvars PROVE CInv'
    OBVIOUS
  <1>1. CASE Recycle
    BY <1>1, RecycleStep
  <1>2. CASE \E t \in Task : TaskStep(t)
    BY <1>2, AnyTaskStep
  <1>3. CASE \E e \in Endpoint : LoopStep(e) \/ LoopSpawn(e)
    <2>1. Reconciler \subseteq Task
      BY Names
    <2> QED
      BY <1>3, <2>1, AnyLoopStep, ReconcilesStep DEF LoopSpawn
  <1>4. CASE \/ \E t \in Reconciler, e \in Endpoint, policy \in Policies : Toggle(t, e, policy)
             \/ \E t \in Claimer, gs \in SUBSET Gpu : Ask(t, gs)
    <2>1. Reconciler \subseteq Task /\ Claimer \subseteq Task
      BY Names
    <2> QED
      BY <1>4, <2>1, BeginStep
  <1>5. CASE Unlocked
    BY <1>5, UnlockedStep
  <1>6. CASE (\E g \in Gpu, p \in Proc : JobStarts(g, p) \/ ProcessEnds(g, p)) \/ Late
    BY <1>6, ServerStep
  <1>7. CASE Crash
    BY <1>7, CrashStep
  <1>8. CASE UNCHANGED allvars
    <2>1. UNCHANGED <<vars, task, holder, probe, real, helper, remote, spawning, faults, doubt, slips>>
      BY <1>8 DEF allvars, cvars, servers
    <2>2. IInv' /\ TasksSound' /\ ProbesSound'
      BY <2>1, BrokerStutter, TasksStutter, ProbesStutter DEF CInv
    <2>3. WorldSound'
      BY <2>1 DEF CInv, WorldSound
    <2> QED
      BY <2>2, <2>3 DEF CInv
  <1> QED
    BY <1>1, <1>2, <1>3, <1>4, <1>5, <1>6, <1>7, <1>8 DEF ControllerNext, Actors

-----------------------------------------------------------------------------
(* What is adopted *)

\* What holds of the record of a task, of the servers it looks at and of what
\* it has been told there.
Attesting(t, r) ==
    /\ r.looking # None => r.pc = "attest" /\ HostOf[r.looking] = r.host
    /\ r.pc \in {"enable", "attest"} => r.work \in {"start", "recover"}
    /\ r.pc = "disable" => r.targets \subseteq GpusOf(r.host)
    /\ r.work \in {"start", "recover", "cleanup"} =>
          t \in Reconciler /\ r.targets \subseteq GpusOf(r.host)
    /\ r.recovers # {} => t \in Reconciler /\ r.recovers \subseteq GpusOf(r.host)
    /\ \A g \in Gpu : r.proof[g] # None =>
          /\ r.work \in {"start", "recover", "cleanup"} /\ HostOf[g] = r.host
          /\ r.pc \in Working \ {"enable", "prepare"}

\* The worker at which a task has just looked runs, or its end is on record;
\* the same goes for what the task holds as attested.
Grounded(t) ==
    /\ LET g == task[t].looking IN g # None => helper[g] \in real[g] \/ g \in slips
    /\ \A g \in Gpu : task[t].proof[g] \in Worker \cup {None} \/ g \in slips

\* The inductive invariant, on top of CInv.
AInv ==
    /\ AdoptsOnlyAttested
    /\ \A t \in Task : Attesting(t, task[t]) /\ Grounded(t)

\* Nothing is adopted.
Forgets == \A g \in Gpu : keeper'[g].expected \in {keeper[g].expected, None}

Unproven(r) == \A g \in Gpu : r.proof[g] = None

LEMMA ForgetsAdopts ==
  ASSUME AdoptsOnlyAttested, Forgets, slips \subseteq slips'
  PROVE  AdoptsOnlyAttested'
  BY DEF AdoptsOnlyAttested, Forgets

LEMMA SameForgets ==
  ASSUME UNCHANGED keeper
  PROVE  Forgets
  BY DEF Forgets

LEMMA IdleAttesting ==
  ASSUME NEW t \in Task
  PROVE  Attesting(t, Idle) /\ Idle.looking = None /\ Unproven(Idle)
  BY DEF Attesting, Idle, Unproven

LEMMA AInit == ControllerInit => AInv
  <1> SUFFICES ASSUME ControllerInit PROVE AInv
    OBVIOUS
  <1>1. AdoptsOnlyAttested
    BY DEF ControllerInit, Init, AdoptsOnlyAttested
  <1>2. ASSUME NEW t \in Task
        PROVE  Attesting(t, task[t]) /\ Grounded(t)
    <2>1. task[t] = Idle
      BY DEF ControllerInit
    <2> QED
      BY <2>1, IdleAttesting DEF Grounded, Unproven
  <1> QED
    BY <1>1, <1>2 DEF AInv

\* Two tasks that command workers never work on the same server.
OneTaskPerServer ==
    \A t, u \in Task :
        task[t].pc \in Working /\ task[u].pc \in Working /\ task[t].host = task[u].host => t = u

LEMMA OneTask == CInv => OneTaskPerServer
  <1> SUFFICES ASSUME CInv PROVE OneTaskPerServer
    OBVIOUS
  <1>1. ASSUME NEW t \in Task, task[t].pc \in Working
        PROVE  holder[task[t].host] = t
    <2>1. TasksSound
      BY DEF CInv
    <2>2. task[t].host \in Endpoint /\ Locked(t, "settle", task[t].host, holder)
      BY <1>1, <2>1, TaskAtWork
    <2> QED
      BY <2>2 DEF Locked
  <1> QED
    BY <1>1 DEF OneTaskPerServer

\* On the GPUs of gs nothing happens that a task could have to know of.
Quiescent(gs) ==
    \A g \in gs : /\ helper[g] \in real[g] => helper'[g] \in real'[g] \/ g \in slips'
                  /\ g \in slips => g \in slips'

LEMMA StaysGrounded ==
  ASSUME CInv, AInv, NEW u \in Task, task'[u] = task[u],
         task[u].pc \in Working => Quiescent({g \in Gpu : HostOf[g] = task[u].host})
  PROVE  Attesting(u, task'[u]) /\ Grounded(u)'
  <1>1. Attesting(u, task[u]) /\ Grounded(u) /\ task[u] \in TaskRecord
    BY DEF AInv, CInv, TasksSound
  <1> DEFINE g == task[u].looking
  <1>2. ASSUME g # None
        PROVE  helper'[g] \in real'[g] \/ g \in slips'
    <2>1. g \in Gpu /\ HostOf[g] = task[u].host /\ task[u].pc \in Working
      BY <1>1, <1>2 DEF Attesting, TaskRecord, Working
    <2>2. helper[g] \in real[g] \/ g \in slips
      BY <1>1, <1>2 DEF Grounded
    <2> QED
      BY <2>1, <2>2 DEF Quiescent
  <1>3. ASSUME NEW h \in Gpu
        PROVE  task[u].proof[h] \in Worker \cup {None} \/ h \in slips'
    <2>1. CASE task[u].proof[h] = None
      BY <2>1
    <2>2. CASE task[u].proof[h] # None
      <3>1. HostOf[h] = task[u].host /\ task[u].pc \in Working
        BY <1>1, <2>2 DEF Attesting
      <3> QED
        BY <1>1, <3>1 DEF Grounded, Quiescent
    <2> QED
      BY <2>1, <2>2
  <1> QED
    BY <1>1, <1>2, <1>3 DEF Grounded

\* No task moves.
LEMMA NoTaskMoves ==
  ASSUME CInv, AInv, UNCHANGED task, Quiescent(Gpu), AdoptsOnlyAttested'
  PROVE  AInv'
  <1>1. ASSUME NEW u \in Task
        PROVE  Attesting(u, task'[u]) /\ Grounded(u)'
    <2>1. Quiescent({g \in Gpu : HostOf[g] = task[u].host})
      BY DEF Quiescent
    <2> QED
      BY <2>1, StaysGrounded
  <1> QED
    BY <1>1 DEF AInv

\* One task moves, and disturbs no server but its own.
LEMMA OneTaskMoves ==
  ASSUME CInv, AInv, NEW t \in Task, NEW r, Become(t, r), Attesting(t, r), Grounded(t)',
         \/ Quiescent(Gpu)
         \/ task[t].pc \in Working /\ Quiescent({g \in Gpu : HostOf[g] # task[t].host}),
         AdoptsOnlyAttested'
  PROVE  AInv'
  <1>1. task'[t] = r /\ \A u \in Task \ {t} : task'[u] = task[u]
    BY DEF Become, CInv, TasksSound
  <1>2. ASSUME NEW u \in Task \ {t}
        PROVE  Attesting(u, task'[u]) /\ Grounded(u)'
    <2>1. ASSUME task[u].pc \in Working
          PROVE  Quiescent({g \in Gpu : HostOf[g] = task[u].host})
      BY <2>1, OneTask DEF OneTaskPerServer, Quiescent
    <2> QED
      BY <1>1, <2>1, StaysGrounded
  <1> QED
    BY <1>1, <1>2 DEF AInv

\* A task moves on, and learns nothing.
LEMMA LearnsNothing ==
  ASSUME CInv, AInv, NEW t \in Task, NEW r, Become(t, r), Attesting(t, r), r.looking = None,
         \A g \in Gpu : r.proof[g] \in {task[t].proof[g], None},
         UNCHANGED <<servers, slips>>, AdoptsOnlyAttested'
  PROVE  AInv'
  <1>1. task'[t] = r
    BY DEF Become, CInv, TasksSound
  <1>2. Grounded(t)'
    BY <1>1 DEF Grounded, AInv
  <1>3. Quiescent(Gpu)
    BY DEF Quiescent, servers
  <1> QED
    BY <1>2, <1>3, OneTaskMoves

LEMMA ContinueAttesting ==
  ASSUME NEW t \in Task, NEW r, TaskSound(t, r), Attesting(t, r), r.looking = None, Unproven(r),
         Continue(t, r)
  PROVE  \E s : Become(t, s) /\ Attesting(t, s) /\ s.looking = None /\ Unproven(s)
  <1>1. r \in TaskRecord
    BY DEF TaskSound
  <1>2. CASE r.recovers # {}
    <2> DEFINE s == [r EXCEPT !.pc = "attest", !.work = "recover", !.targets = r.recovers,
                              !.recovers = {}]
    <2>1. /\ s.pc = "attest" /\ s.work = "recover" /\ s.targets = r.recovers /\ s.recovers = {}
          /\ s.host = r.host /\ s.looking = None /\ s.proof = r.proof
      BY <1>1 DEF TaskRecord
    <2>2. Become(t, s)
      BY <1>2 DEF Continue
    <2> HIDE DEF s
    <2>3. Attesting(t, s) /\ Unproven(s)
      BY <1>2, <2>1 DEF Attesting, Unproven
    <2> QED
      BY <2>1, <2>2, <2>3
  <1>3. CASE r.recovers = {} /\ r.stops # {}
    <2> DEFINE here == {g \in r.stops : HostOf[g] = r.host}
               s(g) == [r EXCEPT !.pc = "disable", !.work = "stop", !.targets = {g},
                                 !.stops = @ \ {g}, !.failed = FALSE]
               p(g) == [r EXCEPT !.pc = "prepare", !.host = HostOf[g]]
    <2>1. PICK g \in r.stops : \/ g \in here /\ Become(t, s(g))
                               \/ here = {} /\ Become(t, p(g))
      BY <1>3 DEF Continue
    <2>2. g \in Gpu
      BY <1>1 DEF TaskRecord
    <2>3. CASE g \in here /\ Become(t, s(g))
      <3>1. /\ s(g).pc = "disable" /\ s(g).work = "stop" /\ s(g).targets = {g}
            /\ s(g).recovers = {} /\ s(g).host = r.host /\ s(g).looking = None
            /\ s(g).proof = r.proof
        BY <1>1, <1>3 DEF TaskRecord
      <3> HIDE DEF s
      <3>2. Attesting(t, s(g)) /\ Unproven(s(g))
        BY <2>2, <2>3, <3>1 DEF Attesting, Unproven, GpusOf
      <3> QED
        BY <2>3, <3>1, <3>2
    <2>4. CASE here = {} /\ Become(t, p(g))
      <3>1. t \notin Reconciler
        BY <2>2, <2>4 DEF TaskSound, GpusOf
      <3>2. /\ p(g).pc = "prepare" /\ p(g).work = r.work /\ p(g).recovers = {}
            /\ p(g).looking = None /\ p(g).proof = r.proof
        BY <1>1, <1>3 DEF TaskRecord
      <3> HIDE DEF p
      <3>3. Attesting(t, p(g)) /\ Unproven(p(g))
        BY <3>1, <3>2 DEF Attesting, Unproven
      <3> QED
        BY <2>4, <3>2, <3>3
    <2> QED
      BY <2>1, <2>3, <2>4
  <1>4. CASE r.recovers = {} /\ r.stops = {} /\ t \in Claimer
    <2> DEFINE s == [r EXCEPT !.pc = "claim", !.work = "none", !.targets = {}]
    <2>1. /\ s.pc = "claim" /\ s.work = "none" /\ s.recovers = {} /\ s.looking = None
          /\ s.proof = r.proof
      BY <1>1, <1>4 DEF TaskRecord
    <2>2. Become(t, s)
      BY <1>4 DEF Continue
    <2> HIDE DEF s
    <2>3. Attesting(t, s) /\ Unproven(s)
      BY <2>1 DEF Attesting, Unproven
    <2> QED
      BY <2>1, <2>2, <2>3
  <1>5. CASE r.recovers = {} /\ r.stops = {} /\ t \notin Claimer
    BY <1>5, IdleAttesting DEF Continue, Ends
  <1> QED
    BY <1>2, <1>3, <1>4, <1>5

LEMMA FailsAttesting ==
  ASSUME NEW t \in Task, NEW r, TaskSound(t, r), Attesting(t, r), r.looking = None, Fails(t, r)
  PROVE  \E s : /\ Become(t, s) /\ Attesting(t, s) /\ s.looking = None
                /\ \A g \in Gpu : s.proof[g] \in {r.proof[g], None}
  <1>1. CASE r.work = "start"
    <2> DEFINE s == [r EXCEPT !.pc = "disable", !.work = "cleanup"]
    <2>1. /\ s.pc = "disable" /\ s.work = "cleanup" /\ s.host = r.host /\ s.targets = r.targets
          /\ s.recovers = r.recovers /\ s.looking = None /\ s.proof = r.proof
      BY DEF TaskSound, TaskRecord
    <2>2. Become(t, s)
      BY <1>1 DEF Fails
    <2> HIDE DEF s
    <2>3. Attesting(t, s)
      BY <1>1, <2>1 DEF Attesting, Working
    <2> QED
      BY <2>1, <2>2, <2>3
  <1>2. CASE r.work = "stop" /\ t \in Reconciler
    <2>1. Unproven(r)
      BY <1>2 DEF Attesting, Unproven
    <2> QED
      BY <1>2, <2>1, ContinueAttesting DEF Fails, Unproven
  <1>3. CASE ~(r.work = "start") /\ ~(r.work = "stop" /\ t \in Reconciler)
    BY <1>3, IdleAttesting DEF Fails, Ends, Unproven
  <1> QED
    BY <1>1, <1>2, <1>3

\* What the invariants say of a task that works on a server.
LEMMA AttestingAt ==
  ASSUME CInv, AInv, NEW t \in Task, NEW pc \in Working, At(t, pc)
  PROVE  /\ IInv /\ WorldSound /\ TaskSound(t, task[t]) /\ task[t] \in TaskRecord
         /\ task[t].pc = pc /\ task[t].targets \in SUBSET Gpu
         /\ Attesting(t, task[t]) /\ Grounded(t) /\ AdoptsOnlyAttested
         /\ pc # "attest" => task[t].looking = None
  BY AtWork DEF AInv, Attesting

\* A task commands its helper, and disturbs only the GPUs of its server.
LEMMA CommandLearnsNothing ==
  ASSUME CInv, AInv, NEW t \in Task, NEW pc \in Working, At(t, pc), NEW r, Become(t, r),
         Attesting(t, r), r.looking = None,
         \A g \in Gpu : r.proof[g] \in {task[t].proof[g], None},
         UNCHANGED <<keeper, slips>>, NEW gs \in SUBSET GpusOf(task[t].host),
         \A g \in Gpu \ gs : real'[g] = real[g] /\ helper'[g] = helper[g]
  PROVE  AInv'
  <1>1. task'[t] = r
    BY DEF Become, CInv, TasksSound
  <1>2. Grounded(t)'
    BY <1>1, AttestingAt DEF Grounded
  <1>3. Quiescent({g \in Gpu : HostOf[g] # task[t].host})
    BY DEF Quiescent, GpusOf
  <1>4. AdoptsOnlyAttested' /\ task[t].pc \in Working
    BY AttestingAt, SameForgets, ForgetsAdopts
  <1> QED
    BY <1>1, <1>2, <1>3, <1>4, OneTaskMoves

LEMMA StartedElsewhere ==
  ASSUME WorldSound, NEW gs, NEW noted, Started(gs, noted)
  PROVE  \A g \in Gpu \ gs : real'[g] = real[g] /\ helper'[g] = helper[g]
  <1>1. PICK new :
          /\ real' = [g \in Gpu |-> IF g \in Missing(gs) THEN real[g] \cup {new[g]} ELSE real[g]]
          /\ helper' = [g \in Gpu |-> IF g \in Missing(gs) \cap noted THEN new[g] ELSE helper[g]]
    BY DEF Started
  <1> QED
    BY <1>1 DEF Missing

LEMMA StoppedElsewhere ==
  ASSUME WorldSound, NEW gs, Stopped(gs)
  PROVE  \A g \in Gpu \ gs : real'[g] = real[g] /\ helper'[g] = helper[g]
  BY DEF Stopped

LEMMA EnableAttesting ==
  ASSUME CInv, AInv, NEW t \in Task,
         EnableDone(t) \/ EnableFails(t) \/ EnableRefused(t) \/ EnableLost(t)
  PROVE  AInv'
  <1>0. /\ At(t, "enable") /\ "enable" \in Working /\ UNCHANGED <<keeper, slips>>
    BY DEF EnableDone, EnableFails, EnableRefused, EnableLost, Answered, Working, vars
  <1>1. /\ WorldSound /\ TaskSound(t, task[t]) /\ task[t] \in TaskRecord
        /\ task[t].pc = "enable" /\ task[t].looking = None /\ Attesting(t, task[t])
        /\ task[t].targets \in SUBSET GpusOf(task[t].host)
    BY <1>0, AttestingAt DEF Attesting
  <1>2. CASE EnableDone(t)
    <2> DEFINE r == [task[t] EXCEPT !.pc = "attest"]
    <2>1. /\ r.pc = "attest" /\ r.host = task[t].host /\ r.work = task[t].work
          /\ r.targets = task[t].targets /\ r.recovers = task[t].recovers
          /\ r.looking = None /\ r.proof = task[t].proof /\ Become(t, r)
      BY <1>1, <1>2 DEF EnableDone, Answered, TaskRecord
    <2> HIDE DEF r
    <2>2. Attesting(t, r)
      BY <1>1, <2>1 DEF Attesting
    <2>3. \A g \in Gpu \ task[t].targets : real'[g] = real[g] /\ helper'[g] = helper[g]
      BY <1>1, <1>2, StartedElsewhere DEF EnableDone
    <2> QED
      BY <1>0, <1>1, <2>1, <2>2, <2>3, CommandLearnsNothing
  <1>3. CASE EnableFails(t) \/ EnableLost(t)
    <2>1. PICK s : /\ Become(t, s) /\ Attesting(t, s) /\ s.looking = None
                   /\ \A g \in Gpu : s.proof[g] \in {task[t].proof[g], None}
      BY <1>1, <1>3, FailsAttesting DEF EnableFails, EnableLost
    <2>2. \A g \in Gpu \ task[t].targets : real'[g] = real[g] /\ helper'[g] = helper[g]
      <3>1. CASE EnableFails(t)
        <4>1. PICK gs \in SUBSET task[t].targets : Started(gs, Gpu)
          BY <3>1 DEF EnableFails
        <4> QED
          BY <1>1, <4>1, StartedElsewhere
      <3>2. CASE EnableLost(t)
        BY <3>2 DEF EnableLost, Lost
      <3> QED
        BY <1>3, <3>1, <3>2
    <2> QED
      BY <1>0, <1>1, <2>1, <2>2, CommandLearnsNothing
  <1>4. CASE EnableRefused(t)
    <2> DEFINE r == [task[t] EXCEPT !.pc = "probe", !.work = "cleanup"]
    <2>1. /\ r.pc = "probe" /\ r.host = task[t].host /\ r.work = "cleanup"
          /\ r.targets = task[t].targets /\ r.recovers = task[t].recovers
          /\ r.looking = None /\ r.proof = task[t].proof /\ Become(t, r)
      BY <1>1, <1>4 DEF EnableRefused, TaskRecord
    <2> HIDE DEF r
    <2>2. Attesting(t, r)
      BY <1>1, <2>1 DEF Attesting
    <2>3. \A g \in Gpu \ task[t].targets : real'[g] = real[g] /\ helper'[g] = helper[g]
      BY <1>4 DEF EnableRefused, servers
    <2> QED
      BY <1>0, <1>1, <2>1, <2>2, <2>3, CommandLearnsNothing
  <1> QED
    BY <1>2, <1>3, <1>4

LEMMA DisableAttesting ==
  ASSUME CInv, AInv, NEW t \in Task, DisableDone(t) \/ DisableFails(t)
  PROVE  AInv'
  <1>0. /\ At(t, "disable") /\ "disable" \in Working /\ UNCHANGED <<keeper, slips>>
    BY DEF DisableDone, DisableFails, Answered, Working, vars
  <1>1. /\ WorldSound /\ TaskSound(t, task[t]) /\ task[t] \in TaskRecord
        /\ task[t].pc = "disable" /\ task[t].looking = None /\ Attesting(t, task[t])
        /\ task[t].targets \in SUBSET GpusOf(task[t].host)
    BY <1>0, AttestingAt DEF Attesting
  <1> DEFINE r(failed) == [task[t] EXCEPT !.pc = "probe", !.failed = failed]
  <1>2. PICK failed \in BOOLEAN : Become(t, r(failed))
    BY DEF DisableDone, DisableFails, Answered
  <1>3. /\ r(failed).pc = "probe" /\ r(failed).host = task[t].host
        /\ r(failed).work = task[t].work
        /\ r(failed).targets = task[t].targets /\ r(failed).recovers = task[t].recovers
        /\ r(failed).looking = None /\ r(failed).proof = task[t].proof
    BY <1>1 DEF TaskRecord
  <1> HIDE DEF r
  <1>4. Attesting(t, r(failed))
    BY <1>1, <1>3 DEF Attesting, Working
  <1>5. \A g \in Gpu \ task[t].targets : real'[g] = real[g] /\ helper'[g] = helper[g]
    <2>1. ASSUME NEW gs \in SUBSET task[t].targets, Stopped(gs)
          PROVE  \A g \in Gpu \ task[t].targets : real'[g] = real[g] /\ helper'[g] = helper[g]
      BY <1>1, <2>1, StoppedElsewhere
    <2> QED
      BY <2>1 DEF DisableDone, DisableFails, Lost
  <1> QED
    BY <1>0, <1>1, <1>2, <1>3, <1>4, <1>5, CommandLearnsNothing

\* Only an adoption is not forgotten when an attestation begins or fails.
LEMMA RememberedAdopts ==
  ASSUME AdoptsOnlyAttested, UNCHANGED keeper, NEW gs, slips' = Remembered(gs)
  PROVE  AdoptsOnlyAttested'
  BY DEF AdoptsOnlyAttested, Remembered

\* What is attested is the worker, unless that has ended since it was looked at.
LEMMA AttestAttesting ==
  ASSUME CInv, AInv, NEW t \in Task, LookAtWorker(t) \/ ResolveDriver(t) \/ AttestFails(t)
  PROVE  AInv'
  <1>0. /\ At(t, "attest") /\ "attest" \in Working /\ UNCHANGED <<keeper, real, helper>>
    BY DEF LookAtWorker, ResolveDriver, AttestFails, Working, vars, servers
  <1>1. /\ TaskSound(t, task[t]) /\ task[t] \in TaskRecord /\ task[t].pc = "attest"
        /\ Attesting(t, task[t]) /\ Grounded(t) /\ AdoptsOnlyAttested /\ WorldSound
        /\ task[t].targets \in SUBSET Gpu /\ task[t].targets \subseteq GpusOf(task[t].host)
        /\ t \in Reconciler /\ task[t].work \in {"start", "recover"} /\ TasksSound
    BY <1>0, AttestingAt DEF Attesting, CInv
  <1>2. CASE LookAtWorker(t)
    <2>1. PICK g \in Gpu, r \in TaskRecord :
             /\ Asks(t, r) /\ r.pc = "attest" /\ r.looking = g /\ r.proof = task[t].proof
             /\ g \in Unresolved(t) /\ helper[g] \in real[g] /\ slips' = Remembered({g})
      BY <1>1, <1>2, Looks
    <2>2. g \in task[t].targets /\ task[t].proof[g] = None /\ HostOf[g] = task[t].host
      BY <1>1, <2>1 DEF Unresolved, GpusOf
    <2>3. Become(t, r) /\ Attesting(t, r) /\ task'[t] = r
      BY <1>1, <2>1, <2>2 DEF Asks, Attesting, Become, TasksSound
    <2>4. slips \ {g} \subseteq slips'
      BY <2>1 DEF Remembered
    <2>5. Grounded(t)'
      BY <1>0, <1>1, <2>1, <2>2, <2>3, <2>4 DEF Grounded
    <2>6. Quiescent({h \in Gpu : HostOf[h] # task[t].host})
      BY <1>0, <2>2, <2>4 DEF Quiescent
    <2>7. AdoptsOnlyAttested'
      BY <1>0, <1>1, <2>1, RememberedAdopts
    <2> QED
      BY <1>0, <1>1, <2>3, <2>5, <2>6, <2>7, OneTaskMoves
  <1>3. CASE ResolveDriver(t)
    <2> DEFINE g == task[t].looking
    <2>1. PICK p \in Proc, r \in TaskRecord :
             /\ Asks(t, r) /\ r.pc \in {"attest", "probe"} /\ r.looking = None
             /\ r.proof = [task[t].proof EXCEPT ![g] = p] /\ g # None /\ real[g] = {p}
      BY <1>1, <1>3, Resolves
    <2>2. g \in Gpu /\ HostOf[g] = task[t].host /\ task[t].proof \in [Gpu -> Proc \cup {None}]
      BY <1>1, <2>1 DEF Attesting, TaskRecord
    <2>3. p \in Worker \/ g \in slips
      <3>1. helper[g] \in real[g] \/ g \in slips
        BY <1>1, <2>1 DEF Grounded
      <3>2. helper[g] = p => p \in Worker
        BY <1>1, <2>2, NoneAssumption DEF WorldSound
      <3> QED
        BY <2>1, <3>1, <3>2
    <2>4. UNCHANGED slips
      BY <1>3 DEF ResolveDriver
    <2> HIDE DEF g
    <2>5. \A h \in Gpu : r.proof[h] = IF h = g THEN p ELSE task[t].proof[h]
      BY <2>1, <2>2
    <2>6. Become(t, r) /\ task'[t] = r
      BY <1>1, <2>1 DEF Asks, Become, TasksSound
    <2>7. Attesting(t, r)
      BY <1>1, <2>1, <2>2, <2>5 DEF Asks, Attesting, Working
    <2>8. Grounded(t)'
      BY <1>1, <2>1, <2>3, <2>4, <2>5, <2>6 DEF Grounded
    <2>9. Quiescent(Gpu) /\ AdoptsOnlyAttested'
      BY <1>0, <1>1, <2>4, SameForgets, ForgetsAdopts DEF Quiescent
    <2> QED
      BY <2>6, <2>7, <2>8, <2>9, OneTaskMoves
  <1>4. CASE AttestFails(t)
    <2>1. PICK r \in TaskRecord :
            /\ Fails(t, r) /\ r.pc = "attest" /\ r.looking = None
            /\ r.proof = [g \in Gpu |-> None]
            /\ r.host = task[t].host /\ r.work = task[t].work /\ r.targets = task[t].targets
            /\ r.recovers = task[t].recovers /\ r.stops = task[t].stops
      BY <1>1, <1>4, GivesUp
    <2>2. TaskSound(t, r) /\ Attesting(t, r)
      BY <1>1, <2>1 DEF TaskSound, Attesting
    <2>3. PICK s : /\ Become(t, s) /\ Attesting(t, s) /\ s.looking = None
                   /\ \A g \in Gpu : s.proof[g] \in {r.proof[g], None}
      BY <2>1, <2>2, FailsAttesting
    <2>4. task'[t] = s /\ Grounded(t)'
      BY <1>1, <2>1, <2>3 DEF Become, TasksSound, Grounded
    <2>5. slips' = Remembered(task[t].targets)
      BY <1>4 DEF AttestFails
    <2>6. Quiescent({g \in Gpu : HostOf[g] # task[t].host})
      BY <1>0, <1>1, <2>5 DEF Quiescent, Remembered, GpusOf
    <2>7. AdoptsOnlyAttested'
      BY <1>0, <1>1, <2>5, RememberedAdopts
    <2> QED
      BY <1>0, <1>1, <2>3, <2>4, <2>6, <2>7, OneTaskMoves
  <1> QED
    BY <1>2, <1>3, <1>4

\* Of the broker's calls only a confirmation adopts a process.
LEMMA CallForgets ==
  ASSUME IInv,
         \/ \E l \in Lease : \E gs : Claim(l, gs, TRUE)
         \/ \E l \in Lease : Release(l) \/ \E e \in Endpoint : ReleaseEmpty(e, l, now)
         \/ \E e \in Endpoint, policy \in Policies : ConfigurePolicy(e, policy)
         \/ \E l \in Lease \cup {None} : \E e : FinalizeStop(e, l, now)
         \/ \E e, gs : KeepaliveError(e, gs)
         \/ \E e \in Endpoint : ProviderFailure(e)
         \/ UNCHANGED vars
  PROVE  Forgets
  <1>1. keeper \in [Gpu -> KeeperRecord]
    BY DEF IInv, TypeOK
  <1>2. CASE \E l \in Lease \cup {None} : \E e : FinalizeStop(e, l, now)
    <2>1. PICK l \in Lease \cup {None} : \E e : FinalizeStop(e, l, now)
      BY <1>2
    <2>2. PICK g : keeper' = [keeper EXCEPT ![g] = [actual |-> "OFF", expected |-> None]]
      BY <2>1 DEF FinalizeStop
    <2> QED
      BY <1>1, <2>2 DEF Forgets
  <1>3. CASE \E e \in Endpoint, policy \in Policies : ConfigurePolicy(e, policy)
    BY <1>1, <1>3 DEF Forgets, ConfigurePolicy, KeeperRecord
  <1>4. CASE \E e, gs : KeepaliveError(e, gs)
    BY <1>1, <1>4 DEF Forgets, KeepaliveError, KeeperRecord
  <1>5. CASE UNCHANGED keeper
    BY <1>5, SameForgets
  <1> QED
    BY <1>2, <1>3, <1>4, <1>5 DEF Claim, Release, ReleaseEmpty, OnlyLease, ProviderFailure, vars

LEMMA IngestedForgets ==
  ASSUME IInv, NEW x, NEW e \in Endpoint, Ingested(x, e)
  PROVE  Forgets
  <1>1. CASE probe[x].overtaken
    BY <1>1, SameForgets DEF Ingested, vars
  <1>2. CASE ~probe[x].overtaken
    <2>1. Ingest(e, now, TRUE, GpusOf(e), probe[x].listed) /\ TRUE \in BOOLEAN
      BY <1>2 DEF Ingested
    <2> QED
      BY <2>1, IngestForgets DEF Forgets
  <1> QED
    BY <1>1, <1>2

LEMMA ObservationAttesting ==
  ASSUME CInv, AInv, NEW t \in Task, TaskProbe(t) \/ TaskIngest(t) \/ ProbeFails(t)
  PROVE  AInv'
  <1>0. PICK pc \in {"probe", "ingest"} : At(t, pc)
    BY DEF TaskProbe, TaskIngest, ProbeFails
  <1>1. /\ IInv /\ TaskSound(t, task[t]) /\ task[t] \in TaskRecord /\ task[t].pc = pc
        /\ task[t].looking = None /\ Attesting(t, task[t]) /\ AdoptsOnlyAttested
        /\ pc \in Working
    BY <1>0, AttestingAt DEF Working
  <1>2. UNCHANGED <<servers, slips>>
    BY DEF TaskProbe, TaskIngest, ProbeFails
  <1>3. AdoptsOnlyAttested'
    <2>1. task[t].host \in Endpoint
      BY <1>0, <1>1, AtWork
    <2>2. Forgets
      BY <1>1, <2>1, IngestedForgets, CallForgets DEF TaskProbe, TaskIngest, ProbeFails
    <2> QED
      BY <1>1, <1>2, <2>2, ForgetsAdopts
  <1>4. ASSUME NEW next \in {"ingest", "settle"}, Become(t, [task[t] EXCEPT !.pc = next])
        PROVE  AInv'
    <2> DEFINE r == [task[t] EXCEPT !.pc = next]
    <2>1. /\ r.pc = next /\ r.host = task[t].host /\ r.work = task[t].work
          /\ r.targets = task[t].targets /\ r.recovers = task[t].recovers
          /\ r.looking = None /\ r.proof = task[t].proof /\ Become(t, r)
      BY <1>1, <1>4 DEF TaskRecord
    <2> HIDE DEF r
    <2>2. Attesting(t, r)
      BY <1>1, <2>1 DEF Attesting, Working
    <2> QED
      BY <1>2, <1>3, <2>1, <2>2, LearnsNothing
  <1>5. CASE Fails(t, task[t])
    <2>1. PICK s : /\ Become(t, s) /\ Attesting(t, s) /\ s.looking = None
                   /\ \A g \in Gpu : s.proof[g] \in {task[t].proof[g], None}
      BY <1>1, <1>5, FailsAttesting
    <2> QED
      BY <1>2, <1>3, <2>1, LearnsNothing
  <1> QED
    BY <1>4, <1>5 DEF TaskProbe, TaskIngest, ProbeFails

\* The process that a confirmation adopts is the one that was attested.
LEMMA ConfirmAdopts ==
  ASSUME AdoptsOnlyAttested, NEW t \in Task, Grounded(t), NEW ids,
         ActivateKeepalives(task[t].host, task[t].targets, ids, now), Proven(t), UNCHANGED slips
  PROVE  AdoptsOnlyAttested'
  <1>1. ASSUME NEW g \in Gpu
        PROVE  keeper'[g].expected \in Worker \cup {None} \/ g \in slips
    <2>1. CASE g \in task[t].targets
      <3>1. PICK p \in Proc : Seen(g) = {p}
        BY <2>1 DEF ActivateKeepalives
      <3>2. task[t].proof[g] = p
        BY <2>1, <3>1 DEF Proven
      <3>3. (CHOOSE q \in Proc : Seen(g) = {q}) = p
        BY <3>1
      <3>4. keeper'[g].expected = (CHOOSE q \in Proc : Seen(g) = {q})
        BY <2>1 DEF ActivateKeepalives
      <3> QED
        BY <3>2, <3>3, <3>4 DEF Grounded
    <2>2. CASE g \notin task[t].targets
      BY <2>2 DEF ActivateKeepalives, AdoptsOnlyAttested
    <2> QED
      BY <2>1, <2>2
  <1> QED
    BY <1>1 DEF AdoptsOnlyAttested

LEMMA SettleAttesting ==
  ASSUME CInv, AInv, NEW t \in Task,
         Confirm(t) \/ ConfirmFails(t) \/ Report(t) \/ Finalize(t) \/ FinalizeFails(t)
  PROVE  AInv'
  <1>0. /\ At(t, "settle") /\ "settle" \in Working /\ UNCHANGED <<servers, slips>>
    BY DEF Confirm, ConfirmFails, Report, Finalize, FinalizeFails, Working
  <1>1. /\ IInv /\ TaskSound(t, task[t]) /\ task[t] \in TaskRecord /\ task[t].pc = "settle"
        /\ task[t].looking = None /\ Attesting(t, task[t]) /\ AdoptsOnlyAttested /\ Grounded(t)
    BY <1>0, AttestingAt
  <1> DEFINE r == [task[t] EXCEPT !.proof = Idle.proof]
             s == [task[t] EXCEPT !.planned = [g \in Gpu |-> IF g \in task[t].targets THEN None ELSE @[g]]]
  <1>2. TaskSound(t, r) /\ Attesting(t, r) /\ r.looking = None /\ Unproven(r)
    <2>1. Idle.proof = [g \in Gpu |-> None]
      BY DEF Idle
    <2>2. /\ r \in TaskRecord /\ r.pc = "settle" /\ r.host = task[t].host /\ r.stops = task[t].stops
          /\ r.recovers = task[t].recovers /\ r.targets = task[t].targets
          /\ r.work = task[t].work /\ r.looking = None /\ r.proof = [g \in Gpu |-> None]
      BY <1>1, <2>1 DEF TaskRecord
    <2> HIDE DEF r
    <2> QED
      BY <1>1, <2>2 DEF TaskSound, Attesting, Unproven
  <1>3. TaskSound(t, s) /\ Attesting(t, s) /\ s.looking = None /\ (task[t].work = "stop" => Unproven(s))
    <2>1. [g \in Gpu |-> IF g \in task[t].targets THEN None ELSE task[t].planned[g]]
             \in [Gpu -> Lease \cup {None}]
      BY <1>1 DEF TaskRecord
    <2>2. /\ s \in TaskRecord /\ s.pc = "settle" /\ s.host = task[t].host /\ s.stops = task[t].stops
          /\ s.recovers = task[t].recovers /\ s.targets = task[t].targets
          /\ s.work = task[t].work /\ s.looking = None /\ s.proof = task[t].proof
      BY <1>1, <2>1 DEF TaskRecord
    <2> HIDE DEF s
    <2> QED
      BY <1>1, <2>2 DEF TaskSound, Attesting, Unproven
  <1> HIDE DEF r, s
  <1>4. ASSUME NEW u, Become(t, u), Attesting(t, u), u.looking = None,
               \A g \in Gpu : u.proof[g] \in {task[t].proof[g], None}, AdoptsOnlyAttested'
        PROVE  AInv'
    BY <1>0, <1>4, LearnsNothing
  <1>5. CASE Confirm(t)
    <2>1. PICK u : Become(t, u) /\ Attesting(t, u) /\ u.looking = None /\ Unproven(u)
      BY <1>2, <1>5, ContinueAttesting DEF Confirm, r
    <2>2. AdoptsOnlyAttested'
      BY <1>0, <1>1, <1>5, ConfirmAdopts DEF Confirm, Confirmable
    <2> QED
      BY <1>4, <2>1, <2>2 DEF Unproven
  <1>6. CASE ~Confirm(t)
    <2>1. Forgets
      <3>1. ASSUME NEW g \in task[t].targets
            PROVE  task[t].planned[g] \in Lease \cup {None}
        BY <1>1, <3>1 DEF TaskRecord
      <3> QED
        BY <1>1, <1>6, <3>1, CallForgets DEF ConfirmFails, Report, Finalize, FinalizeFails
    <2>2. AdoptsOnlyAttested'
      BY <1>0, <1>1, <2>1, ForgetsAdopts
    <2>3. CASE ConfirmFails(t)
      <3>1. PICK u : /\ Become(t, u) /\ Attesting(t, u) /\ u.looking = None
                     /\ \A g \in Gpu : u.proof[g] \in {r.proof[g], None}
        BY <1>2, <2>3, FailsAttesting DEF ConfirmFails, r
      <3> QED
        BY <1>2, <1>4, <2>2, <3>1 DEF Unproven
    <2>4. CASE FinalizeFails(t)
      <3>1. PICK u : /\ Become(t, u) /\ Attesting(t, u) /\ u.looking = None
                     /\ \A g \in Gpu : u.proof[g] \in {task[t].proof[g], None}
        BY <1>1, <2>4, FailsAttesting DEF FinalizeFails
      <3> QED
        BY <1>4, <2>2, <3>1
    <2>5. CASE Ends(t)
      <3>1. Become(t, Idle)
        BY <2>5 DEF Ends
      <3> QED
        BY <1>4, <2>2, <3>1, IdleAttesting DEF Unproven
    <2>6. CASE Finalize(t) /\ Continue(t, s)
      <3>1. PICK u : Become(t, u) /\ Attesting(t, u) /\ u.looking = None /\ Unproven(u)
        BY <1>3, <2>6, ContinueAttesting DEF Finalize
      <3> QED
        BY <1>4, <2>2, <3>1 DEF Unproven
    <2> QED
      BY <1>6, <2>3, <2>4, <2>5, <2>6 DEF Report, Finalize, s
  <1> QED
    BY <1>5, <1>6

\* A task that holds no proof and works on no server, or is only preparing.
LEMMA PassiveAttesting ==
  ASSUME CInv, AInv, NEW t \in Task, task[t].pc \in {"idle", "waiting", "prepare", "plan", "claim"}
  PROVE  /\ IInv /\ TaskSound(t, task[t]) /\ task[t] \in TaskRecord /\ Attesting(t, task[t])
         /\ task[t].looking = None /\ Unproven(task[t]) /\ AdoptsOnlyAttested
  BY DEF CInv, TasksSound, AInv, Attesting, Unproven, Working

LEMMA ClaimerAttesting ==
  ASSUME CInv, AInv, NEW t \in Task,
         Prepare(t) \/ (\E e \in Endpoint : Acquire(t, e)) \/ Grant(t) \/ NoCapacity(t) \/ PlanReclaim(t)
  PROVE  AInv'
  <1>0. /\ UNCHANGED <<servers, slips>>
        /\ task[t].pc \in {"idle", "waiting", "prepare", "plan", "claim"}
    BY DEF Prepare, Acquire, Grant, NoCapacity, PlanReclaim, Deciding, At
  <1>1. /\ IInv /\ TaskSound(t, task[t]) /\ task[t] \in TaskRecord /\ Attesting(t, task[t])
        /\ task[t].looking = None /\ Unproven(task[t]) /\ AdoptsOnlyAttested
    BY <1>0, PassiveAttesting
  <1>2. AdoptsOnlyAttested'
    <2>1. Forgets
      BY <1>1, CallForgets DEF Prepare, Acquire, Grant, NoCapacity, PlanReclaim
    <2> QED
      BY <1>0, <1>1, <2>1, ForgetsAdopts
  <1>3. ASSUME NEW u, Become(t, u), Attesting(t, u), u.looking = None, Unproven(u)
        PROVE  AInv'
    BY <1>0, <1>2, <1>3, LearnsNothing DEF Unproven
  <1>4. CASE Ends(t)
    BY <1>3, <1>4, IdleAttesting DEF Ends
  <1>5. CASE \E e \in Endpoint : Acquire(t, e)
    <2>1. UNCHANGED task
      BY <1>5 DEF Acquire
    <2>2. Quiescent(Gpu)
      BY <1>0 DEF Quiescent, servers
    <2> QED
      BY <1>2, <2>1, <2>2, NoTaskMoves
  <1>6. ASSUME NEW stops \in SUBSET task[t].stops,
               Continue(t, [task[t] EXCEPT !.stops = stops])
        PROVE  AInv'
    <2> DEFINE r == [task[t] EXCEPT !.stops = stops]
    <2>1. /\ r \in TaskRecord /\ r.pc = task[t].pc /\ r.host = task[t].host /\ r.stops = stops
          /\ r.recovers = task[t].recovers /\ r.targets = task[t].targets
          /\ r.work = task[t].work /\ r.looking = None /\ r.proof = task[t].proof
      BY <1>1 DEF TaskRecord
    <2>2. Continue(t, r)
      BY <1>6
    <2> HIDE DEF r
    <2>3. TaskSound(t, r) /\ Attesting(t, r) /\ Unproven(r)
      BY <1>1, <2>1 DEF TaskSound, Attesting, Unproven
    <2> QED
      BY <1>3, <2>1, <2>2, <2>3, ContinueAttesting
  <1>7. CASE Prepare(t)
    <2> DEFINE lapsed == {g \in task[t].stops : /\ HostOf[g] = task[t].host
                                                /\ ~KeeperRow(task[t].planned[g], g)}
    <2>1. Ends(t) \/ Continue(t, [task[t] EXCEPT !.stops = @ \ lapsed])
      BY <1>7 DEF Prepare
    <2> HIDE DEF lapsed
    <2>2. [task[t] EXCEPT !.stops = @ \ lapsed] = [task[t] EXCEPT !.stops = task[t].stops \ lapsed]
      BY <1>1 DEF TaskRecord
    <2> QED
      BY <1>4, <1>6, <2>1, <2>2
  <1>8. CASE Become(t, [task[t] EXCEPT !.pc = "plan"])
    <2> DEFINE r == [task[t] EXCEPT !.pc = "plan"]
    <2>1. /\ r.pc = "plan" /\ r.host = task[t].host /\ r.recovers = task[t].recovers
          /\ r.targets = task[t].targets /\ r.work = task[t].work /\ r.looking = None
          /\ r.proof = task[t].proof /\ Become(t, r)
      BY <1>1, <1>8 DEF TaskRecord
    <2> HIDE DEF r
    <2>2. Attesting(t, r) /\ Unproven(r)
      BY <1>1, <2>1 DEF Attesting, Unproven
    <2> QED
      BY <1>3, <2>1, <2>2
  <1>9. CASE PlanReclaim(t)
    <2> DEFINE gs == {g \in task[t].wants : Reclaimable(g)}
               r == [task[t] EXCEPT !.stops = gs, !.planned = PlannedLease(gs)]
    <2>1. Ends(t) \/ Continue(t, r)
      BY <1>9 DEF PlanReclaim
    <2>2. gs \in SUBSET Gpu /\ \A g \in gs : \E l \in Lease : KeeperRow(l, g)
      BY <1>1 DEF TaskRecord, Reclaimable
    <2>3. PlannedLease(gs) \in [Gpu -> Lease \cup {None}]
      BY <2>2, PlanSound
    <2> HIDE DEF gs
    <2>4. /\ r \in TaskRecord /\ r.pc = "plan" /\ r.host = task[t].host
          /\ r.recovers = task[t].recovers /\ r.targets = task[t].targets
          /\ r.work = task[t].work /\ r.looking = None /\ r.proof = task[t].proof
      BY <1>1, <1>9, <2>2, <2>3 DEF PlanReclaim, At, TaskRecord
    <2>5. t \in Claimer /\ t \notin Reconciler
      BY <1>1, <1>9, Names DEF PlanReclaim, At, TaskSound
    <2> HIDE DEF r
    <2>6. TaskSound(t, r) /\ Attesting(t, r) /\ Unproven(r)
      BY <1>1, <2>4, <2>5 DEF TaskSound, Attesting, Unproven, Working
    <2> QED
      BY <1>3, <1>4, <2>1, <2>4, <2>6, ContinueAttesting
  <1> QED
    BY <1>4, <1>5, <1>7, <1>8, <1>9 DEF Grant, NoCapacity

LEMMA BeginAttesting ==
  ASSUME CInv, AInv, NEW t \in Task,
         \/ \E e \in Endpoint, policy \in Policies : Toggle(t, e, policy)
         \/ \E gs \in SUBSET Gpu : Ask(t, gs)
  PROVE  AInv'
  <1>0. /\ UNCHANGED <<servers, slips>> /\ At(t, "idle") /\ IInv /\ AdoptsOnlyAttested
    BY DEF Toggle, Ask, CInv, AInv
  <1>1. AdoptsOnlyAttested'
    <2>1. Forgets
      BY <1>0, CallForgets DEF Toggle, Ask
    <2> QED
      BY <1>0, <2>1, ForgetsAdopts
  <1>2. ASSUME NEW r, Become(t, r), r.pc = "waiting", r.work = "none", r.recovers = {},
               r.looking = None, r.proof = [g \in Gpu |-> None]
        PROVE  AInv'
    <2>1. Attesting(t, r)
      BY <1>2 DEF Attesting
    <2> QED
      BY <1>0, <1>1, <1>2, <2>1, LearnsNothing
  <1>3. ASSUME NEW e \in Endpoint, NEW policy \in Policies, Toggle(t, e, policy)
        PROVE  AInv'
    BY <1>2, <1>3 DEF Toggle, Idle
  <1>4. ASSUME NEW gs \in SUBSET Gpu, Ask(t, gs)
        PROVE  AInv'
    BY <1>2, <1>4 DEF Ask, Idle
  <1> QED
    BY <1>3, <1>4

LEMMA ReconcilesAttesting ==
  ASSUME CInv, AInv, NEW t \in Task,
         ToggleReconciles(t) \/ (t \in Reconciler /\ \E e \in Endpoint : LoopSpawns(e, t))
  PROVE  AInv'
  <1>1. PICK e : t \in Reconciler /\ Reconciles(t, e)
    BY DEF ToggleReconciles, LoopSpawns
  <1>2. UNCHANGED <<servers, slips>> /\ UNCHANGED keeper
    BY <1>1 DEF Reconciles, vars
  <1>3. AdoptsOnlyAttested'
    BY <1>2, SameForgets, ForgetsAdopts DEF AInv
  <1> DEFINE r == [Idle EXCEPT !.host = e, !.recovers = ToRecover(e), !.stops = ToStop(e),
                               !.planned = PlannedLease(ToStop(e))]
             s1 == [r EXCEPT !.pc = "enable", !.work = "start", !.targets = ToStart(e)]
             s2 == [r EXCEPT !.pc = "attest", !.work = "recover", !.targets = ToRecover(e),
                             !.recovers = {}]
             s3 == [r EXCEPT !.pc = "prepare"]
  <1>4. /\ r.host = e /\ r.recovers = ToRecover(e) /\ r.work = "none" /\ r.looking = None
        /\ r.proof = [g \in Gpu |-> None]
    BY DEF Idle
  <1>5. ToStart(e) \subseteq GpusOf(e) /\ ToRecover(e) \subseteq GpusOf(e)
    BY DEF ToStart, ToRecover
  <1>6. \/ Become(t, s1) \/ Become(t, s2) \/ Become(t, s3) \/ Become(t, Idle)
    BY <1>1 DEF Reconciles
  <1>7. ASSUME NEW s \in {s1, s2, s3, Idle}
        PROVE  Attesting(t, s) /\ s.looking = None /\ Unproven(s)
    <2>1. CASE s = s1
      <3>1. /\ s.pc = "enable" /\ s.work = "start" /\ s.targets = ToStart(e) /\ s.host = e
            /\ s.recovers = ToRecover(e) /\ s.looking = None /\ s.proof = [g \in Gpu |-> None]
        BY <2>1 DEF Idle
      <3> QED
        BY <1>1, <1>5, <3>1 DEF Attesting, Unproven
    <2>2. CASE s = s2
      <3>1. /\ s.pc = "attest" /\ s.work = "recover" /\ s.targets = ToRecover(e) /\ s.host = e
            /\ s.recovers = {} /\ s.looking = None /\ s.proof = [g \in Gpu |-> None]
        BY <2>2 DEF Idle
      <3> QED
        BY <1>1, <1>5, <3>1 DEF Attesting, Unproven
    <2>3. CASE s = s3
      <3>1. /\ s.pc = "prepare" /\ s.work = "none" /\ s.host = e
            /\ s.recovers = ToRecover(e) /\ s.looking = None /\ s.proof = [g \in Gpu |-> None]
        BY <2>3 DEF Idle
      <3> QED
        BY <1>1, <1>5, <3>1 DEF Attesting, Unproven
    <2>4. CASE s = Idle
      BY <2>4, IdleAttesting
    <2> QED
      BY <2>1, <2>2, <2>3, <2>4
  <1> HIDE DEF r, s1, s2, s3
  <1> QED
    BY <1>2, <1>3, <1>6, <1>7, LearnsNothing DEF Unproven

LEMMA TaskAttesting ==
  ASSUME CInv, AInv, NEW t \in Task, TaskStep(t)
  PROVE  AInv'
  BY EnableAttesting, DisableAttesting, AttestAttesting, ObservationAttesting, SettleAttesting,
     ClaimerAttesting, ReconcilesAttesting
  DEF TaskStep

\* The collector loop, agents and operators move no task that is at work.
LEMMA BrokerAttesting ==
  ASSUME CInv, AInv, (\E e \in Endpoint : LoopStep(e)) \/ Unlocked \/ Recycle \/ UNCHANGED allvars
  PROVE  AInv'
  <1>1. UNCHANGED <<task, real, helper, slips>>
    BY DEF LoopStep, LoopProbe, LoopIngest, LoopFails, LoopSkips, Unlocked, Recycle, cvars, servers,
           allvars
  <1>2. Forgets
    <2>1. IInv
      BY DEF CInv
    <2>2. ASSUME NEW e \in Endpoint, LoopStep(e)
          PROVE  Forgets
      BY <2>1, <2>2, IngestedForgets, CallForgets
      DEF LoopStep, LoopProbe, LoopIngest, LoopFails, LoopSkips
    <2>3. CASE Unlocked
      BY <2>1, <2>3, CallForgets DEF Unlocked
    <2>4. CASE Recycle \/ UNCHANGED allvars
      BY <2>4, SameForgets DEF Recycle, allvars, vars
    <2> QED
      BY <2>2, <2>3, <2>4
  <1>3. AdoptsOnlyAttested'
    BY <1>1, <1>2, ForgetsAdopts DEF AInv
  <1>4. Quiescent(Gpu)
    BY <1>1 DEF Quiescent
  <1> QED
    BY <1>1, <1>3, <1>4, NoTaskMoves

\* What happens on the servers by itself.  A worker that ends while a task is
\* about to ask for it is on record; a late command has to wait for the lock of
\* the helper.
LEMMA ServerAttesting ==
  ASSUME CInv, AInv, (\E g \in Gpu, p \in Proc : JobStarts(g, p) \/ ProcessEnds(g, p)) \/ Late
  PROVE  AInv'
  <1>0. /\ UNCHANGED <<task, keeper>> /\ slips \subseteq slips' /\ WorldSound
        /\ \A t \in Task : Attesting(t, task[t]) /\ Grounded(t) /\ task[t] \in TaskRecord
    BY DEF JobStarts, ProcessEnds, Late, vars, CInv, AInv, TasksSound
  <1>1. AdoptsOnlyAttested'
    BY <1>0, SameForgets, ForgetsAdopts DEF AInv
  <1>2. ASSUME NEW u \in Task, LET g == task[u].looking IN
                  g # None /\ helper[g] \in real[g] => helper'[g] \in real'[g] \/ g \in slips'
        PROVE  Grounded(u)'
    BY <1>0, <1>2 DEF Grounded
  <1>3. ASSUME NEW u \in Task, task[u].looking # None, helper[task[u].looking] \in real[task[u].looking]
        PROVE  LET g == task[u].looking IN helper'[g] \in real'[g] \/ g \in slips'
    <2> DEFINE g == task[u].looking
    <2>0. g \in Gpu /\ HostOf[g] = task[u].host /\ task[u].pc = "attest"
      BY <1>0, <1>3 DEF Attesting, TaskRecord
    <2>1. CASE \E h \in Gpu, p \in Proc : JobStarts(h, p)
      <3>1. PICK h \in Gpu, p \in Proc : JobStarts(h, p)
        BY <2>1
      <3> QED
        BY <1>0, <1>3, <2>0, <3>1 DEF JobStarts, WorldSound
    <2>2. CASE \E h \in Gpu, p \in Proc : ProcessEnds(h, p)
      <3>1. PICK h \in Gpu, p \in Proc : ProcessEnds(h, p)
        BY <2>2
      <3> QED
        BY <1>0, <1>3, <2>0, <3>1 DEF ProcessEnds, WorldSound
    <2>3. CASE Late
      <3>1. PICK c \in remote :
               /\ ~HelperBusy(c.gpus)
               /\ \/ \E gs \in SUBSET c.gpus : Started(c.gpus, gs)
                  \/ Stopped(c.gpus)
                  \/ UNCHANGED <<real, helper>>
        BY <2>3 DEF Late
      <3>2. g \notin c.gpus
        BY <1>3, <2>0, <3>1 DEF HelperBusy
      <3>3. real'[g] = real[g] /\ helper'[g] = helper[g]
        BY <1>0, <2>0, <3>1, <3>2, StartedElsewhere, StoppedElsewhere
      <3> QED
        BY <1>3, <3>3
    <2> QED
      BY <2>1, <2>2, <2>3
  <1>4. \A u \in Task : Attesting(u, task'[u]) /\ Grounded(u)'
    BY <1>0, <1>2, <1>3
  <1> QED
    BY <1>1, <1>4 DEF AInv

LEMMA CrashAttesting ==
  ASSUME CInv, AInv, Crash
  PROVE  AInv'
  <1>1. UNCHANGED keeper /\ UNCHANGED slips /\ task' = [t \in Task |-> Idle]
    BY DEF Crash, vars
  <1>2. AdoptsOnlyAttested'
    BY <1>1, SameForgets, ForgetsAdopts DEF AInv
  <1> QED
    BY <1>1, <1>2, IdleAttesting DEF AInv, Grounded, Unproven

LEMMA NextAInv == CInv /\ AInv /\ [ControllerNext]_allvars => AInv'
  <1> SUFFICES ASSUME CInv, AInv, [ControllerNext]_allvars PROVE AInv'
    OBVIOUS
  <1>1. Reconciler \subseteq Task /\ Claimer \subseteq Task
    BY Names
  <1>2. CASE Recycle \/ Unlocked \/ UNCHANGED allvars
    BY <1>2, BrokerAttesting
  <1>3. CASE \E t \in Task : TaskStep(t)
    BY <1>3, TaskAttesting
  <1>4. CASE \E e \in Endpoint : LoopStep(e) \/ LoopSpawn(e)
    BY <1>1, <1>4, BrokerAttesting, ReconcilesAttesting DEF LoopSpawn
  <1>5. CASE \/ \E t \in Reconciler, e \in Endpoint, policy \in Policies : Toggle(t, e, policy)
             \/ \E t \in Claimer, gs \in SUBSET Gpu : Ask(t, gs)
    BY <1>1, <1>5, BeginAttesting
  <1>6. CASE (\E g \in Gpu, p \in Proc : JobStarts(g, p) \/ ProcessEnds(g, p)) \/ Late
    BY <1>6, ServerAttesting
  <1>7. CASE Crash
    BY <1>7, CrashAttesting
  <1> QED
    BY <1>2, <1>3, <1>4, <1>5, <1>6, <1>7 DEF ControllerNext, Actors

-----------------------------------------------------------------------------
(* What holds of every behaviour of the controller *)

\* The inductive invariant holds through every order of the procedures of the
\* API process, faults and crashes.
THEOREM ControllerInvariant == ControllerSpec => []CInv
  BY CInit, NextCInv, PTL DEF ControllerSpec


\* Every variable keeps its type, and a procedure past its beginning holds the
\* lock of its server (a claim: of all servers) at every await.
THEOREM ControllerTypeCorrect == ControllerSpec => []ControllerTypeOK
  <1>1. CInv => ControllerTypeOK
    BY DEF CInv, ControllerTypeOK, IInv, TasksSound, TaskSound, Locked, ProbesSound, WorldSound,
           At, AllLocks
  <1> QED
    BY <1>1, ControllerInvariant, PTL

\* The procedures of the API process never bring the broker's tables into a
\* state that the broker's own invariants exclude: no GPU is in two leases, a
\* keeper's lease never gets an expiry, "ON" is said of a verified worker only.
THEOREM BrokerInvariantsKept ==
  ControllerSpec => [](ExclusiveAssignment /\ KeepaliveIsDurable /\ KeeperOnIsVerified)
  <1>1. CInv => ExclusiveAssignment /\ KeepaliveIsDurable /\ KeeperOnIsVerified
    BY DEF CInv, IInv
  <1> QED
    BY <1>1, ControllerInvariant, PTL

\* A program of a user that the broker expects as a worker took the GPU between
\* the two questions of the attestation that its adoption rests on, the worker
\* having ended in between: whatever else programs, lost commands, late
\* observations, crashes and other tasks do, no other program is ever adopted.
THEOREM AdoptsOnlyAttestedWorkers == ControllerSpec => []AdoptsOnlyAttested
  <1>1. ControllerInit => AInv
    BY AInit
  <1>2. CInv /\ AInv /\ [ControllerNext]_allvars => AInv'
    BY NextAInv
  <1>3. AInv => AdoptsOnlyAttested
    BY DEF AInv
  <1> QED
    BY <1>1, <1>2, <1>3, ControllerInvariant, PTL DEF ControllerSpec

\* Two tasks that command workers never work on the same server.
THEOREM OneTaskAtATime == ControllerSpec => []OneTaskPerServer
  BY OneTask, ControllerInvariant, PTL

=============================================================================
