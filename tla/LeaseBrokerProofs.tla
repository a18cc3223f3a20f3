------------------------- MODULE LeaseBrokerProofs -------------------------
(* Proofs about LeaseBroker, for every set of endpoints, GPUs, leases and  *)
(* processes and every value of the time constants.                        *)
EXTENDS LeaseBroker, FiniteSetTheorems, TLAPS

\* The invariants of one lease row, together.
Sound(r) ==
    /\ r \in LeaseRecord
    /\ r.gpus # {} <=> r.state \in ActiveLeaseStates
    /\ r.kind = "keepalive" /\ r.state \in ActiveLeaseStates =>
          /\ r.state = "ACTIVE" /\ \E g \in Gpu : r.gpus = {g}
          /\ r.expires = None /\ r.idleSince = None
    /\ "orphaned_busy" \in r.alerts <=> r.state = "ORPHANED_BUSY"

\* What a row may become without a new assignment: it keeps its kind, and its
\* GPUs or none.
Shrinks(r, s) == s.kind = r.kind /\ (s.gpus = r.gpus \/ s.gpus = {})

LEMMA TimeFacts == Time \subseteq Nat
  BY TimeAssumption DEF Time

\* A row that does not exist yet is sound.
LEMMA NewLeaseSound ==
  Sound(NewLease)
  BY TimeAssumption
  DEF Sound, NewLease, LeaseRecord, MaybeTime, Time, ActiveLeaseStates, TerminalLeaseStates

\* A row that has ended is sound, and so is its swept form.
LEMMA EndedSound ==
  ASSUME NEW r, Sound(r), NEW final \in TerminalLeaseStates
  PROVE  /\ Sound(Unblocked(Ended(r, final)))
         /\ Shrinks(r, Unblocked(Ended(r, final)))
         /\ Unblocked(Ended(r, final)).state = final
         /\ r.state # "ORPHANED_BUSY" =>
               /\ Sound(Ended(r, final)) /\ Shrinks(r, Ended(r, final))
               /\ Ended(r, final).state = final
  <1> DEFINE s == Ended(r, final)
             u == Unblocked(s)
  <1>0. /\ s = [NewLease EXCEPT !.kind = r.kind, !.state = final, !.alerts = r.alerts]
        /\ NewLease \in LeaseRecord /\ NewLease.gpus = {}
        /\ r.kind \in {"workload", "keepalive"} /\ r.alerts \in SUBSET {"orphaned_busy", "idle_lease"}
    BY NewLeaseSound DEF Sound, Ended, NewLease, LeaseRecord
  <1>1. /\ s.kind = r.kind /\ s.state = final /\ s.gpus = {} /\ s.alerts = r.alerts
        /\ s \in LeaseRecord
    <2> HIDE DEF s
    <2> QED
      BY <1>0 DEF LeaseRecord
  <1> HIDE DEF s
  <1>2. /\ u.kind = r.kind /\ u.state = final /\ u.gpus = {} /\ u.alerts = r.alerts \ BlockingAlerts
        /\ u \in LeaseRecord
    BY <1>1 DEF Unblocked, LeaseRecord
  <1> HIDE DEF u
  <1>3. final \notin ActiveLeaseStates /\ final # "ORPHANED_BUSY"
    BY DEF ActiveLeaseStates, TerminalLeaseStates
  <1>4. Sound(u) /\ Shrinks(r, u) /\ u.state = final
    BY <1>2, <1>3 DEF Sound, Shrinks, BlockingAlerts
  <1>5. r.state # "ORPHANED_BUSY" => Sound(s) /\ Shrinks(r, s) /\ s.state = final
    BY <1>1, <1>3 DEF Sound, Shrinks
  <1> QED
    BY <1>4, <1>5 DEF s, u

\* Sweeping stale alerts changes nothing in a sound row.
LEMMA SweptSound ==
  ASSUME NEW r, Sound(r)
  PROVE  Sound(Swept(r)) /\ Shrinks(r, Swept(r)) /\ Swept(r).state = r.state
  BY DEF Sound, Shrinks, Swept, Unblocked, LeaseRecord, ActiveLeaseStates,
         TerminalLeaseStates, BlockingAlerts

\* Tracking idleness, of a workload lease that is held or active.
LEMMA IdleTrackedSound ==
  ASSUME now \in Time,
         NEW r, Sound(r), r.kind = "workload", r.state \in {"HELD", "ACTIVE"},
         NEW dev, NEW rw
  PROVE  LET s == IdleTracked(r, dev, rw) IN
         /\ Sound(s) /\ Shrinks(r, s)
         /\ s.state = "EXPIRED_EMPTY" \/ (s.state = r.state /\ s.gpus = r.gpus)
  <1>1. Sound(Ended(r, "EXPIRED_EMPTY")) /\ Shrinks(r, Ended(r, "EXPIRED_EMPTY"))
        /\ Ended(r, "EXPIRED_EMPTY").state = "EXPIRED_EMPTY"
    BY EndedSound DEF TerminalLeaseStates
  <1>2. Sound([Ended(r, "EXPIRED_EMPTY") EXCEPT !.alerts = @ \ {"idle_lease"}])
    BY <1>1 DEF Sound, LeaseRecord
  <1> QED
    BY <1>1, <1>2 DEF IdleTracked, Sound, Shrinks, LeaseRecord, MaybeTime, ActiveLeaseStates

\* The expiry of a declared duration.
LEMMA ExpiredSound ==
  ASSUME now \in Time,
         NEW r, Sound(r), r.kind = "workload",
         NEW rw
  PROVE  LET s == Expired(r, rw) IN Sound(s) /\ Shrinks(r, s)
  <1>1. CASE r.state \in {"HELD", "ACTIVE"}
    <2>1. Sound([r EXCEPT !.state = "ORPHANED_BUSY", !.alerts = @ \cup {"orphaned_busy"}])
      BY <1>1 DEF Sound, LeaseRecord, ActiveLeaseStates
    <2>2. Sound(Ended(r, "EXPIRED_EMPTY")) /\ Shrinks(r, Ended(r, "EXPIRED_EMPTY"))
      BY <1>1, EndedSound DEF TerminalLeaseStates
    <2> QED
      BY <1>1, <2>1, <2>2 DEF Expired, Shrinks, Sound, LeaseRecord
  <1>2. CASE r.state \notin {"HELD", "ACTIVE"}
    BY <1>2 DEF Expired, Shrinks
  <1> QED
    BY <1>1, <1>2

\* Reconciliation keeps a row sound, gives it no GPU, and never touches the
\* state or the GPUs of a keepalive lease.
LEMMA ReconciledLeaseSound ==
  ASSUME now \in Time,
         NEW r, Sound(r),
         NEW dev, NEW rw
  PROVE  LET s == ReconciledLease(r, dev, rw) IN
         /\ Sound(s) /\ Shrinks(r, s)
         /\ r.kind = "keepalive" => s.gpus = r.gpus /\ s.state = r.state
  <1>1. CASE r.state \notin ActiveLeaseStates
    <2>1. r.gpus = {}
      BY <1>1 DEF Sound
    <2> QED
      BY <1>1, <2>1, SweptSound DEF ReconciledLease, Shrinks
  <1>2. CASE r.state \in ActiveLeaseStates /\ r.kind = "keepalive"
    <2>1. [r EXCEPT !.expires = None] = r
      BY <1>2 DEF Sound, LeaseRecord
    <2>2. Swept(r) = r
      BY <1>2 DEF Swept, Sound, ActiveLeaseStates, TerminalLeaseStates
    <2> QED
      BY <1>2, <2>1, <2>2 DEF ReconciledLease, Shrinks
  <1>3. CASE r.state \in ActiveLeaseStates /\ r.kind = "workload" /\ r.state = "ORPHANED_BUSY"
    BY <1>3, SweptSound DEF ReconciledLease
  <1>4. CASE r.state \in ActiveLeaseStates /\ r.kind = "workload" /\ r.state # "ORPHANED_BUSY"
    <2> DEFINE i == IdleTracked(r, dev, rw)
               x == Expired(i, rw)
    <2>0. r.state \in {"HELD", "ACTIVE"}
      BY <1>4 DEF ActiveLeaseStates
    <2>1. Sound(i) /\ Shrinks(r, i)
      BY <1>4, <2>0, IdleTrackedSound
    <2> HIDE DEF i
    <2>2. i.kind = "workload"
      BY <1>4, <2>1 DEF Shrinks
    <2>3. Sound(x) /\ Shrinks(i, x)
      BY <2>1, <2>2, ExpiredSound
    <2> HIDE DEF x
    <2>4. Sound(Swept(x)) /\ Shrinks(x, Swept(x))
      BY <2>3, SweptSound
    <2>5. ReconciledLease(r, dev, rw) = Swept(x)
      BY <1>4 DEF ReconciledLease, i, x
    <2> QED
      BY <1>4, <2>1, <2>3, <2>4, <2>5 DEF Shrinks
  <1> QED
    BY <1>1, <1>2, <1>3, <1>4 DEF Sound, LeaseRecord

-----------------------------------------------------------------------------
(* The inductive invariant: all the invariants together.  Each is needed by *)
(* another: an activation is exclusive because a workload lease that owns a *)
(* GPU is open, a keepalive lease keeps its worker verified because nothing *)
(* else may touch its row, and a stop is safe because evidence is coherent. *)

IInv ==
    /\ TypeOK
    /\ ExclusiveAssignment
    /\ OwnsWhileOpen
    /\ KeepaliveIsDurable
    /\ OrphanAlertIsExact
    /\ EvidenceIsCoherent
    /\ KeeperOnIsVerified

RowsSound == \A l \in Lease : Sound(lease[l])

\* The three row invariants say that every row is sound.
LEMMA RowsAreSound ==
  TypeOK => (RowsSound <=> OwnsWhileOpen /\ KeepaliveIsDurable /\ OrphanAlertIsExact)
  BY DEF TypeOK, RowsSound, Sound, OwnsWhileOpen, KeepaliveIsDurable, OrphanAlertIsExact

\* The same of the next state.
LEMMA NextRowsAreSound ==
  TypeOK' => ((\A l \in Lease : Sound(lease'[l]))
                  <=> OwnsWhileOpen' /\ KeepaliveIsDurable' /\ OrphanAlertIsExact')
  BY DEF TypeOK, Sound, OwnsWhileOpen, KeepaliveIsDurable, OrphanAlertIsExact

LEMMA InitIInv == Init => IInv
  <1> SUFFICES ASSUME Init PROVE IInv
    OBVIOUS
  <1>1. 0 \in Time
    BY TimeAssumption DEF Time
  <1>2. TypeOK
    BY <1>1, NewLeaseSound
    DEF Init, TypeOK, HostRecord, DeviceRecord, KeeperRecord, MaybeTime, Sound
  <1>3. RowsSound
    BY NewLeaseSound DEF Init, RowsSound
  <1>4. ExclusiveAssignment /\ EvidenceIsCoherent /\ KeeperOnIsVerified
    BY DEF Init, ExclusiveAssignment, EvidenceIsCoherent, KeeperOnIsVerified, LastListed, NewLease
  <1> QED
    BY <1>2, <1>3, <1>4, RowsAreSound DEF IInv

\* Steps that write one lease row and nothing else.
LEMMA OneLease ==
  ASSUME IInv,
         NEW l \in Lease, NEW r, Sound(r),
         OnlyLease([lease EXCEPT ![l] = r]),
         \A m \in Lease \ {l} : r.gpus \cap lease[m].gpus = {},
         lease[l].kind = "workload" \/ lease[l].gpus = {}
  PROVE  IInv'
  <1>1. /\ lease \in [Lease -> LeaseRecord]
        /\ lease'[l] = r
        /\ \A m \in Lease \ {l} : lease'[m] = lease[m]
    BY DEF IInv, TypeOK, OnlyLease
  <1>2. TypeOK'
    BY DEF IInv, TypeOK, OnlyLease, Sound
  <1>3. \A m \in Lease : Sound(lease'[m])
    BY <1>1, RowsAreSound DEF IInv, RowsSound
  <1>4. ExclusiveAssignment'
    BY <1>1 DEF IInv, ExclusiveAssignment
  <1>5. EvidenceIsCoherent'
    BY DEF IInv, EvidenceIsCoherent, OnlyLease, LastListed
  <1>6. KeeperOnIsVerified'
    BY <1>1 DEF IInv, KeeperOnIsVerified, OnlyLease, LastListed
  <1> QED
    BY <1>2, <1>3, <1>4, <1>5, <1>6, NextRowsAreSound DEF IInv

\* A change of columns that keeps a sound row of an open workload sound.
LEMMA OpenWorkload ==
  ASSUME NEW l \in Lease, IInv, lease[l].kind = "workload"
  PROVE  /\ Sound(lease[l])
         /\ \A m \in Lease \ {l} : lease[l].gpus \cap lease[m].gpus = {}
  BY RowsAreSound DEF IInv, RowsSound, ExclusiveAssignment

LEMMA TickStep == IInv /\ Tick => IInv'
  <1> SUFFICES ASSUME IInv, Tick PROVE IInv'
    OBVIOUS
  <1>1. now \in Nat /\ now' \in Time /\ now' = now + 1
    BY TimeAssumption DEF Tick, IInv, TypeOK, Time
  <1>2. TypeOK'
    BY <1>1 DEF Tick, IInv, TypeOK
  <1>3. EvidenceIsCoherent'
    <2>1. \A x : x \in 0 .. now => x \in 0 .. now'
      BY <1>1
    <2> QED
      BY <2>1 DEF Tick, IInv, EvidenceIsCoherent, LastListed
  <1>4. /\ ExclusiveAssignment' /\ OwnsWhileOpen' /\ KeepaliveIsDurable' /\ OrphanAlertIsExact'
        /\ KeeperOnIsVerified'
    BY DEF Tick, IInv, ExclusiveAssignment, OwnsWhileOpen, KeepaliveIsDurable,
           OrphanAlertIsExact, KeeperOnIsVerified, LastListed
  <1> QED
    BY <1>2, <1>3, <1>4 DEF IInv

\* A fresh assignment of GPUs that no lease owns.
LEMMA IssueSound ==
  ASSUME now \in Time, NEW kind \in {"workload", "keepalive"}, NEW gs \in SUBSET Gpu, gs # {},
         NEW expires \in Nat \cup {None},
         kind = "keepalive" => expires = None /\ \E g \in Gpu : gs = {g}
  PROVE  /\ Sound(Issue(kind, "ACTIVE", gs, expires))
         /\ kind = "workload" => Sound(Issue(kind, "HELD", gs, expires))
  <1> DEFINE r(state) == Issue(kind, state, gs, expires)
  <1>1. ASSUME NEW state \in {"HELD", "ACTIVE"}
        PROVE  /\ r(state) \in LeaseRecord
               /\ r(state).kind = kind /\ r(state).state = state /\ r(state).gpus = gs
               /\ r(state).expires = expires /\ r(state).idleSince = None
               /\ r(state).alerts = {}
    BY <1>1, TimeAssumption DEF Issue, NewLease, LeaseRecord, MaybeTime, ActiveLeaseStates
  <1> HIDE DEF r
  <1>2. Sound(r("ACTIVE")) /\ (kind = "workload" => Sound(r("HELD")))
    BY <1>1 DEF Sound, ActiveLeaseStates
  <1> QED
    BY <1>2 DEF r

LEMMA ClaimStep ==
  ASSUME IInv, NEW l \in Lease, NEW gs \in SUBSET Gpu, NEW persistent \in BOOLEAN,
         Claim(l, gs, persistent)
  PROVE  IInv'
  <1> DEFINE r == Issue("workload", "HELD", gs, IF persistent THEN None ELSE now + Duration)
  <1>1. now \in Time /\ now \in Nat
    BY TimeFacts DEF IInv, TypeOK
  <1>2. Sound(r) /\ r.gpus = gs
    <2>1. (IF persistent THEN None ELSE now + Duration) \in Nat \cup {None}
      BY <1>1, TimeAssumption
    <2> QED
      BY <1>1, <2>1, IssueSound DEF Claim, Issue, NewLease
  <1>3. lease[l].gpus = {}
    BY DEF Claim, IInv, OwnsWhileOpen, ActiveLeaseStates
  <1>4. OnlyLease([lease EXCEPT ![l] = r]) /\ \A m \in Lease : gs \cap lease[m].gpus = {}
    BY DEF Claim, Eligible, Owned
  <1> HIDE DEF r
  <1> QED
    BY <1>2, <1>3, <1>4, OneLease

LEMMA ActivateStep ==
  ASSUME IInv, NEW l \in Lease, Activate(l)
  PROVE  IInv'
  <1> DEFINE r == [lease[l] EXCEPT !.state = "ACTIVE"]
  <1>1. Sound(r) /\ r.gpus = lease[l].gpus
    BY OpenWorkload DEF Activate, Sound, LeaseRecord, ActiveLeaseStates
  <1> QED
    BY <1>1, OneLease, OpenWorkload DEF Activate

LEMMA BindStep ==
  ASSUME IInv, NEW l \in Lease, Bind(l)
  PROVE  IInv'
  <1> DEFINE r == [lease[l] EXCEPT !.bound = TRUE]
  <1>1. Sound(r) /\ r.gpus = lease[l].gpus
    BY OpenWorkload DEF Bind, Sound, LeaseRecord, ActiveLeaseStates
  <1> QED
    BY <1>1, OneLease, OpenWorkload DEF Bind

LEMMA BindObservedStep ==
  ASSUME IInv, NEW l \in Lease, BindObserved(l)
  PROVE  IInv'
  <1> DEFINE r == [lease[l] EXCEPT !.state = "ACTIVE", !.bound = TRUE]
  <1>1. Sound(r) /\ r.gpus = lease[l].gpus
    BY OpenWorkload DEF BindObserved, Sound, LeaseRecord, ActiveLeaseStates
  <1>2. OnlyLease([lease EXCEPT ![l] = r])
    BY DEF BindObserved, IInv, TypeOK
  <1> HIDE DEF r
  <1> QED
    BY <1>1, <1>2, OneLease, OpenWorkload DEF BindObserved

LEMMA RenewStep ==
  ASSUME IInv, NEW l \in Lease, Renew(l)
  PROVE  IInv'
  <1> DEFINE r == [lease[l] EXCEPT !.expires = RenewedExpiry(lease[l])]
  <1>1. RenewedExpiry(lease[l]) \in Nat
    BY TimeAssumption, TimeFacts, OpenWorkload
    DEF Renew, RenewedExpiry, Sound, LeaseRecord, IInv, TypeOK, Time
  <1>2. Sound(r) /\ r.gpus = lease[l].gpus
    BY <1>1, OpenWorkload DEF Renew, Sound, LeaseRecord, ActiveLeaseStates
  <1> QED
    BY <1>2, OneLease, OpenWorkload DEF Renew

LEMMA ReleaseStep ==
  ASSUME IInv, NEW l \in Lease, Release(l)
  PROVE  IInv'
  <1> DEFINE r == Unblocked(Ended(lease[l], "RELEASED"))
  <1>1. Sound(r) /\ r.gpus = {}
    BY EndedSound, OpenWorkload DEF Release, Sound, ActiveLeaseStates, TerminalLeaseStates
  <1>2. OnlyLease([lease EXCEPT ![l] = r])
    BY DEF Release, IInv, TypeOK
  <1> HIDE DEF r
  <1> QED
    BY <1>1, <1>2, OneLease DEF Release

LEMMA ReassignStep ==
  ASSUME IInv, NEW l \in Lease, NEW gs \in SUBSET Gpu, Reassign(l, gs)
  PROVE  IInv'
  <1> DEFINE r == [lease[l] EXCEPT !.gpus = gs, !.bound = FALSE]
  <1>1. lease[l].gpus # {} /\ lease[l].gpus \in SUBSET Gpu
    BY OpenWorkload DEF Reassign, Sound, LeaseRecord
  <1>2. gs # {}
    <2>1. IsFiniteSet(lease[l].gpus) /\ IsFiniteSet(gs)
      BY <1>1, HostAssumption, FS_Subset
    <2>2. Cardinality(lease[l].gpus) # 0 /\ Cardinality({}) = 0
      BY <1>1, <2>1, FS_EmptySet
    <2> QED
      BY <2>2 DEF Reassign
  <1>3. Sound(r) /\ r.gpus = gs
    BY <1>2, OpenWorkload DEF Reassign, Sound, LeaseRecord, ActiveLeaseStates
  <1>4. OnlyLease([lease EXCEPT ![l] = r])
    BY DEF Reassign, IInv, TypeOK
  <1>5. \A m \in Lease \ {l} : gs \cap lease[m].gpus = {}
    BY DEF Reassign
  <1> HIDE DEF r
  <1> QED
    BY <1>3, <1>4, <1>5, OneLease DEF Reassign


\* While the last success of a host is recent, or any row of a GPU is, the
\* current rows of the GPU are those the last complete observation listed.
LEMMA CurrentIsLastListed ==
  ASSUME IInv, NEW g \in Gpu,
         Recent(host[HostOf[g]].success) \/ Current(rows, g) # {}
  PROVE  Current(rows, g) = LastListed(g)
  <1>1. \A p \in Proc : rows[g][p] # None => rows[g][p] = host[HostOf[g]].success
    BY DEF IInv, EvidenceIsCoherent, LastListed
  <1> QED
    BY <1>1 DEF Current, LastListed, Recent

\* The same from the freshness of the GPU itself: its telemetry is never
\* newer than the success of its host.
LEMMA FreshIsRecent ==
  ASSUME IInv, NEW g \in Gpu, Fresh(device, g)
  PROVE  Recent(host[HostOf[g]].success)
  <1> DEFINE t == host[HostOf[g]].success
  <1>1. /\ device[g].status = "present" /\ now <= device[g].observed + Stale
        /\ t \in 0 .. now /\ device[g].observed \in 0 .. t
    BY DEF Fresh, Recent, IInv, EvidenceIsCoherent
  <1>2. now \in Nat /\ t \in Nat /\ t # None
    BY <1>1, NoneAssumption, TimeFacts DEF IInv, TypeOK
  <1> HIDE DEF t
  <1>3. now <= t + Stale
    BY <1>1, <1>2, TimeAssumption
  <1> QED
    BY <1>2, <1>3 DEF Recent, t

\* A GPU that is gone has no rows.
LEMMA AbsentHasNoRows ==
  ASSUME IInv, NEW g \in Gpu, device[g].status # "present"
  PROVE  LastListed(g) = {}
  BY DEF IInv, EvidenceIsCoherent

\* Fresh and without a current process, or gone: nothing was listed on the
\* GPU, so "ON" is not its state.
LEMMA EmptyIsOff ==
  ASSUME IInv, NEW g \in Gpu, LastListed(g) = {}
  PROVE  keeper[g].actual # "ON"
  BY DEF IInv, KeeperOnIsVerified

LEMMA ReleaseEmptySaw ==
  ASSUME IInv, NEW e \in Endpoint, NEW l \in Lease, NEW barrier \in 0 .. now,
         ReleaseEmpty(e, l, barrier)
  PROVE  \A g \in lease[l].gpus : LastListed(g) = {}
  <1> TAKE g \in lease[l].gpus
  <1>1. g \in Gpu
    BY DEF IInv, TypeOK, LeaseRecord
  <1>2. CASE device[g].status = "present"
    <2>1. Current(rows, g) = {} /\ Fresh(device, g)
      BY <1>2 DEF ReleaseEmpty, Fresh
    <2> QED
      BY <1>1, <2>1, FreshIsRecent, CurrentIsLastListed
  <1>3. CASE device[g].status # "present"
    BY <1>1, <1>3, AbsentHasNoRows
  <1> QED
    BY <1>2, <1>3

\* A validation whose barrier is not older than the staleness bound sees all
\* that was listed.
LEMMA SeenIsLastListed ==
  ASSUME IInv, NEW e \in Endpoint, NEW barrier \in Barriers,
         NEW gs \in SUBSET GpusOf(e), ObservedSince(e, gs, barrier)
  PROVE  \A g \in gs : Seen(g) = LastListed(g)
  <1> TAKE g \in gs
  <1>1. g \in Gpu /\ HostOf[g] = e
    BY DEF GpusOf
  <1>2. CASE device[g].status = "present"
    <2>1. /\ host[e].success # None /\ host[e].success \in 0 .. now
          /\ host[e].success >= barrier /\ barrier \in Nat /\ now <= barrier + CallLag
      BY <1>1, <1>2, TimeFacts DEF ObservedSince, IInv, TypeOK, EvidenceIsCoherent, Barriers
    <2>2. Recent(host[e].success)
      <3>1. host[e].success \in Nat /\ now \in Nat
        BY <2>1, TimeFacts DEF IInv, TypeOK
      <3>2. now <= host[e].success + Stale
        BY <2>1, <3>1, TimeAssumption
      <3> QED
        BY <2>1, <3>2 DEF Recent
    <2> QED
      BY <1>1, <1>2, <2>2, CurrentIsLastListed DEF Seen
  <1>3. CASE device[g].status # "present"
    BY <1>1, <1>3, AbsentHasNoRows DEF Seen
  <1> QED
    BY <1>2, <1>3

\* Ending one lease, of either kind, whose GPUs are not reported "ON".
LEMMA EndOneLease ==
  ASSUME IInv, NEW l \in Lease,
         lease' = [lease EXCEPT ![l] = Unblocked(Ended(@, "RELEASED"))],
         UNCHANGED <<now, host, device, rows>>,
         keeper' \in [Gpu -> KeeperRecord],
         \A g \in Gpu : keeper'[g].actual = "ON" => keeper'[g] = keeper[g] /\ g \notin lease[l].gpus
  PROVE  IInv'
  <1> DEFINE r == Unblocked(Ended(lease[l], "RELEASED"))
  <1>1. Sound(r) /\ r.gpus = {}
    BY EndedSound, RowsAreSound
    DEF IInv, RowsSound, Sound, ActiveLeaseStates, TerminalLeaseStates
  <1>2. /\ lease \in [Lease -> LeaseRecord]
        /\ lease'[l] = r
        /\ \A m \in Lease \ {l} : lease'[m] = lease[m]
    BY DEF IInv, TypeOK
  <1>3. TypeOK'
    BY <1>1 DEF IInv, TypeOK, Sound
  <1>4. \A m \in Lease : Sound(lease'[m])
    BY <1>1, <1>2, RowsAreSound DEF IInv, RowsSound
  <1> HIDE DEF r
  <1>5. ExclusiveAssignment'
    BY <1>1, <1>2 DEF IInv, ExclusiveAssignment
  <1>6. EvidenceIsCoherent'
    BY DEF IInv, EvidenceIsCoherent, LastListed
  <1>7. KeeperOnIsVerified'
    <2> SUFFICES ASSUME NEW g \in Gpu, keeper'[g].actual = "ON"
                 PROVE  /\ \E m \in Lease : lease'[m].kind = "keepalive" /\ lease'[m].gpus = {g}
                        /\ LastListed(g)' = {keeper'[g].expected}
      BY DEF KeeperOnIsVerified
    <2>1. keeper'[g] = keeper[g] /\ g \notin lease[l].gpus
      OBVIOUS
    <2>2. PICK m \in Lease : lease[m].kind = "keepalive" /\ lease[m].gpus = {g}
      BY <2>1 DEF IInv, KeeperOnIsVerified
    <2>3. m # l
      BY <2>1, <2>2
    <2> QED
      BY <1>2, <2>1, <2>2, <2>3 DEF IInv, KeeperOnIsVerified, LastListed
  <1> QED
    BY <1>3, <1>4, <1>5, <1>6, <1>7, NextRowsAreSound DEF IInv

LEMMA ReleaseEmptyStep ==
  ASSUME IInv, NEW e \in Endpoint, NEW l \in Lease, NEW barrier \in 0 .. now,
         ReleaseEmpty(e, l, barrier)
  PROVE  IInv'
  <1>1. \A g \in Gpu : keeper[g].actual = "ON" => g \notin lease[l].gpus
    BY ReleaseEmptySaw, EmptyIsOff
  <1>2. keeper \in [Gpu -> KeeperRecord]
    BY DEF IInv, TypeOK
  <1> QED
    BY <1>1, <1>2, EndOneLease DEF ReleaseEmpty, OnlyLease

LEMMA FinalizeStopStep ==
  ASSUME IInv, NEW e \in Endpoint, NEW l \in Lease, NEW barrier \in Barriers,
         FinalizeStop(e, l, barrier)
  PROVE  IInv'
  <1>1. PICK g \in GpusOf(e) :
           /\ lease[l].gpus = {g}
           /\ keeper' = [keeper EXCEPT ![g] = [actual |-> "OFF", expected |-> None]]
    BY DEF FinalizeStop
  <1>2. g \in Gpu /\ keeper \in [Gpu -> KeeperRecord]
    BY DEF GpusOf, IInv, TypeOK
  <1>3. keeper' \in [Gpu -> KeeperRecord]
    BY <1>1, <1>2 DEF KeeperRecord
  <1>4. \A h \in Gpu : keeper'[h].actual = "ON" => keeper'[h] = keeper[h] /\ h \notin lease[l].gpus
    BY <1>1, <1>2
  <1> QED
    BY <1>3, <1>4, EndOneLease DEF FinalizeStop

\* Steps that leave leases and evidence alone, and report "ON" nowhere new.
LEMMA HostOrKeeperStep ==
  ASSUME IInv, UNCHANGED <<now, device, rows, lease>>,
         host' \in [Endpoint -> HostRecord],
         \A e \in Endpoint : host'[e].success = host[e].success,
         keeper' \in [Gpu -> KeeperRecord],
         \A g \in Gpu : keeper'[g].actual = "ON" => keeper'[g] = keeper[g]
  PROVE  IInv'
  <1>1. TypeOK'
    BY DEF IInv, TypeOK
  <1>2. ExclusiveAssignment' /\ OwnsWhileOpen' /\ KeepaliveIsDurable' /\ OrphanAlertIsExact'
    BY DEF IInv, ExclusiveAssignment, OwnsWhileOpen, KeepaliveIsDurable, OrphanAlertIsExact
  <1>3. EvidenceIsCoherent'
    BY HostAssumption DEF IInv, EvidenceIsCoherent, LastListed
  <1>4. KeeperOnIsVerified'
    <2> SUFFICES ASSUME NEW g \in Gpu, keeper'[g].actual = "ON"
                 PROVE  /\ \E l \in Lease : lease'[l].kind = "keepalive" /\ lease'[l].gpus = {g}
                        /\ LastListed(g)' = {keeper'[g].expected}
      BY DEF KeeperOnIsVerified
    <2>1. keeper'[g] = keeper[g] /\ LastListed(g)' = LastListed(g)
      BY DEF LastListed
    <2>2. /\ \E l \in Lease : lease[l].kind = "keepalive" /\ lease[l].gpus = {g}
          /\ LastListed(g) = {keeper[g].expected}
      BY <2>1 DEF IInv, KeeperOnIsVerified
    <2> QED
      BY <2>1, <2>2
  <1> QED
    BY <1>1, <1>2, <1>3, <1>4 DEF IInv

LEMMA SetLifecycleStep ==
  ASSUME IInv, NEW e \in Endpoint, NEW state \in Lifecycles, SetLifecycle(e, state)
  PROVE  IInv'
  <1>1. /\ [host[e] EXCEPT !.lifecycle = state] \in HostRecord
        /\ [host[e] EXCEPT !.lifecycle = state].success = host[e].success
    BY BoundAssumption DEF IInv, TypeOK, HostRecord
  <1>2. /\ host' \in [Endpoint -> HostRecord]
        /\ \A f \in Endpoint : host'[f].success = host[f].success
    BY <1>1 DEF SetLifecycle, IInv, TypeOK
  <1> QED
    BY <1>2, HostOrKeeperStep DEF SetLifecycle, IInv, TypeOK

LEMMA ConfigurePolicyStep ==
  ASSUME IInv, NEW e \in Endpoint, NEW policy \in Policies, ConfigurePolicy(e, policy)
  PROVE  IInv'
  <1>1. /\ host' \in [Endpoint -> HostRecord]
        /\ \A f \in Endpoint : host'[f].success = host[f].success
    BY BoundAssumption DEF ConfigurePolicy, IInv, TypeOK, HostRecord
  <1>2. /\ keeper' \in [Gpu -> KeeperRecord]
        /\ \A g \in Gpu : keeper'[g].actual = "ON" => keeper'[g] = keeper[g]
    <2>1. ASSUME NEW g \in Gpu
          PROVE  LET k == [keeper[g] EXCEPT !.actual = "OFF"] IN
                 k \in KeeperRecord /\ k.actual = "OFF"
      BY DEF IInv, TypeOK, KeeperRecord
    <2>2. ASSUME NEW g \in Gpu
          PROVE  /\ keeper'[g] \in KeeperRecord
                 /\ keeper'[g].actual = "ON" => keeper'[g] = keeper[g]
      BY <2>1 DEF ConfigurePolicy, IInv, TypeOK
    <2> QED
      BY <2>2 DEF ConfigurePolicy
  <1> QED
    BY <1>1, <1>2, HostOrKeeperStep DEF ConfigurePolicy

LEMMA KeepaliveErrorStep ==
  ASSUME IInv, NEW e \in Endpoint, NEW gs \in SUBSET Gpu, KeepaliveError(e, gs)
  PROVE  IInv'
  <1>1. /\ keeper' \in [Gpu -> KeeperRecord]
        /\ \A g \in Gpu : keeper'[g].actual = "ON" => keeper'[g] = keeper[g]
    <2>1. ASSUME NEW g \in Gpu
          PROVE  LET k == [keeper[g] EXCEPT !.actual = "ERROR"] IN
                 k \in KeeperRecord /\ k.actual = "ERROR"
      BY DEF IInv, TypeOK, KeeperRecord
    <2>2. ASSUME NEW g \in Gpu
          PROVE  /\ keeper'[g] \in KeeperRecord
                 /\ keeper'[g].actual = "ON" => keeper'[g] = keeper[g]
      BY <2>1 DEF KeepaliveError, IInv, TypeOK
    <2> QED
      BY <2>2 DEF KeepaliveError
  <1> QED
    BY <1>1, HostOrKeeperStep DEF KeepaliveError, IInv, TypeOK

LEMMA ProviderFailureStep ==
  ASSUME IInv, NEW e \in Endpoint, ProviderFailure(e)
  PROVE  IInv'
  <1>1. /\ host' \in [Endpoint -> HostRecord]
        /\ \A f \in Endpoint : host'[f].success = host[f].success
    BY DEF ProviderFailure, IInv, TypeOK, HostRecord
  <1> QED
    BY <1>1, HostOrKeeperStep DEF ProviderFailure, IInv, TypeOK


LEMMA ActivateKeepalivesStep ==
  ASSUME IInv, NEW e \in Endpoint, NEW barrier \in Barriers, NEW gs \in SUBSET Gpu,
         NEW ids \in [gs -> Lease], ActivateKeepalives(e, gs, ids, barrier)
  PROVE  IInv'
  <1> DEFINE fresh(g) == Issue("keepalive", "ACTIVE", {g}, None)
             row(g) == IF Owned(lease, g)
                       THEN [lease[ids[g]] EXCEPT !.state = "ACTIVE", !.expires = None]
                       ELSE fresh(g)
  <1>0. now \in Time /\ RowsSound /\ lease \in [Lease -> LeaseRecord]
    BY RowsAreSound DEF IInv, TypeOK
  <1>1. ASSUME NEW g \in gs
        PROVE  /\ lease'[ids[g]] = row(g)
               /\ Sound(row(g)) /\ row(g).kind = "keepalive" /\ row(g).gpus = {g}
               /\ Owned(lease, g) => row(g) = lease[ids[g]]
               /\ ~Owned(lease, g) => lease[ids[g]].gpus = {}
    <2>1. lease'[ids[g]] = row(g)
      <3>1. (CHOOSE h \in gs : ids[h] = ids[g]) = g
        BY DEF ActivateKeepalives
      <3> QED
        BY <3>1 DEF ActivateKeepalives
    <2>2. CASE Owned(lease, g)
      <3>1. lease[ids[g]].gpus = {g} /\ lease[ids[g]].kind = "keepalive"
        BY <1>0, <2>2 DEF ActivateKeepalives, Owned, OwnedAs, LeaseRecord
      <3>2. lease[ids[g]].state = "ACTIVE" /\ lease[ids[g]].expires = None
        BY <1>0, <3>1 DEF RowsSound, Sound
      <3>3. row(g) = lease[ids[g]]
        BY <1>0, <2>2, <3>2 DEF LeaseRecord
      <3> QED
        BY <1>0, <2>1, <2>2, <3>1, <3>3 DEF RowsSound
    <2>3. CASE ~Owned(lease, g)
      <3>1. Sound(fresh(g))
        BY <1>0, IssueSound
      <3>2. fresh(g).kind = "keepalive" /\ fresh(g).gpus = {g}
        BY DEF Issue, NewLease
      <3>3. lease[ids[g]].gpus = {}
        BY <1>0, <2>3 DEF ActivateKeepalives, RowsSound, Sound, ActiveLeaseStates
      <3> HIDE DEF fresh
      <3> QED
        BY <2>1, <2>3, <3>1, <3>2, <3>3
    <2> QED
      BY <2>2, <2>3
  <1> HIDE DEF row
  <1>2. ASSUME NEW l \in Lease, \A g \in gs : ids[g] # l
        PROVE  lease'[l] = lease[l]
    BY <1>2 DEF ActivateKeepalives
  <1>3. \A l \in Lease : Sound(lease'[l])
    BY <1>0, <1>1, <1>2 DEF RowsSound
  <1>4. TypeOK'
    <2>1. lease' \in [Lease -> LeaseRecord]
      BY <1>3 DEF ActivateKeepalives, Sound
    <2>2. keeper' \in [Gpu -> KeeperRecord]
      <3>1. ASSUME NEW g \in gs
            PROVE  [actual |-> "ON", expected |-> CHOOSE p \in Proc : Seen(g) = {p}] \in KeeperRecord
        <4>1. \E p \in Proc : Seen(g) = {p}
          BY DEF ActivateKeepalives
        <4>2. (CHOOSE p \in Proc : Seen(g) = {p}) \in Proc
          BY <4>1
        <4> QED
          BY <4>2 DEF KeeperRecord
      <3>2. keeper \in [Gpu -> KeeperRecord]
        BY DEF IInv, TypeOK
      <3> QED
        BY <3>1, <3>2 DEF ActivateKeepalives
    <2> QED
      BY <2>1, <2>2 DEF ActivateKeepalives, IInv, TypeOK
  <1>5. ExclusiveAssignment'
    <2> SUFFICES ASSUME NEW l \in Lease, NEW m \in Lease, l # m,
                        NEW h \in lease'[l].gpus \cap lease'[m].gpus
                 PROVE  FALSE
      BY DEF ExclusiveAssignment
    <2>1. ASSUME NEW k \in Lease, h \in lease'[k].gpus, h \notin lease[k].gpus
          PROVE  h \in gs /\ k = ids[h] /\ ~Owned(lease, h)
      BY <1>1, <1>2, <2>1
    <2>2. lease[l].gpus \cap lease[m].gpus = {}
      BY DEF IInv, ExclusiveAssignment
    <2> QED
      BY <2>1, <2>2 DEF Owned
  <1>6. EvidenceIsCoherent'
    BY DEF ActivateKeepalives, IInv, EvidenceIsCoherent, LastListed
  <1>7. KeeperOnIsVerified'
    <2> SUFFICES ASSUME NEW g \in Gpu, keeper'[g].actual = "ON"
                 PROVE  /\ \E l \in Lease : lease'[l].kind = "keepalive" /\ lease'[l].gpus = {g}
                        /\ LastListed(g)' = {keeper'[g].expected}
      BY DEF KeeperOnIsVerified
    <2>1. LastListed(g)' = LastListed(g)
      BY DEF ActivateKeepalives, LastListed
    <2>2. CASE g \in gs
      <3>1. \E p \in Proc : Seen(g) = {p}
        BY <2>2 DEF ActivateKeepalives
      <3>2. keeper'[g].expected = CHOOSE p \in Proc : Seen(g) = {p}
        BY <2>2 DEF ActivateKeepalives
      <3>3. Seen(g) = {keeper'[g].expected}
        BY <3>1, <3>2
      <3>4. Seen(g) = LastListed(g)
        <4>1. gs \in SUBSET GpusOf(e) /\ ObservedSince(e, gs, barrier)
          BY DEF ActivateKeepalives
        <4> QED
          BY <2>2, <4>1, SeenIsLastListed
      <3> QED
        BY <1>1, <2>1, <2>2, <3>3, <3>4
    <2>3. CASE g \notin gs
      <3>1. keeper'[g] = keeper[g]
        BY <2>3 DEF ActivateKeepalives
      <3>2. PICK l \in Lease : lease[l].kind = "keepalive" /\ lease[l].gpus = {g}
        BY <3>1 DEF IInv, KeeperOnIsVerified
      <3>3. \A h \in gs : ids[h] # l
        BY <1>1, <2>3, <3>2
      <3>4. LastListed(g) = {keeper[g].expected}
        BY <3>1 DEF IInv, KeeperOnIsVerified
      <3> QED
        BY <1>2, <2>1, <3>1, <3>2, <3>3, <3>4
    <2> QED
      BY <2>2, <2>3
  <1> QED
    BY <1>3, <1>4, <1>5, <1>6, <1>7, NextRowsAreSound DEF IInv

-----------------------------------------------------------------------------
(* Ingestion and reconciliation rewrite the whole lease table, in stages.   *)

Sane(ls) == ls \in [Lease -> LeaseRecord] /\ \A l \in Lease : Sound(ls[l])

\* Table ms assigns nothing that table ls does not.
Follows(ls, ms) == \A l \in Lease : Shrinks(ls[l], ms[l])

LEMMA FollowsTrans ==
  ASSUME NEW a, NEW b, NEW c, Follows(a, b), Follows(b, c)
  PROVE  Follows(a, c)
  BY DEF Follows, Shrinks

LEMMA ReconciledSane ==
  ASSUME now \in Time, NEW ls, Sane(ls), NEW dev, NEW rw
  PROVE  LET ms == Reconciled(ls, dev, rw) IN
         /\ Sane(ms) /\ Follows(ls, ms)
         /\ \A l \in Lease : ls[l].kind = "keepalive" =>
               ms[l].gpus = ls[l].gpus /\ ms[l].state = ls[l].state
  <1> DEFINE ms == Reconciled(ls, dev, rw)
  <1>1. ASSUME NEW l \in Lease
        PROVE  /\ ms[l] = ReconciledLease(ls[l], dev, rw)
               /\ Sound(ms[l]) /\ Shrinks(ls[l], ms[l])
               /\ ls[l].kind = "keepalive" => ms[l].gpus = ls[l].gpus /\ ms[l].state = ls[l].state
    <2>1. ms[l] = ReconciledLease(ls[l], dev, rw)
      BY DEF Reconciled
    <2>2. Sound(ls[l])
      BY DEF Sane
    <2> HIDE DEF ms
    <2> QED
      BY <2>1, <2>2, ReconciledLeaseSound
  <1>2. ms = [l \in Lease |-> ms[l]]
    BY DEF Reconciled
  <1> HIDE DEF ms
  <1>3. Sane(ms) /\ Follows(ls, ms)
    BY <1>1, <1>2 DEF Sane, Follows, Sound
  <1> QED
    BY <1>1, <1>3 DEF ms

LEMMA AbsentReleasedSane ==
  ASSUME NEW e \in Endpoint, NEW ls, Sane(ls), NEW dev
  PROVE  LET ms == AbsentReleased(e, ls, dev) IN
         /\ Sane(ms) /\ Follows(ls, ms)
         /\ \A l \in Lease :
               \/ ms[l] = ls[l]
               \/ /\ ls[l].kind = "keepalive" /\ ls[l].gpus \cap GpusOf(e) # {}
                  /\ ls[l].state \in ActiveLeaseStates /\ ms[l].state = "RELEASED"
                  /\ \A g \in ls[l].gpus : dev[g].status # "present"
  <1> DEFINE ms == AbsentReleased(e, ls, dev)
             r(l) == Unblocked(Ended(ls[l], "RELEASED"))
  <1>1. ASSUME NEW l \in Lease
        PROVE  /\ Sound(r(l)) /\ Shrinks(ls[l], r(l)) /\ r(l).gpus = {} /\ r(l).state = "RELEASED"
               /\ Sound(ls[l]) /\ Shrinks(ls[l], ls[l])
    <2>1. Sound(ls[l])
      BY DEF Sane
    <2>2. Sound(r(l)) /\ Shrinks(ls[l], r(l)) /\ r(l).state = "RELEASED"
      BY <2>1, EndedSound DEF TerminalLeaseStates
    <2> HIDE DEF r
    <2> QED
      BY <2>1, <2>2 DEF Sound, Shrinks, ActiveLeaseStates
  <1>2. \A l \in Lease :
           \/ ms[l] = ls[l]
           \/ /\ ms[l] = r(l) /\ ls[l].state \in ActiveLeaseStates
              /\ ls[l].kind = "keepalive" /\ ls[l].gpus \cap GpusOf(e) # {}
              /\ \A g \in ls[l].gpus : dev[g].status # "present"
    BY DEF AbsentReleased
  <1>3. ms = [l \in Lease |-> ms[l]]
    BY DEF AbsentReleased
  <1> HIDE DEF ms, r
  <1>4. Sane(ms) /\ Follows(ls, ms)
    BY <1>1, <1>2, <1>3 DEF Sane, Follows, Sound
  <1> QED
    BY <1>1, <1>2, <1>4 DEF ms

LEMMA WorkloadBoundSane ==
  ASSUME NEW e \in Endpoint, NEW ls, Sane(ls), NEW rw
  PROVE  LET ms == WorkloadBound(e, ls, rw) IN
         /\ Sane(ms) /\ Follows(ls, ms)
         /\ \A l \in Lease : ls[l].kind = "keepalive" => ms[l] = ls[l]
  <1> DEFINE ms == WorkloadBound(e, ls, rw)
             r(l) == [ls[l] EXCEPT !.state = "ACTIVE", !.bound = TRUE]
  <1>1. ASSUME NEW l \in Lease
        PROVE  /\ Sound(ls[l]) /\ Shrinks(ls[l], ls[l])
               /\ ls[l].kind = "workload" /\ ls[l].state \in {"HELD", "ACTIVE"} =>
                     Sound(r(l)) /\ Shrinks(ls[l], r(l))
    BY DEF Sane, Sound, Shrinks, LeaseRecord, ActiveLeaseStates
  <1>2. \A l \in Lease :
           \/ ms[l] = ls[l]
           \/ ms[l] = r(l) /\ ls[l].kind = "workload" /\ ls[l].state \in {"HELD", "ACTIVE"}
    BY DEF WorkloadBound
  <1>3. ms = [l \in Lease |-> ms[l]]
    BY DEF WorkloadBound
  <1> HIDE DEF ms, r
  <1>4. Sane(ms) /\ Follows(ls, ms)
    BY <1>1, <1>2, <1>3 DEF Sane, Follows, Sound
  <1> QED
    BY <1>2, <1>4 DEF ms


\* A table that follows the current one assigns no GPU twice.
LEMMA FollowsExclusive ==
  ASSUME IInv, NEW ls, Sane(ls), Follows(lease, ls), lease' = ls
  PROVE  ExclusiveAssignment' /\ OwnsWhileOpen' /\ KeepaliveIsDurable' /\ OrphanAlertIsExact'
  <1>1. ExclusiveAssignment'
    BY DEF IInv, ExclusiveAssignment, Follows, Shrinks
  <1> QED
    BY <1>1
    DEF Sane, Sound, OwnsWhileOpen, KeepaliveIsDurable, OrphanAlertIsExact

LEMMA ReconcileStep == IInv /\ Reconcile => IInv'
  <1> SUFFICES ASSUME IInv, Reconcile PROVE IInv'
    OBVIOUS
  <1> DEFINE ms == Reconciled(lease, device, rows)
  <1>1. now \in Time /\ Sane(lease)
    BY RowsAreSound DEF IInv, TypeOK, RowsSound, Sane
  <1>2. /\ Sane(ms) /\ Follows(lease, ms)
        /\ \A l \in Lease : lease[l].kind = "keepalive" => ms[l].gpus = lease[l].gpus
    BY <1>1, ReconciledSane
  <1>3. lease' = ms /\ UNCHANGED <<now, host, device, rows, keeper>>
    BY DEF Reconcile
  <1> HIDE DEF ms
  <1>4. ExclusiveAssignment' /\ OwnsWhileOpen' /\ KeepaliveIsDurable' /\ OrphanAlertIsExact'
    BY <1>2, <1>3, FollowsExclusive
  <1>5. TypeOK'
    BY <1>2, <1>3 DEF IInv, TypeOK, Sane
  <1>6. EvidenceIsCoherent'
    BY <1>3 DEF IInv, EvidenceIsCoherent, LastListed
  <1>7. KeeperOnIsVerified'
    <2> SUFFICES ASSUME NEW g \in Gpu, keeper'[g].actual = "ON"
                 PROVE  /\ \E l \in Lease : lease'[l].kind = "keepalive" /\ lease'[l].gpus = {g}
                        /\ LastListed(g)' = {keeper'[g].expected}
      BY DEF KeeperOnIsVerified
    <2>1. PICK l \in Lease : lease[l].kind = "keepalive" /\ lease[l].gpus = {g}
      BY <1>3 DEF IInv, KeeperOnIsVerified
    <2>2. ms[l].kind = "keepalive" /\ ms[l].gpus = {g}
      BY <1>2, <2>1 DEF Follows, Shrinks
    <2>3. LastListed(g) = {keeper[g].expected}
      BY <1>3 DEF IInv, KeeperOnIsVerified
    <2> QED
      BY <1>3, <2>2, <2>3 DEF LastListed
  <1> QED
    BY <1>4, <1>5, <1>6, <1>7 DEF IInv

LEMMA IngestStep ==
  ASSUME IInv, NEW e \in Endpoint, NEW at \in 0 .. now, NEW complete \in BOOLEAN,
         NEW visible \in SUBSET GpusOf(e), NEW listed \in [Gpu -> SUBSET Proc],
         \A g \in Gpu \ visible : listed[g] = {},
         Ingest(e, at, complete, visible, listed)
  PROVE  IInv'
  <1> DEFINE dev == DeviceAfter(e, at, complete, visible)
             ls1 == IF complete THEN AbsentReleased(e, lease, dev) ELSE lease
             kp1 == IF complete THEN AbsentForgotten(e, keeper, dev) ELSE keeper
             rw  == RowsAfter(e, complete, listed)
             kp2 == IF complete THEN KeeperObserved(e, ls1, rw, kp1) ELSE kp1
             ls2 == WorkloadBound(e, ls1, rw)
             kp3 == IF complete THEN ErrorsCleared(e, ls2, dev, rw, kp2) ELSE kp2
             ls3 == Reconciled(ls2, dev, rw)
  <1>1. device' = dev /\ rows' = rw /\ keeper' = kp3 /\ lease' = ls3 /\ now' = now
    BY DEF Ingest, Tables
  <1>2. now \in Time /\ now \in Nat /\ now # None /\ now <= now + Stale
    BY TimeFacts, TimeAssumption, NoneAssumption DEF IInv, TypeOK
  <1>3. at \in Time /\ at \in Nat /\ at <= now
    BY <1>2, TimeAssumption DEF Time
  <1>4. Sane(lease) /\ Follows(lease, lease)
    BY RowsAreSound DEF IInv, TypeOK, RowsSound, Sane, Follows, Shrinks
  <1>5. Sane(ls1) /\ Follows(lease, ls1)
    BY <1>4, AbsentReleasedSane
  <1>6. \A l \in Lease :
           \/ ls1[l] = lease[l]
           \/ /\ complete /\ lease[l].kind = "keepalive" /\ lease[l].gpus \cap GpusOf(e) # {}
              /\ \A g \in lease[l].gpus : dev[g].status # "present"
    <2> HIDE DEF dev
    <2> QED
      BY <1>4, AbsentReleasedSane
  <1>7. /\ Sane(ls2) /\ Follows(ls1, ls2)
        /\ \A l \in Lease : ls1[l].kind = "keepalive" => ls2[l] = ls1[l]
    <2> HIDE DEF ls1, rw
    <2> QED
      BY <1>5, WorkloadBoundSane
  <1>8. /\ Sane(ls3) /\ Follows(ls2, ls3)
        /\ \A l \in Lease : ls2[l].kind = "keepalive" => ls3[l].gpus = ls2[l].gpus
    <2> HIDE DEF ls2, rw, dev
    <2> QED
      BY <1>2, <1>7, ReconciledSane
  <1>9. ExclusiveAssignment' /\ OwnsWhileOpen' /\ KeepaliveIsDurable' /\ OrphanAlertIsExact'
    <2> HIDE DEF ls1, ls2, ls3
    <2>1. Follows(lease, ls2)
      BY <1>5, <1>7, FollowsTrans
    <2>2. Follows(lease, ls3)
      BY <1>8, <2>1, FollowsTrans
    <2> QED
      BY <1>1, <1>8, <2>2, FollowsExclusive
  \* The evidence tables.
  <1>10. dev \in [Gpu -> DeviceRecord] /\ rw \in [Gpu -> [Proc -> MaybeTime]]
    <2>1. dev \in [Gpu -> DeviceRecord]
      BY <1>2, <1>3 DEF DeviceAfter, IInv, TypeOK, DeviceRecord, MaybeTime
    <2>2. rw \in [Gpu -> [Proc -> MaybeTime]]
      BY <1>2 DEF RowsAfter, IInv, TypeOK, MaybeTime
    <2> QED
      BY <2>1, <2>2
  <1>11. host' \in [Endpoint -> HostRecord]
    <2> DEFINE h == [host[e] EXCEPT !.observed = at, !.collected = now, !.failing = ~complete,
                                    !.success = IF complete THEN now ELSE @]
    <2>1. host \in [Endpoint -> HostRecord]
      BY DEF IInv, TypeOK
    <2>2. at \in MaybeTime /\ now \in MaybeTime
      BY <1>2, <1>3 DEF MaybeTime
    <2>3. (~complete) \in BOOLEAN
      OBVIOUS
    <2>4. h \in HostRecord
      BY <2>1, <2>2, <2>3 DEF HostRecord
    <2>5. host' = [host EXCEPT ![e] = h]
      BY <2>1 DEF Ingest
    <2> HIDE DEF h
    <2> QED
      BY <2>1, <2>4, <2>5
  <1>12. EvidenceIsCoherent'
    <2> SUFFICES ASSUME NEW g \in Gpu
                 PROVE  LET h == host'[HostOf[g]] IN
                        /\ dev[g].status = "present" =>
                              /\ dev[g].collected = h.success
                              /\ h.success \in 0 .. now
                              /\ dev[g].observed \in 0 .. h.success
                        /\ \A p \in Proc : rw[g][p] # None =>
                              dev[g].status = "present" /\ rw[g][p] = h.success
      BY <1>1 DEF EvidenceIsCoherent, LastListed
    <2>0. /\ host \in [Endpoint -> HostRecord] /\ HostOf[g] \in Endpoint
          /\ HostOf[g] = e <=> g \in GpusOf(e)
      BY HostAssumption DEF IInv, TypeOK, GpusOf
    <2>1. CASE g \notin GpusOf(e)
      <3>1. dev[g] = device[g] /\ rw[g] = rows[g] /\ host'[HostOf[g]] = host[HostOf[g]]
        BY <2>0, <2>1 DEF DeviceAfter, RowsAfter, Ingest
      <3> QED
        BY <3>1 DEF IInv, EvidenceIsCoherent, LastListed
    <2>2. CASE g \in GpusOf(e) /\ ~complete
      <3>1. visible = {}
        BY <2>2 DEF Ingest
      <3>2. dev[g] = device[g] /\ rw[g] = rows[g]
        BY <2>2, <3>1 DEF DeviceAfter, RowsAfter
      <3>3. host'[HostOf[g]].success = host[HostOf[g]].success
        BY <2>0, <2>2 DEF Ingest, HostRecord
      <3> QED
        BY <3>2, <3>3 DEF IInv, EvidenceIsCoherent, LastListed
    <2>3. CASE g \in GpusOf(e) /\ complete
      <3>1. host'[HostOf[g]].success = now
        BY <2>0, <2>3 DEF Ingest, HostRecord
      <3>2. /\ g \in visible => dev[g] = [status |-> "present", observed |-> at, collected |-> now]
            /\ g \notin visible => dev[g].status # "present"
        BY <2>3 DEF DeviceAfter, IInv, TypeOK, DeviceRecord
      <3>3. \A p \in Proc : rw[g][p] = IF p \in listed[g] THEN now ELSE None
        BY <2>3 DEF RowsAfter
      <3>4. now \in 0 .. now /\ at \in 0 .. now
        BY <1>2
      <3> HIDE DEF dev, rw
      <3> QED
        BY <3>1, <3>2, <3>3, <3>4
    <2> QED
      BY <2>1, <2>2, <2>3
  \* The keepalive table.
  <1>13. kp1 \in [Gpu -> KeeperRecord] /\ kp2 \in [Gpu -> KeeperRecord] /\ kp3 \in [Gpu -> KeeperRecord]
    <2>1. kp1 \in [Gpu -> KeeperRecord]
      BY DEF AbsentForgotten, IInv, TypeOK, KeeperRecord
    <2> HIDE DEF kp1
    <2>2. \A g \in Gpu, a \in {"none", "ON", "OFF", "ERROR"} :
             [kp1[g] EXCEPT !.actual = a] \in KeeperRecord
      BY <2>1 DEF KeeperRecord
    <2>3. kp2 \in [Gpu -> KeeperRecord]
      BY <2>1, <2>2 DEF KeeperObserved
    <2> HIDE DEF kp2
    <2>4. \A g \in Gpu : [kp2[g] EXCEPT !.actual = "OFF"] \in KeeperRecord
      BY <2>3 DEF KeeperRecord
    <2>5. kp3 \in [Gpu -> KeeperRecord]
      BY <2>3, <2>4 DEF ErrorsCleared
    <2> QED
      BY <2>1, <2>3, <2>5
  <1>14. TypeOK'
    BY <1>1, <1>2, <1>8, <1>10, <1>11, <1>13 DEF TypeOK, Sane
  \* A keepalive lease of a present GPU survives the whole observation.
  <1>15. ASSUME NEW g \in Gpu, NEW l \in Lease, ls1[l].kind = "keepalive", ls1[l].gpus = {g}
         PROVE  lease'[l].kind = "keepalive" /\ lease'[l].gpus = {g}
    BY <1>1, <1>7, <1>8, <1>15 DEF Follows, Shrinks
  <1>16. KeeperOnIsVerified'
    <2> SUFFICES ASSUME NEW g \in Gpu, kp3[g].actual = "ON"
                 PROVE  /\ \E l \in Lease : ls1[l].kind = "keepalive" /\ ls1[l].gpus = {g}
                        /\ {p \in Proc : rw[g][p] # None} = {kp3[g].expected}
      BY <1>1, <1>15 DEF KeeperOnIsVerified, LastListed
    <2>1. kp3[g] = kp2[g]
      <3> HIDE DEF kp2
      <3> QED
        BY <1>13 DEF ErrorsCleared, KeeperRecord
    \* What a GPU that stayed "ON" had before.
    <2>2. ASSUME keeper[g].actual = "ON"
          PROVE  /\ {p \in Proc : rows[g][p] # None} = {keeper[g].expected}
                 /\ \E l \in Lease : /\ lease[l].kind = "keepalive" /\ lease[l].gpus = {g}
                                     /\ lease[l].state = "ACTIVE"
      <3>1. LastListed(g) = {keeper[g].expected}
        BY <2>2 DEF IInv, KeeperOnIsVerified
      <3>2. PICK l \in Lease : lease[l].kind = "keepalive" /\ lease[l].gpus = {g}
        BY <2>2 DEF IInv, KeeperOnIsVerified
      <3>3. lease[l].state = "ACTIVE"
        BY <1>4, <3>2 DEF Sane, Sound
      <3> QED
        BY <3>1, <3>2, <3>3 DEF LastListed
    <2>3. CASE ~complete
      <3>1. kp2[g] = keeper[g] /\ ls1 = lease /\ rw[g] = rows[g]
        BY <2>3 DEF RowsAfter
      <3> HIDE DEF kp3, kp2, ls1, rw
      <3> QED
        BY <2>1, <2>2, <3>1
    <2>4. CASE complete /\ g \notin GpusOf(e)
      <3>1. kp2[g] = keeper[g] /\ rw[g] = rows[g]
        BY <2>4 DEF KeeperObserved, AbsentForgotten, RowsAfter
      <3>2. keeper[g].actual = "ON"
        BY <2>1, <3>1
      <3>3. \E l \in Lease : ls1[l].kind = "keepalive" /\ ls1[l].gpus = {g}
        <4>1. PICK l \in Lease : lease[l].kind = "keepalive" /\ lease[l].gpus = {g}
          BY <2>2, <3>2
        <4>2. lease[l].gpus \cap GpusOf(e) = {}
          BY <2>4, <4>1
        <4> HIDE DEF ls1
        <4> QED
          BY <1>6, <4>1, <4>2
      <3> HIDE DEF kp3, kp2, ls1, rw
      <3> QED
        BY <2>1, <2>2, <3>1, <3>2, <3>3
    <2>5. CASE complete /\ g \in GpusOf(e)
      <3> DEFINE kept(l) == ls1[l].kind = "keepalive" /\ ls1[l].state = "ACTIVE" /\ ls1[l].gpus = {g}
      <3>1. CASE \E l \in Lease : kept(l)
        <4>1. kp2[g] = [kp1[g] EXCEPT !.actual =
                          IF kp1[g].expected # None /\ Current(rw, g) = {kp1[g].expected} THEN "ON"
                          ELSE IF Current(rw, g) # {} THEN "ERROR" ELSE "OFF"]
          BY <2>5, <3>1 DEF KeeperObserved
        <4>2. Current(rw, g) = {p \in Proc : rw[g][p] # None}
          BY <1>2, <2>5 DEF Current, Recent, RowsAfter
        <4> HIDE DEF kp1, kp2, kp3, rw, ls1
        <4>3. kp2[g].expected = kp1[g].expected /\ Current(rw, g) = {kp1[g].expected}
          BY <1>13, <2>1, <4>1 DEF KeeperRecord
        <4> QED
          BY <2>1, <3>1, <4>2, <4>3
      <3>2. CASE ~ \E l \in Lease : kept(l)
        <4>1. kp2[g] = kp1[g]
          BY <2>5, <3>2 DEF KeeperObserved
        <4>2. dev[g].status = "present" /\ keeper[g].actual = "ON"
          <5>1. kp1[g] = IF dev[g].status # "present"
                         THEN [actual |-> "none", expected |-> None] ELSE keeper[g]
            BY <2>5 DEF AbsentForgotten
          <5> HIDE DEF kp1, kp2, kp3, dev
          <5> QED
            BY <2>1, <4>1, <5>1
        <4>3. PICK l \in Lease : /\ lease[l].kind = "keepalive" /\ lease[l].gpus = {g}
                                 /\ lease[l].state = "ACTIVE"
          BY <2>2, <4>2
        <4>4. ls1[l] = lease[l]
          <5> HIDE DEF ls1, dev
          <5> QED
            BY <1>6, <4>2, <4>3
        <4> QED
          BY <3>2, <4>3, <4>4
      <3> QED
        BY <3>1, <3>2
    <2> QED
      BY <2>3, <2>4, <2>5
  <1> QED
    BY <1>9, <1>12, <1>14, <1>16 DEF IInv


LEMMA StutterStep == IInv /\ UNCHANGED vars => IInv'
  BY HostOrKeeperStep DEF IInv, vars, TypeOK

LEMMA NextIInv == IInv /\ [Next]_vars => IInv'
  <1> SUFFICES ASSUME IInv, [Next]_vars PROVE IInv'
    OBVIOUS
  <1>1. CASE Tick
    BY <1>1, TickStep
  <1>2. CASE AgentStep
    <2>1. PICK l \in Lease :
             \/ \E gs \in SUBSET Gpu, persistent \in BOOLEAN : Claim(l, gs, persistent)
             \/ Activate(l) \/ Bind(l) \/ BindObserved(l) \/ Renew(l) \/ Release(l)
      BY <1>2 DEF AgentStep
    <2> QED
      BY <2>1, ClaimStep, ActivateStep, BindStep, BindObservedStep, RenewStep, ReleaseStep
  <1>3. CASE OperatorStep
    BY <1>3, ReassignStep, ReleaseEmptyStep, SetLifecycleStep, ConfigurePolicyStep, ReconcileStep
    DEF OperatorStep
  <1>4. CASE ControllerStep
    <2>1. ASSUME NEW e \in Endpoint, NEW barrier \in Barriers, NEW gs \in SUBSET Gpu,
                 \E ids \in [gs -> Lease] : ActivateKeepalives(e, gs, ids, barrier)
          PROVE  IInv'
      BY <2>1, ActivateKeepalivesStep
    <2>2. ASSUME NEW e \in Endpoint, NEW barrier \in Barriers, NEW l \in Lease,
                 FinalizeStop(e, l, barrier)
          PROVE  IInv'
      BY <2>2, FinalizeStopStep
    <2>3. ASSUME NEW e \in Endpoint, NEW gs \in SUBSET Faulty, KeepaliveError(e, gs)
          PROVE  IInv'
      BY <2>3, BoundAssumption, KeepaliveErrorStep
    <2> QED
      BY <1>4, <2>1, <2>2, <2>3 DEF ControllerStep
  <1>5. CASE CollectorStep
    <2>1. PICK e \in Endpoint : Observe(e) \/ ProviderFailure(e)
      BY <1>5 DEF CollectorStep
    <2>2. CASE Observe(e)
      <3>1. PICK at \in 0 .. now, complete \in BOOLEAN, visible \in SUBSET GpusOf(e) :
               \E listed \in [Gpu -> SUBSET Proc] :
                  /\ \A g \in Gpu \ visible : listed[g] = {}
                  /\ Ingest(e, at, complete, visible, listed)
        BY <2>2 DEF Observe
      <3> QED
        BY <3>1, IngestStep
    <2> QED
      BY <2>1, <2>2, ProviderFailureStep
  <1>6. CASE UNCHANGED vars
    BY <1>6, StutterStep
  <1> QED
    BY <1>1, <1>2, <1>3, <1>4, <1>5, <1>6 DEF Next

-----------------------------------------------------------------------------
(* What the broker guarantees *)

\* The inductive invariant holds of every behaviour of the broker.
THEOREM Invariant == Spec => []IInv
  BY InitIInv, NextIInv, PTL DEF Spec

\* Every column of every table stays within its type.
THEOREM TypeCorrect == Spec => []TypeOK
  <1>1. IInv => TypeOK
    BY DEF IInv
  <1> QED
    BY <1>1, Invariant, PTL

\* No order of claims, moves, activations and observations assigns a GPU to
\* two leases: the operations never rely on the unique index of the table.
THEOREM Exclusive == Spec => []ExclusiveAssignment
  <1>1. IInv => ExclusiveAssignment
    BY DEF IInv
  <1> QED
    BY <1>1, Invariant, PTL

\* A lease owns GPUs exactly while it is open, so that no ended lease blocks
\* a GPU and no open lease escapes reconciliation.
THEOREM Ownership == Spec => []OwnsWhileOpen
  <1>1. IInv => OwnsWhileOpen
    BY DEF IInv
  <1> QED
    BY <1>1, Invariant, PTL

\* No timer and no idle clock ever reaches a keepalive lease.
THEOREM DurableKeepalive == Spec => []KeepaliveIsDurable
  <1>1. IInv => KeepaliveIsDurable
    BY DEF IInv
  <1> QED
    BY <1>1, Invariant, PTL

\* The critical alert stands for exactly the orphaned leases.
THEOREM ExactOrphanAlert == Spec => []OrphanAlertIsExact
  <1>1. IInv => OrphanAlertIsExact
    BY DEF IInv
  <1> QED
    BY <1>1, Invariant, PTL

\* Process rows and GPU telemetry always stem from the same observation.
THEOREM CoherentEvidence == Spec => []EvidenceIsCoherent
  <1>1. IInv => EvidenceIsCoherent
    BY DEF IInv
  <1> QED
    BY <1>1, Invariant, PTL

\* A keepalive reported "ON" is owned, and its worker is all that was seen.
THEOREM VerifiedKeeper == Spec => []KeeperOnIsVerified
  <1>1. IInv => KeeperOnIsVerified
    BY DEF IInv
  <1> QED
    BY <1>1, Invariant, PTL


-----------------------------------------------------------------------------
(* What single steps do.  The lemmas describe the stages of the lease table *)
(* that an observation or a reconciliation goes through.                    *)

\* The broker ends a workload lease that never expires only after an idle
\* window, on fresh and process-free evidence of all its GPUs.
LEMMA ReconciledReclaim ==
  ASSUME NEW r, Sound(r), r.kind = "workload", r.expires = None, r.state \in ActiveLeaseStates,
         NEW dev, NEW rw, ReconciledLease(r, dev, rw).state = "EXPIRED_EMPTY"
  PROVE  /\ r.idleSince # None /\ r.idleSince \in Time /\ ~(now < r.idleSince + ReclaimAfter)
         /\ \A g \in r.gpus : Fresh(dev, g) /\ Current(rw, g) = {}
  <1> DEFINE i == IdleTracked(r, dev, rw)
  <1>1. r \in LeaseRecord /\ r.gpus # {}
    BY DEF Sound
  <1>2. r.state # "ORPHANED_BUSY" /\ ReconciledLease(r, dev, rw) = Swept(Expired(i, rw))
    <2>1. Swept(r).state = r.state
      BY SweptSound
    <2> QED
      BY <2>1 DEF ReconciledLease, ActiveLeaseStates
  <1>3. Expired(i, rw).state = "EXPIRED_EMPTY"
    <2>1. \A s : Unblocked(s).state = s.state
      BY DEF Unblocked
    <2> QED
      BY <1>2, <2>1 DEF Swept
  <1>4. CASE /\ \A g \in r.gpus : Fresh(dev, g) /\ Current(rw, g) = {}
             /\ r.idleSince # None /\ ~(now < r.idleSince + AlertAfter)
             /\ ~(now < r.idleSince + ReclaimAfter)
    BY <1>1, <1>4 DEF LeaseRecord, MaybeTime
  <1>5. CASE ~(/\ \A g \in r.gpus : Fresh(dev, g) /\ Current(rw, g) = {}
               /\ r.idleSince # None /\ ~(now < r.idleSince + AlertAfter)
               /\ ~(now < r.idleSince + ReclaimAfter))
    <2>1. i.expires = None /\ i.state = r.state
      BY <1>1, <1>5 DEF IdleTracked, LeaseRecord
    <2>2. Expired(i, rw) = i
      BY <2>1 DEF Expired
    <2> QED
      BY <1>3, <2>1, <2>2 DEF ActiveLeaseStates
  <1> QED
    BY <1>4, <1>5

\* An observation hands to reconciliation, row by row, the row it found, the
\* row with its workload activated, or a keepalive row ended with its GPUs gone.
LEMMA IngestLeases ==
  ASSUME IInv, NEW e \in Endpoint, NEW at \in 0 .. now, NEW complete \in BOOLEAN,
         NEW visible \in SUBSET GpusOf(e), NEW listed \in [Gpu -> SUBSET Proc],
         Ingest(e, at, complete, visible, listed),
         NEW l \in Lease
  PROVE  \E r : /\ Sound(r) /\ Shrinks(lease[l], r)
                /\ lease'[l] = ReconciledLease(r, device', rows')
                /\ \/ r = lease[l]
                   \/ /\ lease[l].kind = "workload"
                      /\ r = [lease[l] EXCEPT !.state = "ACTIVE", !.bound = TRUE]
                   \/ /\ lease[l].kind = "keepalive"
                      /\ lease[l].state \in ActiveLeaseStates /\ r.state = "RELEASED"
                      /\ \A g \in lease[l].gpus : device'[g].status # "present"
  <1> DEFINE dev == DeviceAfter(e, at, complete, visible)
             ls1 == IF complete THEN AbsentReleased(e, lease, dev) ELSE lease
             rw  == RowsAfter(e, complete, listed)
             ls2 == WorkloadBound(e, ls1, rw)
  <1>1. device' = dev /\ rows' = rw /\ lease' = Reconciled(ls2, dev, rw)
    BY DEF Ingest, Tables
  <1>2. Sane(lease) /\ Follows(lease, lease)
    BY RowsAreSound DEF IInv, TypeOK, RowsSound, Sane, Follows, Shrinks
  <1>3. /\ Sane(ls1) /\ Follows(lease, ls1)
        /\ \/ ls1[l] = lease[l]
           \/ /\ lease[l].kind = "keepalive"
              /\ lease[l].state \in ActiveLeaseStates /\ ls1[l].state = "RELEASED"
              /\ \A g \in lease[l].gpus : dev[g].status # "present"
    <2> HIDE DEF dev
    <2> QED
      BY <1>2, AbsentReleasedSane
  <1>4. /\ Sane(ls2) /\ Follows(ls1, ls2)
        /\ ls1[l].kind = "keepalive" => ls2[l] = ls1[l]
    <2> HIDE DEF ls1, rw
    <2> QED
      BY <1>3, WorkloadBoundSane
  <1>5. ls2[l] = ls1[l] \/ ls2[l] = [ls1[l] EXCEPT !.state = "ACTIVE", !.bound = TRUE]
    <2> HIDE DEF ls1, rw
    <2> QED
      BY DEF WorkloadBound
  <1>6. lease'[l] = ReconciledLease(ls2[l], dev, rw)
    <2> HIDE DEF ls2, rw, dev
    <2> QED
      BY <1>1 DEF Reconciled
  <1> HIDE DEF dev, ls1, rw, ls2
  <1>7. Sound(ls2[l]) /\ Shrinks(lease[l], ls2[l])
    BY <1>3, <1>4 DEF Sane, Follows, Shrinks
  <1>8. lease[l].kind \in {"workload", "keepalive"} /\ ls1[l].kind = lease[l].kind
    BY <1>2, <1>3 DEF Sane, Sound, LeaseRecord, Follows, Shrinks
  <1>9. \/ ls2[l] = lease[l]
        \/ /\ lease[l].kind = "workload"
           /\ ls2[l] = [lease[l] EXCEPT !.state = "ACTIVE", !.bound = TRUE]
        \/ /\ lease[l].kind = "keepalive"
           /\ lease[l].state \in ActiveLeaseStates /\ ls2[l].state = "RELEASED"
           /\ \A g \in lease[l].gpus : dev[g].status # "present"
    BY <1>3, <1>4, <1>5, <1>8
  <1> QED
    BY <1>1, <1>6, <1>7, <1>9

\* Neither an observation nor a reconciliation assigns a GPU.
LEMMA RewriteShrinks ==
  ASSUME IInv, NEW l \in Lease,
         NEW r, Sound(r), Shrinks(lease[l], r), NEW dev, NEW rw,
         lease'[l] = ReconciledLease(r, dev, rw)
  PROVE  Shrinks(lease[l], lease'[l])
  BY ReconciledLeaseSound DEF IInv, TypeOK, Shrinks


\* All that may happen to one lease row in one step.
Claimed(l) ==
    /\ lease[l].state = "unissued"
    /\ \A g \in lease'[l].gpus : g \in Gpu /\ Eligible(g)

Worked(l) ==
    /\ lease[l].kind = "workload" /\ lease[l].state \in ActiveLeaseStates
    /\ lease'[l].state # "EXPIRED_EMPTY"

EndedEmpty(l) ==
    /\ lease[l].state \in ActiveLeaseStates /\ lease'[l].state = "RELEASED"
    /\ \A g \in lease[l].gpus : LastListed(g) = {}
    /\ rows' = rows

Activated(l) == lease[l].state = "unissued" /\ lease'[l].kind = "keepalive"

Rewritten(l) ==
    /\ now' = now
    /\ \E r : /\ Sound(r) /\ Shrinks(lease[l], r)
              /\ lease'[l] = ReconciledLease(r, device', rows')
              /\ \/ r = lease[l]
                 \/ /\ lease[l].kind = "workload"
                    /\ r = [lease[l] EXCEPT !.state = "ACTIVE", !.bound = TRUE]
                 \/ /\ lease[l].kind = "keepalive"
                    /\ lease[l].state \in ActiveLeaseStates /\ r.state = "RELEASED"
                    /\ \A g \in lease[l].gpus : device'[g].status # "present"

RowStep(l) ==
    lease'[l] = lease[l] \/ Claimed(l) \/ Worked(l) \/ EndedEmpty(l) \/ Activated(l) \/ Rewritten(l)

LEMMA ReconcileRewrites ==
  ASSUME IInv, Reconcile, NEW l \in Lease
  PROVE  Rewritten(l)
  <1>1. /\ lease'[l] = ReconciledLease(lease[l], device', rows')
        /\ now' = now
    BY DEF Reconcile, Reconciled
  <1>2. Sound(lease[l]) /\ Shrinks(lease[l], lease[l])
    BY RowsAreSound DEF IInv, RowsSound, Shrinks
  <1> QED
    BY <1>1, <1>2 DEF Rewritten

LEMMA ObserveRewrites ==
  ASSUME IInv, NEW e \in Endpoint, Observe(e), NEW l \in Lease
  PROVE  Rewritten(l)
  <1>1. PICK at \in 0 .. now, complete \in BOOLEAN, visible \in SUBSET GpusOf(e),
             listed \in [Gpu -> SUBSET Proc] : Ingest(e, at, complete, visible, listed)
    BY DEF Observe
  <1>2. now' = now
    BY <1>1 DEF Ingest
  <1> QED
    BY <1>1, <1>2, IngestLeases DEF Rewritten

LEMMA AgentRow ==
  ASSUME IInv, AgentStep, NEW l \in Lease
  PROVE  RowStep(l)
  <1>1. PICK k \in Lease :
           \/ \E gs \in SUBSET Gpu, persistent \in BOOLEAN : Claim(k, gs, persistent)
           \/ Activate(k) \/ Bind(k) \/ BindObserved(k) \/ Renew(k) \/ Release(k)
    BY DEF AgentStep
  <1>2. lease \in [Lease -> LeaseRecord]
    BY DEF IInv, TypeOK
  <1>3. CASE k # l
    BY <1>1, <1>2, <1>3
    DEF RowStep, Claim, Activate, Bind, BindObserved, Renew, Release, OnlyLease
  <1>4. CASE k = l /\ \E gs \in SUBSET Gpu, persistent \in BOOLEAN : Claim(k, gs, persistent)
    <2>1. PICK gs \in SUBSET Gpu, persistent \in BOOLEAN : Claim(l, gs, persistent)
      BY <1>4
    <2>2. lease'[l].gpus = gs
      BY <1>2, <2>1 DEF Claim, OnlyLease, Issue, NewLease
    <2> QED
      BY <2>1, <2>2 DEF RowStep, Claimed, Claim
  <1>5. CASE k = l /\ (Activate(k) \/ Bind(k) \/ BindObserved(k) \/ Renew(k))
    <2>1. /\ lease[l].kind = "workload" /\ lease[l].state \in {"HELD", "ACTIVE"}
          /\ lease'[l].state \in {"ACTIVE", lease[l].state}
      BY <1>2, <1>5 DEF Activate, Bind, BindObserved, Renew, OnlyLease, LeaseRecord
    <2> QED
      BY <2>1 DEF RowStep, Worked, ActiveLeaseStates
  <1>6. CASE k = l /\ Release(k)
    <2>1. lease'[l] = Unblocked(Ended(lease[l], "RELEASED"))
      BY <1>2, <1>6 DEF Release, OnlyLease
    <2>2. lease'[l].state = "RELEASED"
      BY <2>1, EndedSound, RowsAreSound DEF IInv, RowsSound, TerminalLeaseStates
    <2> QED
      BY <1>6, <2>2 DEF RowStep, Worked, Release
  <1> QED
    BY <1>1, <1>3, <1>4, <1>5, <1>6

LEMMA OperatorRow ==
  ASSUME IInv, OperatorStep, NEW l \in Lease
  PROVE  RowStep(l)
  <1>0. lease \in [Lease -> LeaseRecord]
    BY DEF IInv, TypeOK
  <1>1. ASSUME NEW k \in Lease, NEW gs \in SUBSET Gpu, Reassign(k, gs)
        PROVE  RowStep(l)
    <2>1. CASE k = l
      BY <1>0, <1>1, <2>1 DEF RowStep, Worked, Reassign, OnlyLease, LeaseRecord, ActiveLeaseStates
    <2>2. CASE k # l
      BY <1>0, <1>1, <2>2 DEF RowStep, Reassign, OnlyLease
    <2> QED
      BY <2>1, <2>2
  <1>2. ASSUME NEW e \in Endpoint, NEW k \in Lease, NEW barrier \in 0 .. now,
               ReleaseEmpty(e, k, barrier)
        PROVE  RowStep(l)
    <2>1. CASE k = l
      <3>1. lease'[l] = Unblocked(Ended(lease[l], "RELEASED"))
        BY <1>0, <1>2, <2>1 DEF ReleaseEmpty, OnlyLease
      <3>2. lease'[l].state = "RELEASED"
        BY <3>1, EndedSound, RowsAreSound DEF IInv, RowsSound, TerminalLeaseStates
      <3>3. \A g \in lease[l].gpus : LastListed(g) = {}
        BY <1>2, <2>1, ReleaseEmptySaw
      <3> QED
        BY <1>2, <2>1, <3>2, <3>3 DEF RowStep, EndedEmpty, ReleaseEmpty, OnlyLease
    <2>2. CASE k # l
      BY <1>0, <1>2, <2>2 DEF RowStep, ReleaseEmpty, OnlyLease
    <2> QED
      BY <2>1, <2>2
  <1>3. ASSUME NEW e \in Endpoint, NEW state \in Lifecycles, SetLifecycle(e, state)
        PROVE  RowStep(l)
    BY <1>3 DEF RowStep, SetLifecycle
  <1>4. ASSUME NEW e \in Endpoint, NEW policy \in Policies, ConfigurePolicy(e, policy)
        PROVE  RowStep(l)
    BY <1>4 DEF RowStep, ConfigurePolicy
  <1>5. ASSUME Reconcile
        PROVE  RowStep(l)
    BY <1>5, ReconcileRewrites DEF RowStep
  <1> QED
    BY <1>1, <1>2, <1>3, <1>4, <1>5 DEF OperatorStep

LEMMA ControllerRow ==
  ASSUME IInv, ControllerStep, NEW l \in Lease
  PROVE  RowStep(l)
  <1>0. lease \in [Lease -> LeaseRecord] /\ RowsSound
    BY RowsAreSound DEF IInv, TypeOK
  <1>1. ASSUME NEW e \in Endpoint, NEW barrier \in Barriers, NEW gs \in SUBSET Gpu,
               NEW ids \in [gs -> Lease], ActivateKeepalives(e, gs, ids, barrier)
        PROVE  RowStep(l)
    <2>1. CASE \A g \in gs : ids[g] # l
      BY <1>1, <2>1 DEF ActivateKeepalives, RowStep
    <2>2. CASE \E g \in gs : ids[g] = l
      <3> DEFINE g == CHOOSE g \in gs : ids[g] = l
      <3>1. g \in gs /\ ids[g] = l
        BY <2>2
      <3>2. lease'[l] = IF Owned(lease, g)
                        THEN [lease[l] EXCEPT !.state = "ACTIVE", !.expires = None]
                        ELSE Issue("keepalive", "ACTIVE", {g}, None)
        BY <1>1, <2>2 DEF ActivateKeepalives
      <3> HIDE DEF g
      <3>3. CASE Owned(lease, g)
        <4>1. lease[l].gpus = {g} /\ lease[l].kind = "keepalive"
          BY <1>0, <1>1, <3>1, <3>3 DEF ActivateKeepalives, Owned, OwnedAs, LeaseRecord
        <4>2. lease[l].state = "ACTIVE" /\ lease[l].expires = None
          BY <1>0, <4>1 DEF RowsSound, Sound
        <4>3. [lease[l] EXCEPT !.state = "ACTIVE", !.expires = None] = lease[l]
          BY <1>0, <4>2 DEF LeaseRecord
        <4> QED
          BY <3>2, <3>3, <4>3 DEF RowStep
      <3>4. CASE ~Owned(lease, g)
        <4>1. lease[l].state = "unissued"
          BY <1>1, <3>1, <3>4 DEF ActivateKeepalives
        <4>2. lease'[l].kind = "keepalive"
          BY <3>2, <3>4 DEF Issue, NewLease
        <4> QED
          BY <4>1, <4>2 DEF RowStep, Activated
      <3> QED
        BY <3>3, <3>4
    <2> QED
      BY <2>1, <2>2
  <1>2. ASSUME NEW e \in Endpoint, NEW barrier \in Barriers, NEW k \in Lease,
               FinalizeStop(e, k, barrier)
        PROVE  RowStep(l)
    <2>1. CASE k = l
      <3>1. lease'[l] = Unblocked(Ended(lease[l], "RELEASED"))
        BY <1>0, <1>2, <2>1 DEF FinalizeStop
      <3>2. lease'[l].state = "RELEASED"
        BY <1>0, <3>1, EndedSound DEF RowsSound, TerminalLeaseStates
      <3>3. PICK g \in GpusOf(e) : /\ lease[l].gpus = {g} /\ ObservedSince(e, {g}, barrier)
                                   /\ Seen(g) = {}
        BY <1>2, <2>1 DEF FinalizeStop
      <3>4. LastListed(g) = {}
        BY <3>3, SeenIsLastListed
      <3> QED
        BY <1>2, <2>1, <3>2, <3>3, <3>4 DEF RowStep, EndedEmpty, FinalizeStop
    <2>2. CASE k # l
      BY <1>0, <1>2, <2>2 DEF RowStep, FinalizeStop
    <2> QED
      BY <2>1, <2>2
  <1>3. ASSUME NEW e \in Endpoint, NEW gs \in SUBSET Faulty, KeepaliveError(e, gs)
        PROVE  RowStep(l)
    BY <1>3 DEF RowStep, KeepaliveError
  <1> QED
    BY <1>1, <1>2, <1>3 DEF ControllerStep

LEMMA CollectorRow ==
  ASSUME IInv, CollectorStep, NEW l \in Lease
  PROVE  RowStep(l)
  <1>1. PICK e \in Endpoint : Observe(e) \/ ProviderFailure(e)
    BY DEF CollectorStep
  <1>2. CASE Observe(e)
    BY <1>2, ObserveRewrites DEF RowStep
  <1>3. CASE ProviderFailure(e)
    BY <1>3 DEF RowStep, ProviderFailure
  <1> QED
    BY <1>1, <1>2, <1>3

LEMMA EveryRowStep ==
  ASSUME IInv, [Next]_vars, NEW l \in Lease
  PROVE  RowStep(l)
  <1>1. CASE Tick \/ UNCHANGED vars
    BY <1>1 DEF Tick, vars, RowStep
  <1> QED
    BY <1>1, AgentRow, OperatorRow, ControllerRow, CollectorRow DEF Next


\* The evidence after an observation that shows a GPU fresh and free, or gone.
LEMMA NextFreshIsRecent ==
  ASSUME IInv', now' = now, NEW g \in Gpu, Fresh(device', g), Current(rows', g) = {}
  PROVE  Fresh(device, g)' /\ LastListed(g)' = {}
  <1> DEFINE t == host'[HostOf[g]].success
  <1>1. /\ device'[g].status = "present" /\ now' <= device'[g].observed + Stale
        /\ t \in 0 .. now' /\ device'[g].observed \in 0 .. t
    BY DEF Fresh, Recent, IInv, EvidenceIsCoherent
  <1>2. now' \in Nat
    BY TimeFacts DEF IInv, TypeOK
  <1>3. t # None /\ now <= t + Stale
    BY <1>1, <1>2, TimeAssumption, NoneAssumption
  <1>4. \A p \in Proc : rows'[g][p] # None => rows'[g][p] = t
    BY DEF IInv, EvidenceIsCoherent, LastListed
  <1>5. Fresh(device, g)'
    BY DEF Fresh, Recent
  <1> HIDE DEF t
  <1>6. \A p \in Proc : rows'[g][p] = None
    BY <1>3, <1>4 DEF Current, Recent
  <1> QED
    BY <1>5, <1>6 DEF LastListed

LEMMA GrantStep ==
  ASSUME IInv, [Next]_vars, NEW l \in Lease,
         lease[l].state = "unissued", lease'[l].kind = "workload"
  PROVE  \A g \in lease'[l].gpus : LastListed(g) = {}
  <1>1. Sound(lease[l]) /\ lease[l].gpus = {} /\ lease[l].state \notin ActiveLeaseStates
    BY RowsAreSound DEF IInv, RowsSound, Sound, ActiveLeaseStates
  <1>2. RowStep(l)
    BY EveryRowStep
  <1>3. CASE Claimed(l)
    <2> TAKE g \in lease'[l].gpus
    <2>1. g \in Gpu /\ Fresh(device, g) /\ Current(rows, g) = {}
      BY <1>3 DEF Claimed, Eligible
    <2> QED
      BY <2>1, FreshIsRecent, CurrentIsLastListed
  <1>4. CASE Rewritten(l)
    <2>1. PICK r : Sound(r) /\ Shrinks(lease[l], r) /\ lease'[l] = ReconciledLease(r, device', rows')
      BY <1>4 DEF Rewritten
    <2>2. Shrinks(lease[l], lease'[l])
      BY <2>1, RewriteShrinks
    <2> QED
      BY <1>1, <2>2 DEF Shrinks
  <1> QED
    BY <1>1, <1>2, <1>3, <1>4 DEF RowStep, Worked, EndedEmpty, Activated

LEMMA KeepaliveEndStep ==
  ASSUME IInv, IInv', [Next]_vars, NEW l \in Lease,
         lease[l].kind = "keepalive", lease[l].state \in ActiveLeaseStates,
         lease'[l].state \in TerminalLeaseStates
  PROVE  \A g \in lease[l].gpus : LastListed(g)' = {}
  <1>1. lease'[l] # lease[l] /\ lease[l].state # "unissued" /\ lease[l].kind # "workload"
    BY DEF ActiveLeaseStates, TerminalLeaseStates
  <1>2. CASE EndedEmpty(l)
    BY <1>2 DEF EndedEmpty, LastListed
  <1>3. CASE Rewritten(l)
    <2>1. PICK r : /\ Sound(r) /\ Shrinks(lease[l], r)
                   /\ lease'[l] = ReconciledLease(r, device', rows')
                   /\ \/ r = lease[l]
                      \/ \A g \in lease[l].gpus : device'[g].status # "present"
      BY <1>1, <1>3 DEF Rewritten
    <2>2. r # lease[l]
      <3>1. now \in Time
        BY DEF IInv, TypeOK
      <3>2. r.kind = "keepalive" => ReconciledLease(r, device', rows').state = r.state
        BY <2>1, <3>1, ReconciledLeaseSound
      <3> QED
        BY <2>1, <3>2 DEF ActiveLeaseStates, TerminalLeaseStates
    <2>3. lease[l].gpus \subseteq Gpu
      BY DEF IInv, TypeOK, LeaseRecord
    <2> QED
      BY <2>1, <2>2, <2>3 DEF IInv, EvidenceIsCoherent
  <1> QED
    BY <1>1, <1>2, <1>3, EveryRowStep DEF RowStep, Claimed, Worked, Activated

LEMMA ReclaimStep ==
  ASSUME IInv, IInv', [Next]_vars, NEW l \in Lease, IdleReclaim(l)
  PROVE  /\ lease[l].idleSince # None /\ now >= lease[l].idleSince + ReclaimAfter
         /\ \A g \in lease[l].gpus : Fresh(device, g)' /\ LastListed(g)' = {}
  <1>1. Rewritten(l)
    BY EveryRowStep
    DEF RowStep, IdleReclaim, Claimed, Worked, EndedEmpty, Activated, ActiveLeaseStates
  <1>2. PICK r : /\ Sound(r) /\ lease'[l] = ReconciledLease(r, device', rows')
                 /\ \/ r = lease[l]
                    \/ r = [lease[l] EXCEPT !.state = "ACTIVE", !.bound = TRUE]
    BY <1>1 DEF Rewritten, IdleReclaim
  <1>3. /\ r.kind = "workload" /\ r.expires = None /\ r.state \in ActiveLeaseStates
        /\ r.idleSince = lease[l].idleSince /\ r.gpus = lease[l].gpus
    BY <1>2 DEF IdleReclaim, IInv, TypeOK, LeaseRecord, ActiveLeaseStates
  <1>4. /\ r.idleSince # None /\ r.idleSince \in Time /\ ~(now < r.idleSince + ReclaimAfter)
        /\ \A g \in r.gpus : Fresh(device', g) /\ Current(rows', g) = {}
    BY <1>2, <1>3, ReconciledReclaim DEF IdleReclaim
  <1>5. now >= lease[l].idleSince + ReclaimAfter
    <2>1. r.idleSince \in Nat /\ now \in Nat
      BY <1>4, TimeFacts DEF IInv, TypeOK
    <2>2. now >= r.idleSince + ReclaimAfter
      <3> HIDE DEF IInv
      <3> QED
        BY <1>4, <2>1, TimeAssumption
    <2> QED
      BY <1>3, <2>2
  <1>6. now' = now /\ lease[l].gpus \subseteq Gpu
    BY <1>1 DEF Rewritten, IInv, TypeOK, LeaseRecord
  <1> QED
    BY <1>3, <1>4, <1>5, <1>6, NextFreshIsRecent

\* A workload is granted only GPUs on which the newest complete observation
\* listed no process.
THEOREM GrantsAreEmpty == Spec => GrantOnlyObservedEmpty
  <1>1. IInv /\ [Next]_vars =>
          [\A l \in Lease :
              lease[l].state = "unissued" /\ lease'[l].kind = "workload" =>
                  \A g \in lease'[l].gpus : LastListed(g) = {}]_vars
    BY GrantStep
  <1> QED
    BY <1>1, Invariant, PTL DEF Spec, GrantOnlyObservedEmpty

\* Keepalive ownership of a GPU ends only when its newest complete
\* observation lists no process, or no longer lists the GPU.
THEOREM KeepaliveEndsSafely == Spec => KeepaliveEndsEmpty
  <1>1. IInv /\ IInv' /\ [Next]_vars =>
          [\A l \in Lease :
              /\ lease[l].kind = "keepalive" /\ lease[l].state \in ActiveLeaseStates
              /\ lease'[l].state \in TerminalLeaseStates
              => \A g \in lease[l].gpus : LastListed(g)' = {}]_vars
    BY KeepaliveEndStep
  <1> QED
    BY <1>1, Invariant, PTL DEF Spec, KeepaliveEndsEmpty

\* An idle lease is reclaimed only after the idle window, and on a fresh view
\* of all its GPUs without a process.
THEOREM ReclaimsAreEmpty == Spec => ReclaimSawEmpty
  <1>1. IInv /\ IInv' /\ [Next]_vars =>
          [\A l \in Lease : IdleReclaim(l) =>
              /\ lease[l].idleSince # None /\ now >= lease[l].idleSince + ReclaimAfter
              /\ \A g \in lease[l].gpus : Fresh(device, g)' /\ LastListed(g)' = {}]_vars
    BY ReclaimStep
  <1> QED
    BY <1>1, Invariant, PTL DEF Spec, ReclaimSawEmpty


-----------------------------------------------------------------------------
(* The broker implements the assignment of GPUs: a claim or an activation   *)
(* grants, a move moves, and everything else leaves each row as it is, for   *)
(* the assignment, or ends it.                                             *)

SameRow(l) == lease'[l].gpus = lease[l].gpus /\ StageOf(lease'[l]) = StageOf(lease[l])

OverRow(l) ==
    /\ StageOf(lease[l]) = "open" /\ StageOf(lease'[l]) = "over"
    /\ lease'[l].gpus = {}

\* In the prover's terms: the two variables of Assignment.
Owners == [g \in Gpu |-> {l \in Lease : g \in lease[l].gpus}]
Stages == [l \in Lease |-> StageOf(lease[l])]

LEMMA StageIs ==
  ASSUME NEW r, Sound(r)
  PROVE  /\ StageOf(r) = "open" <=> r.state \in ActiveLeaseStates
         /\ StageOf(r) = "over" <=> r.state \in TerminalLeaseStates
         /\ StageOf(r) = "new" <=> r.state = "unissued"
         /\ StageOf(r) = "open" <=> r.gpus # {}
         /\ r.gpus \in SUBSET Gpu
BY DEF Sound, LeaseRecord, StageOf, ActiveLeaseStates, TerminalLeaseStates

LEMMA SameOrOver ==
  ASSUME \A l \in Lease : SameRow(l) \/ OverRow(l)
  PROVE  [Assigned!Next]_Assigned!vars
<1>0. PICK L : L = {l \in Lease : OverRow(l)}
  OBVIOUS
<1>1. \A l \in Lease : OverRow(l) => ~SameRow(l)
  BY DEF OverRow, SameRow
<1>2. Owners' = [g \in Gpu |-> Owners[g] \ L]
  <2>1. \A g \in Gpu : {l \in Lease : g \in lease'[l].gpus} = {l \in Lease : g \in lease[l].gpus} \ L
    BY <1>0, <1>1 DEF SameRow, OverRow
  <2> QED
    BY <2>1 DEF Owners
<1>3. Stages' = [l \in Lease |-> IF l \in L THEN "over" ELSE Stages[l]]
  BY <1>0, <1>1 DEF Stages, SameRow, OverRow
<1>4. L \in SUBSET {l \in Lease : Stages[l] = "open"}
  BY <1>0 DEF Stages, OverRow
<1>5. CASE L = {}
  <2>1. Owners' = Owners
    BY <1>2, <1>5 DEF Owners
  <2>2. Stages' = Stages
    BY <1>3, <1>5 DEF Stages
  <2> QED
    BY <2>1, <2>2 DEF Assigned!vars, Owners, Stages
<1>6. CASE L # {}
  <2>1. Assigned!End(L)
    BY <1>2, <1>3, <1>6 DEF Assigned!End, Owners, Stages
  <2>2. L \in SUBSET Assigned!In("open")
    BY <1>4 DEF Assigned!In, Stages
  <2>3. Assigned!Next
    BY <2>1, <2>2 DEF Assigned!Next
  <2> QED
    BY <2>3
<1> QED
  BY <1>5, <1>6

\* A step that writes one row.
LEMMA OneSameOrOver ==
  ASSUME IInv, NEW l \in Lease, NEW r, Sound(r), lease' = [lease EXCEPT ![l] = r],
         \/ r.gpus = lease[l].gpus /\ StageOf(r) = StageOf(lease[l])
         \/ StageOf(lease[l]) = "open" /\ r.state \in TerminalLeaseStates
  PROVE  [Assigned!Next]_Assigned!vars
<1>1. lease'[l] = r /\ \A m \in Lease \ {l} : lease'[m] = lease[m]
  BY DEF IInv, TypeOK
<1>2. r.state \in TerminalLeaseStates => StageOf(r) = "over" /\ r.gpus = {}
  BY StageIs
<1>3. \A m \in Lease : SameRow(m) \/ OverRow(m)
  BY <1>1, <1>2 DEF SameRow, OverRow
<1> QED
  BY <1>3, SameOrOver

\* A step that writes no row.
LEMMA NoRow == ASSUME lease' = lease PROVE [Assigned!Next]_Assigned!vars
BY SameOrOver DEF SameRow

LEMMA EndedRow ==
  ASSUME IInv, NEW l \in Lease, lease[l].state \in ActiveLeaseStates,
         lease' = [lease EXCEPT ![l] = Unblocked(Ended(@, "RELEASED"))]
  PROVE  [Assigned!Next]_Assigned!vars
<1> DEFINE r == Unblocked(Ended(lease[l], "RELEASED"))
<1>1. Sound(lease[l])
  BY RowsAreSound DEF IInv, RowsSound
<1>2. Sound(r) /\ r.state = "RELEASED" /\ "RELEASED" \in TerminalLeaseStates
  BY <1>1, EndedSound DEF TerminalLeaseStates
<1>3. StageOf(lease[l]) = "open"
  BY <1>1, StageIs
<1>4. lease' = [lease EXCEPT ![l] = r]
  OBVIOUS
<1> HIDE DEF r
<1> QED
  BY <1>2, <1>3, <1>4, OneSameOrOver

\* Free GPUs come to new leases, at least one to each.
LEMMA Granted ==
  ASSUME NEW G \in SUBSET Gpu, NEW to \in [G -> Lease], G # {},
         \A g \in G : ~Owned(lease, g) /\ StageOf(lease[to[g]]) = "new" /\ lease[to[g]].gpus = {},
         \A l \in Lease :
            IF \E g \in G : to[g] = l
            THEN StageOf(lease'[l]) = "open" /\ lease'[l].gpus = {g \in G : to[g] = l}
            ELSE SameRow(l)
  PROVE  Assigned!Next
<1>1. Owners' = [g \in Gpu |-> IF g \in G THEN {to[g]} ELSE Owners[g]]
  <2>1. ASSUME NEW g \in Gpu
        PROVE  {l \in Lease : g \in lease'[l].gpus}
                 = IF g \in G THEN {to[g]} ELSE {l \in Lease : g \in lease[l].gpus}
    <3>1. ASSUME NEW l \in Lease, g \in lease'[l].gpus
          PROVE  IF g \in G THEN to[g] = l ELSE g \in lease[l].gpus
      BY <3>1 DEF SameRow, Owned
    <3>2. ASSUME NEW l \in Lease, IF g \in G THEN to[g] = l ELSE g \in lease[l].gpus
          PROVE  g \in lease'[l].gpus
      <4>1. CASE \E h \in G : to[h] = l
        <5>1. lease[l].gpus = {}
          BY <4>1
        <5> QED
          BY <3>2, <4>1, <5>1
      <4>2. CASE ~\E h \in G : to[h] = l
        BY <3>2, <4>2 DEF SameRow
      <4> QED
        BY <4>1, <4>2
    <3> QED
      BY <3>1, <3>2
  <2> QED
    BY <2>1 DEF Owners
<1>2. Stages' = [l \in Lease |-> IF \E g \in G : to[g] = l THEN "open" ELSE Stages[l]]
  BY DEF Stages, SameRow
<1>3. Assigned!Grant(G, to)
  BY <1>1, <1>2 DEF Assigned!Grant, Owners, Stages
<1>4. G \in SUBSET Assigned!Free
  BY DEF Assigned!Free, Owned
<1>5. to \in [G -> Assigned!In("new")]
  <2>1. \A g \in G : to[g] \in Assigned!In("new")
    BY DEF Assigned!In
  <2> QED
    BY <2>1
<1> QED
  BY <1>3, <1>4, <1>5 DEF Assigned!Next

LEMMA ClaimGrants ==
  ASSUME IInv, NEW l \in Lease, NEW gs \in SUBSET Gpu, NEW persistent \in BOOLEAN,
         Claim(l, gs, persistent)
  PROVE  Assigned!Next
<1>1. /\ lease'[l].state = "HELD" /\ lease'[l].gpus = gs
      /\ \A m \in Lease \ {l} : lease'[m] = lease[m]
  BY DEF IInv, TypeOK, Claim, OnlyLease, Issue, NewLease
<1>2. Sound(lease[l])
  BY RowsAreSound DEF IInv, RowsSound
<1>3. StageOf(lease[l]) = "new" /\ lease[l].gpus = {}
  BY <1>2, StageIs DEF Claim
<1>4. StageOf(lease'[l]) = "open"
  BY <1>1 DEF StageOf, ActiveLeaseStates
<1>5. PICK to \in [gs -> Lease] : \A g \in gs : to[g] = l
  <2>1. [g \in gs |-> l] \in [gs -> Lease]
    OBVIOUS
  <2> QED
    BY <2>1
<1>6. gs # {} /\ \A g \in gs : ~Owned(lease, g)
  BY DEF Claim, Eligible
<1>7. \A m \in Lease \ {l} : SameRow(m)
  BY <1>1 DEF SameRow
<1>8. \A m \in Lease : IF \E g \in gs : to[g] = m
                       THEN StageOf(lease'[m]) = "open" /\ lease'[m].gpus = {g \in gs : to[g] = m}
                       ELSE SameRow(m)
  BY <1>1, <1>4, <1>5, <1>6, <1>7
<1> QED
  BY <1>3, <1>5, <1>6, <1>8, Granted

\* An activation grants the GPUs that have no lease, each to one of its own.
LEMMA ActivationGrants ==
  ASSUME IInv, NEW e \in Endpoint, NEW barrier \in Barriers, NEW gs \in SUBSET Gpu,
         NEW ids \in [gs -> Lease], ActivateKeepalives(e, gs, ids, barrier)
  PROVE  [Assigned!Next]_Assigned!vars
<1>0. RowsSound /\ lease \in [Lease -> LeaseRecord]
  BY RowsAreSound DEF IInv, TypeOK
<1>1. PICK G : G = {g \in gs : ~Owned(lease, g)}
  OBVIOUS
<1>2. ASSUME NEW g \in gs
      PROVE  lease'[ids[g]] = IF Owned(lease, g)
                              THEN [lease[ids[g]] EXCEPT !.state = "ACTIVE", !.expires = None]
                              ELSE Issue("keepalive", "ACTIVE", {g}, None)
  <2>1. (CHOOSE h \in gs : ids[h] = ids[g]) = g
    BY DEF ActivateKeepalives
  <2> QED
    BY <2>1 DEF ActivateKeepalives
<1>3. ASSUME NEW g \in gs, Owned(lease, g)
      PROVE  SameRow(ids[g])
  <2>1. lease[ids[g]].gpus = {g}
    BY <1>3 DEF ActivateKeepalives
  <2>2. StageOf(lease[ids[g]]) = "open"
    BY <1>0, <2>1, StageIs DEF RowsSound
  <2>3. lease'[ids[g]].state = "ACTIVE" /\ lease'[ids[g]].gpus = lease[ids[g]].gpus
    BY <1>0, <1>2, <1>3 DEF LeaseRecord
  <2> QED
    BY <2>2, <2>3 DEF SameRow, StageOf, ActiveLeaseStates
<1>4. ASSUME NEW g \in G
      PROVE  /\ StageOf(lease[ids[g]]) = "new" /\ lease[ids[g]].gpus = {}
             /\ StageOf(lease'[ids[g]]) = "open" /\ lease'[ids[g]].gpus = {h \in G : ids[h] = ids[g]}
  <2>1. lease[ids[g]].state = "unissued" /\ Sound(lease[ids[g]])
    BY <1>0, <1>1 DEF ActivateKeepalives, RowsSound
  <2>2. lease'[ids[g]].state = "ACTIVE" /\ lease'[ids[g]].gpus = {g}
    BY <1>1, <1>2 DEF Issue, NewLease
  <2>3. {h \in G : ids[h] = ids[g]} = {g}
    BY <1>1 DEF ActivateKeepalives
  <2>4. StageOf(lease'[ids[g]]) = "open"
    BY <2>2 DEF StageOf, ActiveLeaseStates
  <2>5. StageOf(lease[ids[g]]) = "new" /\ lease[ids[g]].gpus = {}
    BY <2>1, StageIs
  <2> QED
    BY <2>2, <2>3, <2>4, <2>5
<1>5. ASSUME NEW l \in Lease, \A g \in gs : ids[g] # l
      PROVE  SameRow(l)
  BY <1>5 DEF ActivateKeepalives, SameRow
<1>6. \A l \in Lease : (\E g \in G : ids[g] = l) \/ SameRow(l)
  BY <1>1, <1>3, <1>5
<1>7. CASE G = {}
  BY <1>6, <1>7, SameOrOver
<1>8. CASE G # {}
  <2>1. PICK to \in [G -> Lease] : \A g \in G : to[g] = ids[g]
    <3>1. [g \in G |-> ids[g]] \in [G -> Lease]
      BY <1>1
    <3> QED
      BY <3>1
  <2>2. \A l \in Lease : IF \E g \in G : to[g] = l
                         THEN StageOf(lease'[l]) = "open" /\ lease'[l].gpus = {g \in G : to[g] = l}
                         ELSE SameRow(l)
    <3> TAKE l \in Lease
    <3>1. CASE \E g \in G : ids[g] = l
      <4>1. {g \in G : to[g] = l} = {g \in G : ids[g] = l}
        BY <2>1
      <4> QED
        BY <1>4, <2>1, <3>1, <4>1
    <3> QED
      BY <1>6, <2>1, <3>1
  <2>3. \A g \in G : ~Owned(lease, g) /\ StageOf(lease[to[g]]) = "new" /\ lease[to[g]].gpus = {}
    BY <1>1, <1>4, <2>1
  <2>4. G \in SUBSET Gpu
    BY <1>1
  <2>5. Assigned!Next
    BY <1>8, <2>1, <2>2, <2>3, <2>4, Granted
  <2> QED
    BY <2>5
<1> QED
  BY <1>7, <1>8

LEMMA ReassignMoves ==
  ASSUME IInv, NEW l \in Lease, NEW gs \in SUBSET Gpu, Reassign(l, gs)
  PROVE  Assigned!Next
<1>1. lease'[l] = [lease[l] EXCEPT !.gpus = gs, !.bound = FALSE] /\ lease[l] \in LeaseRecord
  BY DEF IInv, TypeOK, Reassign, OnlyLease
<1>2. /\ lease'[l].state = lease[l].state /\ lease'[l].gpus = gs
      /\ \A m \in Lease \ {l} : lease'[m] = lease[m]
  <2>1. \A m \in Lease \ {l} : lease'[m] = lease[m]
    BY DEF IInv, TypeOK, Reassign, OnlyLease
  <2> QED
    BY <1>1, <2>1 DEF LeaseRecord
<1>3. Owners' = [g \in Gpu |-> IF g \in gs THEN {l} ELSE Owners[g] \ {l}]
  <2>1. \A m \in Lease \ {l} : lease[m].gpus \cap gs = {}
    BY DEF Reassign
  <2>2. ASSUME NEW g \in Gpu
        PROVE  {m \in Lease : g \in lease'[m].gpus}
                 = IF g \in gs THEN {l} ELSE {m \in Lease : g \in lease[m].gpus} \ {l}
    BY <1>2, <2>1
  <2> QED
    BY <2>2 DEF Owners
<1>4. Stages' = Stages
  BY <1>2 DEF Stages, StageOf
<1>5. \A g \in gs : Owners[g] \subseteq {l}
  BY DEF Reassign, Owners
<1>6. Assigned!GpusOfLease(l) = lease[l].gpus
  BY <1>1 DEF Assigned!GpusOfLease, LeaseRecord
<1>7. Assigned!Cardinality(gs) = Assigned!Cardinality(lease[l].gpus)
  BY DEF Reassign, Assigned!Cardinality, Cardinality, Assigned!IsFiniteSet, IsFiniteSet
<1>8. Assigned!Move(l, gs)
  BY <1>3, <1>4, <1>5, <1>6, <1>7 DEF Assigned!Move, Owners, Stages
<1>9. l \in Assigned!In("open")
  BY DEF Assigned!In, Reassign, StageOf, ActiveLeaseStates
<1> QED
  BY <1>8, <1>9 DEF Assigned!Next

\* Reconciliation ends an open row or leaves it open, and wakes no other.
LEMMA ReconciledStage ==
  ASSUME now \in Time, NEW r, Sound(r), NEW dev, NEW rw
  PROVE  LET s == ReconciledLease(r, dev, rw) IN
         \/ s.gpus = r.gpus /\ StageOf(s) = StageOf(r)
         \/ StageOf(r) = "open" /\ StageOf(s) = "over" /\ s.gpus = {}
<1> DEFINE s == ReconciledLease(r, dev, rw)
           i == IdleTracked(r, dev, rw)
<1>1. /\ Sound(s) /\ Shrinks(r, s)
      /\ r.kind = "keepalive" => s.gpus = r.gpus /\ s.state = r.state
  BY ReconciledLeaseSound
<1>2. r.kind \in {"workload", "keepalive"}
  BY DEF Sound, LeaseRecord
<1>3. CASE r.state \notin ActiveLeaseStates \/ r.kind = "keepalive" \/ r.state = "ORPHANED_BUSY"
  <2>1. s.state = r.state
    BY <1>1, <1>3, SweptSound DEF ReconciledLease
  <2> HIDE DEF s
  <2>2. StageOf(s) = StageOf(r)
    BY <2>1 DEF StageOf
  <2>3. s.gpus = r.gpus
    BY <1>1, <2>2, StageIs DEF Shrinks
  <2> QED
    BY <2>2, <2>3 DEF s
<1>4. CASE /\ r.state \in ActiveLeaseStates /\ r.kind = "workload" /\ r.state # "ORPHANED_BUSY"
  <2>1. r.state \in {"HELD", "ACTIVE"}
    BY <1>4 DEF ActiveLeaseStates
  <2>2. s = Swept(Expired(i, rw))
    BY <1>4 DEF ReconciledLease
  <2>3. i.state = "EXPIRED_EMPTY" \/ i.state = r.state
    BY <1>4, <2>1, IdleTrackedSound
  <2> HIDE DEF i
  <2>4. Expired(i, rw).state \in {"ORPHANED_BUSY", "EXPIRED_EMPTY", "HELD", "ACTIVE"}
    <3>1. /\ Ended(i, "EXPIRED_EMPTY").state = "EXPIRED_EMPTY"
      BY DEF Ended, NewLease
    <3>2. Sound(i) /\ i.state \in {"EXPIRED_EMPTY", "HELD", "ACTIVE"}
      BY <1>4, <2>1, <2>3, IdleTrackedSound DEF i
    <3>3. [i EXCEPT !.state = "ORPHANED_BUSY", !.alerts = @ \cup {"orphaned_busy"}].state = "ORPHANED_BUSY"
      BY <3>2 DEF Sound, LeaseRecord
    <3> QED
      BY <3>1, <3>2, <3>3 DEF Expired
  <2>5. Swept(Expired(i, rw)).state = Expired(i, rw).state
    <3>1. \A q : Unblocked(q).state = q.state
      BY DEF Unblocked
    <3> QED
      BY <3>1 DEF Swept
  <2>6. s.state # "unissued"
    BY <2>2, <2>4, <2>5
  <2> HIDE DEF s
  <2>7. StageOf(s) \in {"open", "over"} /\ StageOf(r) = "open"
    BY <1>4, <2>6 DEF StageOf, ActiveLeaseStates
  <2>8. StageOf(s) = "open" => s.gpus = r.gpus
    BY <1>1, StageIs DEF Shrinks
  <2>9. StageOf(s) = "over" => s.gpus = {}
    BY <1>1, StageIs
  <2> QED
    BY <2>7, <2>8, <2>9 DEF s
<1> HIDE DEF s, i
<1> QED
  BY <1>2, <1>3, <1>4 DEF s

\* So does an observation or a reconciliation, row by row.
LEMMA RewrittenStage ==
  ASSUME IInv, NEW l \in Lease, Rewritten(l)
  PROVE  SameRow(l) \/ OverRow(l)
<1>1. PICK r : /\ Sound(r) /\ Shrinks(lease[l], r)
               /\ lease'[l] = ReconciledLease(r, device', rows')
               /\ \/ r = lease[l]
                  \/ /\ lease[l].kind = "workload"
                     /\ r = [lease[l] EXCEPT !.state = "ACTIVE", !.bound = TRUE]
                  \/ /\ lease[l].kind = "keepalive"
                     /\ lease[l].state \in ActiveLeaseStates /\ r.state = "RELEASED"
                     /\ \A g \in lease[l].gpus : device'[g].status # "present"
  BY DEF Rewritten
<1>2. Sound(lease[l]) /\ now \in Time
  BY RowsAreSound DEF IInv, TypeOK, RowsSound
<1>3. \/ lease'[l].gpus = r.gpus /\ StageOf(lease'[l]) = StageOf(r)
      \/ StageOf(r) = "open" /\ StageOf(lease'[l]) = "over" /\ lease'[l].gpus = {}
  BY <1>1, <1>2, ReconciledStage
<1>4. CASE r = lease[l]
  BY <1>3, <1>4 DEF SameRow, OverRow
<1>5. CASE r = [lease[l] EXCEPT !.state = "ACTIVE", !.bound = TRUE]
  <2>1. r.state = "ACTIVE" /\ r.gpus = lease[l].gpus
    BY <1>2, <1>5 DEF Sound, LeaseRecord
  <2>2. StageOf(r) = "open"
    BY <2>1 DEF StageOf, ActiveLeaseStates
  <2>3. StageOf(lease[l]) = "open"
    BY <1>1, <1>2, <2>1, <2>2, StageIs
  <2> QED
    BY <1>3, <2>1, <2>2, <2>3 DEF SameRow, OverRow
<1>6. CASE lease[l].state \in ActiveLeaseStates /\ r.state = "RELEASED"
  <2>1. StageOf(r) = "over" /\ r.gpus = {}
    BY <1>1, <1>6, StageIs DEF TerminalLeaseStates
  <2>2. StageOf(lease[l]) = "open"
    BY <1>6 DEF StageOf, ActiveLeaseStates
  <2> QED
    BY <1>3, <2>1, <2>2 DEF OverRow
<1> QED
  BY <1>1, <1>4, <1>5, <1>6

LEMMA AgentAssigns == ASSUME IInv, AgentStep PROVE [Assigned!Next]_Assigned!vars
<1>0. RowsSound /\ lease \in [Lease -> LeaseRecord]
  BY RowsAreSound DEF IInv, TypeOK
<1>1. PICK l \in Lease :
         \/ \E gs \in SUBSET Gpu, persistent \in BOOLEAN : Claim(l, gs, persistent)
         \/ Activate(l) \/ Bind(l) \/ BindObserved(l) \/ Renew(l) \/ Release(l)
  BY DEF AgentStep
<1>2. CASE \E gs \in SUBSET Gpu, persistent \in BOOLEAN : Claim(l, gs, persistent)
  BY <1>2, ClaimGrants
<1>3. CASE Activate(l) \/ Bind(l) \/ BindObserved(l) \/ Renew(l)
  <2>1. /\ lease[l].state \in {"HELD", "ACTIVE"}
        /\ lease'[l].state \in {"HELD", "ACTIVE"} /\ lease'[l].gpus = lease[l].gpus
        /\ \A m \in Lease \ {l} : lease'[m] = lease[m]
    BY <1>0, <1>3 DEF Activate, Bind, BindObserved, Renew, OnlyLease, LeaseRecord
  <2>2. SameRow(l)
    BY <2>1 DEF SameRow, StageOf, ActiveLeaseStates
  <2>3. \A m \in Lease : SameRow(m)
    BY <2>1, <2>2 DEF SameRow
  <2> QED
    BY <2>3, SameOrOver
<1>4. CASE Release(l)
  BY <1>4, EndedRow DEF Release, OnlyLease
<1> QED
  BY <1>1, <1>2, <1>3, <1>4

LEMMA OperatorAssigns == ASSUME IInv, OperatorStep PROVE [Assigned!Next]_Assigned!vars
<1>1. CASE \E l \in Lease, gs \in SUBSET Gpu : Reassign(l, gs)
  BY <1>1, ReassignMoves
<1>2. CASE \E e \in Endpoint, l \in Lease, barrier \in 0 .. now : ReleaseEmpty(e, l, barrier)
  BY <1>2, EndedRow DEF ReleaseEmpty, OnlyLease
<1>3. CASE Reconcile
  <2>1. \A l \in Lease : SameRow(l) \/ OverRow(l)
    BY <1>3, ReconcileRewrites, RewrittenStage
  <2> QED
    BY <2>1, SameOrOver
<1>4. CASE \/ \E e \in Endpoint, state \in Lifecycles : SetLifecycle(e, state)
           \/ \E e \in Endpoint, policy \in Policies : ConfigurePolicy(e, policy)
  BY <1>4, NoRow DEF SetLifecycle, ConfigurePolicy
<1> QED
  BY <1>1, <1>2, <1>3, <1>4 DEF OperatorStep

LEMMA ControllerAssigns == ASSUME IInv, ControllerStep PROVE [Assigned!Next]_Assigned!vars
<1>1. CASE \E e \in Endpoint, barrier \in Barriers, gs \in SUBSET Gpu :
              \E ids \in [gs -> Lease] : ActivateKeepalives(e, gs, ids, barrier)
  BY <1>1, ActivationGrants
<1>2. CASE \E e \in Endpoint, barrier \in Barriers, l \in Lease : FinalizeStop(e, l, barrier)
  BY <1>2, EndedRow DEF FinalizeStop
<1>3. CASE \E e \in Endpoint, gs \in SUBSET Faulty : KeepaliveError(e, gs)
  BY <1>3, NoRow DEF KeepaliveError
<1> QED
  BY <1>1, <1>2, <1>3 DEF ControllerStep

LEMMA CollectorAssigns == ASSUME IInv, CollectorStep PROVE [Assigned!Next]_Assigned!vars
<1>1. CASE \E e \in Endpoint : Observe(e)
  <2>1. \A l \in Lease : SameRow(l) \/ OverRow(l)
    BY <1>1, ObserveRewrites, RewrittenStage
  <2> QED
    BY <2>1, SameOrOver
<1>2. CASE \E e \in Endpoint : ProviderFailure(e)
  BY <1>2, NoRow DEF ProviderFailure
<1> QED
  BY <1>1, <1>2 DEF CollectorStep

LEMMA EveryStepAssigns == IInv /\ [Next]_vars => [Assigned!Next]_Assigned!vars
<1> SUFFICES ASSUME IInv, [Next]_vars PROVE [Assigned!Next]_Assigned!vars
  OBVIOUS
<1>1. CASE Tick \/ UNCHANGED vars
  BY <1>1, NoRow DEF Tick, vars
<1> QED
  BY <1>1, AgentAssigns, OperatorAssigns, ControllerAssigns, CollectorAssigns DEF Next

LEMMA NothingAssigned == Init => Assigned!Init
<1> SUFFICES ASSUME Init PROVE Assigned!Init
  OBVIOUS
<1>1. \A l \in Lease : lease[l].gpus = {} /\ StageOf(lease[l]) = "new"
  BY DEF Init, NewLease, StageOf
<1>2. Owners = [g \in Gpu |-> {}]
  BY <1>1 DEF Owners
<1>3. Stages = [l \in Lease |-> "new"]
  BY <1>1 DEF Stages
<1> QED
  BY <1>2, <1>3 DEF Assigned!Init, Owners, Stages

\* Whatever agents, operators, the controller and observations do, in any order,
\* the table of leases implements the assignment of GPUs: free GPUs come to new
\* leases, an open lease keeps what it has until it ends or is moved to as many
\* free ones, and an ended lease never owns a GPU again (_allocate_queued,
\* activate_keepalives, reassign_lease_gpus, _reconcile_leases).
THEOREM ImplementsAssignment == Spec => AssignmentImplemented
  BY NothingAssigned, EveryStepAssigns, Invariant, PTL DEF Spec, AssignmentImplemented, Assigned!Spec

LEMMA OneOwnerStep == Assigned!OneOwner /\ [Assigned!Next]_Assigned!vars => Assigned!OneOwner'
<1> SUFFICES ASSUME Assigned!OneOwner, [Assigned!Next]_Assigned!vars
             PROVE  \A g \in Gpu : \A l, m \in Owners'[g] : l = m /\ Stages'[l] = "open"
  BY DEF Assigned!OneOwner, Owners, Stages
<1>1. \A g \in Gpu : Owners[g] \in SUBSET Lease /\ \A l, m \in Owners[g] : l = m /\ Stages[l] = "open"
  BY DEF Assigned!OneOwner, Owners, Stages
<1>2. ASSUME NEW G \in SUBSET Gpu, NEW to \in [G -> Lease], Assigned!Grant(G, to)
      PROVE  \A g \in Gpu : \A l, m \in Owners'[g] : l = m /\ Stages'[l] = "open"
  <2>1. /\ Owners' = [g \in Gpu |-> IF g \in G THEN {to[g]} ELSE Owners[g]]
        /\ Stages' = [l \in Lease |-> IF \E g \in G : to[g] = l THEN "open" ELSE Stages[l]]
    BY <1>2 DEF Assigned!Grant, Owners, Stages
  <2> QED
    BY <1>1, <2>1
<1>3. ASSUME NEW l \in Lease, NEW G \in SUBSET Gpu, Stages[l] = "open", Assigned!Move(l, G)
      PROVE  \A g \in Gpu : \A k, m \in Owners'[g] : k = m /\ Stages'[k] = "open"
  <2>1. /\ Owners' = [g \in Gpu |-> IF g \in G THEN {l} ELSE Owners[g] \ {l}]
        /\ Stages' = Stages
    BY <1>3 DEF Assigned!Move, Owners, Stages
  <2> QED
    BY <1>1, <1>3, <2>1
<1>4. ASSUME NEW L \in SUBSET Lease, Assigned!End(L)
      PROVE  \A g \in Gpu : \A l, m \in Owners'[g] : l = m /\ Stages'[l] = "open"
  <2>1. /\ Owners' = [g \in Gpu |-> Owners[g] \ L]
        /\ Stages' = [l \in Lease |-> IF l \in L THEN "over" ELSE Stages[l]]
    BY <1>4 DEF Assigned!End, Owners, Stages
  <2> QED
    BY <1>1, <2>1
<1>5. CASE UNCHANGED Assigned!vars
  <2>1. Owners' = Owners /\ Stages' = Stages
    BY <1>5 DEF Assigned!vars, Owners, Stages
  <2> QED
    BY <1>1, <2>1
<1>6. CASE Assigned!Next
  <2>1. /\ Assigned!Free \in SUBSET Gpu /\ Assigned!In("new") \in SUBSET Lease
        /\ Assigned!In("open") = {l \in Lease : Stages[l] = "open"}
    BY DEF Assigned!Free, Assigned!In, Stages
  <2>2. CASE \E G \in SUBSET Assigned!Free : \E to \in [G -> Assigned!In("new")] : Assigned!Grant(G, to)
    BY <1>2, <2>1, <2>2
  <2>3. CASE \E l \in Assigned!In("open"), G \in SUBSET Gpu : Assigned!Move(l, G)
    BY <1>3, <2>1, <2>3
  <2>4. CASE \E L \in SUBSET Assigned!In("open") : Assigned!End(L)
    BY <1>4, <2>1, <2>4
  <2> QED
    BY <1>6, <2>2, <2>3, <2>4 DEF Assigned!Next
<1> QED
  BY <1>5, <1>6

\* What is promised is what uq_active_lease_resource_gpu asks for: a GPU has one
\* owner at most, and an open one.
THEOREM OpenOwners == AssignmentImplemented => []Assigned!OneOwner
<1>1. Assigned!Init => Assigned!OneOwner
  <2> SUFFICES ASSUME Assigned!Init
               PROVE  \A g \in Gpu : \A l, m \in Owners[g] : l = m /\ Stages[l] = "open"
    BY DEF Assigned!OneOwner, Owners, Stages
  <2>1. Owners = [g \in Gpu |-> {}]
    BY DEF Assigned!Init, Owners
  <2> QED
    BY <2>1
<1> QED
  BY <1>1, OneOwnerStep, PTL DEF AssignmentImplemented, Assigned!Spec
=============================================================================
