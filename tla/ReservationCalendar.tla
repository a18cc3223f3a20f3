------------------------- MODULE ReservationCalendar -------------------------
(***************************************************************************)
(* Reservations and maintenance windows of GPUs, against the leases that    *)
(* hold them (service.py).                                                 *)
(*                                                                         *)
(* A reservation blocks its GPUs for a half-open interval of time.  It is   *)
(* kept apart from leases by checks at both sides: when it is made, and     *)
(* when a lease is claimed or renewed.  A move of a lease, the start of a   *)
(* keepalive worker and a new maintenance window look at no calendar.       *)
(* Whether a GPU is fit for a claim in all other respects is LeaseBroker's  *)
(* matter: any operation may be refused here.                              *)
(***************************************************************************)
EXTENDS Naturals, FiniteSets

CONSTANTS
    Gpu,
    Lease,          \* bound: leases at a time
    Booking,        \* bound: reservations at a time
    Repair,         \* bound: maintenance windows
    Duration,       \* lengths of time a claim may ask for
    Shortest,       \* the shortest renewal
    Last,           \* bound: the last time
    Furthest,       \* bound: the latest expiry of a lease
    Never           \* the expiry of a lease without an end

ASSUME CalendarAssumption ==
    /\ Duration \subseteq Nat /\ Shortest \in Nat \ {0} /\ Last \in Nat /\ Furthest \in Nat
    /\ Never \notin Nat /\ IsFiniteSet(Gpu)

VARIABLES
    now,
    lease,
    reservation,
    maintenance,
    moved           \* history: leases that were moved to other GPUs

vars == <<now, lease, reservation, maintenance, moved>>

\* "open" is HELD or ACTIVE; "stuck" is ORPHANED_BUSY or CONFLICT.
Open == {"open", "stuck"}

LeaseRecord == [state : {"none"} \cup Open, kind : {"workload", "keepalive"},
                gpus : SUBSET Gpu, issued : Nat, asked : Nat, expires : Nat \cup {Never}]

\* A window of no GPU stands for none.
Window == [gpus : SUBSET Gpu, start : Nat, end : Nat]

TypeOK ==
    /\ now \in Nat
    /\ lease \in [Lease -> LeaseRecord]
    /\ \A l \in Lease : lease[l].state = "none" <=> lease[l].gpus = {}
    /\ reservation \in [Booking -> Window] /\ maintenance \in [Repair -> Window]
    /\ moved \subseteq Lease

NoWindow == [gpus |-> {}, start |-> 0, end |-> 0]

NoLease == [state |-> "none", kind |-> "workload", gpus |-> {},
            issued |-> 0, asked |-> 0, expires |-> Never]

Init ==
    /\ now = 0
    /\ lease = [l \in Lease |-> NoLease]
    /\ reservation = [b \in Booking |-> NoWindow] /\ maintenance = [m \in Repair |-> NoWindow]
    /\ moved = {}

Calendar == <<reservation, maintenance>>

-----------------------------------------------------------------------------
(* Who holds a GPU, and when *)

Held(g) == \E l \in Lease : g \in lease[l].gpus

\* Defect: only a reservation that begins inside the interval is seen.
BeginsIn(w, start, end) == start <= w.start /\ w.start < end

Overlaps(w, start, end) == w.start < end /\ w.end > start

\* Some ACTIVE reservation of g falls into the interval.
Reserved(g, start, end) ==
    \E b \in Booking : g \in reservation[b].gpus /\ Overlaps(reservation[b], start, end)

InMaintenance(g) ==
    \E m \in Repair : /\ g \in maintenance[m].gpus
                      /\ maintenance[m].start <= now /\ now < maintenance[m].end

\* Until when the broker has looked into the calendar for a lease.
Until(r) == IF r.expires = Never THEN r.issued + r.asked ELSE r.expires

-----------------------------------------------------------------------------
(* Reservations and maintenance *)

\* A reservation may begin in the past.  Chosen by constraints or named, its
\* GPUs meet the same checks.
Reserve(b, G, start, end) ==
    /\ reservation[b].gpus = {} /\ G # {} /\ start < end
    /\ \A g \in G :
          /\ ~Reserved(g, start, end)
          /\ \A l \in Lease : g \in lease[l].gpus
                => lease[l].expires # Never /\ lease[l].expires <= start
    /\ reservation' = [reservation EXCEPT ![b] = [gpus |-> G, start |-> start, end |-> end]]
    /\ UNCHANGED <<now, lease, maintenance, moved>>

CancelReservation(b) ==
    /\ reservation[b].gpus # {}
    /\ reservation' = [reservation EXCEPT ![b] = NoWindow]
    /\ UNCHANGED <<now, lease, maintenance, moved>>

\* Of one GPU, or of all GPUs of a server.
Maintain(m, G, start, end) ==
    /\ maintenance[m].gpus = {} /\ G # {} /\ start < end
    /\ maintenance' = [maintenance EXCEPT ![m] = [gpus |-> G, start |-> start, end |-> end]]
    /\ UNCHANGED <<now, lease, reservation, moved>>

-----------------------------------------------------------------------------
(* Leases *)

Given(kind, G, asked, expires) ==
    [state |-> "open", kind |-> kind, gpus |-> G, issued |-> now, asked |-> asked,
     expires |-> expires]

\* The end of a persistent lease is taken away after the checks.
Claim(l, G, asked, persistent) ==
    /\ lease[l].state = "none" /\ G # {}
    /\ \A g \in G : /\ ~Held(g) /\ ~InMaintenance(g)
                    /\ ~Reserved(g, now, now + 1) /\ ~Reserved(g, now, now + asked)
    /\ lease' = [lease EXCEPT ![l] =
                    Given("workload", G, asked, IF persistent THEN Never ELSE now + asked)]
    /\ UNCHANGED <<now, Calendar, moved>>

Keep(l, g) ==
    /\ lease[l].state = "none" /\ ~Held(g)
    /\ lease' = [lease EXCEPT ![l] = Given("keepalive", {g}, 0, Never)]
    /\ UNCHANGED <<now, Calendar, moved>>

Longer(a, b) == IF a >= b THEN a ELSE b

\* The length from the issue of the lease to its end, or to now without one,
\* is added to its end.
Renewed(r) ==
    LET end == IF r.expires = Never THEN now ELSE r.expires
        length == IF end <= r.issued + Shortest THEN Shortest ELSE end - r.issued
    IN  Longer(end, now) + length

\* Defect: the time the lease already has is looked up in the calendar.
RenewBlindly(l) ==
    LET r == lease[l] IN
    /\ r.state = "open" /\ r.kind = "workload" /\ Renewed(r) <= Furthest
    /\ \A g \in r.gpus : ~Reserved(g, now, Until(r))
    /\ lease' = [lease EXCEPT ![l].expires = Renewed(r)]
    /\ UNCHANGED <<now, Calendar, moved>>

Renew(l) ==
    LET r == lease[l] IN
    /\ r.state = "open" /\ r.kind = "workload" /\ Renewed(r) <= Furthest
    /\ \A g \in r.gpus : ~Reserved(g, now, Renewed(r))
    /\ lease' = [lease EXCEPT ![l].expires = Renewed(r)]
    /\ UNCHANGED <<now, Calendar, moved>>

\* The GPUs need only be free of other leases.
Move(l, G) ==
    LET r == lease[l] IN
    /\ r.state \in Open /\ r.kind = "workload"
    /\ Cardinality(G) = Cardinality(r.gpus)
    /\ \A g \in G \ r.gpus : ~Held(g)
    /\ lease' = [lease EXCEPT ![l].gpus = G]
    /\ moved' = moved \cup {l}
    /\ UNCHANGED <<now, Calendar>>

Ended(l) ==
    /\ lease' = [lease EXCEPT ![l] = NoLease]
    /\ moved' = moved \ {l}

\* By its holder, by the operator, or the end of a keepalive worker.
Release(l) ==
    /\ lease[l].state \in Open
    /\ Ended(l)
    /\ UNCHANGED <<now, Calendar>>

Overdue(r) == r.state = "open" /\ r.expires # Never /\ r.expires <= now

\* Defect: the GPUs of an expired lease are not given back.
SweepKeepsGpus(l) ==
    /\ Overdue(lease[l])
    /\ lease' = [lease EXCEPT ![l].state = "none"]
    /\ UNCHANGED <<now, Calendar, moved>>

\* The sweep ends an overdue lease, or keeps it as long as processes remain.
Sweep(l) ==
    /\ \/ Overdue(lease[l]) /\ lease' = [lease EXCEPT ![l].state = "stuck"] /\ UNCHANGED moved
       \/ (Overdue(lease[l]) \/ lease[l].state = "stuck") /\ Ended(l)
    /\ UNCHANGED <<now, Calendar>>

Tick ==
    /\ now < Last /\ now' = now + 1
    /\ UNCHANGED <<lease, Calendar, moved>>

Next ==
    \/ \E b \in Booking, G \in SUBSET Gpu, start, end \in 0 .. Last + 1 :
          Reserve(b, G, start, end)
    \/ \E m \in Repair, G \in SUBSET Gpu, start, end \in 0 .. Last + 1 :
          Maintain(m, G, start, end)
    \/ \E b \in Booking : CancelReservation(b)
    \/ \E l \in Lease, G \in SUBSET Gpu, d \in Duration, p \in BOOLEAN : Claim(l, G, d, p)
    \/ \E l \in Lease, g \in Gpu : Keep(l, g)
    \/ \E l \in Lease, G \in SUBSET Gpu : Move(l, G)
    \/ \E l \in Lease : Renew(l) \/ Release(l) \/ Sweep(l)
    \/ Tick

Spec == Init /\ [][Next]_vars

-----------------------------------------------------------------------------
(* Properties *)

\* No two reservations have a GPU at the same time (create_reservation).
ReservationsAreDisjoint ==
    \A a, b \in Booking :
        /\ a # b /\ reservation[a].gpus \cap reservation[b].gpus # {}
        => ~Overlaps(reservation[a], reservation[b].start, reservation[b].end)

\* In whatever order leases are claimed, renewed and reservations made: a
\* reservation of a GPU that a lease holds is over, or begins after the time
\* the lease was given.  Leases that were moved are excepted
\* (create_reservation, _eligible_gpus, renew_lease).
LeasesKeepClear ==
    \A l \in Lease \ moved, b \in Booking :
        /\ lease[l].kind = "workload" /\ lease[l].gpus \cap reservation[b].gpus # {}
        => reservation[b].end <= now \/ reservation[b].start >= Until(lease[l])
=============================================================================
