---------------------------- MODULE InventoryProofs ----------------------------
(***************************************************************************)
(* Theorems about the calendar of GPUs and about the inventory of servers,  *)
(* for every set of GPUs, leases, reservations and servers, all times, and  *)
(* every inventory file whose entries the configuration accepts.            *)
(*                                                                         *)
(* The calendar: the conjunction of the three invariants is inductive.      *)
(* Reservations stay apart because a new one is compared with all others,   *)
(* and leases keep clear because whoever comes second, lease or             *)
(* reservation, is compared with the first, and time only moves forward.    *)
(*                                                                         *)
(* The inventory: the argument is about rows.  Every writer but Delete      *)
(* leaves a row behind that is one, and Delete looks for everything that    *)
(* may stand on a server.                                                  *)
(***************************************************************************)
EXTENDS MCInventory, FiniteSetTheorems, TLAPS

Inv == TypeOK /\ ReservationsAreDisjoint /\ LeasesKeepClear

Apart(w, start, end) == w.end <= start \/ w.start >= end

\* Two intervals that do not overlap lie one after the other.
LEMMA NotOverlapping ==
    ASSUME NEW w \in Window, NEW start \in Nat, NEW end \in Nat
    PROVE  ~Overlaps(w, start, end) <=> Apart(w, start, end)
BY SMT DEF Overlaps, Apart, Window

\* The time a lease is given is a time.
LEMMA UntilType == ASSUME NEW r \in LeaseRecord PROVE Until(r) \in Nat
BY CalendarAssumption, SMT DEF Until, LeaseRecord

\* The end of a renewal is a time not before now.
LEMMA RenewedType ==
    ASSUME NEW r \in LeaseRecord, now \in Nat
    PROVE  Renewed(r) \in Nat
<1> DEFINE end == IF r.expires = Never THEN now ELSE r.expires
           length == IF end <= r.issued + Shortest THEN Shortest ELSE end - r.issued
<1>1. end \in Nat /\ r.issued \in Nat
  BY SMT DEF LeaseRecord
<1> HIDE DEF end
<1>2. length \in Nat
  BY <1>1, CalendarAssumption, SMT
<1> HIDE DEF length
<1>3. Longer(end, now) + length \in Nat
  BY <1>1, <1>2, SMT DEF Longer
<1> QED
  BY <1>3 DEF Renewed, end, length

LEMMA InitInv == Init => Inv
<1> SUFFICES ASSUME Init PROVE Inv
  OBVIOUS
<1>1. TypeOK
  BY CalendarAssumption, SMT DEF Init, TypeOK, NoLease, NoWindow, LeaseRecord, Window, Open
<1>2. ReservationsAreDisjoint /\ LeasesKeepClear
  BY DEF Init, ReservationsAreDisjoint, LeasesKeepClear, NoLease, NoWindow
<1> QED
  BY <1>1, <1>2 DEF Inv

-----------------------------------------------------------------------------
(* The steps.  Each keeps the types, the reservations and the leases apart. *)

\* A step that leaves reservations and time alone keeps what it must about a
\* lease it does not touch.
LEMMA OthersKeepClear ==
    ASSUME Inv, UNCHANGED <<now, reservation>>, NEW l \in Lease, lease'[l] = lease[l],
           l \notin moved' => l \notin moved, NEW b \in Booking, l \notin moved',
           lease'[l].kind = "workload", lease'[l].gpus \cap reservation'[b].gpus # {}
    PROVE  reservation'[b].end <= now' \/ reservation'[b].start >= Until(lease'[l])
BY DEF Inv, LeasesKeepClear

LEMMA ReserveStep ==
    ASSUME Inv, NEW b \in Booking, NEW G \in SUBSET Gpu,
           NEW start \in Nat, NEW end \in Nat, Reserve(b, G, start, end)
    PROVE  Inv'
<1>1. TypeOK'
  BY SMT DEF Inv, TypeOK, Reserve, Window
<1> DEFINE w == [gpus |-> G, start |-> start, end |-> end]
<1>2. /\ w \in Window /\ reservation'[b] = w
      /\ \A a \in Booking \ {b} : reservation'[a] = reservation[a]
      /\ \A a \in Booking : reservation[a] \in Window
      /\ UNCHANGED <<now, lease, moved>>
  BY DEF Inv, TypeOK, Reserve, Window
<1>3. \A a \in Booking \ {b} : reservation[a].gpus \cap G # {}
         => ~Overlaps(reservation[a], start, end)
  BY DEF Reserve, Reserved
<1>4. ReservationsAreDisjoint'
  <2> SUFFICES ASSUME NEW a \in Booking, NEW c \in Booking, a # c,
                      reservation'[a].gpus \cap reservation'[c].gpus # {}
               PROVE  ~Overlaps(reservation'[a], reservation'[c].start, reservation'[c].end)
    BY DEF ReservationsAreDisjoint, Overlaps
  <2>1. CASE a # b /\ c # b
    BY <2>1, <1>2 DEF Inv, ReservationsAreDisjoint
  <2>2. CASE c = b
    BY <2>2, <1>2, <1>3
  <2>3. CASE a = b
    <3>1. reservation[c].gpus \cap G # {}
      BY <2>3, <1>2
    <3>2. ~Overlaps(reservation[c], start, end)
      BY <3>1, <2>3, <1>3
    <3> QED
      BY <3>2, <2>3, <1>2, SMT DEF Overlaps, Window
  <2> QED
    BY <2>1, <2>2, <2>3
<1>5. LeasesKeepClear'
  <2> SUFFICES ASSUME NEW l \in Lease \ moved, NEW c \in Booking, lease[l].kind = "workload",
                      lease[l].gpus \cap reservation'[c].gpus # {}
               PROVE  reservation'[c].end <= now \/ reservation'[c].start >= Until(lease[l])
    BY <1>2 DEF LeasesKeepClear, Until
  <2>1. CASE c # b
    BY <2>1, <1>2 DEF Inv, LeasesKeepClear
  <2>2. CASE c = b
    <3>1. PICK g \in G : g \in lease[l].gpus
      BY <2>2, <1>2
    <3>2. lease[l].expires # Never /\ lease[l].expires <= start
      BY <3>1 DEF Reserve
    <3>3. lease[l] \in LeaseRecord
      BY DEF Inv, TypeOK
    <3> QED
      BY <3>2, <3>3, <2>2, <1>2, SMT DEF Until, LeaseRecord
  <2> QED
    BY <2>1, <2>2
<1> QED
  BY <1>1, <1>4, <1>5 DEF Inv

LEMMA CancelReservationStep ==
    ASSUME Inv, NEW b \in Booking, CancelReservation(b)
    PROVE  Inv'
<1>1. /\ reservation'[b].gpus = {} /\ UNCHANGED <<now, lease, maintenance, moved>>
      /\ \A a \in Booking \ {b} : reservation'[a] = reservation[a]
      /\ reservation' \in [Booking -> Window]
  BY SMT DEF Inv, TypeOK, CancelReservation, NoWindow, Window
<1>2. TypeOK'
  BY <1>1 DEF Inv, TypeOK
<1>3. ReservationsAreDisjoint'
  <2> SUFFICES ASSUME NEW a \in Booking, NEW c \in Booking, a # c,
                      reservation'[a].gpus \cap reservation'[c].gpus # {}
               PROVE  ~Overlaps(reservation'[a], reservation'[c].start, reservation'[c].end)
    BY DEF ReservationsAreDisjoint, Overlaps
  <2> QED
    BY <1>1 DEF Inv, ReservationsAreDisjoint
<1>4. LeasesKeepClear'
  BY <1>1 DEF Inv, LeasesKeepClear, Until
<1> QED
  BY <1>2, <1>3, <1>4 DEF Inv

LEMMA MaintainStep ==
    ASSUME Inv, NEW m \in Repair, NEW G \in SUBSET Gpu,
           NEW start \in Nat, NEW end \in Nat, Maintain(m, G, start, end)
    PROVE  Inv'
<1>1. TypeOK'
  BY SMT DEF Inv, TypeOK, Maintain, Window
<1>2. UNCHANGED <<now, lease, reservation, moved>>
  BY DEF Maintain
<1> QED
  BY <1>1, <1>2 DEF Inv, ReservationsAreDisjoint, LeasesKeepClear, Overlaps, Until

\* The reservations are kept apart by every step that does not touch them.
LEMMA SameReservations ==
    ASSUME Inv, reservation' = reservation
    PROVE  ReservationsAreDisjoint'
BY DEF Inv, ReservationsAreDisjoint, Overlaps

LEMMA ClaimStep ==
    ASSUME Inv, NEW l \in Lease, NEW G \in SUBSET Gpu, NEW d \in Duration, NEW p \in BOOLEAN,
           Claim(l, G, d, p)
    PROVE  Inv'
<1> DEFINE r == Given("workload", G, d, IF p THEN Never ELSE now + d)
<1>1. /\ lease' = [lease EXCEPT ![l] = r] /\ G # {}
      /\ UNCHANGED <<now, reservation, maintenance, moved>>
  BY DEF Inv, TypeOK, Claim, Calendar
<1>2. r \in LeaseRecord /\ r.gpus = G /\ r.state = "open" /\ Until(r) = now + d /\ now + d \in Nat
  <2>1. now \in Nat /\ d \in Nat /\ now + d \in Nat
    BY CalendarAssumption, SMT DEF Inv, TypeOK
  <2> DEFINE e == IF p THEN Never ELSE now + d
  <2>2. e \in Nat \cup {Never} /\ (e = Never \/ e = now + d)
    BY <2>1
  <2> HIDE DEF e
  <2>3. Given("workload", G, d, e) \in LeaseRecord
    BY <2>1, <2>2 DEF LeaseRecord, Given, Open
  <2>4. Until(Given("workload", G, d, e)) = now + d
    BY <2>2 DEF Until, Given
  <2> QED
    BY <2>1, <2>3, <2>4 DEF e, Given
<1> HIDE DEF r
<1>3. TypeOK'
  <2>1. lease' \in [Lease -> LeaseRecord]
    BY <1>1, <1>2 DEF Inv, TypeOK
  <2>2. \A k \in Lease : lease'[k].state = "none" <=> lease'[k].gpus = {}
    BY <1>1, <1>2 DEF Inv, TypeOK
  <2> QED
    BY <1>1, <2>1, <2>2 DEF Inv, TypeOK
<1>4. LeasesKeepClear'
  <2> SUFFICES ASSUME NEW k \in Lease, k \notin moved', NEW b \in Booking,
                      lease'[k].kind = "workload", lease'[k].gpus \cap reservation'[b].gpus # {}
               PROVE  reservation'[b].end <= now' \/ reservation'[b].start >= Until(lease'[k])
    BY DEF LeasesKeepClear, Until
  <2>1. CASE k # l
    BY <2>1, <1>1, OthersKeepClear DEF Inv, TypeOK
  <2>2. CASE k = l
    <3>1. lease'[l] = r
      BY <1>1 DEF Inv, TypeOK
    <3>2. PICK g \in G : g \in reservation[b].gpus
      BY <3>1, <2>2, <1>1, <1>2
    <3>3. ~Overlaps(reservation[b], now, now + d)
      BY <3>2 DEF Claim, Reserved
    <3>4. Apart(reservation[b], now, now + d)
      BY <3>3, <1>2, NotOverlapping DEF Inv, TypeOK
    <3> QED
      BY <3>1, <3>4, <2>2, <1>1, <1>2 DEF Apart
  <2> QED
    BY <2>1, <2>2
<1> QED
  BY <1>1, <1>3, <1>4, SameReservations DEF Inv

LEMMA KeepStep ==
    ASSUME Inv, NEW l \in Lease, NEW g \in Gpu, Keep(l, g)
    PROVE  Inv'
<1> DEFINE r == Given("keepalive", {g}, 0, Never)
<1>1. /\ lease' = [lease EXCEPT ![l] = r]
      /\ UNCHANGED <<now, reservation, maintenance, moved>>
  BY DEF Keep, Calendar
<1>2. r \in LeaseRecord /\ r.gpus # {} /\ r.state = "open" /\ r.kind = "keepalive"
  BY SMT DEF Inv, TypeOK, LeaseRecord, Given, Open
<1> HIDE DEF r
<1>3. TypeOK'
  <2>1. lease' \in [Lease -> LeaseRecord]
    BY <1>1, <1>2 DEF Inv, TypeOK
  <2>2. \A k \in Lease : lease'[k].state = "none" <=> lease'[k].gpus = {}
    BY <1>1, <1>2 DEF Inv, TypeOK
  <2> QED
    BY <1>1, <2>1, <2>2 DEF Inv, TypeOK
<1>4. LeasesKeepClear'
  <2> SUFFICES ASSUME NEW k \in Lease, k \notin moved', NEW b \in Booking,
                      lease'[k].kind = "workload", lease'[k].gpus \cap reservation'[b].gpus # {}
               PROVE  reservation'[b].end <= now' \/ reservation'[b].start >= Until(lease'[k])
    BY DEF LeasesKeepClear, Until
  <2>1. k # l /\ lease'[k] = lease[k]
    BY <1>1, <1>2 DEF Inv, TypeOK
  <2> QED
    BY <2>1, <1>1, OthersKeepClear
<1> QED
  BY <1>1, <1>3, <1>4, SameReservations DEF Inv

LEMMA RenewStep ==
    ASSUME Inv, NEW l \in Lease, Renew(l)
    PROVE  Inv'
<1> DEFINE e == Renewed(lease[l])
           r == [lease[l] EXCEPT !.expires = e]
<1>1. /\ lease' = [lease EXCEPT ![l] = r]
      /\ UNCHANGED <<now, reservation, maintenance, moved>>
      /\ \A g \in lease[l].gpus : ~Reserved(g, now, e)
  BY SMT DEF Inv, TypeOK, Renew, Calendar
<1>2. lease[l] \in LeaseRecord /\ now \in Nat /\ e \in Nat
  BY RenewedType DEF Inv, TypeOK
<1> HIDE DEF e
<1>3. /\ r \in LeaseRecord /\ r.gpus = lease[l].gpus /\ r.state = lease[l].state
      /\ Until(r) = e
  BY <1>2, CalendarAssumption, SMT DEF LeaseRecord, Until
<1> HIDE DEF r
<1>4. TypeOK'
  <2>1. lease' \in [Lease -> LeaseRecord]
    BY <1>1, <1>3 DEF Inv, TypeOK
  <2>2. \A k \in Lease : lease'[k].state = "none" <=> lease'[k].gpus = {}
    BY <1>1, <1>3 DEF Inv, TypeOK
  <2> QED
    BY <1>1, <2>1, <2>2 DEF Inv, TypeOK
<1>5. LeasesKeepClear'
  <2> SUFFICES ASSUME NEW k \in Lease, k \notin moved', NEW b \in Booking,
                      lease'[k].kind = "workload", lease'[k].gpus \cap reservation'[b].gpus # {}
               PROVE  reservation'[b].end <= now' \/ reservation'[b].start >= Until(lease'[k])
    BY DEF LeasesKeepClear, Until
  <2>1. CASE k # l
    BY <2>1, <1>1, OthersKeepClear DEF Inv, TypeOK
  <2>2. CASE k = l
    <3>1. lease'[l] = r
      BY <1>1 DEF Inv, TypeOK
    <3>2. PICK g \in lease[l].gpus : g \in reservation[b].gpus
      BY <3>1, <2>2, <1>1, <1>3
    <3>3. ~Overlaps(reservation[b], now, e)
      BY <3>2, <1>1 DEF Reserved
    <3>4. Apart(reservation[b], now, e)
      BY <3>3, <1>2, NotOverlapping DEF Inv, TypeOK
    <3> QED
      BY <3>1, <3>4, <2>2, <1>1, <1>3 DEF Apart
  <2> QED
    BY <2>1, <2>2
<1> QED
  BY <1>1, <1>4, <1>5, SameReservations DEF Inv

LEMMA MoveStep ==
    ASSUME Inv, NEW l \in Lease, NEW G \in SUBSET Gpu, Move(l, G)
    PROVE  Inv'
<1> DEFINE r == [lease[l] EXCEPT !.gpus = G]
<1>1. /\ lease' = [lease EXCEPT ![l] = r] /\ moved' = moved \cup {l}
      /\ UNCHANGED <<now, reservation, maintenance>>
      /\ lease[l].state \in Open /\ Cardinality(G) = Cardinality(lease[l].gpus)
  BY SMT DEF Inv, TypeOK, Move, Calendar
<1>2. G # {}
  <2>1. IsFiniteSet(G) /\ IsFiniteSet(lease[l].gpus)
    BY CalendarAssumption, FS_Subset DEF Inv, TypeOK, LeaseRecord
  <2>2. lease[l].gpus # {}
    BY <1>1 DEF Inv, TypeOK, Open
  <2> QED
    BY <1>1, <2>1, <2>2, FS_EmptySet
<1>3. r \in LeaseRecord /\ r.gpus # {} /\ r.state # "none"
  BY <1>1, <1>2 DEF Inv, TypeOK, LeaseRecord, Open
<1> HIDE DEF r
<1>4. TypeOK'
  <2>1. lease' \in [Lease -> LeaseRecord]
    BY <1>1, <1>3 DEF Inv, TypeOK
  <2>2. \A k \in Lease : lease'[k].state = "none" <=> lease'[k].gpus = {}
    BY <1>1, <1>3 DEF Inv, TypeOK
  <2> QED
    BY <1>1, <2>1, <2>2 DEF Inv, TypeOK
<1>5. LeasesKeepClear'
  <2> SUFFICES ASSUME NEW k \in Lease, k \notin moved', NEW b \in Booking,
                      lease'[k].kind = "workload", lease'[k].gpus \cap reservation'[b].gpus # {}
               PROVE  reservation'[b].end <= now' \/ reservation'[b].start >= Until(lease'[k])
    BY DEF LeasesKeepClear, Until
  <2>1. k # l /\ k \notin moved /\ lease'[k] = lease[k]
    BY <1>1 DEF Inv, TypeOK
  <2> QED
    BY <2>1, <1>1, OthersKeepClear
<1> QED
  BY <1>1, <1>4, <1>5, SameReservations DEF Inv

\* The end of a lease.
LEMMA EndedStep ==
    ASSUME Inv, NEW l \in Lease, Ended(l), UNCHANGED <<now, Calendar>>
    PROVE  Inv'
<1>1. /\ lease' = [lease EXCEPT ![l] = NoLease] /\ moved' = moved \ {l}
      /\ UNCHANGED <<now, reservation, maintenance>>
  BY DEF Inv, TypeOK, Ended, Calendar
<1>2. NoLease \in LeaseRecord /\ NoLease.gpus = {} /\ NoLease.state = "none"
  BY SMT DEF NoLease, LeaseRecord
<1>3. TypeOK'
  <2>1. lease' \in [Lease -> LeaseRecord]
    BY <1>1, <1>2 DEF Inv, TypeOK
  <2>2. \A k \in Lease : lease'[k].state = "none" <=> lease'[k].gpus = {}
    BY <1>1, <1>2 DEF Inv, TypeOK
  <2> QED
    BY <1>1, <2>1, <2>2 DEF Inv, TypeOK
<1>4. LeasesKeepClear'
  <2> SUFFICES ASSUME NEW k \in Lease, k \notin moved', NEW b \in Booking,
                      lease'[k].kind = "workload", lease'[k].gpus \cap reservation'[b].gpus # {}
               PROVE  reservation'[b].end <= now' \/ reservation'[b].start >= Until(lease'[k])
    BY DEF LeasesKeepClear, Until
  <2>1. k # l /\ k \notin moved /\ lease'[k] = lease[k]
    BY <1>1, <1>2 DEF Inv, TypeOK
  <2> QED
    BY <2>1, <1>1, OthersKeepClear
<1> QED
  BY <1>1, <1>3, <1>4, SameReservations DEF Inv

LEMMA SweepStep ==
    ASSUME Inv, NEW l \in Lease, Sweep(l)
    PROVE  Inv'
<1>1. CASE Ended(l)
  BY <1>1, EndedStep DEF Sweep
<1>2. CASE Overdue(lease[l]) /\ lease' = [lease EXCEPT ![l].state = "stuck"] /\ UNCHANGED moved
  <2>1. /\ UNCHANGED <<now, reservation, maintenance, moved>>
        /\ \A k \in Lease : /\ lease'[k].gpus = lease[k].gpus /\ lease'[k].kind = lease[k].kind
                            /\ lease'[k].expires = lease[k].expires
                            /\ lease'[k].issued = lease[k].issued
                            /\ lease'[k].asked = lease[k].asked
        /\ \A k \in Lease : (lease'[k].state = "none") = (lease[k].state = "none")
        /\ lease' \in [Lease -> LeaseRecord]
    BY <1>2, SMT DEF Inv, TypeOK, LeaseRecord, Overdue, Open, Sweep, Calendar
  <2>2. \A k \in Lease : Until(lease'[k]) = Until(lease[k])
    BY <2>1 DEF Until
  <2>3. TypeOK'
    BY <2>1 DEF Inv, TypeOK
  <2>4. LeasesKeepClear'
    BY <2>1, <2>2 DEF Inv, LeasesKeepClear
  <2> QED
    BY <2>1, <2>3, <2>4, SameReservations DEF Inv
<1> QED
  BY <1>1, <1>2 DEF Sweep

LEMMA TickStep ==
    ASSUME Inv, Tick
    PROVE  Inv'
<1>1. /\ now' = now + 1 /\ now \in Nat
      /\ UNCHANGED <<lease, reservation, maintenance, moved>>
  BY DEF Inv, TypeOK, Tick, Calendar
<1>2. TypeOK'
  BY <1>1, SMT DEF Inv, TypeOK
<1>3. LeasesKeepClear'
  <2>1. \A b \in Booking : reservation[b].end \in Nat
    BY DEF Inv, TypeOK, Window
  <2>2. \A b \in Booking : reservation[b].end <= now => reservation[b].end <= now'
    BY <1>1, <2>1, SMT
  <2> QED
    BY <1>1, <2>2 DEF Inv, LeasesKeepClear, Until
<1> QED
  BY <1>1, <1>2, <1>3, SameReservations DEF Inv

-----------------------------------------------------------------------------
(* The theorems *)

\* Types, disjoint reservations and clear leases together are inductive.
THEOREM Invariant == Spec => []Inv
<1>1. Init => Inv
  BY InitInv
<1>2. Inv /\ [Next]_vars => Inv'
  <2> SUFFICES ASSUME Inv, [Next]_vars PROVE Inv'
    OBVIOUS
  <2>1. CASE Next
    <3>1. ASSUME NEW b \in Booking, NEW G \in SUBSET Gpu, NEW start \in 0 .. Last + 1,
                 NEW end \in 0 .. Last + 1, Reserve(b, G, start, end)
          PROVE  Inv'
      <4>1. start \in Nat /\ end \in Nat
        BY CalendarAssumption, SMT
      <4> QED
        BY <4>1, <3>1, ReserveStep
    <3>2. ASSUME NEW m \in Repair, NEW G \in SUBSET Gpu, NEW start \in 0 .. Last + 1,
                 NEW end \in 0 .. Last + 1, Maintain(m, G, start, end)
          PROVE  Inv'
      <4>1. start \in Nat /\ end \in Nat
        BY CalendarAssumption, SMT
      <4> QED
        BY <4>1, <3>2, MaintainStep
    <3>3. ASSUME NEW b \in Booking, CancelReservation(b) PROVE Inv'
      BY <3>3, CancelReservationStep
    <3>4. ASSUME NEW l \in Lease, NEW G \in SUBSET Gpu, NEW d \in Duration, NEW p \in BOOLEAN,
                 Claim(l, G, d, p)
          PROVE  Inv'
      BY <3>4, ClaimStep
    <3>5. ASSUME NEW l \in Lease, NEW g \in Gpu, Keep(l, g) PROVE Inv'
      BY <3>5, KeepStep
    <3>6. ASSUME NEW l \in Lease, NEW G \in SUBSET Gpu, Move(l, G) PROVE Inv'
      BY <3>6, MoveStep
    <3>7. ASSUME NEW l \in Lease, Renew(l) PROVE Inv'
      BY <3>7, RenewStep
    <3>8. ASSUME NEW l \in Lease, Release(l) PROVE Inv'
      BY <3>8, EndedStep DEF Release
    <3>9. ASSUME NEW l \in Lease, Sweep(l) PROVE Inv'
      BY <3>9, SweepStep
    <3>10. CASE Tick
      BY <3>10, TickStep
    <3> QED
      BY <2>1, <3>1, <3>2, <3>3, <3>4, <3>5, <3>6, <3>7, <3>8, <3>9, <3>10 DEF Next
  <2>2. CASE UNCHANGED vars
    BY <2>2 DEF vars, Inv, TypeOK, ReservationsAreDisjoint, LeasesKeepClear, Overlaps, Until
  <2> QED
    BY <2>1, <2>2
<1> QED
  BY <1>1, <1>2, PTL DEF Spec

\* Every reachable calendar is well typed.
THEOREM TypeCorrect == Spec => []TypeOK
BY Invariant, PTL DEF Inv

\* A GPU is never reserved twice for the same time (create_reservation).
THEOREM DisjointReservations == Spec => []ReservationsAreDisjoint
BY Invariant, PTL DEF Inv

\* No reservation falls into the time a lease was given, in whatever order
\* claims, renewals and reservations come (create_reservation, _eligible_gpus,
\* renew_lease).
THEOREM ClearLeases == Spec => []LeasesKeepClear
BY Invariant, PTL DEF Inv

-----------------------------------------------------------------------------
(* The inventory of servers *)

GoodInventory == \A e \in Endpoint : inventory[e] # None => E!Sound(inventory[e])

\* A worker was started with an adapter, and no writer takes it away.
WorkersHaveAdapters == \A e \in keepers : row[e].adapter

RowsInv ==
    /\ E!TypeOK /\ GoodInventory
    /\ E!UsersHaveServers
    /\ E!DeletedStayDeleted
    /\ E!PolicyHasAdapter
    /\ WorkersHaveAdapters

\* What a step may do to servers with a worker.
Reachable ==
    \A e \in keepers \cap keepers' :
        e \in E!Live /\ row'[e] # None /\ row'[e].addr = row[e].addr
        /\ E!Protected(row'[e]) = E!Protected(row[e])

Safe == RowsInv' /\ Reachable

-----------------------------------------------------------------------------
(* Writers of one row *)

\* The row of e is written.
LEMMA PutRow ==
  ASSUME RowsInv, NEW e \in Endpoint, NEW r \in E!Row, row' = [row EXCEPT ![e] = r],
         UNCHANGED <<inventory, broker, holds, keepers, unit>>,
         tombs' \subseteq Endpoint, gone' \subseteq tombs', gone' \subseteq gone, e \notin gone',
         E!Sound(r),
         e \in keepers => r.addr = row[e].addr /\ E!Protected(r) = E!Protected(row[e])
  PROVE  Safe
<1>1. /\ row' \in [Endpoint -> E!Row \cup {None}] /\ row'[e] = r /\ r # None
      /\ \A d \in Endpoint : d # e => row'[d] = row[d]
  BY InventoryAssumption DEF E!GoodFiles, RowsInv, E!TypeOK
<1>2. E!Live' = E!Live \cup {e}
  BY <1>1 DEF E!Live
<1>3. E!TypeOK' /\ GoodInventory'
  BY <1>1 DEF RowsInv, E!TypeOK, GoodInventory, E!Sound
<1>4. E!UsersHaveServers' /\ E!DeletedStayDeleted'
  BY <1>2 DEF RowsInv, E!UsersHaveServers, E!DeletedStayDeleted
<1>5. E!PolicyHasAdapter'
  BY <1>1 DEF RowsInv, E!PolicyHasAdapter, E!Sound, E!Live
<1>6. WorkersHaveAdapters'
  <2> SUFFICES ASSUME NEW d \in keepers PROVE row'[d].adapter
    BY DEF WorkersHaveAdapters
  <2>1. d \in Endpoint /\ row[d].adapter
    BY DEF RowsInv, WorkersHaveAdapters, E!TypeOK
  <2> QED
    BY <1>1, <2>1 DEF E!Protected
<1>7. Reachable
  <2> SUFFICES ASSUME NEW d \in keepers
               PROVE  d \in E!Live /\ row'[d] # None /\ row'[d].addr = row[d].addr
                      /\ E!Protected(row'[d]) = E!Protected(row[d])
    BY DEF Reachable
  <2>1. d \in Endpoint /\ d \in E!Live
    BY DEF RowsInv, E!UsersHaveServers, E!Live
  <2> QED
    BY <1>1, <2>1 DEF E!Live, E!Protected
<1> QED
  BY <1>3, <1>4, <1>5, <1>6, <1>7 DEF Safe, RowsInv

\* A row of the table is one.
LEMMA LiveRow ==
  ASSUME RowsInv, NEW e \in E!Live
  PROVE  e \in Endpoint /\ row[e] \in E!Row /\ e \notin gone /\ E!Sound(row[e])
         /\ tombs \subseteq Endpoint /\ gone \subseteq tombs
  BY DEF RowsInv, E!TypeOK, E!Live, E!DeletedStayDeleted, E!PolicyHasAdapter, E!Sound

LEMMA InsertedRow ==
  ASSUME NEW i \in E!Input \cup E!Entry, E!Sound(i)
  PROVE  E!Inserted(i) \in E!Row /\ E!Sound(E!Inserted(i))
         /\ E!Inserted(i).addr = i.addr /\ E!Protected(E!Inserted(i)) = E!Protected(i)
  BY DEF E!Input, E!Entry, E!Inserted, E!Row, E!Sound, E!Protected

LEMMA CreateSafe ==
  ASSUME RowsInv, NEW e \in Endpoint, NEW i \in E!Input, E!Create(e, i)
  PROVE  Safe
<1>1. row' = [row EXCEPT ![e] = E!Inserted(i)] /\ e \notin E!Live /\ E!Sound(i)
      /\ tombs' = tombs \ {e} /\ gone' = gone \ {e}
      /\ UNCHANGED <<inventory, broker, holds, keepers, unit>>
  BY DEF E!Create, E!Live, E!Keep, E!uses
<1>2. e \notin keepers /\ tombs \subseteq Endpoint /\ gone \subseteq tombs
  BY <1>1 DEF RowsInv, E!UsersHaveServers, E!TypeOK
<1> QED
  BY <1>1, <1>2, InsertedRow, PutRow

LEMMA UpdateSafe ==
  ASSUME RowsInv, NEW e \in Endpoint, NEW c \in Conn, NEW ad \in BOOLEAN, NEW o \in BOOLEAN,
         E!Update(e, c, ad, o)
  PROVE  Safe
<1> DEFINE r == [row[e] EXCEPT !.conn = c, !.adapter = ad, !.owned = o]
<1>1. /\ row' = [row EXCEPT ![e] = r] /\ e \in E!Live
      /\ e \in keepers => <<c, ad>> = E!Protected(row[e])
      /\ ~(~ad /\ row[e].policy = "idle")
      /\ UNCHANGED <<inventory, broker, tombs, gone, holds, keepers, unit>>
  BY DEF E!Update, E!Keep, E!uses
<1>2. row[e] \in E!Row /\ e \notin gone /\ tombs \subseteq Endpoint /\ gone \subseteq tombs
  BY <1>1, LiveRow
<1>3. r \in E!Row /\ r.addr = row[e].addr /\ E!Protected(r) = <<c, ad>> /\ E!Sound(r)
  BY <1>1, <1>2 DEF E!Row, E!Protected, E!Sound
<1> QED
  BY <1>1, <1>2, <1>3, PutRow

LEMMA UpsertSafe ==
  ASSUME RowsInv, NEW e \in Endpoint, NEW i \in E!Input, NEW life \in {None, "active", "draining"},
         E!Upsert(e, i, life)
  PROVE  Safe
<1>1. /\ E!Sound(i) /\ gone' = gone \ {e} /\ tombs' = tombs
      /\ UNCHANGED <<inventory, broker, holds, keepers, unit>>
      /\ tombs \subseteq Endpoint /\ gone \subseteq tombs
  BY DEF E!Upsert, E!Keep, E!uses, RowsInv, E!TypeOK
<1>2. E!Inserted(i) \in E!Row /\ E!Sound(E!Inserted(i))
      /\ E!Inserted(i).addr = i.addr /\ E!Protected(E!Inserted(i)) = E!Protected(i)
  BY <1>1, InsertedRow
<1>3. CASE row[e] = None
  <2>1. e \notin keepers /\ row' = [row EXCEPT ![e] = E!Inserted(i)]
    BY <1>3 DEF E!Upsert, RowsInv, E!UsersHaveServers, E!Live
  <2> QED
    BY <1>1, <1>2, <2>1, PutRow
<1>4. CASE row[e] # None
  <2> DEFINE r == [E!Inserted(i) EXCEPT !.owned = i.owned \/ row[e].owned,
                                      !.life = IF life = None THEN row[e].life ELSE life]
  <2>1. /\ row[e] \in E!Row /\ i.addr = row[e].addr /\ e \in E!Live
        /\ e \in keepers => E!Protected(i) = E!Protected(row[e])
        /\ row' = [row EXCEPT ![e] = r]
    BY <1>4 DEF E!Upsert, RowsInv, E!TypeOK, E!Live
  <2>2. i.owned \in BOOLEAN /\ row[e].owned \in BOOLEAN /\ row[e].life \in {"active", "draining"}
    BY <2>1 DEF E!Input, E!Row
  <2>3. r \in E!Row /\ r.addr = i.addr /\ E!Protected(r) = E!Protected(i) /\ E!Sound(r)
    BY <1>2, <2>2 DEF E!Row, E!Protected, E!Sound
  <2> QED
    BY <1>1, <2>1, <2>3, PutRow
<1> QED
  BY <1>3, <1>4

LEMMA LifeSafe ==
  ASSUME RowsInv, NEW e \in Endpoint, E!Pause(e) \/ E!Resume(e)
  PROVE  Safe
<1>1. PICK life \in {"active", "draining"} :
         /\ row' = [row EXCEPT ![e].life = life] /\ e \in E!Live
         /\ UNCHANGED <<inventory, broker, tombs, gone, holds, keepers, unit>>
  BY DEF E!Pause, E!Resume, E!Keep, E!uses
<1> DEFINE r == [row[e] EXCEPT !.life = life]
<1>2. row' = [row EXCEPT ![e] = r]
  BY <1>1
<1>3. row[e] \in E!Row /\ e \notin gone /\ E!Sound(row[e]) /\ tombs \subseteq Endpoint /\ gone \subseteq tombs
  BY <1>1, LiveRow
<1>4. r \in E!Row /\ r.addr = row[e].addr /\ E!Protected(r) = E!Protected(row[e]) /\ E!Sound(r)
  BY <1>3 DEF E!Row, E!Protected, E!Sound
<1> QED
  BY <1>1, <1>2, <1>3, <1>4, PutRow

LEMMA SetKeepaliveSafe ==
  ASSUME RowsInv, NEW e \in Endpoint, NEW p \in E!Policies, E!SetKeepalive(e, p)
  PROVE  Safe
<1> DEFINE r == [row[e] EXCEPT !.policy = p, !.adapter = @ \/ p = "idle"]
<1>1. row' = [row EXCEPT ![e] = r] /\ e \in E!Live
      /\ UNCHANGED <<inventory, broker, tombs, gone, holds, keepers, unit>>
  BY DEF E!SetKeepalive, E!Keep, E!uses
<1>2. row[e] \in E!Row /\ e \notin gone /\ tombs \subseteq Endpoint /\ gone \subseteq tombs
  BY <1>1, LiveRow
<1>3. r \in E!Row /\ r.addr = row[e].addr /\ E!Sound(r) /\ r.conn = row[e].conn
      /\ r.adapter = (row[e].adapter \/ p = "idle")
  BY <1>2 DEF E!Row, E!Sound, E!Policies
<1>4. e \in keepers => row[e].adapter /\ row[e].adapter \in BOOLEAN
  BY <1>2 DEF RowsInv, WorkersHaveAdapters, E!Row
<1>5. e \in keepers => E!Protected(r) = E!Protected(row[e])
  BY <1>3, <1>4 DEF E!Protected
<1> QED
  BY <1>1, <1>2, <1>3, <1>5, PutRow

LEMMA DeleteSafe ==
  ASSUME RowsInv, NEW e \in Endpoint, E!Delete(e)
  PROVE  Safe
<1>1. /\ row' = [row EXCEPT ![e] = None]
      /\ tombs' = tombs \cup {e} /\ gone' = gone \cup {e}
      /\ UNCHANGED <<inventory, broker, holds, keepers, unit>>
      /\ e \notin keepers /\ \A l \in Holder : e \notin holds[l]
      /\ \A c \in Claimant : unit[c] # e
  BY DEF E!Delete, E!HasActiveLeases, E!HasActiveAllocations, E!Keep, E!uses
<1>2. row' \in [Endpoint -> E!Row \cup {None}] /\ row'[e] = None
      /\ \A d \in Endpoint : d # e => row'[d] = row[d]
  BY <1>1 DEF RowsInv, E!TypeOK
<1>3. E!Live' = E!Live \ {e}
  BY <1>2 DEF E!Live
<1>4. E!TypeOK' /\ GoodInventory'
  BY <1>1, <1>2 DEF RowsInv, E!TypeOK, GoodInventory, E!Sound
<1>5. E!UsersHaveServers' /\ E!DeletedStayDeleted'
  BY <1>1, <1>3 DEF RowsInv, E!UsersHaveServers, E!DeletedStayDeleted
<1>6. E!PolicyHasAdapter'
  BY <1>2, <1>3 DEF RowsInv, E!PolicyHasAdapter, E!Live
<1>7. WorkersHaveAdapters' /\ Reachable
  BY <1>1, <1>2 DEF RowsInv, WorkersHaveAdapters, E!UsersHaveServers, Reachable, E!Live
<1> QED
  BY <1>4, <1>5, <1>6, <1>7 DEF Safe, RowsInv

-----------------------------------------------------------------------------
(* Steps that write no row *)

LEMMA UsersSafe ==
  ASSUME RowsInv, UNCHANGED <<inventory, row, tombs, gone>>, broker' \in {"up", "down", "failed"},
         holds' \in [Holder -> SUBSET E!Live], keepers' \subseteq E!Live, unit' \in [Claimant -> E!Live \cup {None}],
         \A e \in keepers' : row[e].adapter
  PROVE  Safe
<1>1. E!Live' = E!Live /\ E!Live \subseteq Endpoint
  BY DEF E!Live
<1>2. E!TypeOK' /\ GoodInventory'
  BY <1>1 DEF RowsInv, E!TypeOK, GoodInventory, E!Sound
<1>3. E!UsersHaveServers' /\ E!DeletedStayDeleted' /\ E!PolicyHasAdapter' /\ WorkersHaveAdapters'
  BY <1>1 DEF RowsInv, E!UsersHaveServers, E!DeletedStayDeleted, E!PolicyHasAdapter, WorkersHaveAdapters
<1>4. Reachable
  BY DEF Reachable, RowsInv, E!UsersHaveServers, E!Live, E!Protected
<1> QED
  BY <1>2, <1>3, <1>4 DEF Safe, RowsInv

\* Who stands where, in terms of the servers that are there.
LEMMA Standing ==
  ASSUME RowsInv
  PROVE  /\ holds \in [Holder -> SUBSET E!Live] /\ keepers \subseteq E!Live
         /\ unit \in [Claimant -> E!Live \cup {None}] /\ \A e \in keepers : row[e].adapter
         /\ broker \in {"up", "down", "failed"}
  BY DEF RowsInv, E!TypeOK, E!UsersHaveServers, WorkersHaveAdapters

LEMMA HoldersSafe ==
  ASSUME RowsInv, NEW l \in Holder, NEW S \in SUBSET Endpoint, E!Acquire(l, S) \/ E!Move(l, S) \/ E!Release(l)
  PROVE  Safe
<1>1. /\ UNCHANGED <<inventory, row, tombs, gone, keepers, unit, broker>>
      /\ \E T \in SUBSET E!Live : holds' = [holds EXCEPT ![l] = T]
  BY DEF E!Acquire, E!Move, E!Release, E!Keep
<1>2. holds' \in [Holder -> SUBSET E!Live]
  BY <1>1, Standing
<1> QED
  BY <1>1, <1>2, Standing, UsersSafe

LEMMA KeepersSafe ==
  ASSUME RowsInv, NEW e \in Endpoint, E!StartKeeper(e) \/ E!StopKeeper(e)
  PROVE  Safe
<1>1. /\ UNCHANGED <<inventory, row, tombs, gone, holds, unit, broker>>
      /\ keepers' = keepers \ {e} \/ (keepers' = keepers \cup {e} /\ e \in E!Live /\ row[e].adapter)
  BY DEF E!StartKeeper, E!StopKeeper, E!Keep
<1> QED
  BY <1>1, Standing, UsersSafe

LEMMA ClaimsSafe ==
  ASSUME RowsInv, NEW c \in Claimant, E!Free(c) \/ \E e \in Endpoint : E!Allocate(c, e)
  PROVE  Safe
<1>1. /\ UNCHANGED <<inventory, row, tombs, gone, holds, keepers, broker>>
      /\ \E e \in E!Live \cup {None} : unit' = [unit EXCEPT ![c] = e]
  BY DEF E!Free, E!Allocate, E!Keep
<1>2. unit' \in [Claimant -> E!Live \cup {None}]
  BY <1>1, Standing
<1> QED
  BY <1>1, <1>2, Standing, UsersSafe

-----------------------------------------------------------------------------
(* A start *)

\* A row that is merged without a clash is reached as before.
LEMMA MergedRow ==
  ASSUME NEW r \in E!Row, NEW i \in E!Entry, E!Sound(r), E!Sound(i), ~(r.policy = "idle" /\ ~i.adapter)
  PROVE  /\ E!Merged(r, i) \in E!Row /\ E!Sound(E!Merged(r, i))
         /\ E!Merged(r, i).addr = r.addr /\ E!Protected(E!Merged(r, i)) = E!Protected(i)
<1>1. i.owned \in BOOLEAN /\ r.owned \in BOOLEAN
  BY DEF E!Row, E!Entry
<1> QED
  BY <1>1 DEF E!Row, E!Entry, E!Merged, E!Sound, E!Protected

LEMMA BootSafe ==
  ASSUME RowsInv, E!Boot
  PROVE  Safe
<1>1. UNCHANGED <<inventory, tombs, gone, holds, keepers, unit>>
  BY DEF E!Boot
<1>2. CASE broker' = "failed" /\ UNCHANGED row
  BY <1>1, <1>2, Standing, UsersSafe
<1>3. CASE E!Syncs /\ ~(\E e \in E!Seeds : E!Clashes(e))
  <2> DEFINE Next1(e) == IF e \notin E!Seeds THEN row[e]
                         ELSE IF row[e] = None THEN E!Inserted(inventory[e])
                         ELSE E!Merged(row[e], inventory[e])
  <2>1. broker' = "up" /\ row' = [e \in Endpoint |-> Next1(e)]
    BY <1>3 DEF E!Boot
  <2>2. ASSUME NEW e \in E!Seeds
        PROVE  /\ row'[e] \in E!Row /\ E!Sound(row'[e]) /\ row'[e] # None /\ e \notin gone
               /\ row[e] # None => row'[e].addr = row[e].addr
               /\ e \in keepers => row[e] # None /\ E!Protected(row'[e]) = E!Protected(row[e])
    <3>1. e \in Endpoint /\ inventory[e] \in E!Entry /\ E!Sound(inventory[e]) /\ e \notin gone
      BY DEF E!Seeds, RowsInv, E!TypeOK, GoodInventory
    <3>2. ~E!Clashes(e)
      BY <1>3
    <3>3. CASE row[e] = None
      <4>1. row'[e] = E!Inserted(inventory[e]) /\ e \notin keepers
        BY <2>1, <3>1, <3>3 DEF RowsInv, E!UsersHaveServers, E!Live
      <4> QED
        BY <3>1, <3>3, <4>1, InsertedRow, InventoryAssumption DEF E!GoodFiles
    <3>4. CASE row[e] # None
      <4>1. row'[e] = E!Merged(row[e], inventory[e]) /\ row[e] \in E!Row /\ E!Sound(row[e])
        BY <2>1, <3>1, <3>4, LiveRow DEF E!Live
      <4>2. /\ ~(row[e].policy = "idle" /\ ~inventory[e].adapter)
            /\ e \in keepers => E!Protected(row[e]) = E!Protected(inventory[e])
        BY <3>2, <3>4 DEF E!Clashes
      <4>3. /\ row'[e] \in E!Row /\ E!Sound(row'[e]) /\ row'[e].addr = row[e].addr
            /\ E!Protected(row'[e]) = E!Protected(inventory[e])
        BY <3>1, <4>1, <4>2, MergedRow
      <4> QED
        BY <3>1, <3>4, <4>2, <4>3, InventoryAssumption DEF E!GoodFiles
    <3> QED
      BY <3>3, <3>4
  <2>3. \A e \in Endpoint : e \notin E!Seeds => row'[e] = row[e]
    BY <2>1
  <2>4. row' \in [Endpoint -> E!Row \cup {None}] /\ E!Seeds \subseteq Endpoint
    BY <2>1, <2>2, <2>3 DEF RowsInv, E!TypeOK, E!Seeds
  <2>5. E!Live' = E!Live \cup E!Seeds
    BY <2>2, <2>3, <2>4 DEF E!Live
  <2>6. E!TypeOK' /\ GoodInventory'
    BY <1>1, <2>1, <2>4 DEF RowsInv, E!TypeOK, GoodInventory, E!Sound
  <2>7. E!UsersHaveServers' /\ E!DeletedStayDeleted'
    BY <1>1, <2>2, <2>5 DEF RowsInv, E!UsersHaveServers, E!DeletedStayDeleted
  <2>8. E!PolicyHasAdapter'
    BY <2>2, <2>3, <2>5 DEF RowsInv, E!PolicyHasAdapter, E!Sound, E!Live
  <2>9. WorkersHaveAdapters' /\ Reachable
    <3> SUFFICES ASSUME NEW e \in keepers
                 PROVE  /\ row'[e].adapter /\ e \in E!Live /\ row'[e] # None /\ row'[e].addr = row[e].addr
                        /\ E!Protected(row'[e]) = E!Protected(row[e])
      BY <1>1 DEF WorkersHaveAdapters, Reachable
    <3>1. e \in Endpoint /\ e \in E!Live /\ row[e] # None /\ row[e].adapter
      BY DEF RowsInv, E!UsersHaveServers, WorkersHaveAdapters, E!Live
    <3>2. CASE e \in E!Seeds
      BY <2>2, <3>1, <3>2 DEF E!Protected
    <3>3. CASE e \notin E!Seeds
      BY <2>3, <3>1, <3>3
    <3> QED
      BY <3>2, <3>3
  <2> QED
    BY <2>6, <2>7, <2>8, <2>9 DEF Safe, RowsInv
<1>4. CASE ~E!Syncs
  <2>1. broker' = "up" /\ row' = [e \in Endpoint |-> row[e]]
    BY <1>4 DEF E!Boot
  <2>2. row' = row
    BY <2>1 DEF RowsInv, E!TypeOK
  <2> QED
    BY <1>1, <2>1, <2>2, Standing, UsersSafe
<1> QED
  BY <1>2, <1>3, <1>4 DEF E!Boot

-----------------------------------------------------------------------------
(* The invariant *)

LEMMA RowsInit == ASSUME E!Init PROVE RowsInv
<1>1. E!TypeOK /\ GoodInventory
  BY InventoryAssumption DEF E!GoodFiles, E!Init, E!TypeOK, GoodInventory
<1>2. E!Live = {}
  BY DEF E!Init, E!Live
<1> QED
  BY <1>1, <1>2 DEF RowsInv, E!Init, E!UsersHaveServers, E!DeletedStayDeleted, E!PolicyHasAdapter,
                    WorkersHaveAdapters

LEMMA NextSafe == ASSUME RowsInv, [E!Next]_E!vars PROVE Safe
<1>1. ASSUME NEW e \in Endpoint, NEW i \in E!Input,
             E!Create(e, i) \/ \E life \in {None, "active", "draining"} : E!Upsert(e, i, life)
      PROVE  Safe
  BY <1>1, CreateSafe, UpsertSafe
<1>2. ASSUME NEW e \in Endpoint,
             \/ \E c \in Conn, ad, o \in BOOLEAN : E!Update(e, c, ad, o)
             \/ \E p \in E!Policies : E!SetKeepalive(e, p)
      PROVE  Safe
  BY <1>2, UpdateSafe, SetKeepaliveSafe
<1>3. ASSUME NEW e \in Endpoint, E!Pause(e) \/ E!Resume(e) \/ E!Delete(e) \/ E!StartKeeper(e) \/ E!StopKeeper(e)
      PROVE  Safe
  BY <1>3, LifeSafe, DeleteSafe, KeepersSafe
<1>4. ASSUME NEW l \in Holder, NEW S \in SUBSET Endpoint, E!Acquire(l, S) \/ E!Move(l, S)
      PROVE  Safe
  BY <1>4, HoldersSafe
<1>5. ASSUME NEW l \in Holder, E!Release(l) PROVE Safe
  BY <1>5, HoldersSafe
<1>6. ASSUME NEW c \in Claimant, E!Free(c) \/ \E e \in Endpoint : E!Allocate(c, e) PROVE Safe
  BY <1>6, ClaimsSafe
<1>7. CASE E!Stop \/ UNCHANGED E!vars
  BY <1>7, Standing, UsersSafe DEF E!Stop, E!vars
<1>8. CASE E!Boot
  BY <1>8, BootSafe
<1> QED
  BY <1>1, <1>2, <1>3, <1>4, <1>5, <1>6, <1>7, <1>8 DEF E!Next

\* Rows, tombstones and what stands on the servers agree in every state.
THEOREM RowsInvariant == E!Spec => []RowsInv
<1>1. E!Init => RowsInv
  BY RowsInit
<1>2. RowsInv /\ [E!Next]_E!vars => RowsInv'
  BY NextSafe DEF Safe
<1> QED
  BY <1>1, <1>2, PTL DEF E!Spec

\* Whatever was deleted, paused, imported or restarted: leases, workers and claims
\* stand on servers that are there (delete_endpoint), a deleted server is not
\* brought back by a restart (_upsert_inventory), and a policy of keepalive has
\* an adapter, whichever of the five writers ran last.
THEOREM KeptServers ==
  E!Spec => [](E!TypeOK /\ E!UsersHaveServers /\ E!DeletedStayDeleted /\ E!PolicyHasAdapter)
<1>1. RowsInv => E!TypeOK /\ E!UsersHaveServers /\ E!DeletedStayDeleted /\ E!PolicyHasAdapter
  BY DEF RowsInv
<1> QED
  BY <1>1, RowsInvariant, PTL

\* While a worker runs, no edit, import or restart changes how its server is
\* reached and verified (update_endpoint, upsert_endpoint, _upsert_inventory).
THEOREM ReachableWorkers == E!Spec => E!WorkersStayReachable
<1>1. RowsInv /\ [E!Next]_E!vars => [\A e \in keepers \cap keepers' :
          e \in E!Live /\ row'[e] # None /\ row'[e].addr = row[e].addr
          /\ E!Protected(row'[e]) = E!Protected(row[e])]_E!vars
  BY NextSafe DEF Safe, Reachable
<1> QED
  BY <1>1, RowsInvariant, PTL DEF E!Spec, E!WorkersStayReachable

-----------------------------------------------------------------------------
(* The calendar and the inventory side by side *)

LEMMA PartsMove == SpecMC => Spec /\ E!Spec
<1>1. InitMC => Init /\ E!Init
  BY DEF InitMC
<1>2. [NextMC]_<<part, vars, evars>> => [Next]_vars /\ [E!Next]_E!vars
  BY DEF NextMC, vars, evars, E!vars
<1> QED
  BY <1>1, <1>2, PTL DEF SpecMC, Spec, E!Spec

\* Reservations stay apart from each other, and leases clear of them
\* (create_reservation, _eligible_gpus, renew_lease).
THEOREM CalendarIsKept == SpecMC => []ReservationsAreDisjoint /\ []LeasesKeepClear
  BY PartsMove, DisjointReservations, ClearLeases, PTL

\* Whatever was deleted, paused, imported or restarted: leases, workers and claims
\* stand on servers that are there, and a deleted server is not brought back by a
\* restart (delete_endpoint, _upsert_inventory, configure_keepalive_policy).
THEOREM InventoryIsKept == SpecMC => []ServersAreKept
<1>1. Spec => []TypeOK
  BY TypeCorrect
<1>2. TypeOK /\ E!TypeOK /\ E!UsersHaveServers /\ E!DeletedStayDeleted /\ E!PolicyHasAdapter
        => ServersAreKept
  BY DEF ServersAreKept
<1> QED
  BY <1>1, <1>2, PartsMove, KeptServers, PTL

\* While a worker runs, no edit, import or restart changes how its server is
\* reached and verified (update_endpoint, upsert_endpoint, _upsert_inventory).
THEOREM WorkersAreReached == SpecMC => WorkersStayReachable
  BY PartsMove, ReachableWorkers, PTL DEF WorkersStayReachable
=============================================================================
