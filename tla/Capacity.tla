------------------------------ MODULE Capacity -------------------------------
(***************************************************************************)
(* CPU and memory of the servers, promised in two ways: to GPU leases (one  *)
(* commitment on each server of the lease, checked against the size of the  *)
(* server by _eligible_gpus) and to claims without GPUs (given to one       *)
(* server, checked against what its last reading left free by               *)
(* _select_host_capacity_unit).  Neither looks at the other's table but     *)
(* through the two sums.                                                    *)
(*                                                                         *)
(* CPU is counted in thirtieths of a core: the broker rounds to tenths of a *)
(* core before it compares.  Servers are numbers, in the order of their     *)
(* ids.  Which GPUs a lease holds is not modelled.                          *)
(***************************************************************************)
EXTENDS Naturals, FiniteSets, FiniteSetsExt

CONSTANTS
    Endpoint,           \* the servers
    Lease, Claim,
    Cores, Memory,      \* the size of a server
    Loads, Rests,       \* bounds: CPU load and available memory a reading may show;
                        \* no more is available than there is
    CpuAsks, MemAsks,   \* bounds: what may be asked for; 0 is nothing
    None

Tenth == 3

VARIABLES
    reading,        \* server -> its last reading, or None
    online,         \* servers in use, whose last reading is fresh
    lease,          \* lease -> its commitments, or None
    claim           \* claim -> its allocation, or None

vars == <<reading, online, lease, claim>>

Reading == [load : Loads, rest : Rests]

\* moved: the lease was given other GPUs since.
Commitment == [at : SUBSET Endpoint \ {{}}, cpu : CpuAsks, mem : MemAsks, moved : BOOLEAN]

Allocation == [at : Endpoint, cpu : CpuAsks, mem : MemAsks]

\* What is asked for and read is counted, and nothing is taken for None.
Sizes ==
    /\ IsFiniteSet(Lease) /\ IsFiniteSet(Claim)
    /\ Cores \in Nat /\ Memory \in Nat /\ CpuAsks \subseteq Nat /\ MemAsks \subseteq Nat
    /\ Loads \subseteq Nat /\ Rests \subseteq 0 .. Memory
    /\ None \notin Reading \cup Commitment \cup Allocation

TypeOK ==
    /\ reading \in [Endpoint -> Reading \cup {None}]
    /\ online \subseteq {e \in Endpoint : reading[e] # None}
    /\ lease \in [Lease -> Commitment \cup {None}]
    /\ claim \in [Claim -> Allocation \cup {None}]
    /\ \A c \in Claim : claim[c] # None => claim[c].cpu + claim[c].mem > 0

Init ==
    /\ reading = [e \in Endpoint |-> None]
    /\ online = {}
    /\ lease = [l \in Lease |-> None]
    /\ claim = [c \in Claim |-> None]

-----------------------------------------------------------------------------
(* What is promised and what is left *)

\* The sum of the values of a function.
Total(f) == MapThenSumSet(LAMBDA x : f[x], DOMAIN f)

\* _endpoint_commitment_usage
Leases(e) == {l \in Lease : lease[l] # None /\ e \in lease[l].at}
DirectCpu(e) == Total([l \in Leases(e) |-> lease[l].cpu])
DirectMem(e) == Total([l \in Leases(e) |-> lease[l].mem])

\* _active_generic_host_usage
Claims(e) == {c \in Claim : claim[c] # None /\ claim[c].at = e}
GenericCpu(e) == Total([c \in Claims(e) |-> claim[c].cpu])
GenericMem(e) == Total([c \in Claims(e) |-> claim[c].mem])

\* Subtraction that stops at zero.
Less(a, b) == IF a > b THEN a - b ELSE 0

\* Defect: what leases were promised is not taken off.
FreeOfClaimsCpu(e) == Less(Less(Cores, reading[e].load), GenericCpu(e))

\* _host_capacity_cards
FreeCpu(e) == Less(Less(Less(Cores, reading[e].load), DirectCpu(e)), GenericCpu(e))
FreeMem(e) == Less(Less(reading[e].rest, DirectMem(e)), GenericMem(e))

\* The nearest tenth of a core.
Rounded(n) == Tenth * ((n + 1) \div Tenth)

-----------------------------------------------------------------------------
(* The two ways to a promise *)

\* Defect: what claims were given is not added.
FitsBesideLeases(e, cpu, mem) ==
    /\ cpu # 0 => DirectCpu(e) + cpu <= Cores
    /\ mem # 0 => DirectMem(e) + mem <= Memory

\* A GPU of the server is eligible for a lease that asks this much of it.
FitsLease(e, cpu, mem) ==
    /\ cpu # 0 => DirectCpu(e) + GenericCpu(e) + cpu <= Cores
    /\ mem # 0 => DirectMem(e) + GenericMem(e) + mem <= Memory

\* create_request: the same amounts on each of its servers.
Lend(l, S, cpu, mem) ==
    /\ lease[l] = None
    /\ \A e \in S : e \in online /\ FitsLease(e, cpu, mem)
    /\ lease' = [lease EXCEPT ![l] = [at |-> S, cpu |-> cpu, mem |-> mem, moved |-> FALSE]]
    /\ UNCHANGED <<reading, online, claim>>

\* reassign_lease_gpus: the commitments go along, whatever is there.
Move(l, S) ==
    /\ lease[l] # None
    /\ lease' = [lease EXCEPT ![l].at = S, ![l].moved = TRUE]
    /\ UNCHANGED <<reading, online, claim>>

\* A lease ends: its commitments count no more.
End(l) ==
    /\ lease[l] # None
    /\ lease' = [lease EXCEPT ![l] = None]
    /\ UNCHANGED <<reading, online, claim>>

Eligible(cpu, mem) ==
    {e \in online :
        /\ FreeCpu(e) > 0 \/ FreeMem(e) > 0
        /\ cpu # 0 => Rounded(FreeCpu(e)) >= cpu
        /\ mem # 0 => FreeMem(e) >= mem}

\* The candidates are sorted by what they have left, then by id.
Tighter(e, f) ==
    \/ Rounded(FreeCpu(e)) < Rounded(FreeCpu(f))
    \/ Rounded(FreeCpu(e)) = Rounded(FreeCpu(f))
       /\ (FreeMem(e) < FreeMem(f) \/ (FreeMem(e) = FreeMem(f) /\ e <= f))

\* Defect: a claim for nothing is taken.
AllocateAny(c, cpu, mem) ==
    /\ claim[c] = None
    /\ \E e \in Eligible(cpu, mem) :
          /\ \A f \in Eligible(cpu, mem) : Tighter(e, f)
          /\ claim' = [claim EXCEPT ![c] = [at |-> e, cpu |-> cpu, mem |-> mem]]
    /\ UNCHANGED <<reading, online, lease>>

\* create_resource_claim
Allocate(c, cpu, mem) ==
    /\ claim[c] = None
    /\ cpu # 0 \/ mem # 0
    /\ \E e \in Eligible(cpu, mem) :
          /\ \A f \in Eligible(cpu, mem) : Tighter(e, f)
          /\ claim' = [claim EXCEPT ![c] = [at |-> e, cpu |-> cpu, mem |-> mem]]
    /\ UNCHANGED <<reading, online, lease>>

\* release_resource_claim
Free(c) ==
    /\ claim[c] # None
    /\ claim' = [claim EXCEPT ![c] = None]
    /\ UNCHANGED <<reading, online, lease>>

\* The collector reads a server; collections fail, servers drain.
Read(e) ==
    /\ \E r \in Reading : reading' = [reading EXCEPT ![e] = r]
    /\ online' = online \cup {e}
    /\ UNCHANGED <<lease, claim>>

Lose(e) ==
    /\ e \in online
    /\ online' = online \ {e}
    /\ UNCHANGED <<reading, lease, claim>>

Servers == SUBSET Endpoint \ {{}}

Next ==
    \/ \E l \in Lease, S \in Servers :
          Move(l, S) \/ \E cpu \in CpuAsks, mem \in MemAsks : Lend(l, S, cpu, mem)
    \/ \E l \in Lease : End(l)
    \/ \E c \in Claim : Free(c) \/ \E cpu \in CpuAsks, mem \in MemAsks : Allocate(c, cpu, mem)
    \/ \E e \in Endpoint : Read(e) \/ Lose(e)

Spec == Init /\ [][Next]_vars

-----------------------------------------------------------------------------
(* Properties *)

\* What was promised on a server to the leases in L and to the claims there.
Promised(e, L) ==
    [cpu |-> Total([l \in L |-> lease[l].cpu]) + GenericCpu(e),
     mem |-> Total([l \in L |-> lease[l].mem]) + GenericMem(e)]

\* Rounding up gives away less than half a tenth of a core.
Within(p) == p.cpu <= Cores + (Tenth \div 2) /\ p.mem <= Memory

\* The two ways to a promise together never promise more than a server has,
\* whatever order leases, claims and readings come in.  Moved leases were
\* checked elsewhere and are left out.
AdmittedFits ==
    \A e \in Endpoint : Within(Promised(e, {l \in Leases(e) : ~lease[l].moved}))
=============================================================================
