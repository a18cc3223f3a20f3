---------------------------- MODULE MCResources -----------------------------
(***************************************************************************)
(* What a request is given, for TLC: the placement of a claim, the choice    *)
(* among resource plans, CPU and memory of the servers, and calls repeated   *)
(* over a connection that fails.  The four share no state, so a behaviour   *)
(* plays one part and the variables of the others stay as they are.         *)
(***************************************************************************)
EXTENDS Placement, TLC

CONSTANTS
    MaxPlans, Key, Size, MaxSeconds, Hundred,
    Endpoint, Lease, HostClaim, Cores, Memory, Loads, Rests, CpuAsks, MemAsks,
    Call, Grant, Gpus

VARIABLES
    part,
    plans, minSaved, minFraction, at, selected, decided, rows, step,
    reading, online, lease, claim,
    call, queue, answers, remembered, grant, idle, keeping

L == INSTANCE ResourcePlanner WITH phase <- step
K == INSTANCE Capacity WITH Claim <- HostClaim
R == INSTANCE RoutineCalls WITH free <- idle, kept <- keeping

ASSUME ResourcesAssumption == L!Bounds /\ L!Plan # {} /\ K!Sizes /\ R!GoodGrants

lvars == <<plans, minSaved, minFraction, at, selected, decided, rows, step>>
kvars == <<reading, online, lease, claim>>
rvars == <<call, queue, answers, remembered, grant, idle, keeping>>

allvars == <<part, vars, lvars, kvars, rvars>>

\* A planner at rest.
Rest ==
    /\ plans = <<CHOOSE p \in L!Plan : TRUE>> /\ decided = <<"not-reached">>
    /\ minSaved = 0 /\ minFraction = 0 /\ at = 1 /\ selected = 1 /\ rows = {}
    /\ step = "refused"

\* Keys are only compared: a new one may be taken to be the least not used yet.
KeysInOrder ==
    \A k \in DOMAIN plans, i \in Key :
        i < plans[k].key => \E j \in 1 .. k - 1 : plans[j].key = i

InitMC ==
    /\ \/ part = "plans" /\ L!Init /\ KeysInOrder
       \/ part \in {"placement", "capacity", "calls"} /\ Rest
    /\ Init /\ K!Init /\ R!Init
    /\ part # "calls" => idle = 0 /\ keeping = 0

\* Bound: one act of others, when all workers of the plan have yielded.  Earlier ones
\* are no different: they commute with the yielding of other GPUs.
OneAct ==
    \A g \in Gpu : OthersAct(g) => phase = "again" /\ free \cup kept \cup yielded = offered

NextMC ==
    \/ part = "placement" /\ Next /\ OneAct /\ UNCHANGED <<part, lvars, kvars, rvars>>
    \/ part = "plans" /\ L!Next /\ UNCHANGED <<part, vars, kvars, rvars>>
    \/ part = "capacity" /\ K!Next /\ UNCHANGED <<part, vars, lvars, rvars>>
    \/ part = "calls" /\ R!Next /\ UNCHANGED <<part, vars, lvars, kvars>>

SpecMC == InitMC /\ [][NextMC]_allvars

\* No resource, two that cannot be compared, and two that are larger.
MCSize == {<<0, 0>>, <<0, 1>>, <<1, 0>>, <<1, 1>>, <<2, 1>>}

Alike == Permutations(Lease) \cup Permutations(HostClaim)

-----------------------------------------------------------------------------
(* Properties, and those of the instances under names a configuration can give *)

\* The stored evaluation marks the plan that was chosen, and every table has its
\* type (evaluate_resource_plan).
TablesAreRight == TypeOK /\ L!TypeOK /\ L!RecordIsTrue /\ K!TypeOK /\ R!TypeOK

\* The plan chosen is the last one that steps that pay reach
\* (select_smallest_useful_plan).
SmallestUseful == L!SmallestUseful

\* The chosen plan saves at least the threshold for every step it is larger
\* (select_smallest_useful_plan).
SavingsAddUp == L!SavingsAddUp

\* A claim gets GPUs that meet its constraints, as evenly spread as it asked, and
\* is refused only if there are none (_select_resources).
ChoiceIsExact == ChosenFits /\ RefusedOnlyIfImpossible /\ SpreadIsEven

\* Leases and claims together are never promised more than a server has
\* (_eligible_gpus, _select_host_capacity_unit).
AdmittedFits == K!AdmittedFits

\* A call is given one lease at most, however it is repeated, and the lease its
\* agent is told is its own (gpu_apply, _routine_request_key, _idempotent).
OneOwnLease == R!OneLeasePerCall /\ R!AnswersAreOwn

\* No lease is left of a call that was refused (claim_request_now).
RefusedHoldsNothing == R!RefusedHoldsNothing
=============================================================================
