SPECIFICATION SpecMC
CONSTANTS
    MaxPlans = 3
    Key = {1, 2, 3}
    Size <- MCSize
    MaxSeconds = 3
    Hundred = 2
    None = None
    Host = {1, 2, 3}
    Index = {0, 1}
    MaxCount = 3
    Endpoint = {1, 2}
    Lease = {l1, l2}
    HostClaim = {k1, k2}
    Cores = 6
    Memory = 1
    Loads = {0, 2}
    Rests = {1}
    CpuAsks = {0, 3, 4}
    MemAsks = {0, 1}
    Call = {a, b}
    Grant = {g1, g2}
    Gpus = 2
SYMMETRY Alike
CHECK_DEADLOCK FALSE
INVARIANTS
    TablesAreRight
    SmallestUseful
    SavingsAddUp
    ChoiceIsExact
    PlanIsEnough
    AdmittedFits
    OneOwnLease
    RefusedHoldsNothing
