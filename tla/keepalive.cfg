SPECIFICATION Spec
CONSTANTS
    Endpoint = {e1}
    Gpu = {g1}
    HostOf <- OneHost
    Lease = {l1, l2}
    Proc = {p1, p2}
    None = None
    Stale = 1
    AlertAfter = 1
    ReclaimAfter = 2
    Duration = 1
    MinRenewal = 1
    Policies = {"disabled", "idle_keepalive"}
    Lifecycles = {"active", "draining"}
    Faulty = {g1}
    CallLag = 0
    ProbeLag = 1
    MaxTime = 2
    Horizon = 2
SYMMETRY Symmetry
CHECK_DEADLOCK FALSE
INVARIANTS
    ExclusiveAssignment
    KeepaliveIsDurable
    EvidenceIsCoherent
    KeeperOnIsVerified
PROPERTIES
    KeepaliveEndsEmpty
