SPECIFICATION Spec
CONSTANTS
    Endpoint = {e1}
    Gpu = {g1, g2}
    HostOf <- OneHost
    Lease = {l1, l2}
    Proc = {p1}
    None = None
    Stale = 1
    AlertAfter = 1
    ReclaimAfter = 2
    Duration = 1
    MinRenewal = 1
    Policies = {}
    Lifecycles = {}
    Faulty = {}
    CallLag = 0
    ProbeLag = 0
    MaxTime = 2
    Horizon = 3
SYMMETRY Symmetry
CHECK_DEADLOCK FALSE
INVARIANTS
    TypeOK
    OrphanAlertIsExact
PROPERTIES
    AssignmentImplemented
    GrantOnlyObservedEmpty
    ReclaimSawEmpty
