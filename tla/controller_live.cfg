SPECIFICATION SpecMC
CONSTANTS
    e1 = e1
    e2 = e2
    Endpoint = {e1, e2}
    Gpu = {g1}
    HostOf <- OneHost
    Lease = {l1}
    Proc = {w1, w2, j1}
    Worker = {w1, w2}
    Reconciler = {r1}
    Claimer = {c1, c2}
    Rank <- Ranks
    MaxFaults = 1
    None = None
    Stale = 1
    AlertAfter = 1
    ReclaimAfter = 1
    Duration = 1
    MinRenewal = 1
    Policies = {"disabled", "idle_keepalive"}
    Lifecycles = {}
    Faulty = {}
    CallLag = 0
    ProbeLag = 0
    MaxTime = 0
    Horizon = 1
PROPERTIES
    DisabledKeepersEnd
    WorkersYield
    TasksEnd
