SPECIFICATION SpecH
CONSTANTS
    Endpoint = {e1}
    Gpu = {g1, g2}
    HostOf <- OneHost
    Lease = {l1}
    Proc = {p1}
    None = None
    Stale = 1
    AlertAfter = 1
    ReclaimAfter = 2
    Duration = 1
    MinRenewal = 1
    Policies = {}
    Lifecycles = {}
    Faulty = {}
    CallLag = 0
    ProbeLag = 0
    MaxTime = 2
    Horizon = 3
CHECK_DEADLOCK FALSE
PROPERTY IdleWindowIsObserved
