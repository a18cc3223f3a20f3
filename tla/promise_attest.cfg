SPECIFICATION Spec
CONSTANTS
    Gpu = {g1}
    Call = {c1, c2}
    Pid = {p1, p2}
    None = None
    MaxTicks = 2
    MaxBoot = 0
    MaxKills = 0
CHECK_DEADLOCK FALSE
INVARIANTS
    ProofNamesWorker
