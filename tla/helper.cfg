SPECIFICATION Spec
CONSTANTS
    Gpu = {g1, g2}
    Call = {c1, c2}
    Pid = {p1, p2}
    None = None
    MaxTicks = 2
    MaxBoot = 1
    MaxKills = 1
CHECK_DEADLOCK FALSE
INVARIANTS
    RecordsAreRight
    NoUnrecordedWorker
PROPERTIES
    OthersUntouched
    StopIsComplete
    CallsFinish
