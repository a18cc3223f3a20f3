SPECIFICATION SpecMC
CONSTANTS
    None = None
    Key = {k1}
    Caller = {1, 2}
    Job = {1, 2}
    Transfer = {t1, t2}
CHECK_DEADLOCK FALSE
INVARIANTS
    JobRowsAreTrue
PROPERTIES
    LogImplemented
    RetriesFindTheJob
    PolledRowsCatchUp
    OutcomesAreFinal
    TransfersGetAnOutcome
