CONSTANTS
    Cmds = {k1, k2, k3}
    Threads = 2
    MaxTime = 1
    Width = 1
    ClockMayStepBack = TRUE
    OverflowChecks = TRUE
    PanicKillsWorker = TRUE
    RecordsCallback = TRUE
    None = None

SPECIFICATION Spec
INVARIANTS
    TypeOK
    PanicOnlyAfterCallback
