CONSTANTS
    Cmds = {k1, k2}
    Threads = 1
    MaxTime = 2
    Width = 2
    ClockMayStepBack = TRUE
    OverflowChecks = TRUE
    PanicKillsWorker = TRUE
    RecordsCallback = TRUE
    None = None

SPECIFICATION Spec
PROPERTY EveryCallCallsBack
