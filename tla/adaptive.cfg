\* Adaptive windows and the fair claim: waits outlast their windows, and the
\* okf-server restarts once while a task is running.
SPECIFICATION Spec
CONSTANTS
    c1 = c1
    c2 = c2
    k1 = k1
    k2 = k2
    a1 = a1
    sweep = sweep
    None = None
    Concepts <- TwoConcepts
    Cycles <- OneCycle
    Sweeper = sweep
    Admins <- OneAdmin
    MaxVersion = 1
    MaxClaims = 2
    MaxAttempts = 2
    Slots = 1
    Adaptive = TRUE
    Backoff = FALSE
    Fair = TRUE
    Ageing = TRUE
    LeaseExpires = FALSE
    Overlap = FALSE
    Allowance <- RestartAllowance
SYMMETRY Symmetry
PROPERTIES
    RetractSparesLiveTask
    SettleOnlyDrained
CHECK_DEADLOCK FALSE
