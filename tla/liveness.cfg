\* Every drain ends although the okf-server and dataprep each crash once, a
\* callback is lost and a write fails.
SPECIFICATION FairSpec
CONSTANTS
    c1 = c1
    c2 = c2
    k1 = k1
    k2 = k2
    a1 = a1
    sweep = sweep
    None = None
    Concepts <- OneConcept
    Cycles <- OneCycle
    Sweeper = sweep
    Admins <- OneAdmin
    MaxVersion = 1
    MaxClaims = 2
    MaxAttempts = 2
    Slots = 1
    Adaptive = FALSE
    Backoff = FALSE
    Fair = TRUE
    Ageing = TRUE
    LeaseExpires = TRUE
    Overlap = FALSE
    Allowance <- LossAllowance
PROPERTIES
    DrainSettles
CHECK_DEADLOCK FALSE
