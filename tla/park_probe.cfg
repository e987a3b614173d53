\* An expired park in a fresh drain, whose graph does not exist yet.
SPECIFICATION Spec
CONSTANTS
    c1 = c1
    c2 = c2
    k1 = k1
    k2 = k2
    a1 = a1
    sweep = sweep
    None = None
    Concepts <- OneConcept
    Cycles <- OneCycle
    Sweeper = sweep
    Admins <- OneAdmin
    MaxVersion = 1
    MaxClaims = 3
    MaxAttempts = 3
    Slots = 1
    Adaptive = TRUE
    Backoff = FALSE
    Fair = FALSE
    Ageing = TRUE
    LeaseExpires = FALSE
    Overlap = FALSE
    Allowance <- DrainAllowance
SYMMETRY Symmetry
PROPERTIES
    ParkedIsProbedFirst
CHECK_DEADLOCK FALSE
