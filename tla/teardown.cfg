\* A retract at any point of a drain of two concepts, also between any two
\* steps of a refresh, and the version and the drain after it: a cycle that
\* finds the graph missing resets the drain while the retract is at work.
SPECIFICATION Spec
CONSTANTS
    c1 = c1
    c2 = c2
    k1 = k1
    k2 = k2
    a1 = a1
    sweep = sweep
    None = None
    Concepts <- TwoConcepts
    Cycles <- OneCycle
    Sweeper = sweep
    Admins <- OneAdmin
    MaxVersion = 2
    MaxClaims = 2
    MaxAttempts = 2
    Slots = 1
    Adaptive = FALSE
    Backoff = FALSE
    Fair = FALSE
    Ageing = FALSE
    LeaseExpires = FALSE
    Overlap = TRUE
    Allowance <- TeardownAllowance
SYMMETRY Symmetry
INVARIANTS
    ClaimCounted
    NoGhostClaim
    DrainingOnlyWhileArmed
    LeaseExclusive
CHECK_DEADLOCK FALSE
