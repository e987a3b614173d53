\* Two cycles over one concept whose requests, writes, acknowledgements and
\* callbacks fail or arrive late, with claims that go stale.
SPECIFICATION Spec
CONSTANTS
    c1 = c1
    c2 = c2
    k1 = k1
    k2 = k2
    a1 = a1
    sweep = sweep
    None = None
    Concepts <- OneConcept
    Cycles <- TwoCycles
    Sweeper = sweep
    Admins <- OneAdmin
    MaxVersion = 1
    MaxClaims = 2
    MaxAttempts = 2
    Slots = 1
    Adaptive = FALSE
    Backoff = TRUE
    Fair = FALSE
    Ageing = TRUE
    LeaseExpires = FALSE
    Overlap = FALSE
    Allowance <- FaultAllowance
SYMMETRY Symmetry
INVARIANTS
    DrainInv
PROPERTIES
    FreshClaimNotStolen
CHECK_DEADLOCK FALSE
