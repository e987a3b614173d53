\* Repeated drains of one concept over two versions: failures, a kill, a
\* re-ingest, an unpublish and a publish of changed content.
SPECIFICATION Spec
CONSTANTS
    c1 = c1
    c2 = c2
    k1 = k1
    k2 = k2
    a1 = a1
    sweep = sweep
    None = None
    Concepts <- OneConcept
    Cycles <- OneCycle
    Sweeper = sweep
    Admins <- OneAdmin
    MaxVersion = 2
    MaxClaims = 4
    MaxAttempts = 3
    Slots = 2
    Adaptive = FALSE
    Backoff = FALSE
    Fair = FALSE
    Ageing = FALSE
    LeaseExpires = FALSE
    Overlap = FALSE
    Allowance <- RedrainAllowance
SYMMETRY Symmetry
INVARIANTS
    IndexedHasOneCopy
    CompletedIsComplete
    ArmedOnlyPublished
    ServedGraphNotCollected
    NoGhostClaim
CHECK_DEADLOCK FALSE
