\* A settle that was past its lease when a retract tore the repository down.
SPECIFICATION Spec
CONSTANTS
    c1 = c1
    c2 = c2
    k1 = k1
    k2 = k2
    a1 = a1
    sweep = sweep
    None = None
    Concepts <- OneConcept
    Cycles <- OneCycle
    Sweeper = sweep
    Admins <- OneAdmin
    MaxVersion = 1
    MaxClaims = 2
    MaxAttempts = 2
    Slots = 1
    Adaptive = FALSE
    Backoff = FALSE
    Fair = FALSE
    Ageing = FALSE
    LeaseExpires = FALSE
    Overlap = TRUE
    Allowance <- RetractAllowance
SYMMETRY Symmetry
PROPERTIES
    RetractedExitsOnlyBySubmit
CHECK_DEADLOCK FALSE
