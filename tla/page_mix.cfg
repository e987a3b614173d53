\* Two pages of a batch on one page thread.
SPECIFICATION Spec
CONSTANTS
    p1 = p1
    p2 = p2
    p3 = p3
    None = None
    MaxFiles = 1
    Pages <- ThreePages
    NumThreads = 1
    PageSize = 2
    MaxPages = 3
    Concurrency = 2
    MaxRestarts = 1
    Allowed <- NoEvents
    MaxEvents = 0
INVARIANTS
    TextUnderItsPage
CHECK_DEADLOCK FALSE
