\* Everything that may go wrong, at most once or twice, over two crawls of
\* a site of two pages.
SPECIFICATION FairSpec
CONSTANTS
    p1 = p1
    p2 = p2
    p3 = p3
    None = None
    MaxFiles = 2
    Pages <- TwoPages
    NumThreads = 1
    PageSize = 2
    MaxPages = 1
    Concurrency = 2
    MaxRestarts = 1
    Allowed <- Events
    MaxEvents = 2
INVARIANTS
    CrawlInv
    WorkerWatched
    BackoffBounded
    SucceededIsWhole
CHECK_DEADLOCK FALSE
PROPERTIES
    Implements
    ZombiesRecovered
    DoomedCrawlEnds
    PendingTaken
