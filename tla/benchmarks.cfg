\* A run, or a re-score of the finished run r0, with any three faults: a crash,
\* a restart of the sidecar, a failed request, a failed write, a failed leg.
SPECIFICATION FairSpec
CONSTANTS
    r0 = r0
    r1 = r1
    Runs <- TwoRuns
    Finished <- OneFinished
    None = None
    MaxTries = 2
    MaxJobs = 1
    Allowed <- Faults
    MaxFaults = 3
INVARIANTS
    BenchmarkInv
    CancelReachesJob
PROPERTIES
    VerdictFinal
    RunsEnd
CHECK_DEADLOCK FALSE
