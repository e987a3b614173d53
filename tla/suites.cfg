\* Two generations, requested twice, and a curator and two runs of the first
\* suite, with a crash of the server and a failed read or write anywhere.
SPECIFICATION FairSpec
CONSTANTS
    s1 = s1
    s2 = s2
    t1 = t1
    r1 = r1
    r2 = r2
    c1 = c1
    Suites <- TwoSuites
    Touched <- OneSuite
    Texts <- OneText
    Runs <- TwoRuns
    Curators <- OneCurator
    MaxClicks = 2
    None = None
    Allowance <- OneOfEach
INVARIANTS
    SuiteInv
    GenerationAnswered
    LiveRunNotReaped
CHECK_DEADLOCK FALSE
PROPERTIES
    ResultsStay
    RunsReachEnd
