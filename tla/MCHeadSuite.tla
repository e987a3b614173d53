---------------------------- MODULE MCHeadSuite -----------------------------
EXTENDS HeadSuiteService, TLC

CONSTANTS s1, s2, t1, r1, r2, c1

TwoSuites == {s1, s2}
OneText == {t1}
TwoRuns == {r1, r2}
OneRun == {r1}
OneSuite == {s1}
OneCurator == {c1}
OneOfEach == [e \in Faults |-> 1]
=============================================================================
