---------------------------- MODULE MCBenchmark -----------------------------
EXTENDS BenchmarkService, TLC

CONSTANTS r0, r1

TwoRuns == {r0, r1}
OneFinished == {r0}
=============================================================================
