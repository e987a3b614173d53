------------------------------ MODULE Sidecar -------------------------------
(***************************************************************************)
(* The job registry of the ragas-service: judge jobs that the okf-server   *)
(* starts with a POST, polls with GETs and stops with a DELETE.  The n-th  *)
(* POST of run r starts job <<r, n>>; a job that was never started and one *)
(* the registry has forgotten answer alike, with a 404.  The retention of  *)
(* ended jobs is an hour: no poll comes so late, and none is dropped here. *)
(***************************************************************************)
EXTENDS Naturals, FiniteSets

CONSTANTS
    Runs,        \* the benchmark runs of a suite, re-scores included
    MaxTries,    \* one more than the delays of sidecarSubmitWithRetry
    MaxJobs      \* RAGAS_MAX_CONCURRENT_JOBS

ASSUME SidecarAssumption ==
    /\ IsFiniteSet(Runs)
    /\ MaxTries \in Nat \ {0}
    /\ MaxJobs \in Nat \ {0}

Jobs == Runs \X (1 .. MaxTries)

JobsOf(r) == {j \in Jobs : j[1] = r}

VARIABLE job    \* JOBS: the status of each job, queued and running being "live"

JobStatus == {"none", "live", "done", "failed", "cancelled"}

JobLive(j) == job[j] = "live"

Busy == Cardinality({j \in Jobs : JobLive(j)}) >= MaxJobs

StartJob(j) == ~Busy /\ job' = [job EXCEPT ![j] = "live"]

JobEnds(j) ==
    /\ JobLive(j)
    /\ \E s \in {"done", "failed"} : job' = [job EXCEPT ![j] = s]

(* A job that has ended keeps its status. *)
CancelJob(j) == job' = [job EXCEPT ![j] = IF @ = "live" THEN "cancelled" ELSE @]

RestartSidecar == job' = [j \in Jobs |-> "none"]
=============================================================================
