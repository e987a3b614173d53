-------------------------- MODULE BenchmarkService --------------------------
(***************************************************************************)
(* The benchmark runs of a suite as a whole: the okf-server's workers,     *)
(* requests and boot sweep, the sidecar that judges, the DELETEs between   *)
(* them, and the restarts of either side.                                  *)
(***************************************************************************)
EXTENDS BenchmarkRuns

others == <<docs, memory, worker, get, deleting, sweep>>

Judge(j) ==
    /\ JobEnds(j)
    /\ UNCHANGED <<others, kills, lost, left>>

KillArrives(j) ==
    /\ j \in kills
    /\ CancelJob(j)
    /\ kills' = kills \ {j}
    /\ UNCHANGED <<others, lost, left>>

KillLost(j) ==
    /\ j \in kills
    /\ Spend("net")
    /\ kills' = kills \ {j}
    /\ lost' = lost \cup {j}
    /\ UNCHANGED <<others, job>>

SidecarRestarts ==
    /\ Spend("restart")
    /\ RestartSidecar
    /\ UNCHANGED <<others, kills, lost>>

Saving == {r \in Runs : At(r, "save") \/ At(r, "copy")}

(* The server dies; the DELETEs it has sent, and the placeholders it was   *)
(* saving, may or may not arrive.                                          *)
ServerCrash ==
    /\ Spend("crash")
    /\ inFlight' = None
    /\ rescoring' = {}
    /\ asked' = {}
    /\ active' = {}
    /\ \E saved \in SUBSET Saving :
          /\ doc' = [r \in Runs |-> IF r \in saved THEN "running" ELSE doc[r]]
          /\ worker' = [r \in Runs |-> IF At(r, "new") THEN worker[r]
                                      ELSE IF At(r, "orphan") \/ r \in saved THEN Worker("orphan")
                                      ELSE Worker("off")]
    /\ get' = [r \in Runs |-> IF get[r] = "told" THEN "told" ELSE "idle"]
    /\ deleting' = None
    /\ sweep' = [NoSweep EXCEPT !.pc = "start"]
    /\ kills' \in SUBSET kills
    /\ UNCHANGED <<suite, recorded, job, lost>>

RunNext ==
    \E r \in Runs :
        \/ BeginRun(r) \/ SaveFails(r) \/ WorkerStep(r)
        \/ \E src \in Runs : BeginRescore(r, src)
        \/ CancelRun(r) \/ DeleteRun(r) \/ GetRun(r) \/ ProbeRun(r) \/ MarkRun(r)

SidecarNext == SidecarRestarts \/ \E j \in Jobs : Judge(j) \/ KillArrives(j) \/ KillLost(j)

Next == RunNext \/ DeleteSuite \/ RemoveSuite \/ SweepStep \/ SidecarNext \/ ServerCrash

Spec == Init /\ [][Next]_vars

(***************************************************************************)
(* The event loop runs every promise chain, request and sweep it started   *)
(* to its end, a request sent is answered, a judge job ends, and the panel *)
(* polls a run whose key it was told until it is answered that it ended.   *)
(* Nobody need start, cancel or delete anything, nor ask again.            *)
(***************************************************************************)
PanelPolls(r) == get[r] = "idle" /\ ~At(r, "orphan") /\ GetRun(r)

Fairness ==
    /\ \A r \in Runs : WF_vars(WorkerStep(r))
    /\ \A r \in Runs : WF_vars(PanelPolls(r) \/ ProbeRun(r) \/ MarkRun(r))
    /\ \A j \in Jobs : WF_vars(Judge(j)) /\ WF_vars(KillArrives(j))
    /\ WF_vars(RemoveSuite)
    /\ WF_vars(SweepStep)

FairSpec == Spec /\ Fairness

-----------------------------------------------------------------------------
(***************************************************************************)
(* Safety.                                                                 *)
(***************************************************************************)

(* An in-flight entry stands for a worker, and every worker but one that   *)
(* copies for a re-score has one: a lock without a worker would refuse     *)
(* every later run of the suite.                                           *)
Owned ==
    \A r \in Runs :
        /\ Alive(r) <=> worker[r].pc \notin Idle
        /\ At(r, "save") => inFlight = r

OneKind == inFlight \notin rescoring

(* A registered job has a worker that polls it. *)
Polled == \A j \in active : At(j[1], "poll") /\ Held(j[1]) = j

(* A worker submits before it holds a job, and never too often. *)
Unjudged == {"new", "save", "copy", "load", "answer"}

Holding == {"record", "guard", "poll", "drop", "write"}

Submitted ==
    \A r \in Runs :
        /\ worker[r].pc \in Unjudged => worker[r].tries = 0
        /\ At(r, "submit") => worker[r].tries < MaxTries
        /\ worker[r].pc \in Holding => worker[r].tries > 0

(* A run that still has its last write before it is not recorded as        *)
(* decided, nor as cancelled while it is in its catch block; and no poll   *)
(* is about to fail a run that lives or was decided, or has failed to.     *)
Undecided == {"load", "answer", "fail", "submit", "record", "guard", "poll", "drop", "write"}

Verdicts ==
    \A r \in Runs :
        /\ worker[r].pc \in {"new", "save", "copy"} => doc[r] = "none"
        /\ worker[r].pc \in Undecided => doc[r] \notin {"done", "cancelled"}
        /\ At(r, "persist") => doc[r] # "cancelled"
        /\ At(r, "orphan") => doc[r] \notin {"done", "cancelled"}
        /\ get[r] # "idle" => (At(r, "off") \/ At(r, "orphan")) /\ doc[r] \notin {"done", "cancelled"}

(* A polled job that is live is registered for a cancel to find, unless a  *)
(* DELETE for it was sent already; none of them belongs to a cancelled run *)
(* that sent none.                                                         *)
Cancels ==
    \A r \in Runs :
        At(r, "poll") /\ JobLive(Held(r)) =>
            Held(r) \in kills \cup lost \/ (Held(r) \in active /\ r \notin asked)

(* The inductive invariant of BenchmarkService_proofs. *)
BenchmarkInv == TypeOK /\ Owned /\ OneKind /\ Polled /\ Submitted /\ Verdicts /\ Cancels

(* A cancel reaches the judge wherever the run stands when it lands: while *)
(* a cancelled run polls a live job, a DELETE for it is on its way, unless *)
(* one has failed (cancelSuiteRun, and the guard after the submit).        *)
CancelReachesJob ==
    \A r \in Runs :
        At(r, "poll") /\ r \in asked /\ JobLive(Held(r)) => Held(r) \in kills \cup lost

(* A run that ended well, or as cancelled, keeps that verdict: no poll and *)
(* no other run overwrites it.  The boot sweep may, for a run that was     *)
(* begun between its notes and its query (sweepInterruptedRuns), and so    *)
(* may the worker of a run that is done, whose catch block writes "failed" *)
(* or "cancelled" when the answer to its last write was lost.              *)
VerdictKept ==
    \A r \in Runs :
        doc[r] \in {"done", "cancelled"} /\ doc'[r] # doc[r] =>
            \/ doc'[r] = "none"
            \/ doc[r] = "done" /\ Persist(r)
            \/ sweep.pc = "mark" /\ sweep.r = r

VerdictFinal == [][VerdictKept]_vars

(***************************************************************************)
(* Liveness.                                                               *)
(***************************************************************************)

(* What the panel shows as running: not a run whose key nobody was told,   *)
(* nor one that it was told has failed.                                    *)
Shown(r) == doc[r] = "running" /\ ~At(r, "orphan") /\ get[r] # "told"

(* A run that shows as running comes to an end, or goes with its suite,    *)
(* although the server, the sidecar, a request or a write failed: the      *)
(* worker decides it, or the polls and the sweep find it interrupted       *)
(* (getRun, sweepInterruptedRuns).                                         *)
RunsEnd == \A r \in Runs : Shown(r) ~> ~Shown(r)
=============================================================================
