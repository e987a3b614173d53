---------------------------- MODULE IngestDrain -----------------------------
(***************************************************************************)
(* The OKF ingest drain: the worker's cycles, dataprep, the sweep and the  *)
(* lifecycle requests over the rows and the document they share, with the  *)
(* passing of time and the crash of the okf-server process.                *)
(***************************************************************************)
EXTENDS IngestWorker, WorkerSweep, RepoLifecycle

(***************************************************************************)
(* Time.  The phases before the wait are minutes, the staleness window is  *)
(* half an hour: a claim is not stale before its cycle waits.  Without     *)
(* adaptive windows the wait ends before the reaper's grace does.          *)
(***************************************************************************)
PreWait == CyclePCs \ {"wait", "timeout", "timeout_probe", "timeout_release", "heal"}

HolderAt(c, pcs) == \E k \in Cycles : row[c].claim = k /\ proc[k].c = c /\ proc[k].pc \in pcs

Age(c, from, to) ==
    /\ Ageing
    /\ row[c].status = "parsed" /\ row[c].claim # None /\ row[c].age = from
    /\ ~HolderAt(c, PreWait)
    /\ PatchRow(c, [row[c] EXCEPT !.age = to])
    /\ UNCHANGED <<repo, exists, chunks, task, late, proc, left>>

ClaimStales(c) == Age(c, "fresh", "stale")

ClaimExpires(c) == (Adaptive \/ ~HolderAt(c, {"wait"})) /\ Age(c, "stale", "expired")

ParkEnds(c) ==
    /\ row[c].park = "held"
    /\ PatchRow(c, [row[c] EXCEPT !.park = "over"])
    /\ UNCHANGED <<repo, exists, chunks, task, late, proc, left>>

TimeNext == \E c \in Concepts : ClaimStales(c) \/ ClaimExpires(c) \/ ParkEnds(c)

(* The okf-server dies with everything it held in memory and restarts. *)
ServerCrash ==
    /\ Spend("crash")
    /\ proc' = [p \in Procs |-> Idle]
    /\ late' = {}
    /\ UNCHANGED <<row, repo, exists, chunks, task>>

Next ==
    \/ WorkerNext
    \/ DataprepNext
    \/ SettlementNext
    \/ SweepNext
    \/ LifecycleNext
    \/ TimeNext
    \/ ServerCrash

Spec == Init /\ [][Next]_vars

(***************************************************************************)
(* The lanes poll, the sweep runs its passes in order again and again, the *)
(* event loop runs every started request to its next await, dataprep runs  *)
(* its tasks and the clock advances.  Requests and faults need not happen. *)
(***************************************************************************)
Fairness ==
    /\ \A k \in Cycles : WF_vars(CycleStep(k))
    /\ WF_vars(\E k \in Cycles : Claim(k))
    /\ \A p \in Procs : WF_vars(SettleStep(p))
    /\ \A a \in Admins : WF_vars(RequestStep(a))
    /\ \A c \in Concepts : WF_vars(TaskStep(c)) /\ WF_vars(Reap(c))
    /\ SF_vars(Reconcile) /\ SF_vars(ReapRead)
    /\ \A c \in Concepts : WF_vars(ClaimStales(c)) /\ WF_vars(ClaimExpires(c)) /\ WF_vars(ParkEnds(c))
    /\ WF_vars(LeaseAges)
    /\ WF_vars(\E cb \in late : DeliverLate(cb))

FairSpec == Spec /\ Fairness

-----------------------------------------------------------------------------
(***************************************************************************)
(* Safety.                                                                 *)
(***************************************************************************)

(* The graph a process or a task works on is one it took from a row or the *)
(* repository: a cycle's snapshot names its job, a settler and an arming   *)
(* request carry a minted version, a retract may carry the next draft.     *)
CarriesVersion ==
    (SettlePCs \cup AdminPCs)
        \ {"counts", "mark", "load", "drop", "requeue", "disarm", "submit", "approve"}

Snapshot(j) ==
    /\ j.pc \in CyclePCs => j.c \in Concepts /\ j.graph \in Graphs
    /\ j.pc \in {"drop", "requeue", "disarm"} => j.graph \in Graphs
    /\ j.pc \in CarriesVersion => j.graph \in Versions

SnapshotOK ==
    /\ \A p \in Procs : Snapshot(proc[p])
    /\ \A c \in Concepts : Live(c) => task[c].graph \in Graphs

TypeInvariant == TypeOK /\ SnapshotOK

(* Every claim was counted: the attempt that the reaper's budget            *)
(* (OKF_INGEST_WORKER_MAX_CLAIMS) reads is never missing under a claim,    *)
(* whichever of stamp, unclaim, reset and requeue ran last on the row.     *)
ClaimCounted == \A c \in Concepts : row[c].claim # None => row[c].attempts > 0

(* A fresh claim is never taken over: between the claim's read and its     *)
(* stamp nothing lets a second cycle stamp over a claim younger than the   *)
(* staleness window (claimNextJob: "never double-claim").                  *)
FreshClaimKept ==
    \A c \in Concepts :
        row'[c].claim \notin {None, row[c].claim} => row[c].claim = None \/ row[c].age # "fresh"

FreshClaimNotStolen == [][FreshClaimKept]_vars

(* What the claim chain guarantees while a stamp is on its way: no other   *)
(* stamp is, and if the row still has the claim that was read, that claim  *)
(* has not become fresh again.                                             *)
StampReadsOpen ==
    \A k \in Cycles :
        At(k, "stamp") =>
            /\ ~Fair
            /\ \A j \in Cycles : At(j, "stamp") => j = k
            /\ StampMatches(k) => ClaimOpen(row[proc[k].c])

(* At most one settler is between taking the settle lease and giving it    *)
(* back, as long as no settle outlasts the lease: two of them would rename *)
(* and drop the same collections.                                          *)
Settling(p) == proc[p].pc \in {"promote", "flip", "unlease"}

LeaseExclusive ==
    ~LeaseExpires => \A p, q \in Procs : Settling(p) /\ Settling(q) => p = q

(* Its strengthening: the lease names the settler, and is not old.         *)
LeaseHeld ==
    ~LeaseExpires => ~repo.leaseOld /\ \A p \in Procs : Settling(p) => repo.lease = p

(* The inductive invariant of the proofs.                                  *)
DrainInv == TypeInvariant /\ ClaimCounted /\ StampReadsOpen /\ LeaseHeld

(* While nothing crashes and no write fails, a pending row's claim belongs *)
(* to a cycle that is working on that row: every way out of a job gives    *)
(* the claim back or leaves the row terminal.                              *)
NoGhostClaim ==
    \A c \in Concepts :
        row[c].status = "parsed" /\ row[c].claim # None
            => HolderAt(c, CyclePCs \ {"stamp"})

(* While nothing crashes and no write fails, the progress record says      *)
(* 'draining' only while the repository is armed, or while the settler     *)
(* that disarmed it has still to write the final record.                   *)
DrainingOnlyWhileArmed ==
    repo.record = "draining" =>
        repo.armed \/ \E p \in Procs : proc[p].pc \in {"gc", "tally", "record"}

(* An indexed concept has exactly one copy of its chunks in the graph its  *)
(* row names: what failed attempts appended was retracted first.           *)
IndexedHasOneCopy ==
    \A c \in RowsIn("indexed") : chunks[row[c].graph][c] = 1

(* A version reported 'completed' serves every concept, once, from its     *)
(* serving graph.                                                          *)
CompletedIsComplete ==
    /\ repo.record = "completed" /\ ~repo.armed /\ repo.served = repo.version
    /\ \A p \in Procs : proc[p].pc \notin {"gc", "tally", "record"}
    => \A c \in Concepts : row[c].status = "indexed" /\ chunks[repo.servedGraph][c] = 1

(* A settle disarms the repository only when no concept is pending:        *)
(* _refreshRagIngestion counts first, and several awaits lie in between.   *)
SettlesDrained ==
    (\E p \in Procs : At(p, "flip") /\ proc'[p].pc \in {"gc", "tally"}) => RowsIn("parsed") = {}

SettleOnlyDrained == [][SettlesDrained]_vars

(* The pre-kick retract of a cycle that found its graph in place never     *)
(* deletes chunks under a task still ingesting the same concept: parked    *)
(* rows and stale claims are probed first.                                 *)
Retracts(k) == At(k, "retract_file") /\ proc'[k].pc = "post"

RetractsDead == \A k \in Cycles : Retracts(k) /\ ~proc[k].flag => ~Live(proc[k].c)

RetractSparesLiveTask == [][RetractsDead]_vars

(* "A row whose park just expired must be liveness-probed BEFORE the WS5   *)
(* retract [...] skipped right after a reset": a job that took over a      *)
(* parked row, in a drain that was never reset, does not retract under a   *)
(* live task.                                                              *)
ParkedRetractsDead == \A k \in Cycles : Retracts(k) /\ proc[k].parked => ~Live(proc[k].c)

ParkedIsProbedFirst == [][ParkedRetractsDead]_vars

(* The reaper: "WAITING rows (never claimed, or claimed recently) are      *)
(* immune".  No sweep dead-letters a row whose claim is fresh.             *)
ReapsStuck ==
    \A c \in Concepts :
        At(Sweeper, "reap") /\ c \in proc[Sweeper].list \ proc'[Sweeper].list /\ row'[c] # row[c]
            => ~(row[c].claim # None /\ row[c].age = "fresh")

ReapSparesRecentClaims == [][ReapsStuck]_vars

(* The state machine: "a RETRACTED repo's ONLY exit is submit -> review".  *)
RetractedExits == repo.state = "retracted" => repo'.state \in {"retracted", "review"}

RetractedExitsOnlyBySubmit == [][RetractedExits]_vars

(* A drain is armed only on a published repository: an armed drain freezes *)
(* every transition but the retract, which disarms it.                     *)
ArmedOnlyPublished == repo.armed => repo.state = "publish"

(* The graph a settler is about to drop as superseded is not the one the   *)
(* repository serves.                                                      *)
ServedGraphNotCollected ==
    \A p \in Procs : At(p, "gc") => proc[p].prev # repo.servedGraph

(***************************************************************************)
(* Liveness.                                                               *)
(***************************************************************************)

(* Every armed drain ends: it settles or is retracted, whatever callback,  *)
(* claim or process was lost on the way.                                   *)
DrainSettles == repo.armed ~> ~repo.armed
=============================================================================
