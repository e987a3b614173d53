---------------------------- MODULE CrawlWorker -----------------------------
(***************************************************************************)
(* The crawl worker thread: the requeue of jobs a former worker left in    *)
(* 'Crawling', which is retried in the background while it fails, and the  *)
(* poll loop, which takes the oldest pending job and crawls it.            *)
(***************************************************************************)
EXTENDS PagePool

(***************************************************************************)
(* requeueZombieJobs: pages of at most PageSize zombies, each finalised or *)
(* requeued by an update of its own.  The poll loop starts after the first *)
(* pass, whatever became of it.                                            *)
(***************************************************************************)
Zombies == {f \in InStatus("Crawling") : ~job[f].fresh}

(* Mutant of PassEnds: a pass that failed is not retried. *)
PassEnds_NoRetry(failed) ==
    /\ req' = [NoReq EXCEPT !.pc = "done"]
    /\ run' = [run EXCEPT !.pc = IF @ = "off" THEN "idle" ELSE @]

PassEnds(failed) ==
    /\ req' = [NoReq EXCEPT !.pc = IF failed THEN "retry" ELSE "done"]
    /\ run' = [run EXCEPT !.pc = IF @ = "off" THEN "idle" ELSE @]

ReadZombies ==
    /\ req.pc = "read"
    /\ \E batch \in SUBSET Zombies :
          /\ Cardinality(batch) = IF Cardinality(Zombies) < PageSize THEN Cardinality(Zombies)
                                                                     ELSE PageSize
          /\ req' = [req EXCEPT !.pc = "batch", !.todo = batch,
                                !.kill = {f \in batch : job[f].kill},
                                !.full = Cardinality(batch) = PageSize]
    /\ UNCHANGED <<store, api, sup, thread, run, pages, left>>

ReadZombiesFails ==
    /\ req.pc = "read"
    /\ Spend("dberr")
    /\ PassEnds(TRUE)
    /\ UNCHANGED <<store, api, sup, thread, pages>>

RequeueStatus(f) == IF f \in req.kill THEN "Killed" ELSE "Pending"

Requeue(f) ==
    /\ req.pc = "batch"
    /\ f \in req.todo
    /\ req' = [req EXCEPT !.todo = @ \ {f}, !.failed = @ \/ ~Exists(f)]
    /\ IF Exists(f) THEN SetStatus(f, RequeueStatus(f)) ELSE UNCHANGED job
    /\ UNCHANGED <<file, disk, api, sup, thread, run, pages, left>>

(* Requeued, but the log entry about it fails: the pass counts it as failed. *)
RequeueLogFails(f) ==
    /\ req.pc = "batch"
    /\ f \in req.todo
    /\ Exists(f)
    /\ Spend("dberr")
    /\ req' = [req EXCEPT !.todo = @ \ {f}, !.failed = TRUE]
    /\ SetStatus(f, RequeueStatus(f))
    /\ UNCHANGED <<file, disk, api, sup, thread, run, pages>>

RequeueFails(f) ==
    /\ req.pc = "batch"
    /\ f \in req.todo
    /\ Spend("dberr")
    /\ req' = [req EXCEPT !.todo = @ \ {f}, !.failed = TRUE]
    /\ UNCHANGED <<store, api, sup, thread, run, pages>>

BatchDone ==
    /\ req.pc = "batch"
    /\ req.todo = {}
    /\ IF req.full THEN req' = [req EXCEPT !.pc = "read"] /\ UNCHANGED run
                   ELSE PassEnds(req.failed)
    /\ UNCHANGED <<store, api, sup, thread, pages, left>>

RetryPass ==
    /\ req.pc = "retry"
    /\ req' = [NoReq EXCEPT !.pc = "read"]
    /\ UNCHANGED <<store, api, sup, thread, run, pages, left>>

(***************************************************************************)
(* processJob.                                                             *)
(***************************************************************************)
Goto(pc) == run' = [run EXCEPT !.pc = pc]

Oldest(f) == \A g \in InStatus("Pending") : f <= g

(* The poll reads the oldest pending job, and opens its file for writing. *)
Poll(f) ==
    /\ run.pc = "idle"
    /\ f \in InStatus("Pending")
    /\ Oldest(f)
    /\ run' = [NoRun EXCEPT !.pc = "claim", !.f = f, !.todo = Pages]
    /\ disk' = [disk EXCEPT ![f] = "open"]
    /\ UNCHANGED <<job, file, api, sup, thread, req, pages, left>>

(* Mutant of ClaimPatch: the claim is not stamped. *)
ClaimPatch_Unstamped(j) == [j EXCEPT !.status = "Crawling"]

ClaimPatch(j) == [j EXCEPT !.status = "Crawling", !.fresh = TRUE]

Claim ==
    /\ run.pc = "claim"
    /\ IF Exists(run.f)
         THEN job' = [job EXCEPT ![run.f] = ClaimPatch(@)] /\ Goto("crawl")
         ELSE Goto("fail") /\ UNCHANGED job
    /\ UNCHANGED <<file, disk, api, sup, thread, req, pages, left>>

(* Mutant of KillSeen: a job that is gone is taken for a transient error. *)
KillSeen_FlagOnly(f) == job[f].kill

(* checkKillStatus, from the kill watch or a callback of the crawl. *)
KillSeen(f) == ~Exists(f) \/ job[f].kill

CheckKill ==
    /\ run.f # None
    /\ ~run.abort
    /\ KillSeen(run.f)
    /\ run' = [run EXCEPT !.abort = TRUE]
    /\ UNCHANGED <<store, api, sup, thread, req, pages, left>>

(* The seed page alone, then batches of at most Concurrency pages.  Nothing *)
(* raises the DomainRateLimited that would put a page off.                  *)
StartBatch(b) ==
    /\ run.pc = "crawl"
    /\ ~run.abort
    /\ b # {} /\ b \subseteq run.todo
    /\ Cardinality(b) <= IF run.todo = Pages THEN 1 ELSE Concurrency
    /\ run' = [run EXCEPT !.pc = "batch", !.todo = @ \ b, !.batch = b]
    /\ UNCHANGED <<store, api, sup, thread, req, pages, left>>

(* A page of the batch that fails to load, or is met by the kill check. *)
PageFails(p) ==
    /\ run.pc = "batch"
    /\ p \in run.batch
    /\ run' = [run EXCEPT !.batch = @ \ {p}]
    /\ UNCHANGED <<store, api, sup, thread, req, pages, left>>

PageOverLimit(p) ==
    /\ run.pc = "batch"
    /\ p \in run.batch
    /\ ~run.abort
    /\ run.wrote >= MaxPages
    /\ run' = [run EXCEPT !.batch = @ \ {p}, !.limit = TRUE]
    /\ UNCHANGED <<store, api, sup, thread, req, pages, left>>

(* Every promise of the batch has settled. *)
BatchEnds ==
    /\ run.pc = "batch"
    /\ run.batch = {}
    /\ Waiting = {}
    /\ Goto(IF run.limit /\ ~run.abort THEN "save" ELSE "crawl")
    /\ UNCHANGED <<store, api, sup, thread, req, pages, left>>

CrawlKilled ==
    /\ run.pc = "crawl"
    /\ run.abort
    /\ Goto("killed")
    /\ UNCHANGED <<store, api, sup, thread, req, pages, left>>

(* No page is left, or the depth is reached. *)
CrawlDone ==
    /\ run.pc = "crawl"
    /\ ~run.abort
    /\ run.todo # Pages \/ Pages = {}
    /\ Goto("save")
    /\ UNCHANGED <<store, api, sup, thread, req, pages, left>>

(* The stream is closed and the files document updated, if there is one. *)
Save ==
    /\ run.pc = "save"
    /\ disk' = [disk EXCEPT ![run.f] = IF @ = "open" THEN "full" ELSE @]
    /\ IF run.wrote = 0 \/ disk[run.f] = "none"
         THEN Goto("fail") /\ UNCHANGED file
         ELSE /\ Goto("succeed")
              /\ file' = [file EXCEPT ![run.f] = IF @ = "none" THEN "none" ELSE "saved"]
    /\ UNCHANGED <<job, api, sup, thread, req, pages, left>>

(* Mutant of LeaveJob: the poll is not scheduled again. *)
LeaveJob_StopsPolling == run' = NoRun /\ section' = Blank

LeaveJob == run' = [NoRun EXCEPT !.pc = "idle"] /\ section' = Blank

Fail == Goto("fail") /\ UNCHANGED section

Succeed ==
    /\ run.pc = "succeed"
    /\ IF Exists(run.f) THEN SetStatus(run.f, "Succeeded") /\ LeaveJob
                        ELSE Fail /\ UNCHANGED job
    /\ UNCHANGED <<file, disk, api, sup, thread, req, pool, rr, left>>

(* Mutant of FinalStatus: every failure is taken for a partial success. *)
FinalStatus_Partial == IF run.pc = "killed" THEN "Killed" ELSE "Succeeded"

(* The final status of a crawl that threw. *)
FinalStatus == IF run.pc = "killed" THEN "Killed" ELSE "Failed"

End ==
    /\ run.pc \in {"fail", "killed"}
    /\ IF Exists(run.f) THEN SetStatus(run.f, FinalStatus) ELSE UNCHANGED job
    /\ LeaveJob
    /\ UNCHANGED <<file, disk, api, sup, thread, req, pool, rr, left>>

(* A write of the crawl fails; when it is the final status, it is only logged. *)
CrawlWriteFails ==
    /\ \/ run.pc \in {"claim", "save", "succeed"} /\ Fail
       \/ run.pc \in {"fail", "killed"} /\ LeaveJob
    /\ Spend("dberr")
    /\ UNCHANGED <<store, api, sup, thread, req, pool, rr>>

(* The log entry after the claim, or after the success, fails: the crawl    *)
(* takes it for its own failure.                                            *)
CrawlLogFails ==
    /\ \/ run.pc = "claim" /\ job' = [job EXCEPT ![run.f] = ClaimPatch(@)]
       \/ run.pc = "succeed" /\ SetStatus(run.f, "Succeeded")
    /\ Exists(run.f)
    /\ Fail
    /\ Spend("dberr")
    /\ UNCHANGED <<file, disk, api, sup, thread, req, pool, rr>>

RequeueStep == ReadZombies \/ BatchDone \/ RetryPass \/ \E f \in Files : Requeue(f)

CrawlStep ==
    \/ Claim \/ BatchEnds \/ CrawlKilled \/ CrawlDone \/ Save \/ Succeed \/ End
    \/ \E f \in Files : Poll(f)
    \/ \E b \in SUBSET Pages : StartBatch(b)

(* abort() cancels the requests in flight. *)
FetchCancelled == run.abort /\ \E p \in Pages : PageFails(p)

WorkerNext ==
    \/ RequeueStep \/ CrawlStep \/ CheckKill \/ PoolNext
    \/ ReadZombiesFails \/ CrawlWriteFails \/ CrawlLogFails
    \/ \E f \in Files : RequeueFails(f) \/ RequeueLogFails(f)
    \/ \E p \in Pages : PageFails(p) \/ PageOverLimit(p)
=============================================================================
