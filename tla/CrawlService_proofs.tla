------------------------ MODULE CrawlService_proofs -------------------------
(***************************************************************************)
(* The theorems about the crawl queue, for every number of crawls, pages,  *)
(* page threads and faults: its inductive invariant, what the supervisor   *)
(* and a succeeded crawl guarantee, and that the queue of threads, timers  *)
(* and requests implements the job queue of CrawlJobs.                     *)
(***************************************************************************)
EXTENDS CrawlInv_proofs

-----------------------------------------------------------------------------
(***************************************************************************)
(* Invariance.                                                             *)
(***************************************************************************)

LEMMA InitHolds == Init => CrawlInv
<1> SUFFICES ASSUME Init PROVE CrawlInv
  OBVIOUS
<1>1. TypeOK
  BY RestTypes, CrawlAssumption
     DEF Init, TypeOK, NoJob, JobType, CallPCs, SupType
<1>2. ThreadMemory /\ Supervised /\ WorkerWatched /\ BackoffBounded
  BY RestartLimit DEF Init, ThreadMemory, Supervised, WorkerWatched, BackoffBounded
<1>3. UnsavedUnknown /\ CrawlOwnsJob /\ BatchLeftBehind /\ FilesWhole
  BY CrawlAssumption
     DEF Init, UnsavedUnknown, Unknown, Exists, CrawlOwnsJob, BatchLeftBehind, FilesWhole,
         Done, NoJob, NoReq, NoRun
<1> QED
  BY <1>1, <1>2, <1>3 DEF CrawlInv

LEMMA SupervisorKeeps ==
    ASSUME CrawlInv, SupervisorNext
    PROVE  CrawlInv'
<1>1. CASE ShutdownEnds \/ ServerCrash
  <2>1. ProcessEnds /\ left' \in Nat
    BY <1>1 DEF ShutdownEnds, ServerCrash, Spend, CrawlInv, TypeOK
  <2> QED
    BY <2>1, ProcessEndsKeeps
<1> QED
  BY <1>1, StartKeeps, TimerFiresKeeps, WorkerDiesKeeps, ExitEventKeeps, StopKeeps
     DEF SupervisorNext, SupervisorStep

LEMMA WorkerKeeps ==
    ASSUME CrawlInv, WorkerNext
    PROVE  CrawlInv'
<1>1. CASE \/ RequeueStep \/ ReadZombiesFails
           \/ \E f \in Files : RequeueFails(f) \/ RequeueLogFails(f)
  BY <1>1, ReadZombiesKeeps, ReadZombiesFailsKeeps, RequeueKeeps, RequeueFailsKeeps,
     RequeueLogFailsKeeps, BatchDoneKeeps, RetryPassKeeps
     DEF RequeueStep
<1>2. CASE CrawlStep
  BY <1>2, PollKeeps, ClaimKeeps, StartBatchKeeps, BatchEndsKeeps, CrawlKilledKeeps,
     CrawlDoneKeeps, SaveKeeps, SucceedKeeps, EndKeeps
     DEF CrawlStep
<1>3. CASE \/ CheckKill \/ CrawlWriteFails \/ CrawlLogFails
           \/ \E p \in Pages : PageFails(p) \/ PageOverLimit(p)
  BY <1>3, CheckKillKeeps, CrawlWriteFailsKeeps, CrawlLogFailsKeeps, PageFailsKeeps,
     PageOverLimitKeeps
<1>4. CASE PoolNext
  BY <1>4, PostPageKeeps, ReplyKeeps, ThreadDiesKeeps, IdleThreadDiesKeeps
     DEF PoolNext, PoolStep
<1> QED
  BY <1>1, <1>2, <1>3, <1>4 DEF WorkerNext

LEMMA FilesKeeps ==
    ASSUME CrawlInv, FilesNext
    PROVE  CrawlInv'
<1>1. CASE ScheduleFile
  BY <1>1, ScheduleFileKeeps
<1>2. ASSUME NEW f \in Files, DeleteStep(f)
      PROVE  CrawlInv'
  BY <1>2, DeleteReadsKeeps, DeleteKillsKeeps, DeleteWaitsKeeps, DeleteUnqueuesKeeps,
     DeleteMetadataKeeps, DeleteJobsKeeps, DeleteUnlinksKeeps
     DEF DeleteStep
<1>3. ASSUME NEW f \in Files,
             \/ ScheduleJob(f) \/ ScheduleJobFails(f) \/ Kill(f)
             \/ Delete(f) \/ DeleteRefused(f) \/ DeleteFails(f) \/ UnlinkFails(f)
      PROVE  CrawlInv'
  BY <1>3, ScheduleJobKeeps, ScheduleJobFailsKeeps, KillKeeps, DeleteKeeps,
     DeleteRefusedKeeps, DeleteFailsKeeps, UnlinkFailsKeeps
<1> QED
  BY <1>1, <1>2, <1>3 DEF FilesNext

LEMMA StutterKeeps ==
    ASSUME CrawlInv, UNCHANGED vars
    PROVE  CrawlInv'
<1>1. TypeOK' /\ ThreadMemory' /\ Supervised' /\ WorkerWatched' /\ BackoffBounded'
  BY DEF CrawlInv, TypeOK, ThreadMemory, Supervised, WorkerWatched, BackoffBounded, vars
<1>2. UnsavedUnknown' /\ CrawlOwnsJob' /\ BatchLeftBehind' /\ FilesWhole'
  BY DEF CrawlInv, UnsavedUnknown, Unknown, Exists, CrawlOwnsJob, BatchLeftBehind, Zombies,
         InStatus, FilesWhole, Done, vars
<1> QED
  BY <1>1, <1>2 DEF CrawlInv

LEMMA StepKeeps == CrawlInv /\ [Next]_vars => CrawlInv'
  BY SupervisorKeeps, WorkerKeeps, FilesKeeps, StutterKeeps DEF Next

(* The inductive invariant of the crawl queue: types, what the supervisor  *)
(* watches, and who may still touch which job.                             *)
THEOREM CrawlInvariant == Spec => []CrawlInv
<1>1. Init => CrawlInv
  BY InitHolds
<1>2. CrawlInv /\ [Next]_vars => CrawlInv'
  BY StepKeeps
<1> QED
  BY <1>1, <1>2, PTL DEF Spec

(* While the server runs, the worker is alive, its exit is on its way, or  *)
(* exactly one timer will start it again.                                  *)
THEOREM Watched == Spec => []WorkerWatched
<1>1. CrawlInv => WorkerWatched
  BY DEF CrawlInv
<1> QED
  BY <1>1, CrawlInvariant, PTL

(* A crash loop is bounded: at most MaxRestarts respawns, then the         *)
(* re-arming timer and gaveUp.                                             *)
THEOREM Backoff == Spec => []BackoffBounded
<1>1. CrawlInv => BackoffBounded
  BY DEF CrawlInv
<1> QED
  BY <1>1, CrawlInvariant, PTL

(* No crash, requeue, retry or late request makes a worker truncate the    *)
(* file of a crawl that was reported as succeeded.                         *)
THEOREM Whole == Spec => []SucceededIsWhole
<1>1. CrawlInv => SucceededIsWhole
  BY DEF CrawlInv, FilesWhole, Done, SucceededIsWhole
<1> QED
  BY <1>1, CrawlInvariant, PTL

-----------------------------------------------------------------------------
(***************************************************************************)
(* The queue implements CrawlJobs.                                         *)
(***************************************************************************)

(* What CrawlJobs sees of the jobs. *)
Statuses == [f \in Files |-> job[f].status]

QueueStep == Queue!Next \/ UNCHANGED Queue!vars

LEMMA StatusSet ==
    ASSUME TypeOK, NEW f \in Files, NEW s,
           job'[f].status = s,
           \A g \in Files \ {f} : job'[g] = job[g]
    PROVE  Statuses' = [Statuses EXCEPT ![f] = s]
  BY DEF TypeOK, Statuses

LEMMA Unseen ==
    ASSUME \A f \in Files : job'[f].status = job[f].status, run'.f = run.f
    PROVE  QueueStep
  BY DEF QueueStep, Queue!vars

LEMMA Left ==
    ASSUME \A f \in Files : job'[f].status = job[f].status, run'.f = None
    PROVE  QueueStep
<1>1. CASE run.f = None
  BY <1>1, Unseen
<1>2. CASE run.f # None
  BY <1>2 DEF Queue!Abandon, Queue!Next, QueueStep
<1> QED
  BY <1>1, <1>2

LEMMA Removed ==
    ASSUME TypeOK, NEW f \in Files, run'.f = run.f,
           job'[f].status \in {"none", job[f].status},
           \A g \in Files \ {f} : job'[g] = job[g]
    PROVE  QueueStep
<1>1. CASE job'[f].status = "none"
  <2>1. Queue!Remove(f)
    BY <1>1, StatusSet DEF Statuses, Queue!Remove, Queue!Become
  <2> QED
    BY <2>1 DEF QueueStep, Queue!Next
<1>2. CASE job'[f].status = job[f].status
  BY <1>2, Unseen
<1> QED
  BY <1>1, <1>2

LEMMA SupervisorImplements ==
    ASSUME CrawlInv, SupervisorNext
    PROVE  QueueStep
<1>1. CASE WorkerDies \/ ExitEvent \/ Stop \/ ShutdownEnds \/ ServerCrash
  <2>1. job' = job /\ (run'.f = None \/ run'.f = run.f)
    BY <1>1 DEF WorkerDies, ExitEvent, Stop, ShutdownEnds, ServerCrash, ProcessEnds, NoWorker,
         NoRun, store
  <2> QED
    BY <2>1, Left, Unseen
<1>2. CASE Start \/ TimerFires
  <2>1. run' = run /\ \A f \in Files : job'[f].status = job[f].status
    BY <1>2 DEF CrawlInv, TypeOK, JobType, Start, TimerFires, SpawnFrom, Spawned
  <2> QED
    BY <2>1, Unseen
<1> QED
  BY <1>1, <1>2 DEF SupervisorNext, SupervisorStep

(* A requeued job is one that nobody works on. *)
LEMMA RequeueImplements ==
    ASSUME CrawlInv, NEW f \in Files, Requeue(f) \/ RequeueLogFails(f)
    PROVE  QueueStep
<1>1. run' = run /\ f \in req.todo /\ run.f # f
  BY CrawlAssumption DEF CrawlInv, CrawlOwnsJob, Requeue, RequeueLogFails
<1>2. CASE Exists(f)
  <2>1. job[f].status = "Crawling"
    BY <1>1, <1>2 DEF CrawlInv, BatchLeftBehind, Zombies, InStatus
  <2>2. /\ job'[f].status = RequeueStatus(f)
        /\ \A g \in Files \ {f} : job'[g] = job[g]
    BY <1>2 DEF CrawlInv, TypeOK, JobType, Requeue, RequeueLogFails, SetStatus
  <2>3. Statuses' = [Statuses EXCEPT ![f] = RequeueStatus(f)]
    BY <2>2, StatusSet DEF CrawlInv
  <2>4. RequeueStatus(f) \in {"Pending", "Killed"}
    BY DEF RequeueStatus
  <2>5. Queue!Recover(f)
    BY <1>1, <2>1, <2>3, <2>4 DEF Queue!Recover, Queue!Become, Statuses
  <2> QED
    BY <2>5 DEF QueueStep, Queue!Next
<1>3. CASE ~Exists(f)
  BY <1>1, <1>3, Unseen DEF Requeue, RequeueLogFails
<1> QED
  BY <1>2, <1>3

LEMMA PollImplements ==
    ASSUME CrawlInv, NEW f \in Files, Poll(f)
    PROVE  QueueStep
<1>1. job' = job /\ run.f = None /\ run'.f = f /\ job[f].status = "Pending"
  BY DEF CrawlInv, CrawlOwnsJob, Poll, NoRun, InStatus
<1>2. Queue!Take(f)
  BY <1>1 DEF Queue!Take
<1> QED
  BY <1>2 DEF QueueStep, Queue!Next

LEMMA ClaimImplements ==
    ASSUME CrawlInv, Claim
    PROVE  QueueStep
<1>1. run.f \in Files /\ run'.f = run.f
  BY DEF CrawlInv, TypeOK, RunType, CrawlOwnsJob, Claim, Goto
<1>2. CASE Exists(run.f)
  <2>1. job[run.f].status = "Pending"
    BY <1>1, <1>2, CrawlAssumption DEF CrawlInv, CrawlOwnsJob, Exists, Claim
  <2>2. /\ job'[run.f].status = "Crawling"
        /\ \A g \in Files \ {run.f} : job'[g] = job[g]
    <3>1. job' = [job EXCEPT ![run.f] = [job[run.f] EXCEPT !.status = "Crawling", !.fresh = TRUE]]
      BY <1>1, <1>2 DEF CrawlInv, TypeOK, Claim, ClaimPatch
    <3> QED
      BY <1>1, <3>1 DEF CrawlInv, TypeOK, JobType
  <2>3. Statuses' = [Statuses EXCEPT ![run.f] = "Crawling"]
    BY <1>1, <2>2, StatusSet DEF CrawlInv
  <2>4. \E f \in Files : Queue!Begin(f)
    BY <1>1, <2>1, <2>3 DEF Queue!Begin, Queue!Become, Statuses
  <2> QED
    BY <2>4 DEF QueueStep, Queue!Next
<1>3. CASE ~Exists(run.f)
  BY <1>1, <1>3, Unseen DEF Claim
<1> QED
  BY <1>2, <1>3

(* A crawl writes its final status to the job it owns.                    *)
LEMMA EndImplements ==
    ASSUME CrawlInv, Succeed \/ End
    PROVE  QueueStep
<1>1. run.f \in Files
  BY DEF CrawlInv, TypeOK, RunType, CrawlOwnsJob, Succeed, End
<1>2. CASE Exists(run.f)
  <2>1. job[run.f].status \in {"Pending", "Crawling", "Succeeded"} /\ run'.f = None
    BY <1>1, <1>2, CrawlAssumption
       DEF CrawlInv, CrawlOwnsJob, Exists, Succeed, End, LeaveJob, NoRun
  <2>2. PICK s \in {"Succeeded", "Failed", "Killed"} :
           job' = [job EXCEPT ![run.f].status = s]
    BY <1>2 DEF Succeed, End, SetStatus, FinalStatus
  <2>3. /\ job'[run.f].status = s
        /\ \A g \in Files \ {run.f} : job'[g] = job[g]
    BY <1>1, <2>2 DEF CrawlInv, TypeOK, JobType
  <2>4. Statuses' = [Statuses EXCEPT ![run.f] = s]
    BY <1>1, <2>3, StatusSet DEF CrawlInv
  <2>5. Queue!Complete(run.f)
    BY <1>1, <2>1, <2>4 DEF Queue!Complete, Queue!Become, Queue!Ended, Statuses
  <2> QED
    BY <1>1, <2>5 DEF QueueStep, Queue!Next
<1>3. CASE ~Exists(run.f)
  <2>1. job' = job /\ (run'.f = None \/ run'.f = run.f)
    BY <1>3 DEF CrawlInv, TypeOK, RunType, Succeed, End, LeaveJob, Fail, Goto, NoRun
  <2> QED
    BY <2>1, Left, Unseen
<1> QED
  BY <1>2, <1>3

(* The claim took place, or the success is reported; the crawl goes on to end. *)
LEMMA LogFailsImplements ==
    ASSUME CrawlInv, CrawlLogFails
    PROVE  QueueStep
<1>1. run.f \in Files /\ run'.f = run.f
  BY DEF CrawlInv, TypeOK, RunType, CrawlOwnsJob, CrawlLogFails, Fail, Goto
<1>2. CASE run.pc = "claim"
  <2>1. job[run.f].status = "Pending"
    BY <1>1, <1>2, CrawlAssumption DEF CrawlInv, CrawlOwnsJob, Exists, CrawlLogFails
  <2>2. job' = [job EXCEPT ![run.f] = [job[run.f] EXCEPT !.status = "Crawling", !.fresh = TRUE]]
    BY <1>1, <1>2 DEF CrawlInv, TypeOK, CrawlLogFails, ClaimPatch
  <2>3. /\ job'[run.f].status = "Crawling"
        /\ \A g \in Files \ {run.f} : job'[g] = job[g]
    BY <1>1, <2>2 DEF CrawlInv, TypeOK, JobType
  <2>4. Statuses' = [Statuses EXCEPT ![run.f] = "Crawling"]
    BY <1>1, <2>3, StatusSet DEF CrawlInv
  <2>5. \E f \in Files : Queue!Begin(f)
    BY <1>1, <2>1, <2>4 DEF Queue!Begin, Queue!Become, Statuses
  <2> QED
    BY <2>5 DEF QueueStep, Queue!Next
<1>3. CASE run.pc = "succeed"
  <2>1. job[run.f].status = "Crawling"
    BY <1>1, <1>3, CrawlAssumption DEF CrawlInv, CrawlOwnsJob, Exists, CrawlLogFails
  <2>2. /\ job'[run.f].status = "Succeeded"
        /\ \A g \in Files \ {run.f} : job'[g] = job[g]
    BY <1>1, <1>3 DEF CrawlInv, TypeOK, JobType, CrawlLogFails, SetStatus
  <2>3. Statuses' = [Statuses EXCEPT ![run.f] = "Succeeded"]
    BY <1>1, <2>2, StatusSet DEF CrawlInv
  <2>4. \E f \in Files : Queue!Report(f)
    BY <1>1, <2>1, <2>3 DEF Queue!Report, Queue!Become, Statuses
  <2> QED
    BY <2>4 DEF QueueStep, Queue!Next
<1> QED
  BY <1>2, <1>3 DEF CrawlLogFails

LEMMA WorkerImplements ==
    ASSUME CrawlInv, WorkerNext
    PROVE  QueueStep
<1>1. ASSUME NEW f \in Files, Requeue(f) \/ RequeueLogFails(f) \/ Poll(f)
      PROVE  QueueStep
  BY <1>1, RequeueImplements, PollImplements
<1>2. CASE Claim \/ Succeed \/ End \/ CrawlLogFails
  BY <1>2, ClaimImplements, EndImplements, LogFailsImplements
<1>3. CASE \/ ReadZombies \/ BatchDone \/ RetryPass \/ ReadZombiesFails
           \/ \E f \in Files : RequeueFails(f)
  <2>1. job' = job /\ run'.f = run.f
    BY <1>3 DEF CrawlInv, TypeOK, RunType, ReadZombies, BatchDone, RetryPass, ReadZombiesFails,
         RequeueFails, PassEnds, store
  <2> QED
    BY <2>1, Unseen
<1>4. CASE \/ BatchEnds \/ CrawlKilled \/ CrawlDone \/ Save \/ CheckKill
           \/ \E b \in SUBSET Pages : StartBatch(b)
           \/ \E p \in Pages : PageFails(p) \/ PageOverLimit(p)
  <2>1. job' = job /\ run'.f = run.f
    BY <1>4 DEF CrawlInv, TypeOK, RunType, BatchEnds, CrawlKilled, CrawlDone, Save, CheckKill,
         StartBatch, PageFails, PageOverLimit, Goto, store
  <2> QED
    BY <2>1, Unseen
<1>5. CASE CrawlWriteFails
  <2>1. job' = job /\ (run'.f = None \/ run'.f = run.f)
    BY <1>5 DEF CrawlInv, TypeOK, RunType, CrawlWriteFails, LeaveJob, Fail, Goto, NoRun, store
  <2> QED
    BY <2>1, Left, Unseen
<1>6. CASE PoolNext
  <2>1. job' = job /\ (run' = NoRun \/ run'.f = run.f)
    <3>1. ASSUME NEW p \in Pages, PostPage(p)
          PROVE  job' = job /\ run'.f = run.f
      BY <3>1 DEF CrawlInv, TypeOK, RunType, PostPage, store
    <3>2. ASSUME NEW t \in Threads, NEW keep \in BOOLEAN, Reply(t, keep)
          PROVE  job' = job /\ run'.f = run.f
      BY <3>2 DEF CrawlInv, TypeOK, RunType, Reply, store
    <3>3. ASSUME NEW t \in Threads, ThreadDies(t) \/ IdleThreadDies(t)
          PROVE  job' = job /\ (run' = NoRun \/ run' = run)
      BY <3>3 DEF ThreadDies, IdleThreadDies, NoWorker, store
    <3> QED
      BY <1>6, <3>1, <3>2, <3>3 DEF PoolNext, PoolStep
  <2> QED
    BY <2>1, Left, Unseen DEF NoRun
<1> QED
  BY <1>1, <1>2, <1>3, <1>4, <1>5, <1>6 DEF WorkerNext, RequeueStep, CrawlStep

LEMMA FilesImplements ==
    ASSUME CrawlInv, FilesNext
    PROVE  QueueStep
<1>1. run' = run
  BY DEF FilesNext, ScheduleFile, ScheduleJob, ScheduleJobFails, Kill, Delete, DeleteStep,
       DeleteReads, DeleteKills, DeleteWaits, DeleteUnqueues, DeleteMetadata, DeleteJobs,
       DeleteUnlinks, DeleteRefused, DeleteFails, UnlinkFails
<1>2. ASSUME NEW f \in Files, ScheduleJob(f)
      PROVE  QueueStep
  <2>1. job[f].status = "none"
    BY <1>2 DEF CrawlInv, UnsavedUnknown, Unknown, Exists, ScheduleJob
  <2>2. /\ job'[f].status = "Pending"
        /\ \A g \in Files \ {f} : job'[g] = job[g]
    BY <1>2 DEF CrawlInv, TypeOK, ScheduleJob, NoJob
  <2>3. Statuses' = [Statuses EXCEPT ![f] = "Pending"]
    BY <2>2, StatusSet DEF CrawlInv
  <2>4. Queue!Submit(f)
    BY <1>1, <2>1, <2>3 DEF Queue!Submit, Queue!Become, Statuses
  <2> QED
    BY <2>4 DEF QueueStep, Queue!Next
<1>3. ASSUME NEW f \in Files, Kill(f) \/ DeleteKills(f) \/ DeleteUnqueues(f) \/ DeleteJobs(f)
      PROVE  QueueStep
  <2>1. /\ job'[f].status \in {"none", job[f].status}
        /\ \A g \in Files \ {f} : job'[g] = job[g]
    BY <1>3 DEF CrawlInv, TypeOK, JobType, Kill, DeleteKills, DeleteUnqueues, DeleteJobs, Flag,
         NoJob
  <2> QED
    BY <1>1, <2>1, Removed DEF CrawlInv
<1>4. CASE \/ ScheduleFile
           \/ \E f \in Files :
                 \/ ScheduleJobFails(f) \/ Delete(f) \/ DeleteReads(f) \/ DeleteWaits(f)
                 \/ DeleteMetadata(f) \/ DeleteUnlinks(f) \/ DeleteRefused(f)
                 \/ DeleteFails(f) \/ UnlinkFails(f)
  <2>1. job' = job
    BY <1>4 DEF ScheduleFile, ScheduleJobFails, Delete, DeleteReads, DeleteWaits,
         DeleteMetadata, DeleteUnlinks, DeleteRefused, DeleteFails, UnlinkFails, store
  <2> QED
    BY <1>1, <2>1, Unseen
<1> QED
  BY <1>2, <1>3, <1>4 DEF FilesNext, DeleteStep

LEMMA StepImplements == CrawlInv /\ [Next]_vars => [Queue!Next]_(Queue!vars)
<1>1. ASSUME CrawlInv, Next
      PROVE  QueueStep
  BY <1>1, SupervisorImplements, WorkerImplements, FilesImplements DEF Next
<1>2. ASSUME UNCHANGED vars
      PROVE  QueueStep
  BY <1>2, Unseen DEF vars
<1> QED
  BY <1>1, <1>2 DEF QueueStep

(* Threads, timers, crashes and requests implement the job queue: one job  *)
(* at a time is worked on, its status is its worker's alone, a job left    *)
(* behind is put back, and one that ended stays ended.                     *)
THEOREM QueueImplemented == Spec => Implements
<1>1. Init => Queue!Init
  BY DEF Init, Queue!Init, NoJob, NoRun
<1>2. CrawlInv /\ [Next]_vars => [Queue!Next]_(Queue!vars)
  BY StepImplements
<1> QED
  BY <1>1, <1>2, CrawlInvariant, PTL DEF Spec, Implements, Queue!Spec
=============================================================================
