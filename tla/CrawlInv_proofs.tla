-------------------------- MODULE CrawlInv_proofs ---------------------------
(***************************************************************************)
(* Every action of the crawl service keeps CrawlInv: one lemma per action, *)
(* with a step for each part of the invariant that the action can disturb. *)
(***************************************************************************)
EXTENDS CrawlService, FiniteSetTheorems, TLAPS

LEMMA RestTypes ==
    /\ NoReq \in ReqType
    /\ NoRun \in RunType
    /\ NewPool \in [Threads -> PoolType]
    /\ Blank \in [Pages -> Texts \cup {None}]
    /\ Fresh \in SupType
    /\ 1 \in Threads
  BY CrawlAssumption
     DEF NoReq, ReqType, NoRun, RunType, NewPool, PoolType, Blank, Fresh, SupType, Threads

(* What the worker writes into a job row leaves a job row. *)
LEMMA PatchTypes ==
    ASSUME NEW j \in JobType
    PROVE  /\ ClaimPatch(j) \in JobType
           /\ [j EXCEPT !.status = "Succeeded"] \in JobType
           /\ [j EXCEPT !.kill = TRUE] \in JobType
           /\ [j EXCEPT !.kill = FALSE] \in JobType
  BY DEF ClaimPatch, JobType

LEMMA RestartLimit == MaxRestarts \in Nat
  BY CrawlAssumption

LEMMA AfterExitType ==
    ASSUME NEW s \in SupType
    PROVE  /\ AfterExit(s) \in SupType
           /\ AfterExit(s).phase = s.phase
           /\ AfterExit(s).fails = s.fails + 1
           /\ s.fails < MaxRestarts =>
                 AfterExit(s).timer = "respawn" /\ (AfterExit(s).gaveUp <=> s.gaveUp)
           /\ s.fails >= MaxRestarts =>
                 AfterExit(s).timer = "rearm" /\ AfterExit(s).gaveUp
<1>1. AfterExit(s) \in SupType
  <2>0. s.fails + 1 \in Nat
    BY DEF SupType
  <2>1. [s EXCEPT !.timer = "rearm", !.fails = s.fails + 1, !.gaveUp = TRUE] \in SupType
    BY <2>0 DEF SupType
  <2>2. [s EXCEPT !.timer = "respawn", !.fails = s.fails + 1] \in SupType
    BY <2>0 DEF SupType
  <2> QED
    BY <2>1, <2>2 DEF AfterExit
<1>2. /\ AfterExit(s).phase = s.phase
      /\ AfterExit(s).fails = s.fails + 1
  BY RestartLimit DEF AfterExit, SupType
<1>3. ASSUME s.fails < MaxRestarts
      PROVE AfterExit(s).timer = "respawn" /\ (AfterExit(s).gaveUp <=> s.gaveUp)
  BY <1>3, RestartLimit DEF AfterExit, SupType
<1>4. ASSUME s.fails >= MaxRestarts
      PROVE AfterExit(s).timer = "rearm" /\ AfterExit(s).gaveUp
  BY <1>4, RestartLimit DEF AfterExit, SupType
<1> QED
  BY <1>1, <1>2, <1>3, <1>4

LEMMA AfterExitWatched ==
    ASSUME NEW s \in SupType, s.phase = "up", ~s.gaveUp, s.fails <= MaxRestarts,
           thread' = "none", sup' = AfterExit(s)
    PROVE  Supervised' /\ WorkerWatched' /\ BackoffBounded'
<1>1. CASE s.fails < MaxRestarts
  <2>1. /\ sup'.phase = "up" /\ sup'.timer = "respawn" /\ ~sup'.gaveUp /\ sup'.fails = s.fails + 1
    BY <1>1, AfterExitType
  <2> QED
    BY <1>1, <2>1, RestartLimit DEF Supervised, WorkerWatched, BackoffBounded, SupType
<1>2. CASE s.fails >= MaxRestarts
  <2>1. /\ sup'.phase = "up" /\ sup'.timer = "rearm" /\ sup'.gaveUp /\ sup'.fails = s.fails + 1
    BY <1>2, AfterExitType
  <2> QED
    BY <1>2, <2>1, RestartLimit DEF Supervised, WorkerWatched, BackoffBounded, SupType
<1> QED
  BY <1>1, <1>2, RestartLimit DEF SupType

(* A spawn succeeds or fails; either way somebody watches the worker. *)
LEMMA SpawnKeeps ==
    ASSUME CrawlInv, NEW s \in SupType,
           s.phase = "up", s.timer = "none", ~s.gaveUp, s.fails <= MaxRestarts,
           thread = "none", SpawnFrom(s), UNCHANGED <<file, disk, api>>
    PROVE  CrawlInv'
<1>0. run = NoRun /\ req = NoReq /\ pool = NewPool
  BY DEF CrawlInv, ThreadMemory
<1>1. CASE Spawned /\ sup' = s /\ UNCHANGED left
  <2>1. /\ job' \in [Files -> JobType]
        /\ \A f \in Files : job'[f].status = job[f].status
    BY <1>1 DEF CrawlInv, TypeOK, JobType, Spawned
  <2>2. /\ req' \in ReqType
        /\ req'.todo = {}
        /\ run' = NoRun /\ run.f = None
    BY <1>0, <1>1, RestTypes DEF ReqType, NoReq, NoRun, Spawned
  <2>3. TypeOK'
    BY <1>1, <2>1, <2>2 DEF CrawlInv, TypeOK, Spawned, api
  <2>4. ThreadMemory' /\ Supervised' /\ WorkerWatched' /\ BackoffBounded'
    BY <1>1, CrawlAssumption
       DEF ThreadMemory, Supervised, WorkerWatched, BackoffBounded, Spawned, SupType
  <2>5. UnsavedUnknown'
    BY <1>1, <2>1, <2>2, CrawlAssumption
       DEF CrawlInv, UnsavedUnknown, Unknown, Exists, Spawned, NoRun, api
  <2>6. CrawlOwnsJob' /\ BatchLeftBehind'
    BY <2>2 DEF CrawlOwnsJob, BatchLeftBehind, NoRun
  <2>7. FilesWhole'
    BY <1>1, <2>1, <2>2, CrawlAssumption DEF CrawlInv, FilesWhole, Done, NoRun, api
  <2> QED
    BY <2>3, <2>4, <2>5, <2>6, <2>7 DEF CrawlInv
<1>2. CASE Spend("spawnfail") /\ sup' = AfterExit(s)
             /\ UNCHANGED <<job, thread, req, run, section, pool, rr>>
  <2>1. TypeOK'
    BY <1>2, AfterExitType DEF CrawlInv, TypeOK, Spend, api
  <2>2. Supervised' /\ WorkerWatched' /\ BackoffBounded'
    BY <1>2, AfterExitWatched
  <2>3. ThreadMemory' /\ UnsavedUnknown' /\ CrawlOwnsJob'
        /\ BatchLeftBehind' /\ FilesWhole'
    BY <1>2 DEF CrawlInv, ThreadMemory, UnsavedUnknown, Unknown, Exists, CrawlOwnsJob,
         BatchLeftBehind, Zombies, InStatus, FilesWhole, Done, api
  <2> QED
    BY <2>1, <2>2, <2>3 DEF CrawlInv
<1> QED
  BY <1>1, <1>2 DEF SpawnFrom

LEMMA StartKeeps ==
    ASSUME CrawlInv, Start
    PROVE  CrawlInv'
<1>1. Fresh \in SupType /\ Fresh.fails <= MaxRestarts /\ thread = "none"
  BY RestTypes, CrawlAssumption DEF Fresh, CrawlInv, Supervised, Start
<1> QED
  BY <1>1, SpawnKeeps DEF Start, Fresh

LEMMA TimerFiresKeeps ==
    ASSUME CrawlInv, TimerFires
    PROVE  CrawlInv'
<1> DEFINE s == IF sup.timer = "rearm" THEN Fresh ELSE [sup EXCEPT !.timer = "none"]
<1>1. sup.phase = "up" /\ thread = "none"
  BY DEF CrawlInv, TypeOK, SupType, Supervised, WorkerWatched, TimerFires
<1>2. s \in SupType
  BY RestTypes DEF CrawlInv, TypeOK, SupType
<1>3. s.phase = "up" /\ s.timer = "none" /\ ~s.gaveUp /\ s.fails <= MaxRestarts
  BY <1>1, CrawlAssumption DEF CrawlInv, TypeOK, SupType, Supervised, BackoffBounded, Fresh
<1>4. SpawnFrom(s) /\ UNCHANGED <<file, disk, api>>
  BY DEF TimerFires
<1> QED
  BY <1>1, <1>2, <1>3, <1>4, SpawnKeeps

LEMMA WorkerDiesKeeps ==
    ASSUME CrawlInv, WorkerDies
    PROVE  CrawlInv'
<1>1. req' \in ReqType /\ run' \in RunType
     /\ section' \in [Pages -> Texts \cup {None}]
     /\ pool' \in [Threads -> PoolType] /\ rr' \in Threads
  BY RestTypes DEF WorkerDies, NoWorker
<1>2. left' \in Nat
  BY DEF CrawlInv, TypeOK, WorkerDies, Spend
<1>3. TypeOK'
  BY <1>1, <1>2 DEF CrawlInv, TypeOK, WorkerDies, NoWorker, store, api
<1>4. ThreadMemory'
  BY DEF CrawlInv, TypeOK, ReqType, RunType, Crawling, PoolType, ThreadMemory,
         NoReq, NoRun, NewPool, WorkerDies, NoWorker, Blank, Spend, store, api
<1>5. Supervised' /\ WorkerWatched' /\ BackoffBounded'
  BY CrawlAssumption DEF CrawlInv, TypeOK, SupType, Supervised, WorkerWatched,
         BackoffBounded, WorkerDies, NoWorker, NoReq, NoRun, NewPool, Blank,
         Spend, store, api
<1>6. UnsavedUnknown'
  BY CrawlAssumption DEF CrawlInv, TypeOK, JobType, CallPCs, RunType,
         Crawling, ReqType, UnsavedUnknown, Unknown, Exists, WorkerDies,
         NoWorker, NoReq, NoRun, NewPool, Blank, Spend, store, api
<1>7. CrawlOwnsJob'
  BY CrawlAssumption DEF CrawlInv, TypeOK, JobType, RunType, Crawling,
         ReqType, CrawlOwnsJob, BatchLeftBehind, Exists, Zombies, InStatus,
         WorkerDies, NoWorker, NoReq, NoRun, NewPool, Blank, Spend, store, api
<1>8. BatchLeftBehind'
  BY DEF CrawlInv, TypeOK, JobType, ReqType, BatchLeftBehind, Zombies,
         InStatus, Exists, WorkerDies, NoWorker, NoReq, NoRun, NewPool, Blank,
         Spend, store, api
<1>9. FilesWhole'
  BY DEF CrawlInv, TypeOK, CallPCs, JobType, RunType, Crawling, FilesWhole,
         Done, WorkerDies, NoWorker, NoReq, NoRun, NewPool, Blank, Spend,
         store, api
<1> QED
  BY <1>3, <1>4, <1>5, <1>6, <1>7, <1>8, <1>9 DEF CrawlInv

LEMMA ExitEventKeeps ==
    ASSUME CrawlInv, ExitEvent
    PROVE  CrawlInv'
<1>1. sup' \in SupType
  BY AfterExitType, ZenonT(60) DEF CrawlInv, TypeOK, SupType, ExitEvent
<1>2. TypeOK'
  BY <1>1 DEF CrawlInv, TypeOK, ExitEvent, store, api, pages
<1>3. ThreadMemory'
  BY DEF CrawlInv, TypeOK, ReqType, RunType, Crawling, PoolType, ThreadMemory,
         NoReq, NoRun, NewPool, ExitEvent, AfterExit, store, api, pages
<1>4. Supervised' /\ WorkerWatched' /\ BackoffBounded'
  <2>1. CASE sup.phase = "up"
    <3>1. PICK healthy \in BOOLEAN :
             sup' = AfterExit([sup EXCEPT !.fails = IF healthy THEN 0 ELSE @])
      BY <2>1 DEF ExitEvent
    <3> DEFINE s == [sup EXCEPT !.fails = IF healthy THEN 0 ELSE @]
    <3>2. s \in SupType /\ s.phase = "up" /\ ~s.gaveUp /\ s.fails <= MaxRestarts
      BY <2>1, RestartLimit
         DEF CrawlInv, TypeOK, SupType, Supervised, WorkerWatched, BackoffBounded, ExitEvent
    <3> QED
      BY <3>1, <3>2, AfterExitWatched DEF ExitEvent
  <2>2. CASE sup.phase # "up"
    BY <2>2 DEF CrawlInv, Supervised, WorkerWatched, BackoffBounded, ExitEvent
  <2> QED
    BY <2>1, <2>2
<1>5. UnsavedUnknown' /\ CrawlOwnsJob' /\ BatchLeftBehind' /\ FilesWhole'
  BY DEF CrawlInv, UnsavedUnknown, Unknown, Exists, CrawlOwnsJob,
         BatchLeftBehind, Zombies, InStatus, FilesWhole, Done, store, api,
         pages, ExitEvent
<1> QED
  BY <1>2, <1>3, <1>4, <1>5 DEF CrawlInv

LEMMA StopKeeps ==
    ASSUME CrawlInv, Stop
    PROVE  CrawlInv'
<1>1. req' \in ReqType /\ run' \in RunType
     /\ section' \in [Pages -> Texts \cup {None}]
     /\ pool' \in [Threads -> PoolType] /\ rr' \in Threads
  BY RestTypes DEF Stop, NoWorker
<1>2. left' \in Nat
  BY DEF CrawlInv, TypeOK, Stop, Spend
<1>3. sup' \in SupType
  BY DEF CrawlInv, TypeOK, SupType, Stop
<1>4. TypeOK'
  BY <1>1, <1>2, <1>3 DEF CrawlInv, TypeOK, Stop, NoWorker, store, api
<1>5. ThreadMemory'
  BY DEF CrawlInv, TypeOK, ReqType, RunType, Crawling, PoolType, ThreadMemory,
         NoReq, NoRun, NewPool, Stop, NoWorker, Blank, Spend, store, api
<1>6. Supervised' /\ WorkerWatched' /\ BackoffBounded'
  BY CrawlAssumption DEF CrawlInv, TypeOK, SupType, Supervised, WorkerWatched,
         BackoffBounded, Stop, NoWorker, NoReq, NoRun, NewPool, Blank, Spend,
         store, api
<1>7. UnsavedUnknown'
  BY CrawlAssumption DEF CrawlInv, TypeOK, JobType, CallPCs, RunType,
         Crawling, ReqType, UnsavedUnknown, Unknown, Exists, Stop, NoWorker,
         NoReq, NoRun, NewPool, Blank, Spend, store, api
<1>8. CrawlOwnsJob'
  BY CrawlAssumption DEF CrawlInv, TypeOK, JobType, RunType, Crawling,
         ReqType, CrawlOwnsJob, BatchLeftBehind, Exists, Zombies, InStatus,
         Stop, NoWorker, NoReq, NoRun, NewPool, Blank, Spend, store, api
<1>9. BatchLeftBehind'
  BY DEF CrawlInv, TypeOK, JobType, ReqType, BatchLeftBehind, Zombies,
         InStatus, Exists, Stop, NoWorker, NoReq, NoRun, NewPool, Blank,
         Spend, store, api
<1>10. FilesWhole'
  BY DEF CrawlInv, TypeOK, CallPCs, JobType, RunType, Crawling, FilesWhole,
         Done, Stop, NoWorker, NoReq, NoRun, NewPool, Blank, Spend, store, api
<1> QED
  BY <1>4, <1>5, <1>6, <1>7, <1>8, <1>9, <1>10 DEF CrawlInv

LEMMA ProcessEndsKeeps ==
    ASSUME CrawlInv, ProcessEnds, left' \in Nat
    PROVE  CrawlInv'
<1>1. req' \in ReqType /\ run' \in RunType
     /\ section' \in [Pages -> Texts \cup {None}]
     /\ pool' \in [Threads -> PoolType] /\ rr' \in Threads
  BY RestTypes DEF ProcessEnds, NoWorker
<1>2. sup' \in SupType
  BY RestTypes DEF SupType, ProcessEnds
<1>3. TypeOK'
  BY <1>1, <1>2 DEF CrawlInv, TypeOK, CallPCs, ProcessEnds, NoWorker, store
<1>4. ThreadMemory'
  BY DEF CrawlInv, TypeOK, ReqType, RunType, Crawling, PoolType, ThreadMemory,
         NoReq, NoRun, NewPool, ProcessEnds, Fresh, NoWorker, Blank, store
<1>5. Supervised' /\ WorkerWatched' /\ BackoffBounded'
  BY CrawlAssumption DEF CrawlInv, TypeOK, SupType, Supervised, WorkerWatched,
         BackoffBounded, ProcessEnds, Fresh, NoWorker, NoReq, NoRun, NewPool,
         Blank, store
<1>6. UnsavedUnknown'
  BY CrawlAssumption DEF CrawlInv, TypeOK, JobType, CallPCs, RunType,
         Crawling, ReqType, UnsavedUnknown, Unknown, Exists, ProcessEnds,
         Fresh, NoWorker, NoReq, NoRun, NewPool, Blank, store
<1>7. CrawlOwnsJob'
  BY CrawlAssumption DEF CrawlInv, TypeOK, JobType, RunType, Crawling,
         ReqType, CrawlOwnsJob, BatchLeftBehind, Exists, Zombies, InStatus,
         ProcessEnds, Fresh, NoWorker, NoReq, NoRun, NewPool, Blank, store
<1>8. BatchLeftBehind'
  BY DEF CrawlInv, TypeOK, JobType, ReqType, BatchLeftBehind, Zombies,
         InStatus, Exists, ProcessEnds, Fresh, NoWorker, NoReq, NoRun,
         NewPool, Blank, store
<1>9. FilesWhole'
  BY DEF CrawlInv, TypeOK, CallPCs, JobType, RunType, Crawling, FilesWhole,
         Done, ProcessEnds, Fresh, NoWorker, NoReq, NoRun, NewPool, Blank,
         store
<1> QED
  BY <1>3, <1>4, <1>5, <1>6, <1>7, <1>8, <1>9 DEF CrawlInv

LEMMA ReadZombiesKeeps ==
    ASSUME CrawlInv, ReadZombies
    PROVE  CrawlInv'
<1>1. \A b \in SUBSET Zombies : b \in SUBSET Files
  BY DEF Zombies, InStatus
<1>2. req' \in ReqType
  <2>1. PICK batch \in SUBSET Zombies :
           req' = [req EXCEPT !.pc = "batch", !.todo = batch,
                              !.kill = {f \in batch : job[f].kill},
                              !.full = Cardinality(batch) = PageSize]
    BY DEF ReadZombies
  <2>2. /\ batch \in SUBSET Files /\ {f \in batch : job[f].kill} \in SUBSET Files
        /\ (Cardinality(batch) = PageSize) \in BOOLEAN
    BY <1>1
  <2> QED
    BY <2>1, <2>2 DEF CrawlInv, TypeOK, ReqType
<1>3. TypeOK'
  BY <1>1, <1>2 DEF CrawlInv, TypeOK, ReadZombies, store, api, pages
<1>4. ThreadMemory'
  BY DEF CrawlInv, TypeOK, ReqType, RunType, Crawling, PoolType, ThreadMemory,
         NoReq, NoRun, NewPool, ReadZombies, store, api, pages
<1>5. UnsavedUnknown'
  BY CrawlAssumption DEF CrawlInv, TypeOK, JobType, CallPCs, RunType,
         Crawling, ReqType, UnsavedUnknown, Unknown, Exists, Zombies,
         InStatus, CrawlOwnsJob, ReadZombies, store, api, pages
<1>6. CrawlOwnsJob'
  BY CrawlAssumption DEF CrawlInv, TypeOK, JobType, RunType, Crawling,
         ReqType, CrawlOwnsJob, BatchLeftBehind, Exists, Zombies, InStatus,
         ReadZombies, store, api, pages
<1>7. BatchLeftBehind'
  BY DEF CrawlInv, TypeOK, JobType, ReqType, BatchLeftBehind, Zombies,
         InStatus, Exists, CrawlOwnsJob, ReadZombies, store, api, pages
<1>8. Supervised' /\ WorkerWatched' /\ BackoffBounded' /\ FilesWhole'
  BY DEF CrawlInv, Supervised, WorkerWatched, BackoffBounded, FilesWhole,
         Done, store, api, pages, ReadZombies
<1> QED
  BY <1>3, <1>4, <1>5, <1>6, <1>7, <1>8 DEF CrawlInv

LEMMA ReadZombiesFailsKeeps ==
    ASSUME CrawlInv, ReadZombiesFails
    PROVE  CrawlInv'
<1>1. req' \in ReqType
  BY RestTypes DEF ReqType, ReadZombiesFails, PassEnds
<1>2. run' \in RunType
  BY DEF CrawlInv, TypeOK, RunType, ReadZombiesFails, PassEnds
<1>3. left' \in Nat
  BY DEF CrawlInv, TypeOK, ReadZombiesFails, Spend
<1>4. TypeOK'
  BY <1>1, <1>2, <1>3 DEF CrawlInv, TypeOK, ReadZombiesFails, PassEnds, store,
         api, pages
<1>5. ThreadMemory'
  BY DEF CrawlInv, TypeOK, ReqType, RunType, Crawling, PoolType, ThreadMemory,
         NoReq, NoRun, NewPool, ReadZombiesFails, PassEnds, Spend, store, api,
         pages
<1>6. UnsavedUnknown'
  BY CrawlAssumption DEF CrawlInv, TypeOK, JobType, CallPCs, RunType,
         Crawling, ReqType, UnsavedUnknown, Unknown, Exists, CrawlOwnsJob,
         ReadZombiesFails, PassEnds, NoReq, Spend, store, api, pages
<1>7. CrawlOwnsJob'
  BY CrawlAssumption DEF CrawlInv, TypeOK, JobType, RunType, Crawling,
         ReqType, CrawlOwnsJob, BatchLeftBehind, Exists, Zombies, InStatus,
         ReadZombiesFails, PassEnds, NoReq, Spend, store, api, pages
<1>8. BatchLeftBehind'
  BY DEF CrawlInv, TypeOK, JobType, ReqType, BatchLeftBehind, Zombies,
         InStatus, Exists, CrawlOwnsJob, ReadZombiesFails, PassEnds, NoReq,
         Spend, store, api, pages
<1>9. FilesWhole'
  BY DEF CrawlInv, TypeOK, CallPCs, JobType, RunType, Crawling, FilesWhole,
         Done, CrawlOwnsJob, ReadZombiesFails, PassEnds, NoReq, Spend, store,
         api, pages
<1>10. Supervised' /\ WorkerWatched' /\ BackoffBounded'
  BY DEF CrawlInv, Supervised, WorkerWatched, BackoffBounded, store, api,
         pages, ReadZombiesFails
<1> QED
  BY <1>4, <1>5, <1>6, <1>7, <1>8, <1>9, <1>10 DEF CrawlInv

LEMMA RequeueKeeps ==
    ASSUME CrawlInv, NEW f \in Files, Requeue(f)
    PROVE  CrawlInv'
<1>1. job' \in [Files -> JobType]
  BY DEF CrawlInv, TypeOK, JobType, Requeue, RequeueStatus, SetStatus
<1>2. req' \in ReqType
  BY DEF CrawlInv, TypeOK, ReqType, Requeue, Exists
<1>3. TypeOK'
  BY <1>1, <1>2 DEF CrawlInv, TypeOK, Requeue, RequeueStatus, SetStatus,
         Exists, api, pages
<1>4. ThreadMemory'
  BY DEF CrawlInv, TypeOK, ReqType, RunType, Crawling, PoolType, ThreadMemory,
         NoReq, NoRun, NewPool, Requeue, RequeueStatus, SetStatus, Exists,
         api, pages
<1>5. UnsavedUnknown'
  BY CrawlAssumption DEF CrawlInv, TypeOK, JobType, CallPCs, RunType,
         Crawling, ReqType, UnsavedUnknown, Unknown, Exists, CrawlOwnsJob,
         Requeue, RequeueStatus, SetStatus, api, pages
<1>6. CrawlOwnsJob'
  <2>1. run' = run /\ req'.todo \subseteq req.todo
    BY DEF CrawlInv, TypeOK, ReqType, Requeue
  <2>2. run.f # None => run.f \in Files /\ run.f # f
    BY DEF CrawlInv, TypeOK, RunType, CrawlOwnsJob, Requeue
  <2>3. run.f # None => job'[run.f] = job[run.f]
    BY <2>2 DEF CrawlInv, TypeOK, Requeue, SetStatus
  <2> QED
    BY <2>1, <2>3 DEF CrawlInv, CrawlOwnsJob
<1>7. BatchLeftBehind'
  BY DEF CrawlInv, TypeOK, JobType, ReqType, BatchLeftBehind, Zombies,
         InStatus, Exists, CrawlOwnsJob, Requeue, RequeueStatus, SetStatus,
         api, pages
<1>8. FilesWhole'
  BY DEF CrawlInv, TypeOK, CallPCs, JobType, RunType, Crawling, FilesWhole,
         Done, CrawlOwnsJob, Requeue, RequeueStatus, SetStatus, Exists, api,
         pages
<1>9. Supervised' /\ WorkerWatched' /\ BackoffBounded'
  BY DEF CrawlInv, Supervised, WorkerWatched, BackoffBounded, api, pages,
         Requeue
<1> QED
  BY <1>3, <1>4, <1>5, <1>6, <1>7, <1>8, <1>9 DEF CrawlInv

LEMMA RequeueLogFailsKeeps ==
    ASSUME CrawlInv, NEW f \in Files, RequeueLogFails(f)
    PROVE  CrawlInv'
<1>1. job' \in [Files -> JobType]
  BY DEF CrawlInv, TypeOK, JobType, RequeueLogFails, RequeueStatus, SetStatus, Spend
<1>2. req' \in ReqType
  BY DEF CrawlInv, TypeOK, ReqType, RequeueLogFails, Exists
<1>3. left' \in Nat
  BY DEF CrawlInv, TypeOK, RequeueLogFails, Spend
<1>4. TypeOK'
  BY <1>1, <1>2, <1>3 DEF CrawlInv, TypeOK, RequeueLogFails, RequeueStatus, SetStatus, Spend,
         Exists, api, pages
<1>5. ThreadMemory'
  BY DEF CrawlInv, TypeOK, ReqType, RunType, Crawling, PoolType, ThreadMemory,
         NoReq, NoRun, NewPool, RequeueLogFails, RequeueStatus, SetStatus, Spend, Exists,
         api, pages
<1>6. UnsavedUnknown'
  BY CrawlAssumption DEF CrawlInv, TypeOK, JobType, CallPCs, RunType,
         Crawling, ReqType, UnsavedUnknown, Unknown, Exists, CrawlOwnsJob,
         RequeueLogFails, RequeueStatus, SetStatus, Spend, api, pages
<1>7. CrawlOwnsJob'
  BY CrawlAssumption DEF CrawlInv, TypeOK, JobType, RunType, Crawling,
         ReqType, CrawlOwnsJob, BatchLeftBehind, Exists, Zombies, InStatus,
         RequeueLogFails, RequeueStatus, SetStatus, Spend, api, pages
<1>8. BatchLeftBehind'
  BY DEF CrawlInv, TypeOK, JobType, ReqType, BatchLeftBehind, Zombies,
         InStatus, Exists, CrawlOwnsJob, RequeueLogFails, RequeueStatus, SetStatus, Spend,
         api, pages
<1>9. FilesWhole'
  BY DEF CrawlInv, TypeOK, CallPCs, JobType, RunType, Crawling, FilesWhole,
         Done, CrawlOwnsJob, RequeueLogFails, RequeueStatus, SetStatus, Spend, Exists, api,
         pages
<1>10. Supervised' /\ WorkerWatched' /\ BackoffBounded'
  BY DEF CrawlInv, Supervised, WorkerWatched, BackoffBounded, api, pages,
         RequeueLogFails
<1> QED
  BY <1>4, <1>5, <1>6, <1>7, <1>8, <1>9, <1>10 DEF CrawlInv

LEMMA RequeueFailsKeeps ==
    ASSUME CrawlInv, NEW f \in Files, RequeueFails(f)
    PROVE  CrawlInv'
<1>1. req' \in ReqType
  BY DEF CrawlInv, TypeOK, ReqType, RequeueFails
<1>2. left' \in Nat
  BY DEF CrawlInv, TypeOK, RequeueFails, Spend
<1>3. TypeOK'
  BY <1>1, <1>2 DEF CrawlInv, TypeOK, RequeueFails, store, api, pages
<1>4. ThreadMemory'
  BY DEF CrawlInv, TypeOK, ReqType, RunType, Crawling, PoolType, ThreadMemory,
         NoReq, NoRun, NewPool, RequeueFails, Spend, store, api, pages
<1>5. UnsavedUnknown'
  BY CrawlAssumption DEF CrawlInv, TypeOK, JobType, CallPCs, RunType,
         Crawling, ReqType, UnsavedUnknown, Unknown, Exists, RequeueFails,
         Spend, store, api, pages
<1>6. CrawlOwnsJob'
  BY CrawlAssumption DEF CrawlInv, TypeOK, JobType, RunType, Crawling,
         ReqType, CrawlOwnsJob, BatchLeftBehind, Exists, Zombies, InStatus,
         RequeueFails, Spend, store, api, pages
<1>7. BatchLeftBehind'
  BY DEF CrawlInv, TypeOK, JobType, ReqType, BatchLeftBehind, Zombies,
         InStatus, Exists, RequeueFails, Spend, store, api, pages
<1>8. Supervised' /\ WorkerWatched' /\ BackoffBounded' /\ FilesWhole'
  BY DEF CrawlInv, Supervised, WorkerWatched, BackoffBounded, FilesWhole,
         Done, store, api, pages, RequeueFails
<1> QED
  BY <1>3, <1>4, <1>5, <1>6, <1>7, <1>8 DEF CrawlInv

LEMMA BatchDoneKeeps ==
    ASSUME CrawlInv, BatchDone
    PROVE  CrawlInv'
<1>1. req' \in ReqType
  BY RestTypes DEF CrawlInv, TypeOK, ReqType, BatchDone, PassEnds
<1>2. run' \in RunType
  BY DEF CrawlInv, TypeOK, RunType, BatchDone, PassEnds
<1>3. TypeOK'
  BY <1>1, <1>2 DEF CrawlInv, TypeOK, BatchDone, PassEnds, store, api, pages
<1>4. ThreadMemory'
  BY DEF CrawlInv, TypeOK, ReqType, RunType, Crawling, PoolType, ThreadMemory,
         NoReq, NoRun, NewPool, BatchDone, PassEnds, store, api, pages
<1>5. UnsavedUnknown'
  <2>1. run'.f = run.f /\ req'.todo = {}
    BY DEF CrawlInv, TypeOK, RunType, ReqType, BatchDone, PassEnds, NoReq
  <2>2. ASSUME NEW f \in Files, Unknown(f)
        PROVE  Unknown(f)'
    BY <2>1, <2>2 DEF Unknown, Exists, BatchDone, store, api
  <2> QED
    BY <2>2 DEF CrawlInv, UnsavedUnknown, BatchDone, store, api
<1>6. CrawlOwnsJob'
  BY CrawlAssumption DEF CrawlInv, TypeOK, JobType, RunType, Crawling,
         ReqType, CrawlOwnsJob, BatchLeftBehind, Exists, Zombies, InStatus,
         BatchDone, PassEnds, NoReq, store, api, pages
<1>7. BatchLeftBehind'
  BY DEF CrawlInv, TypeOK, JobType, ReqType, BatchLeftBehind, Zombies,
         InStatus, Exists, CrawlOwnsJob, BatchDone, PassEnds, NoReq, store,
         api, pages
<1>8. FilesWhole'
  BY DEF CrawlInv, TypeOK, CallPCs, JobType, RunType, Crawling, FilesWhole,
         Done, CrawlOwnsJob, BatchDone, PassEnds, NoReq, store, api, pages
<1>9. Supervised' /\ WorkerWatched' /\ BackoffBounded'
  BY DEF CrawlInv, Supervised, WorkerWatched, BackoffBounded, store, api,
         pages, BatchDone
<1> QED
  BY <1>3, <1>4, <1>5, <1>6, <1>7, <1>8, <1>9 DEF CrawlInv

LEMMA RetryPassKeeps ==
    ASSUME CrawlInv, RetryPass
    PROVE  CrawlInv'
<1>1. TypeOK'
  BY CrawlAssumption DEF CrawlInv, TypeOK, ReqType, RetryPass, NoReq, store,
         api, pages
<1>2. ThreadMemory'
  BY DEF CrawlInv, TypeOK, ReqType, RunType, Crawling, PoolType, ThreadMemory,
         NoReq, NoRun, NewPool, RetryPass, store, api, pages
<1>3. UnsavedUnknown'
  BY CrawlAssumption DEF CrawlInv, TypeOK, JobType, CallPCs, RunType,
         Crawling, ReqType, UnsavedUnknown, Unknown, Exists, RetryPass, NoReq,
         store, api, pages
<1>4. CrawlOwnsJob'
  BY CrawlAssumption DEF CrawlInv, TypeOK, JobType, RunType, Crawling,
         ReqType, CrawlOwnsJob, BatchLeftBehind, Exists, Zombies, InStatus,
         RetryPass, NoReq, store, api, pages
<1>5. BatchLeftBehind'
  BY DEF CrawlInv, TypeOK, JobType, ReqType, BatchLeftBehind, Zombies,
         InStatus, Exists, RetryPass, NoReq, store, api, pages
<1>6. Supervised' /\ WorkerWatched' /\ BackoffBounded' /\ FilesWhole'
  BY DEF CrawlInv, Supervised, WorkerWatched, BackoffBounded, FilesWhole,
         Done, store, api, pages, RetryPass
<1> QED
  BY <1>1, <1>2, <1>3, <1>4, <1>5, <1>6 DEF CrawlInv

LEMMA PollKeeps ==
    ASSUME CrawlInv, NEW f \in Files, Poll(f)
    PROVE  CrawlInv'
<1>1. TypeOK'
  BY CrawlAssumption DEF CrawlInv, TypeOK, RunType, Crawling, Poll, NoRun,
         InStatus, api, pages
<1>2. ThreadMemory'
  BY DEF CrawlInv, TypeOK, ReqType, RunType, Crawling, PoolType, ThreadMemory,
         NoReq, NoRun, NewPool, Poll, InStatus, api, pages
<1>3. UnsavedUnknown'
  BY CrawlAssumption DEF CrawlInv, TypeOK, JobType, CallPCs, RunType,
         Crawling, ReqType, UnsavedUnknown, Unknown, Exists, CrawlOwnsJob,
         Poll, NoRun, InStatus, api, pages
<1>4. CrawlOwnsJob'
  BY CrawlAssumption DEF CrawlInv, TypeOK, JobType, RunType, Crawling,
         ReqType, CrawlOwnsJob, BatchLeftBehind, Exists, Zombies, InStatus,
         Poll, NoRun, api, pages
<1>5. FilesWhole'
  BY DEF CrawlInv, TypeOK, CallPCs, JobType, RunType, Crawling, FilesWhole,
         Done, CrawlOwnsJob, Poll, NoRun, InStatus, api, pages
<1>6. Supervised' /\ WorkerWatched' /\ BackoffBounded' /\ BatchLeftBehind'
  BY DEF CrawlInv, Supervised, WorkerWatched, BackoffBounded, BatchLeftBehind,
         Zombies, InStatus, Exists, api, pages, Poll
<1> QED
  BY <1>1, <1>2, <1>3, <1>4, <1>5, <1>6 DEF CrawlInv

LEMMA ClaimKeeps ==
    ASSUME CrawlInv, Claim
    PROVE  CrawlInv'
<1>1. run.f \in Files
  BY DEF CrawlInv, TypeOK, RunType, CrawlOwnsJob, Claim
<1>2. job' \in [Files -> JobType]
  <2>1. ClaimPatch(job[run.f]) \in JobType
    BY <1>1, PatchTypes DEF CrawlInv, TypeOK
  <2> QED
    BY <2>1 DEF CrawlInv, TypeOK, Claim
<1>3. run' \in RunType
  BY DEF CrawlInv, TypeOK, RunType, Crawling, Claim, Goto
<1>4. TypeOK'
  BY <1>1, <1>2, <1>3 DEF CrawlInv, TypeOK, Claim, ClaimPatch, Goto, Exists,
         api, pages
<1>5. ThreadMemory'
  BY <1>1 DEF CrawlInv, TypeOK, ReqType, RunType, Crawling, PoolType,
         ThreadMemory, NoReq, NoRun, NewPool, Claim, ClaimPatch, Goto, Exists,
         api, pages
<1>6. UnsavedUnknown'
  BY CrawlAssumption, <1>1 DEF CrawlInv, TypeOK, JobType, CallPCs, RunType,
         Crawling, ReqType, UnsavedUnknown, Unknown, Exists, CrawlOwnsJob,
         Claim, ClaimPatch, Goto, api, pages
<1>7. CrawlOwnsJob'
  <2>1. run'.f = run.f /\ run'.pc \in {"crawl", "fail"} /\ req' = req
    BY DEF CrawlInv, TypeOK, RunType, Claim, Goto
  <2>2. CASE Exists(run.f)
    <3>1. job'[run.f] = [job[run.f] EXCEPT !.status = "Crawling", !.fresh = TRUE]
      BY <1>1, <2>2 DEF CrawlInv, TypeOK, Claim, ClaimPatch
    <3>2. job[run.f] \in JobType
      BY <1>1 DEF CrawlInv, TypeOK
    <3>3. job'[run.f].status = "Crawling"
      BY <3>1, <3>2 DEF JobType
    <3>4. job'[run.f].fresh
      BY <3>1, <3>2 DEF JobType
    <3> QED
      BY <1>1, <2>1, <3>3, <3>4, CrawlAssumption DEF CrawlInv, CrawlOwnsJob
  <2>3. CASE ~Exists(run.f)
    BY <1>1, <2>1, <2>3, CrawlAssumption
       DEF CrawlInv, TypeOK, JobType, CrawlOwnsJob, Exists, Claim
  <2> QED
    BY <2>2, <2>3
<1>8. BatchLeftBehind'
  BY <1>1 DEF CrawlInv, TypeOK, JobType, ReqType, BatchLeftBehind, Zombies,
         InStatus, Exists, CrawlOwnsJob, Claim, ClaimPatch, Goto, api, pages
<1>9. FilesWhole'
  <2>1. run'.pc # "succeed"
    BY DEF CrawlInv, TypeOK, RunType, Claim, Goto
  <2>2. \A f \in Files : job'[f].status = "Succeeded" => job[f].status = "Succeeded"
    BY <1>1 DEF CrawlInv, TypeOK, JobType, Claim, ClaimPatch
  <2> QED
    BY <2>1, <2>2 DEF CrawlInv, FilesWhole, Done, Claim, api
<1>10. Supervised' /\ WorkerWatched' /\ BackoffBounded'
  BY DEF CrawlInv, Supervised, WorkerWatched, BackoffBounded, Goto, api,
         pages, Claim
<1> QED
  BY <1>4, <1>5, <1>6, <1>7, <1>8, <1>9, <1>10 DEF CrawlInv

LEMMA CheckKillKeeps ==
    ASSUME CrawlInv, CheckKill
    PROVE  CrawlInv'
<1>1. TypeOK'
  BY CrawlAssumption DEF CrawlInv, TypeOK, RunType, Crawling, CheckKill,
         store, api, pages
<1>2. ThreadMemory'
  BY DEF CrawlInv, TypeOK, ReqType, RunType, Crawling, PoolType, ThreadMemory,
         NoReq, NoRun, NewPool, CheckKill, store, api, pages
<1>3. UnsavedUnknown'
  BY CrawlAssumption DEF CrawlInv, TypeOK, JobType, CallPCs, RunType,
         Crawling, ReqType, UnsavedUnknown, Unknown, Exists, CheckKill, store,
         api, pages
<1>4. CrawlOwnsJob'
  BY CrawlAssumption DEF CrawlInv, TypeOK, JobType, RunType, Crawling,
         ReqType, CrawlOwnsJob, BatchLeftBehind, Exists, Zombies, InStatus,
         CheckKill, store, api, pages
<1>5. FilesWhole'
  BY DEF CrawlInv, TypeOK, CallPCs, JobType, RunType, Crawling, FilesWhole,
         Done, CheckKill, store, api, pages
<1>6. Supervised' /\ WorkerWatched' /\ BackoffBounded' /\ BatchLeftBehind'
  BY DEF CrawlInv, Supervised, WorkerWatched, BackoffBounded, BatchLeftBehind,
         Zombies, InStatus, Exists, store, api, pages, CheckKill
<1> QED
  BY <1>1, <1>2, <1>3, <1>4, <1>5, <1>6 DEF CrawlInv

LEMMA StartBatchKeeps ==
    ASSUME CrawlInv, NEW b \in SUBSET Pages, StartBatch(b)
    PROVE  CrawlInv'
<1>1. TypeOK'
  BY CrawlAssumption DEF CrawlInv, TypeOK, RunType, Crawling, StartBatch,
         store, api, pages
<1>2. ThreadMemory'
  BY DEF CrawlInv, TypeOK, ReqType, RunType, Crawling, PoolType, ThreadMemory,
         NoReq, NoRun, NewPool, StartBatch, store, api, pages
<1>3. UnsavedUnknown'
  BY CrawlAssumption DEF CrawlInv, TypeOK, JobType, CallPCs, RunType,
         Crawling, ReqType, UnsavedUnknown, Unknown, Exists, StartBatch,
         store, api, pages
<1>4. CrawlOwnsJob'
  BY CrawlAssumption DEF CrawlInv, TypeOK, JobType, RunType, Crawling,
         ReqType, CrawlOwnsJob, BatchLeftBehind, Exists, Zombies, InStatus,
         StartBatch, store, api, pages
<1>5. FilesWhole'
  BY DEF CrawlInv, TypeOK, CallPCs, JobType, RunType, Crawling, FilesWhole,
         Done, StartBatch, store, api, pages
<1>6. Supervised' /\ WorkerWatched' /\ BackoffBounded' /\ BatchLeftBehind'
  BY DEF CrawlInv, Supervised, WorkerWatched, BackoffBounded, BatchLeftBehind,
         Zombies, InStatus, Exists, store, api, pages, StartBatch
<1> QED
  BY <1>1, <1>2, <1>3, <1>4, <1>5, <1>6 DEF CrawlInv

LEMMA PageFailsKeeps ==
    ASSUME CrawlInv, NEW p \in Pages, PageFails(p)
    PROVE  CrawlInv'
<1>1. TypeOK'
  BY CrawlAssumption DEF CrawlInv, TypeOK, RunType, Crawling, PageFails,
         store, api, pages
<1>2. ThreadMemory'
  BY DEF CrawlInv, TypeOK, ReqType, RunType, Crawling, PoolType, ThreadMemory,
         NoReq, NoRun, NewPool, PageFails, store, api, pages
<1>3. UnsavedUnknown'
  BY CrawlAssumption DEF CrawlInv, TypeOK, JobType, CallPCs, RunType,
         Crawling, ReqType, UnsavedUnknown, Unknown, Exists, PageFails, store,
         api, pages
<1>4. CrawlOwnsJob'
  BY CrawlAssumption DEF CrawlInv, TypeOK, JobType, RunType, Crawling,
         ReqType, CrawlOwnsJob, BatchLeftBehind, Exists, Zombies, InStatus,
         PageFails, store, api, pages
<1>5. FilesWhole'
  BY DEF CrawlInv, TypeOK, CallPCs, JobType, RunType, Crawling, FilesWhole,
         Done, PageFails, store, api, pages
<1>6. Supervised' /\ WorkerWatched' /\ BackoffBounded' /\ BatchLeftBehind'
  BY DEF CrawlInv, Supervised, WorkerWatched, BackoffBounded, BatchLeftBehind,
         Zombies, InStatus, Exists, store, api, pages, PageFails
<1> QED
  BY <1>1, <1>2, <1>3, <1>4, <1>5, <1>6 DEF CrawlInv

LEMMA PageOverLimitKeeps ==
    ASSUME CrawlInv, NEW p \in Pages, PageOverLimit(p)
    PROVE  CrawlInv'
<1>1. TypeOK'
  BY CrawlAssumption DEF CrawlInv, TypeOK, RunType, Crawling, PageOverLimit,
         store, api, pages
<1>2. ThreadMemory'
  BY DEF CrawlInv, TypeOK, ReqType, RunType, Crawling, PoolType, ThreadMemory,
         NoReq, NoRun, NewPool, PageOverLimit, store, api, pages
<1>3. UnsavedUnknown'
  BY CrawlAssumption DEF CrawlInv, TypeOK, JobType, CallPCs, RunType,
         Crawling, ReqType, UnsavedUnknown, Unknown, Exists, PageOverLimit,
         store, api, pages
<1>4. CrawlOwnsJob'
  BY CrawlAssumption DEF CrawlInv, TypeOK, JobType, RunType, Crawling,
         ReqType, CrawlOwnsJob, BatchLeftBehind, Exists, Zombies, InStatus,
         PageOverLimit, store, api, pages
<1>5. FilesWhole'
  BY DEF CrawlInv, TypeOK, CallPCs, JobType, RunType, Crawling, FilesWhole,
         Done, PageOverLimit, store, api, pages
<1>6. Supervised' /\ WorkerWatched' /\ BackoffBounded' /\ BatchLeftBehind'
  BY DEF CrawlInv, Supervised, WorkerWatched, BackoffBounded, BatchLeftBehind,
         Zombies, InStatus, Exists, store, api, pages, PageOverLimit
<1> QED
  BY <1>1, <1>2, <1>3, <1>4, <1>5, <1>6 DEF CrawlInv

LEMMA BatchEndsKeeps ==
    ASSUME CrawlInv, BatchEnds
    PROVE  CrawlInv'
<1>1. TypeOK'
  BY CrawlAssumption DEF CrawlInv, TypeOK, RunType, Crawling, BatchEnds, Goto,
         store, api, pages
<1>2. ThreadMemory'
  BY DEF CrawlInv, TypeOK, ReqType, RunType, Crawling, PoolType, ThreadMemory,
         NoReq, NoRun, NewPool, BatchEnds, Goto, store, api, pages
<1>3. UnsavedUnknown'
  BY CrawlAssumption DEF CrawlInv, TypeOK, JobType, CallPCs, RunType,
         Crawling, ReqType, UnsavedUnknown, Unknown, Exists, BatchEnds, Goto,
         store, api, pages
<1>4. CrawlOwnsJob'
  BY CrawlAssumption DEF CrawlInv, TypeOK, JobType, RunType, Crawling,
         ReqType, CrawlOwnsJob, BatchLeftBehind, Exists, Zombies, InStatus,
         BatchEnds, Goto, store, api, pages
<1>5. FilesWhole'
  BY DEF CrawlInv, TypeOK, CallPCs, JobType, RunType, Crawling, FilesWhole,
         Done, BatchEnds, Goto, store, api, pages
<1>6. Supervised' /\ WorkerWatched' /\ BackoffBounded' /\ BatchLeftBehind'
  BY DEF CrawlInv, Supervised, WorkerWatched, BackoffBounded, BatchLeftBehind,
         Zombies, InStatus, Exists, Goto, store, api, pages, BatchEnds
<1> QED
  BY <1>1, <1>2, <1>3, <1>4, <1>5, <1>6 DEF CrawlInv

LEMMA CrawlKilledKeeps ==
    ASSUME CrawlInv, CrawlKilled
    PROVE  CrawlInv'
<1>1. TypeOK'
  BY CrawlAssumption DEF CrawlInv, TypeOK, RunType, Crawling, CrawlKilled,
         Goto, store, api, pages
<1>2. ThreadMemory'
  BY DEF CrawlInv, TypeOK, ReqType, RunType, Crawling, PoolType, ThreadMemory,
         NoReq, NoRun, NewPool, CrawlKilled, Goto, store, api, pages
<1>3. UnsavedUnknown'
  BY CrawlAssumption DEF CrawlInv, TypeOK, JobType, CallPCs, RunType,
         Crawling, ReqType, UnsavedUnknown, Unknown, Exists, CrawlKilled,
         Goto, store, api, pages
<1>4. CrawlOwnsJob'
  BY CrawlAssumption DEF CrawlInv, TypeOK, JobType, RunType, Crawling,
         ReqType, CrawlOwnsJob, BatchLeftBehind, Exists, Zombies, InStatus,
         CrawlKilled, Goto, store, api, pages
<1>5. FilesWhole'
  BY DEF CrawlInv, TypeOK, CallPCs, JobType, RunType, Crawling, FilesWhole,
         Done, CrawlKilled, Goto, store, api, pages
<1>6. Supervised' /\ WorkerWatched' /\ BackoffBounded' /\ BatchLeftBehind'
  BY DEF CrawlInv, Supervised, WorkerWatched, BackoffBounded, BatchLeftBehind,
         Zombies, InStatus, Exists, Goto, store, api, pages, CrawlKilled
<1> QED
  BY <1>1, <1>2, <1>3, <1>4, <1>5, <1>6 DEF CrawlInv

LEMMA CrawlDoneKeeps ==
    ASSUME CrawlInv, CrawlDone
    PROVE  CrawlInv'
<1>1. TypeOK'
  BY CrawlAssumption DEF CrawlInv, TypeOK, RunType, Crawling, CrawlDone, Goto,
         store, api, pages
<1>2. ThreadMemory'
  BY DEF CrawlInv, TypeOK, ReqType, RunType, Crawling, PoolType, ThreadMemory,
         NoReq, NoRun, NewPool, CrawlDone, Goto, store, api, pages
<1>3. UnsavedUnknown'
  BY CrawlAssumption DEF CrawlInv, TypeOK, JobType, CallPCs, RunType,
         Crawling, ReqType, UnsavedUnknown, Unknown, Exists, CrawlDone, Goto,
         store, api, pages
<1>4. CrawlOwnsJob'
  BY CrawlAssumption DEF CrawlInv, TypeOK, JobType, RunType, Crawling,
         ReqType, CrawlOwnsJob, BatchLeftBehind, Exists, Zombies, InStatus,
         CrawlDone, Goto, store, api, pages
<1>5. FilesWhole'
  BY DEF CrawlInv, TypeOK, CallPCs, JobType, RunType, Crawling, FilesWhole,
         Done, CrawlDone, Goto, store, api, pages
<1>6. Supervised' /\ WorkerWatched' /\ BackoffBounded' /\ BatchLeftBehind'
  BY DEF CrawlInv, Supervised, WorkerWatched, BackoffBounded, BatchLeftBehind,
         Zombies, InStatus, Exists, Goto, store, api, pages, CrawlDone
<1> QED
  BY <1>1, <1>2, <1>3, <1>4, <1>5, <1>6 DEF CrawlInv

LEMMA SaveKeeps ==
    ASSUME CrawlInv, Save
    PROVE  CrawlInv'
<1>1. run.f \in Files
  BY DEF CrawlInv, TypeOK, RunType, CrawlOwnsJob, Save
<1>2. run' \in RunType
  BY DEF CrawlInv, TypeOK, RunType, Crawling, Save, Goto
<1>3. TypeOK'
  BY <1>1, <1>2 DEF CrawlInv, TypeOK, Save, Goto, api, pages
<1>4. ThreadMemory'
  BY <1>1 DEF CrawlInv, TypeOK, ReqType, RunType, Crawling, PoolType,
         ThreadMemory, NoReq, NoRun, NewPool, Save, Goto, api, pages
<1>5. UnsavedUnknown'
  BY CrawlAssumption, <1>1 DEF CrawlInv, TypeOK, JobType, CallPCs, RunType,
         Crawling, ReqType, UnsavedUnknown, Unknown, Exists, CrawlOwnsJob,
         Save, Goto, api, pages
<1>6. CrawlOwnsJob'
  BY CrawlAssumption, <1>1 DEF CrawlInv, TypeOK, JobType, RunType, Crawling,
         ReqType, CrawlOwnsJob, BatchLeftBehind, Exists, Zombies, InStatus,
         Save, Goto, api, pages
<1>7. FilesWhole'
  BY <1>1 DEF CrawlInv, TypeOK, CallPCs, JobType, RunType, Crawling,
         FilesWhole, Done, CrawlOwnsJob, Save, Goto, api, pages
<1>8. Supervised' /\ WorkerWatched' /\ BackoffBounded' /\ BatchLeftBehind'
  BY DEF CrawlInv, Supervised, WorkerWatched, BackoffBounded, BatchLeftBehind,
         Zombies, InStatus, Exists, Goto, api, pages, Save
<1> QED
  BY <1>3, <1>4, <1>5, <1>6, <1>7, <1>8 DEF CrawlInv

LEMMA SucceedKeeps ==
    ASSUME CrawlInv, Succeed
    PROVE  CrawlInv'
<1>1. run.f \in Files
  BY DEF CrawlInv, TypeOK, RunType, CrawlOwnsJob, Succeed
<1>2. job' \in [Files -> JobType]
  BY DEF CrawlInv, TypeOK, JobType, Succeed, SetStatus
<1>3. run' \in RunType /\ section' \in [Pages -> Texts \cup {None}]
  BY RestTypes DEF CrawlInv, TypeOK, RunType, Succeed, LeaveJob, Fail, Goto
<1>4. TypeOK'
  BY <1>1, <1>2, <1>3 DEF CrawlInv, TypeOK, Succeed, SetStatus, LeaveJob,
         Fail, Goto, Exists, api
<1>5. ThreadMemory'
  BY <1>1 DEF CrawlInv, TypeOK, ReqType, RunType, Crawling, PoolType,
         ThreadMemory, NoReq, NoRun, NewPool, Succeed, SetStatus, LeaveJob,
         Fail, Goto, Blank, Exists, api
<1>6. UnsavedUnknown'
  <2>1. \A f \in Files : Exists(f)' => Exists(f)
    BY <1>1 DEF CrawlInv, TypeOK, JobType, Exists, Succeed, SetStatus
  <2>2. run'.f \in {run.f, None}
    BY DEF CrawlInv, TypeOK, RunType, Succeed, LeaveJob, Fail, Goto, NoRun
  <2>3. UNCHANGED <<scheduled, saving, call, file, req>>
    BY DEF Succeed, api
  <2> QED
    BY CrawlAssumption, <2>1, <2>2, <2>3 DEF CrawlInv, UnsavedUnknown, Unknown
<1>7. CrawlOwnsJob'
  BY CrawlAssumption, <1>1 DEF CrawlInv, TypeOK, JobType, RunType, Crawling,
         ReqType, CrawlOwnsJob, BatchLeftBehind, Exists, Zombies, InStatus,
         Succeed, SetStatus, LeaveJob, Fail, Goto, NoRun, Blank, api
<1>8. BatchLeftBehind'
  <2>1. \A f \in req.todo : f \in Files /\ job'[f] = job[f]
    BY <1>1 DEF CrawlInv, TypeOK, JobType, ReqType, CrawlOwnsJob, Succeed, SetStatus
  <2> QED
    BY <2>1 DEF CrawlInv, BatchLeftBehind, Zombies, InStatus, Exists, Succeed
<1>9. FilesWhole'
  BY <1>1 DEF CrawlInv, TypeOK, CallPCs, JobType, RunType, Crawling,
         FilesWhole, Done, CrawlOwnsJob, Succeed, SetStatus, LeaveJob, Fail,
         Goto, NoRun, Blank, Exists, api
<1>10. Supervised' /\ WorkerWatched' /\ BackoffBounded'
  BY DEF CrawlInv, Supervised, WorkerWatched, BackoffBounded, Goto, api,
         Succeed
<1> QED
  BY <1>4, <1>5, <1>6, <1>7, <1>8, <1>9, <1>10 DEF CrawlInv

LEMMA EndKeeps ==
    ASSUME CrawlInv, End
    PROVE  CrawlInv'
<1>1. run.f \in Files
  BY DEF CrawlInv, TypeOK, RunType, CrawlOwnsJob, End
<1>2. job' \in [Files -> JobType]
  BY <1>1 DEF CrawlInv, TypeOK, JobType, End, SetStatus, FinalStatus
<1>3. run' \in RunType /\ section' \in [Pages -> Texts \cup {None}]
  BY RestTypes DEF RunType, End, LeaveJob
<1>4. TypeOK'
  BY <1>1, <1>2, <1>3 DEF CrawlInv, TypeOK, End, SetStatus, FinalStatus,
         LeaveJob, Exists, api
<1>5. ThreadMemory'
  BY <1>1 DEF CrawlInv, TypeOK, ReqType, RunType, Crawling, PoolType,
         ThreadMemory, NoReq, NoRun, NewPool, End, SetStatus, FinalStatus,
         LeaveJob, Blank, Exists, api
<1>6. UnsavedUnknown'
  BY CrawlAssumption, <1>1 DEF CrawlInv, TypeOK, JobType, CallPCs, RunType,
         Crawling, ReqType, UnsavedUnknown, Unknown, Exists, CrawlOwnsJob,
         End, SetStatus, FinalStatus, LeaveJob, NoRun, Blank, api
<1>7. CrawlOwnsJob'
  BY CrawlAssumption, <1>1 DEF CrawlInv, TypeOK, JobType, RunType, Crawling,
         ReqType, CrawlOwnsJob, BatchLeftBehind, Exists, Zombies, InStatus,
         End, SetStatus, FinalStatus, LeaveJob, NoRun, Blank, api
<1>8. BatchLeftBehind'
  <2>1. \A f \in req.todo : f \in Files /\ job'[f] = job[f]
    BY <1>1 DEF CrawlInv, TypeOK, JobType, ReqType, CrawlOwnsJob, End, SetStatus
  <2> QED
    BY <2>1 DEF CrawlInv, BatchLeftBehind, Zombies, InStatus, Exists, End
<1>9. FilesWhole'
  <2>1. \A f \in Files : Done(f)' => Done(f)
    BY <1>1, CrawlAssumption DEF CrawlInv, TypeOK, JobType, Done, End, SetStatus, FinalStatus,
       LeaveJob, NoRun
  <2> QED
    BY <2>1 DEF CrawlInv, FilesWhole, End, api
<1>10. Supervised' /\ WorkerWatched' /\ BackoffBounded'
  BY DEF CrawlInv, Supervised, WorkerWatched, BackoffBounded, api, End
<1> QED
  BY <1>4, <1>5, <1>6, <1>7, <1>8, <1>9, <1>10 DEF CrawlInv

LEMMA CrawlWriteFailsKeeps ==
    ASSUME CrawlInv, CrawlWriteFails
    PROVE  CrawlInv'
<1>1. run' \in RunType /\ section' \in [Pages -> Texts \cup {None}]
  BY RestTypes DEF CrawlInv, TypeOK, RunType, CrawlWriteFails, LeaveJob, Fail,
         Goto
<1>2. left' \in Nat
  BY DEF CrawlInv, TypeOK, CrawlWriteFails, Spend
<1>3. TypeOK'
  BY <1>1, <1>2 DEF CrawlInv, TypeOK, CrawlWriteFails, Fail, LeaveJob, Goto,
         store, api
<1>4. ThreadMemory'
  BY DEF CrawlInv, TypeOK, ReqType, RunType, Crawling, PoolType, ThreadMemory,
         NoReq, NoRun, NewPool, CrawlWriteFails, Fail, LeaveJob, Goto, Blank,
         Spend, store, api
<1>5. UnsavedUnknown'
  BY CrawlAssumption DEF CrawlInv, TypeOK, JobType, CallPCs, RunType,
         Crawling, ReqType, UnsavedUnknown, Unknown, Exists, CrawlWriteFails,
         Fail, LeaveJob, Goto, NoRun, Blank, Spend, store, api
<1>6. CrawlOwnsJob'
  BY CrawlAssumption DEF CrawlInv, TypeOK, JobType, RunType, Crawling,
         ReqType, CrawlOwnsJob, BatchLeftBehind, Exists, Zombies, InStatus,
         CrawlWriteFails, Fail, LeaveJob, Goto, NoRun, Blank, Spend, store,
         api
<1>7. FilesWhole'
  BY DEF CrawlInv, TypeOK, CallPCs, JobType, RunType, Crawling, FilesWhole,
         Done, CrawlWriteFails, Fail, LeaveJob, Goto, NoRun, Blank, Spend,
         store, api
<1>8. Supervised' /\ WorkerWatched' /\ BackoffBounded' /\ BatchLeftBehind'
  BY DEF CrawlInv, Supervised, WorkerWatched, BackoffBounded, BatchLeftBehind,
         Zombies, InStatus, Exists, Goto, store, api, CrawlWriteFails
<1> QED
  BY <1>3, <1>4, <1>5, <1>6, <1>7, <1>8 DEF CrawlInv

LEMMA CrawlLogFailsKeeps ==
    ASSUME CrawlInv, CrawlLogFails
    PROVE  CrawlInv'
<1>1. run.f \in Files
  BY DEF CrawlInv, TypeOK, RunType, CrawlOwnsJob, CrawlLogFails
<1>2. job' \in [Files -> JobType]
  <2>1. /\ ClaimPatch(job[run.f]) \in JobType
        /\ [job[run.f] EXCEPT !.status = "Succeeded"] \in JobType
    BY <1>1, PatchTypes DEF CrawlInv, TypeOK
  <2> QED
    BY <2>1 DEF CrawlInv, TypeOK, CrawlLogFails, SetStatus
<1>3. run' \in RunType /\ section' \in [Pages -> Texts \cup {None}]
  BY RestTypes DEF CrawlInv, TypeOK, RunType, CrawlLogFails, ClaimPatch, Spend, Fail, Goto
<1>4. left' \in Nat
  BY DEF CrawlInv, TypeOK, CrawlLogFails, Spend
<1>5. TypeOK'
  BY <1>1, <1>2, <1>3, <1>4 DEF CrawlInv, TypeOK, CrawlLogFails, SetStatus, ClaimPatch, Spend,
         Fail, Goto, Exists, api
<1>6. ThreadMemory'
  BY <1>1 DEF CrawlInv, TypeOK, ReqType, RunType, Crawling, PoolType,
         ThreadMemory, NoReq, NoRun, NewPool, CrawlLogFails, SetStatus, ClaimPatch, Spend,
         Fail, Goto, Blank, Exists, api
<1>7. UnsavedUnknown'
  BY CrawlAssumption, <1>1 DEF CrawlInv, TypeOK, JobType, CallPCs, RunType,
         Crawling, ReqType, UnsavedUnknown, Unknown, Exists, CrawlOwnsJob,
         CrawlLogFails, SetStatus, ClaimPatch, Spend, Fail, Goto, NoRun, Blank, api
<1>8. CrawlOwnsJob'
  <2>1. run' = [run EXCEPT !.pc = "fail"] /\ req' = req
    BY DEF CrawlLogFails, Fail, Goto
  <2>2. CASE run.pc = "claim"
    <3>1. job'[run.f] = ClaimPatch(job[run.f])
      BY <1>1, <2>2 DEF CrawlInv, TypeOK, CrawlLogFails
    <3> QED
      BY <1>1, <2>1, <2>2, <3>1, CrawlAssumption
         DEF CrawlInv, TypeOK, JobType, RunType, Crawling, CrawlOwnsJob, ClaimPatch
  <2>3. CASE run.pc = "succeed"
    <3>1. job'[run.f].status = "Succeeded"
      BY <1>1, <2>3 DEF CrawlInv, TypeOK, JobType, CrawlLogFails, SetStatus
    <3> QED
      BY <1>1, <2>1, <2>3, <3>1, CrawlAssumption
         DEF CrawlInv, TypeOK, RunType, Crawling, CrawlOwnsJob
  <2> QED
    BY <2>2, <2>3 DEF CrawlLogFails
<1>9. BatchLeftBehind'
  <2>1. \A f \in req.todo : f \in Files /\ job'[f] = job[f]
    BY <1>1, CrawlAssumption DEF CrawlInv, TypeOK, JobType, ReqType, CrawlOwnsJob, CrawlLogFails,
       SetStatus, ClaimPatch
  <2> QED
    BY <2>1 DEF CrawlInv, BatchLeftBehind, Zombies, InStatus, Exists, CrawlLogFails
<1>10. FilesWhole'
  <2>1. \A f \in Files : Done(f)' => Done(f)
    <3>1. run'.f = run.f /\ run'.pc = "fail"
      BY DEF CrawlInv, TypeOK, RunType, CrawlLogFails, Fail, Goto
    <3>2. CASE run.pc = "claim"
      <4>1. job' = [job EXCEPT ![run.f] = ClaimPatch(job[run.f])]
        BY <3>2 DEF CrawlLogFails
      <4>2. job'[run.f].status = "Crawling" /\ \A f \in Files \ {run.f} : job'[f] = job[f]
        BY <1>1, <4>1 DEF CrawlInv, TypeOK, JobType, ClaimPatch
      <4> QED
        BY <1>1, <3>1, <4>2 DEF Done
    <3>3. CASE run.pc = "succeed"
      <4>1. \A f \in Files \ {run.f} : job'[f] = job[f]
        BY <1>1, <3>3 DEF CrawlInv, TypeOK, CrawlLogFails, SetStatus
      <4> QED
        BY <1>1, <3>1, <3>3, <4>1 DEF Done
    <3> QED
      BY <3>2, <3>3 DEF CrawlLogFails
  <2> QED
    BY <2>1 DEF CrawlInv, FilesWhole, CrawlLogFails, api
<1>11. Supervised' /\ WorkerWatched' /\ BackoffBounded'
  BY DEF CrawlInv, Supervised, WorkerWatched, BackoffBounded, Goto, api,
         CrawlLogFails
<1> QED
  BY <1>5, <1>6, <1>7, <1>8, <1>9, <1>10, <1>11 DEF CrawlInv

LEMMA PostPageKeeps ==
    ASSUME CrawlInv, NEW p \in Pages, PostPage(p)
    PROVE  CrawlInv'
<1>1. run.f \in Files
  BY DEF CrawlInv, TypeOK, RunType, CrawlOwnsJob, PostPage
<1>2. run' \in RunType
  BY DEF CrawlInv, TypeOK, RunType, PostPage
<1>3. pool' \in [Threads -> PoolType]
  <2>1. pool[rr] \in PoolType /\ pool[rr].queue \in Seq(Texts) /\ pool[rr].waiting \subseteq Pages
    BY DEF CrawlInv, TypeOK, PoolType
  <2>2. Append(pool[rr].queue, <<run.f, p>>) \in Seq(Texts)
    BY <1>1, <2>1 DEF Texts
  <2>3. pool' = [pool EXCEPT ![rr] =
                   [pool[rr] EXCEPT !.waiting = @ \cup {p},
                                    !.queue = IF pool[rr].alive THEN Append(@, <<run.f, p>>) ELSE @]]
    BY DEF CrawlInv, TypeOK, PoolType, PostPage
  <2> QED
    BY <2>1, <2>2, <2>3 DEF CrawlInv, TypeOK, PoolType
<1>4. rr' \in Threads
  BY CrawlAssumption DEF CrawlInv, TypeOK, Threads, PostPage
<1>5. TypeOK'
  BY <1>1, <1>2, <1>3, <1>4 DEF CrawlInv, TypeOK, PostPage, store, api
<1>6. ThreadMemory'
  BY <1>1 DEF CrawlInv, TypeOK, ReqType, RunType, Crawling, PoolType,
         ThreadMemory, NoReq, NoRun, NewPool, PostPage, store, api
<1>7. UnsavedUnknown'
  BY CrawlAssumption, <1>1 DEF CrawlInv, TypeOK, JobType, CallPCs, RunType,
         Crawling, ReqType, UnsavedUnknown, Unknown, Exists, PostPage, store,
         api
<1>8. CrawlOwnsJob'
  BY CrawlAssumption, <1>1 DEF CrawlInv, TypeOK, JobType, RunType, Crawling,
         ReqType, CrawlOwnsJob, BatchLeftBehind, Exists, Zombies, InStatus,
         PostPage, store, api
<1>9. FilesWhole'
  BY <1>1 DEF CrawlInv, TypeOK, CallPCs, JobType, RunType, Crawling,
         FilesWhole, Done, PostPage, store, api
<1>10. Supervised' /\ WorkerWatched' /\ BackoffBounded' /\ BatchLeftBehind'
  BY DEF CrawlInv, Supervised, WorkerWatched, BackoffBounded, BatchLeftBehind,
         Zombies, InStatus, Exists, store, api, PostPage
<1> QED
  BY <1>5, <1>6, <1>7, <1>8, <1>9, <1>10 DEF CrawlInv

LEMMA ReplyKeeps ==
    ASSUME CrawlInv, NEW t \in Threads, NEW keep \in BOOLEAN, Reply(t, keep)
    PROVE  CrawlInv'
<1>1. TypeOK'
  <2>1. pool[t].queue \in Seq(Texts) /\ pool[t].queue # <<>> /\ Answered(t) \subseteq Pages
    BY DEF CrawlInv, TypeOK, PoolType, Reply, Answered
  <2>2. pool' \in [Threads -> PoolType]
    <3>1. pool[t] \in PoolType /\ Tail(pool[t].queue) \in Seq(Texts)
      BY <2>1 DEF CrawlInv, TypeOK
    <3>2. [pool[t] EXCEPT !.waiting = @ \ Answered(t), !.queue = Tail(@)] \in PoolType
      BY <3>1 DEF PoolType
    <3> QED
      BY <3>2 DEF CrawlInv, TypeOK, Reply
  <2>3. Head(pool[t].queue) \in Texts
    BY <2>1
  <2>4. section' \in [Pages -> Texts \cup {None}]
    BY <2>3 DEF CrawlInv, TypeOK, Reply
  <2>5. Cardinality(Answered(t)) \in Nat
    BY <2>1, CrawlAssumption, FS_Subset, FS_CardinalityType
  <2>6. run' \in RunType
    BY <2>5 DEF CrawlInv, TypeOK, RunType, Reply
  <2> QED
    BY <2>2, <2>4, <2>6 DEF CrawlInv, TypeOK, Reply, store, api
<1>2. ThreadMemory'
  BY DEF CrawlInv, TypeOK, ReqType, RunType, Crawling, PoolType, ThreadMemory,
         NoReq, NoRun, NewPool, Reply, Answered, store, api
<1>3. UnsavedUnknown'
  BY CrawlAssumption DEF CrawlInv, TypeOK, JobType, CallPCs, RunType,
         Crawling, ReqType, UnsavedUnknown, Unknown, Exists, Reply, Answered,
         store, api
<1>4. CrawlOwnsJob'
  BY CrawlAssumption DEF CrawlInv, TypeOK, JobType, RunType, Crawling,
         ReqType, CrawlOwnsJob, BatchLeftBehind, Exists, Zombies, InStatus,
         Reply, Answered, store, api
<1>5. FilesWhole'
  BY DEF CrawlInv, TypeOK, CallPCs, JobType, RunType, Crawling, FilesWhole,
         Done, Reply, Answered, store, api
<1>6. Supervised' /\ WorkerWatched' /\ BackoffBounded' /\ BatchLeftBehind'
  BY DEF CrawlInv, Supervised, WorkerWatched, BackoffBounded, BatchLeftBehind,
         Zombies, InStatus, Exists, store, api, Reply
<1> QED
  BY <1>1, <1>2, <1>3, <1>4, <1>5, <1>6 DEF CrawlInv

LEMMA ThreadDiesKeeps ==
    ASSUME CrawlInv, NEW t \in Threads, ThreadDies(t)
    PROVE  CrawlInv'
<1>1. TypeOK'
  BY CrawlAssumption DEF CrawlInv, TypeOK, PoolType, Texts, ThreadDies, Spend,
         store, api
<1>2. ThreadMemory'
  BY DEF CrawlInv, TypeOK, ReqType, RunType, Crawling, PoolType, ThreadMemory,
         NoReq, NoRun, NewPool, ThreadDies, Spend, store, api
<1>3. Supervised' /\ WorkerWatched' /\ BackoffBounded' /\ UnsavedUnknown'
     /\ CrawlOwnsJob' /\ BatchLeftBehind' /\ FilesWhole'
  BY DEF CrawlInv, Supervised, WorkerWatched, BackoffBounded, UnsavedUnknown,
         Unknown, Exists, CrawlOwnsJob, BatchLeftBehind, Zombies, InStatus,
         FilesWhole, Done, store, api, ThreadDies
<1> QED
  BY <1>1, <1>2, <1>3 DEF CrawlInv

LEMMA IdleThreadDiesKeeps ==
    ASSUME CrawlInv, NEW t \in Threads, IdleThreadDies(t)
    PROVE  CrawlInv'
<1>1. req' \in ReqType /\ run' \in RunType
     /\ section' \in [Pages -> Texts \cup {None}]
     /\ pool' \in [Threads -> PoolType] /\ rr' \in Threads
  BY RestTypes DEF IdleThreadDies, NoWorker
<1>2. left' \in Nat
  BY DEF CrawlInv, TypeOK, IdleThreadDies, Spend
<1>3. TypeOK'
  BY <1>1, <1>2 DEF CrawlInv, TypeOK, IdleThreadDies, NoWorker, store, api
<1>4. ThreadMemory'
  BY DEF CrawlInv, TypeOK, ReqType, RunType, Crawling, PoolType, ThreadMemory,
         NoReq, NoRun, NewPool, IdleThreadDies, NoWorker, Blank, Spend, store,
         api
<1>5. Supervised' /\ WorkerWatched' /\ BackoffBounded'
  BY CrawlAssumption DEF CrawlInv, TypeOK, SupType, Supervised, WorkerWatched,
         BackoffBounded, IdleThreadDies, NoWorker, NoReq, NoRun, NewPool,
         Blank, Spend, store, api
<1>6. UnsavedUnknown'
  BY CrawlAssumption DEF CrawlInv, TypeOK, JobType, CallPCs, RunType,
         Crawling, ReqType, UnsavedUnknown, Unknown, Exists, IdleThreadDies,
         NoWorker, NoReq, NoRun, NewPool, Blank, Spend, store, api
<1>7. CrawlOwnsJob'
  BY CrawlAssumption DEF CrawlInv, TypeOK, JobType, RunType, Crawling,
         ReqType, CrawlOwnsJob, BatchLeftBehind, Exists, Zombies, InStatus,
         IdleThreadDies, NoWorker, NoReq, NoRun, NewPool, Blank, Spend, store,
         api
<1>8. BatchLeftBehind'
  BY DEF CrawlInv, TypeOK, JobType, ReqType, BatchLeftBehind, Zombies,
         InStatus, Exists, IdleThreadDies, NoWorker, NoReq, NoRun, NewPool,
         Blank, Spend, store, api
<1>9. FilesWhole'
  BY DEF CrawlInv, TypeOK, CallPCs, JobType, RunType, Crawling, FilesWhole,
         Done, IdleThreadDies, NoWorker, NoReq, NoRun, NewPool, Blank, Spend,
         store, api
<1> QED
  BY <1>3, <1>4, <1>5, <1>6, <1>7, <1>8, <1>9 DEF CrawlInv

LEMMA ScheduleFileKeeps ==
    ASSUME CrawlInv, ScheduleFile
    PROVE  CrawlInv'
<1>1. TypeOK'
  <2>1. scheduled + 1 \in Files /\ scheduled' = scheduled + 1 /\ scheduled' \in 0 .. MaxFiles
    BY CrawlAssumption DEF CrawlInv, TypeOK, Files, ScheduleFile
  <2>2. file' \in [Files -> {"none", "stub", "saved"}]
    BY <2>1 DEF CrawlInv, TypeOK, ScheduleFile
  <2> QED
    BY <2>1, <2>2 DEF CrawlInv, TypeOK, ScheduleFile, pages
<1>2. UnsavedUnknown'
  BY CrawlAssumption DEF CrawlInv, TypeOK, JobType, CallPCs, RunType,
         Crawling, ReqType, UnsavedUnknown, Unknown, Exists, Files,
         ScheduleFile, pages
<1>3. FilesWhole'
  BY CrawlAssumption DEF CrawlInv, TypeOK, CallPCs, JobType, RunType,
         Crawling, FilesWhole, Done, Files, UnsavedUnknown, Unknown, Exists,
         ScheduleFile, pages
<1>4. ThreadMemory' /\ Supervised' /\ WorkerWatched'
     /\ BackoffBounded' /\ CrawlOwnsJob' /\ BatchLeftBehind'
  BY DEF CrawlInv, ThreadMemory, Supervised, WorkerWatched, BackoffBounded,
         CrawlOwnsJob, BatchLeftBehind, Exists, Zombies, InStatus, pages,
         ScheduleFile
<1> QED
  BY <1>1, <1>2, <1>3, <1>4 DEF CrawlInv

LEMMA ScheduleJobKeeps ==
    ASSUME CrawlInv, NEW f \in Files, ScheduleJob(f)
    PROVE  CrawlInv'
<1>1. TypeOK'
  BY CrawlAssumption DEF CrawlInv, TypeOK, JobType, ScheduleJob, NoJob, pages
<1>2. UnsavedUnknown'
  BY CrawlAssumption DEF CrawlInv, TypeOK, JobType, CallPCs, RunType,
         Crawling, ReqType, UnsavedUnknown, Unknown, Exists, Files,
         CrawlOwnsJob, ScheduleJob, NoJob, pages
<1>3. CrawlOwnsJob'
  BY CrawlAssumption DEF CrawlInv, TypeOK, JobType, RunType, Crawling,
         ReqType, CrawlOwnsJob, BatchLeftBehind, Exists, Zombies, InStatus,
         UnsavedUnknown, Unknown, Files, ScheduleJob, NoJob, pages
<1>4. BatchLeftBehind'
  BY DEF CrawlInv, TypeOK, JobType, ReqType, BatchLeftBehind, Zombies,
         InStatus, Exists, UnsavedUnknown, Unknown, Files, CrawlOwnsJob,
         ScheduleJob, NoJob, pages
<1>5. FilesWhole'
  BY DEF CrawlInv, TypeOK, CallPCs, JobType, RunType, Crawling, FilesWhole,
         Done, UnsavedUnknown, Unknown, Files, CrawlOwnsJob, ScheduleJob,
         NoJob, pages
<1>6. ThreadMemory' /\ Supervised' /\ WorkerWatched' /\ BackoffBounded'
  BY DEF CrawlInv, ThreadMemory, Supervised, WorkerWatched, BackoffBounded,
         pages, ScheduleJob
<1> QED
  BY <1>1, <1>2, <1>3, <1>4, <1>5, <1>6 DEF CrawlInv

LEMMA ScheduleJobFailsKeeps ==
    ASSUME CrawlInv, NEW f \in Files, ScheduleJobFails(f)
    PROVE  CrawlInv'
<1>1. TypeOK'
  BY CrawlAssumption DEF CrawlInv, TypeOK, ScheduleJobFails, Spend, store,
         pages
<1>2. UnsavedUnknown'
  BY CrawlAssumption DEF CrawlInv, TypeOK, JobType, CallPCs, RunType,
         Crawling, ReqType, UnsavedUnknown, Unknown, Exists, ScheduleJobFails,
         Spend, store, pages
<1>3. ThreadMemory' /\ Supervised' /\ WorkerWatched' /\ BackoffBounded'
     /\ CrawlOwnsJob' /\ BatchLeftBehind' /\ FilesWhole'
  BY DEF CrawlInv, ThreadMemory, Supervised, WorkerWatched, BackoffBounded,
         CrawlOwnsJob, BatchLeftBehind, Exists, Zombies, InStatus, FilesWhole,
         Done, store, pages, ScheduleJobFails
<1> QED
  BY <1>1, <1>2, <1>3 DEF CrawlInv

LEMMA KillKeeps ==
    ASSUME CrawlInv, NEW f \in Files, Kill(f)
    PROVE  CrawlInv'
<1>1. job' \in [Files -> JobType]
  BY DEF CrawlInv, TypeOK, JobType, Kill, Flag, Exists
<1>2. left' \in Nat
  BY DEF CrawlInv, TypeOK, Kill, Spend
<1>3. TypeOK'
  BY <1>1, <1>2 DEF CrawlInv, TypeOK, Kill, Flag, Exists, api, pages
<1>4. UnsavedUnknown'
  BY CrawlAssumption DEF CrawlInv, TypeOK, JobType, CallPCs, RunType,
         Crawling, ReqType, UnsavedUnknown, Unknown, Exists, Kill, Flag,
         Spend, api, pages
<1>5. CrawlOwnsJob'
  BY CrawlAssumption DEF CrawlInv, TypeOK, JobType, RunType, Crawling,
         ReqType, CrawlOwnsJob, BatchLeftBehind, Exists, Zombies, InStatus,
         Kill, Flag, Spend, api, pages
<1>6. BatchLeftBehind'
  BY DEF CrawlInv, TypeOK, JobType, ReqType, BatchLeftBehind, Zombies,
         InStatus, Exists, Kill, Flag, Spend, api, pages
<1>7. FilesWhole'
  BY DEF CrawlInv, TypeOK, CallPCs, JobType, RunType, Crawling, FilesWhole,
         Done, Kill, Flag, Exists, Spend, api, pages
<1>8. ThreadMemory' /\ Supervised' /\ WorkerWatched' /\ BackoffBounded'
  BY DEF CrawlInv, ThreadMemory, Supervised, WorkerWatched, BackoffBounded,
         api, pages, Kill
<1> QED
  BY <1>3, <1>4, <1>5, <1>6, <1>7, <1>8 DEF CrawlInv

LEMMA DeleteKeeps ==
    ASSUME CrawlInv, NEW f \in Files, Delete(f)
    PROVE  CrawlInv'
<1>1. TypeOK'
  BY CrawlAssumption DEF CrawlInv, TypeOK, CallPCs, Delete, To, Spend, store,
         pages
<1>2. UnsavedUnknown'
  BY CrawlAssumption DEF CrawlInv, TypeOK, JobType, CallPCs, RunType,
         Crawling, ReqType, UnsavedUnknown, Unknown, Exists, Files, Delete,
         To, Spend, store, pages
<1>3. FilesWhole'
  BY DEF CrawlInv, TypeOK, CallPCs, JobType, RunType, Crawling, FilesWhole,
         Done, Delete, To, Spend, store, pages
<1>4. ThreadMemory' /\ Supervised' /\ WorkerWatched'
     /\ BackoffBounded' /\ CrawlOwnsJob' /\ BatchLeftBehind'
  BY DEF CrawlInv, ThreadMemory, Supervised, WorkerWatched, BackoffBounded,
         CrawlOwnsJob, BatchLeftBehind, Exists, Zombies, InStatus, To, store,
         pages, Delete
<1> QED
  BY <1>1, <1>2, <1>3, <1>4 DEF CrawlInv

LEMMA DeleteReadsKeeps ==
    ASSUME CrawlInv, NEW f \in Files, DeleteReads(f)
    PROVE  CrawlInv'
<1>1. TypeOK'
  BY CrawlAssumption DEF CrawlInv, TypeOK, CallPCs, DeleteReads, AfterRead,
         To, store, pages
<1>2. UnsavedUnknown'
  BY CrawlAssumption DEF CrawlInv, TypeOK, JobType, CallPCs, RunType,
         Crawling, ReqType, UnsavedUnknown, Unknown, Exists, DeleteReads,
         AfterRead, To, store, pages
<1>3. FilesWhole'
  BY DEF CrawlInv, TypeOK, CallPCs, JobType, RunType, Crawling, FilesWhole,
         Done, DeleteReads, AfterRead, To, store, pages
<1>4. ThreadMemory' /\ Supervised' /\ WorkerWatched'
     /\ BackoffBounded' /\ CrawlOwnsJob' /\ BatchLeftBehind'
  BY DEF CrawlInv, ThreadMemory, Supervised, WorkerWatched, BackoffBounded,
         CrawlOwnsJob, BatchLeftBehind, Exists, Zombies, InStatus, To, store,
         pages, DeleteReads
<1> QED
  BY <1>1, <1>2, <1>3, <1>4 DEF CrawlInv

LEMMA DeleteKillsKeeps ==
    ASSUME CrawlInv, NEW f \in Files, DeleteKills(f)
    PROVE  CrawlInv'
<1>1. TypeOK'
  <2>1. job' \in [Files -> JobType]
    BY PatchTypes DEF CrawlInv, TypeOK, DeleteKills, Flag, Exists
  <2>2. call' \in [Files -> CallPCs]
    BY DEF CrawlInv, TypeOK, CallPCs, DeleteKills, To
  <2> QED
    BY <2>1, <2>2 DEF CrawlInv, TypeOK, DeleteKills, pages
<1>2. UnsavedUnknown'
  BY CrawlAssumption DEF CrawlInv, TypeOK, JobType, CallPCs, RunType,
         Crawling, ReqType, UnsavedUnknown, Unknown, Exists, DeleteKills,
         Flag, To, pages
<1>3. CrawlOwnsJob'
  BY CrawlAssumption DEF CrawlInv, TypeOK, JobType, RunType, Crawling,
         ReqType, CrawlOwnsJob, BatchLeftBehind, Exists, Zombies, InStatus,
         DeleteKills, Flag, To, pages
<1>4. BatchLeftBehind'
  BY DEF CrawlInv, TypeOK, JobType, ReqType, BatchLeftBehind, Zombies,
         InStatus, Exists, DeleteKills, Flag, To, pages
<1>5. FilesWhole'
  BY DEF CrawlInv, TypeOK, CallPCs, JobType, RunType, Crawling, FilesWhole,
         Done, DeleteKills, Flag, Exists, To, pages
<1>6. ThreadMemory' /\ Supervised' /\ WorkerWatched' /\ BackoffBounded'
  BY DEF CrawlInv, ThreadMemory, Supervised, WorkerWatched, BackoffBounded,
         To, pages, DeleteKills
<1> QED
  BY <1>1, <1>2, <1>3, <1>4, <1>5, <1>6 DEF CrawlInv

LEMMA DeleteWaitsKeeps ==
    ASSUME CrawlInv, NEW f \in Files, DeleteWaits(f)
    PROVE  CrawlInv'
<1>1. TypeOK'
  BY CrawlAssumption DEF CrawlInv, TypeOK, CallPCs, DeleteWaits, Stopped, To,
         store, pages
<1>2. UnsavedUnknown'
  BY CrawlAssumption DEF CrawlInv, TypeOK, JobType, CallPCs, RunType,
         Crawling, ReqType, UnsavedUnknown, Unknown, Exists, DeleteWaits,
         Stopped, To, store, pages
<1>3. FilesWhole'
  BY DEF CrawlInv, TypeOK, CallPCs, JobType, RunType, Crawling, FilesWhole,
         Done, DeleteWaits, Stopped, To, store, pages
<1>4. ThreadMemory' /\ Supervised' /\ WorkerWatched'
     /\ BackoffBounded' /\ CrawlOwnsJob' /\ BatchLeftBehind'
  BY DEF CrawlInv, ThreadMemory, Supervised, WorkerWatched, BackoffBounded,
         CrawlOwnsJob, BatchLeftBehind, Exists, Zombies, InStatus, To, store,
         pages, DeleteWaits
<1> QED
  BY <1>1, <1>2, <1>3, <1>4 DEF CrawlInv

LEMMA DeleteUnqueuesKeeps ==
    ASSUME CrawlInv, NEW f \in Files, DeleteUnqueues(f)
    PROVE  CrawlInv'
<1>1. TypeOK'
  BY CrawlAssumption DEF CrawlInv, TypeOK, JobType, CallPCs, DeleteUnqueues,
         NoJob, To, pages
<1>2. UnsavedUnknown'
  BY CrawlAssumption DEF CrawlInv, TypeOK, JobType, CallPCs, RunType,
         Crawling, ReqType, UnsavedUnknown, Unknown, Exists, DeleteUnqueues,
         NoJob, To, pages
<1>3. CrawlOwnsJob'
  BY CrawlAssumption DEF CrawlInv, TypeOK, JobType, RunType, Crawling,
         ReqType, CrawlOwnsJob, BatchLeftBehind, Exists, Zombies, InStatus,
         DeleteUnqueues, NoJob, To, pages
<1>4. BatchLeftBehind'
  BY DEF CrawlInv, TypeOK, JobType, ReqType, BatchLeftBehind, Zombies,
         InStatus, Exists, DeleteUnqueues, NoJob, To, pages
<1>5. FilesWhole'
  BY DEF CrawlInv, TypeOK, CallPCs, JobType, RunType, Crawling, FilesWhole,
         Done, DeleteUnqueues, NoJob, To, pages
<1>6. ThreadMemory' /\ Supervised' /\ WorkerWatched' /\ BackoffBounded'
  BY DEF CrawlInv, ThreadMemory, Supervised, WorkerWatched, BackoffBounded,
         To, pages, DeleteUnqueues
<1> QED
  BY <1>1, <1>2, <1>3, <1>4, <1>5, <1>6 DEF CrawlInv

LEMMA DeleteMetadataKeeps ==
    ASSUME CrawlInv, NEW f \in Files, DeleteMetadata(f)
    PROVE  CrawlInv'
<1>1. TypeOK'
  BY CrawlAssumption DEF CrawlInv, TypeOK, CallPCs, DeleteMetadata, To, pages
<1>2. UnsavedUnknown'
  BY CrawlAssumption DEF CrawlInv, TypeOK, JobType, CallPCs, RunType,
         Crawling, ReqType, UnsavedUnknown, Unknown, Exists, DeleteMetadata,
         To, pages
<1>3. FilesWhole'
  BY DEF CrawlInv, TypeOK, CallPCs, JobType, RunType, Crawling, FilesWhole,
         Done, DeleteMetadata, To, pages
<1>4. ThreadMemory' /\ Supervised' /\ WorkerWatched'
     /\ BackoffBounded' /\ CrawlOwnsJob' /\ BatchLeftBehind'
  BY DEF CrawlInv, ThreadMemory, Supervised, WorkerWatched, BackoffBounded,
         CrawlOwnsJob, BatchLeftBehind, Exists, Zombies, InStatus, To, pages,
         DeleteMetadata
<1> QED
  BY <1>1, <1>2, <1>3, <1>4 DEF CrawlInv

LEMMA DeleteRefusedKeeps ==
    ASSUME CrawlInv, NEW f \in Files, DeleteRefused(f)
    PROVE  CrawlInv'
<1>1. TypeOK'
  BY CrawlAssumption DEF CrawlInv, TypeOK, CallPCs, DeleteRefused, To, store,
         pages
<1>2. UnsavedUnknown'
  BY CrawlAssumption DEF CrawlInv, TypeOK, JobType, CallPCs, RunType,
         Crawling, ReqType, UnsavedUnknown, Unknown, Exists, DeleteRefused,
         To, store, pages
<1>3. FilesWhole'
  BY DEF CrawlInv, TypeOK, CallPCs, JobType, RunType, Crawling, FilesWhole,
         Done, DeleteRefused, To, store, pages
<1>4. ThreadMemory' /\ Supervised' /\ WorkerWatched'
     /\ BackoffBounded' /\ CrawlOwnsJob' /\ BatchLeftBehind'
  BY DEF CrawlInv, ThreadMemory, Supervised, WorkerWatched, BackoffBounded,
         CrawlOwnsJob, BatchLeftBehind, Exists, Zombies, InStatus, To, store,
         pages, DeleteRefused
<1> QED
  BY <1>1, <1>2, <1>3, <1>4 DEF CrawlInv

LEMMA DeleteJobsKeeps ==
    ASSUME CrawlInv, NEW f \in Files, DeleteJobs(f)
    PROVE  CrawlInv'
<1>1. TypeOK'
  BY CrawlAssumption DEF CrawlInv, TypeOK, JobType, CallPCs, DeleteJobs,
         NoJob, To, pages
<1>2. UnsavedUnknown'
  BY CrawlAssumption DEF CrawlInv, TypeOK, JobType, CallPCs, RunType,
         Crawling, ReqType, UnsavedUnknown, Unknown, Exists, DeleteJobs,
         NoJob, To, pages
<1>3. CrawlOwnsJob'
  BY CrawlAssumption DEF CrawlInv, TypeOK, JobType, RunType, Crawling,
         ReqType, CrawlOwnsJob, BatchLeftBehind, Exists, Zombies, InStatus,
         DeleteJobs, NoJob, To, pages
<1>4. BatchLeftBehind'
  BY DEF CrawlInv, TypeOK, JobType, ReqType, BatchLeftBehind, Zombies,
         InStatus, Exists, DeleteJobs, NoJob, To, pages
<1>5. FilesWhole'
  BY DEF CrawlInv, TypeOK, CallPCs, JobType, RunType, Crawling, FilesWhole,
         Done, DeleteJobs, NoJob, To, pages
<1>6. ThreadMemory' /\ Supervised' /\ WorkerWatched' /\ BackoffBounded'
  BY DEF CrawlInv, ThreadMemory, Supervised, WorkerWatched, BackoffBounded,
         To, pages, DeleteJobs
<1> QED
  BY <1>1, <1>2, <1>3, <1>4, <1>5, <1>6 DEF CrawlInv

LEMMA DeleteUnlinksKeeps ==
    ASSUME CrawlInv, NEW f \in Files, DeleteUnlinks(f)
    PROVE  CrawlInv'
<1>1. TypeOK'
  BY CrawlAssumption DEF CrawlInv, TypeOK, CallPCs, DeleteUnlinks, To, pages
<1>2. UnsavedUnknown'
  BY CrawlAssumption DEF CrawlInv, TypeOK, JobType, CallPCs, RunType,
         Crawling, ReqType, UnsavedUnknown, Unknown, Exists, DeleteUnlinks,
         To, pages
<1>3. FilesWhole'
  BY DEF CrawlInv, TypeOK, CallPCs, JobType, RunType, Crawling, FilesWhole,
         Done, DeleteUnlinks, To, pages
<1>4. ThreadMemory' /\ Supervised' /\ WorkerWatched'
     /\ BackoffBounded' /\ CrawlOwnsJob' /\ BatchLeftBehind'
  BY DEF CrawlInv, ThreadMemory, Supervised, WorkerWatched, BackoffBounded,
         CrawlOwnsJob, BatchLeftBehind, Exists, Zombies, InStatus, To, pages,
         DeleteUnlinks
<1> QED
  BY <1>1, <1>2, <1>3, <1>4 DEF CrawlInv

LEMMA DeleteFailsKeeps ==
    ASSUME CrawlInv, NEW f \in Files, DeleteFails(f)
    PROVE  CrawlInv'
<1>1. TypeOK'
  BY CrawlAssumption DEF CrawlInv, TypeOK, CallPCs, DeleteFails, To, Spend,
         store, pages
<1>2. UnsavedUnknown'
  BY CrawlAssumption DEF CrawlInv, TypeOK, JobType, CallPCs, RunType,
         Crawling, ReqType, UnsavedUnknown, Unknown, Exists, DeleteFails, To,
         Spend, store, pages
<1>3. FilesWhole'
  BY DEF CrawlInv, TypeOK, CallPCs, JobType, RunType, Crawling, FilesWhole,
         Done, DeleteFails, To, Spend, store, pages
<1>4. ThreadMemory' /\ Supervised' /\ WorkerWatched'
     /\ BackoffBounded' /\ CrawlOwnsJob' /\ BatchLeftBehind'
  BY DEF CrawlInv, ThreadMemory, Supervised, WorkerWatched, BackoffBounded,
         CrawlOwnsJob, BatchLeftBehind, Exists, Zombies, InStatus, To, store,
         pages, DeleteFails
<1> QED
  BY <1>1, <1>2, <1>3, <1>4 DEF CrawlInv

LEMMA UnlinkFailsKeeps ==
    ASSUME CrawlInv, NEW f \in Files, UnlinkFails(f)
    PROVE  CrawlInv'
<1>1. TypeOK'
  BY CrawlAssumption DEF CrawlInv, TypeOK, CallPCs, UnlinkFails, To, Spend,
         pages
<1>2. UnsavedUnknown'
  BY CrawlAssumption DEF CrawlInv, TypeOK, JobType, CallPCs, RunType,
         Crawling, ReqType, UnsavedUnknown, Unknown, Exists, UnlinkFails, To,
         Spend, pages
<1>3. FilesWhole'
  BY DEF CrawlInv, TypeOK, CallPCs, JobType, RunType, Crawling, FilesWhole,
         Done, UnlinkFails, To, Spend, pages
<1>4. ThreadMemory' /\ Supervised' /\ WorkerWatched'
     /\ BackoffBounded' /\ CrawlOwnsJob' /\ BatchLeftBehind'
  BY DEF CrawlInv, ThreadMemory, Supervised, WorkerWatched, BackoffBounded,
         CrawlOwnsJob, BatchLeftBehind, Exists, Zombies, InStatus, To, pages,
         UnlinkFails
<1> QED
  BY <1>1, <1>2, <1>3, <1>4 DEF CrawlInv
=============================================================================
