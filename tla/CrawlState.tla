----------------------------- MODULE CrawlState -----------------------------
(***************************************************************************)
(* The state shared by the parts of the document repository's crawl queue. *)
(* Durable are the crawl_job documents, the files documents and the files  *)
(* on disk.  Lost with the crawl worker thread are its requeue loop, its   *)
(* running crawl and its pool of page threads; lost with the server        *)
(* process are also the supervisor and the requests under way.             *)
(*                                                                         *)
(* Files are numbered in the order their crawls were scheduled, which is   *)
(* the order of started_at.  The clock enters only through BOOT_TIME: a    *)
(* claim is fresh when this worker thread, and not a former one, wrote it. *)
(***************************************************************************)
EXTENDS Naturals, FiniteSets, Sequences

CONSTANTS
    MaxFiles,      \* bound: how many crawls are scheduled
    Pages,         \* the pages of a site
    NumThreads,    \* NUM_THREADS
    PageSize,      \* PAGE_SIZE of the zombie requeue
    MaxPages,      \* MAX_PAGES_PER_JOB
    Concurrency,   \* WORKER_CONCURRENCY
    MaxRestarts,   \* RESTART_MAX_ATTEMPTS
    None,          \* null
    Allowed,       \* which environment events may happen
    MaxEvents      \* bound: how often, all together

Files == 1 .. MaxFiles
Threads == 1 .. NumThreads
Texts == Files \X Pages      \* the markdown of a page of a file's site

Events == {"kill", "delete", "crash", "oom", "spawnfail", "dberr", "diskerr", "stop"}

ASSUME CrawlAssumption ==
    /\ MaxFiles \in Nat
    /\ {NumThreads, PageSize, MaxPages, Concurrency} \subseteq Nat \ {0}
    /\ MaxRestarts \in Nat
    /\ IsFiniteSet(Pages)
    /\ None \notin Files \cup Texts
    /\ Allowed \subseteq Events
    /\ MaxEvents \in Nat

VARIABLES
    job,        \* job[f]: the crawl_job document of file f
    file,       \* file[f]: its files document
    disk,       \* disk[f]: its file in the upload directory
    scheduled,  \* how many crawls have been scheduled
    saving,     \* the files whose crawl_job is still to be saved
    call,       \* call[f]: where a request to delete file f stands
    sup,        \* the supervisor, on the main thread
    thread,     \* the crawl worker thread
    req,        \* its requeue loop
    run,        \* its poll loop and the crawl that loop is in
    section,    \* section[p]: the text written under page p's heading by that crawl
    pool,       \* pool[t]: page thread t, with the promises that wait on it
    rr,         \* workerRR
    left        \* how many environment events may still happen

store == <<job, file, disk>>
api == <<scheduled, saving, call>>
pages == <<section, pool, rr>>
vars == <<job, file, disk, scheduled, saving, call, sup, thread, req, run, section, pool, rr, left>>

JobType == [ status : {"none", "Pending", "Crawling", "Succeeded", "Failed", "Killed"},
             kill   : BOOLEAN,         \* kill_requested
             fresh  : BOOLEAN ]        \* claimed_at >= BOOT_TIME of the current worker

CallPCs == {"idle", "read", "kill", "wait", "unqueue", "meta", "jobs", "unlink"}

SupType == [ phase  : {"down", "up", "stopping"},
             timer  : {"none", "respawn", "rearm"},
             fails  : Nat,             \* consecutiveFailures
             gaveUp : BOOLEAN ]

ReqType == [ pc     : {"off", "read", "batch", "retry", "done"},
             todo   : SUBSET Files,    \* the rest of the batch
             kill   : SUBSET Files,    \* those read with kill_requested
             full   : BOOLEAN,         \* batch.length = PAGE_SIZE
             failed : BOOLEAN ]        \* hadFailures

Crawling == {"crawl", "batch", "save", "succeed"}

RunType == [ pc     : {"off", "idle", "claim", "fail", "killed"} \cup Crawling,
             f      : Files \cup {None},
             abort  : BOOLEAN,         \* isJobKilled
             limit  : BOOLEAN,         \* MaxPagesReached was thrown
             todo   : SUBSET Pages,    \* not tried yet
             batch  : SUBSET Pages,    \* of the batch, not handed to a page thread yet
             wrote  : Nat ]            \* pagesProcessed

PoolType == [ alive   : BOOLEAN,
              queue   : Seq(Texts),    \* messages the page thread has not answered
              waiting : SUBSET Pages ] \* promises with a handler on the thread

TypeOK ==
    /\ job \in [Files -> JobType]
    /\ file \in [Files -> {"none", "stub", "saved"}]
    /\ disk \in [Files -> {"none", "open", "full"}]
    /\ scheduled \in 0 .. MaxFiles
    /\ saving \in SUBSET Files
    /\ call \in [Files -> CallPCs]
    /\ sup \in SupType
    /\ thread \in {"none", "live", "dead"}
    /\ req \in ReqType
    /\ run \in RunType
    /\ section \in [Pages -> Texts \cup {None}]
    /\ pool \in [Threads -> PoolType]
    /\ rr \in Threads
    /\ left \in Nat

NoJob == [status |-> "none", kill |-> FALSE, fresh |-> FALSE]

NoReq == [pc |-> "off", todo |-> {}, kill |-> {}, full |-> FALSE, failed |-> FALSE]

NoRun == [pc |-> "off", f |-> None, abort |-> FALSE, limit |-> FALSE, todo |-> {}, batch |-> {},
          wrote |-> 0]

NewPool == [t \in Threads |-> [alive |-> TRUE, queue |-> <<>>, waiting |-> {}]]

Blank == [p \in Pages |-> None]

Init ==
    /\ job = [f \in Files |-> NoJob]
    /\ file = [f \in Files |-> "none"]
    /\ disk = [f \in Files |-> "none"]
    /\ scheduled = 0
    /\ saving = {}
    /\ call = [f \in Files |-> "idle"]
    /\ sup = [phase |-> "down", timer |-> "none", fails |-> 0, gaveUp |-> FALSE]
    /\ thread = "none"
    /\ req = NoReq
    /\ run = NoRun
    /\ section = Blank
    /\ pool = NewPool
    /\ rr = 1
    /\ left = MaxEvents

Exists(f) == job[f].status # "none"

InStatus(s) == {f \in Files : job[f].status = s}

SetStatus(f, s) == job' = [job EXCEPT ![f].status = s]

Spend(e) == e \in Allowed /\ left > 0 /\ left' = left - 1
=============================================================================
