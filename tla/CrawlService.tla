---------------------------- MODULE CrawlService ----------------------------
(***************************************************************************)
(* The crawl queue of the document repository: the requests, the           *)
(* supervisor, the crawl worker and its page threads over the jobs, files  *)
(* and disk they share.                                                    *)
(***************************************************************************)
EXTENDS CrawlWorker, CrawlFiles

Next == SupervisorNext \/ WorkerNext \/ FilesNext

Spec == Init /\ [][Next]_vars

(***************************************************************************)
(* Timers fire, the event loops run on, every database call returns, the   *)
(* page threads answer and an aborted fetch is cancelled.  A site need not *)
(* answer: fetch follows redirects without an end.  Requests and faults    *)
(* need not happen.                                                        *)
(***************************************************************************)
Fairness ==
    /\ WF_vars(SupervisorStep)
    /\ WF_vars(RequeueStep)
    /\ WF_vars(CrawlStep \/ PoolStep)
    /\ WF_vars(CheckKill)
    /\ WF_vars(FetchCancelled)
    /\ \A f \in Files : WF_vars(DeleteStep(f)) /\ WF_vars(ScheduleJob(f))

FairSpec == Spec /\ Fairness

-----------------------------------------------------------------------------
(***************************************************************************)
(* Safety.                                                                 *)
(***************************************************************************)

(* The queue implements its promise: one job at a time, worked on by its   *)
(* crawl only.  A requeue that flipped a job the worker has claimed since, *)
(* a claim of a job that ended, or a second crawl of one would break it.   *)
Queue == INSTANCE CrawlJobs WITH Jobs <- Files,
                                 status <- [f \in Files |-> job[f].status],
                                 owned <- run.f

Implements == Queue!Spec

(* While the server runs, the crawl worker is alive, or its exit is about  *)
(* to be noticed, or a timer will start it again, and never two of these:  *)
(* the queue cannot stay dead, and no timer starts a second worker.        *)
WorkerWatched == sup.phase = "up" => (thread = "none" <=> sup.timer # "none")

(* A crash loop does not spin: after MaxRestarts respawns without a        *)
(* healthy run only the re-arming timer is left, and /health says so.      *)
BackoffBounded ==
    /\ sup.fails <= MaxRestarts + 1
    /\ sup.phase = "up" => (sup.gaveUp <=> sup.timer = "rearm")
    /\ sup.timer = "respawn" => sup.fails \in 1 .. MaxRestarts

(* A crawl that is reported as succeeded left a complete file: no later    *)
(* requeue, retry or crash makes a worker truncate it.                     *)
SucceededIsWhole ==
    \A f \in Files : job[f].status = "Succeeded" /\ file[f] # "none" => disk[f] = "full"

(***************************************************************************)
(* The inductive invariant of the proofs.                                  *)
(***************************************************************************)

(* What a thread holds in memory is gone with it. *)
ThreadMemory == thread # "live" => req = NoReq /\ run = NoRun /\ pool = NewPool

(* The supervisor's timers belong to a server that is up. *)
Supervised ==
    /\ sup.phase # "up" => sup.timer = "none"
    /\ sup.phase = "down" => thread = "none"
    /\ sup.phase = "up" /\ sup.timer # "rearm" => sup.fails <= MaxRestarts

(* Nobody knows a crawl before its job is saved. *)
Unknown(f) ==
    /\ ~Exists(f)
    /\ call[f] = "idle"
    /\ run.f # f
    /\ f \notin req.todo

UnsavedUnknown ==
    /\ saving \subseteq 1 .. scheduled
    /\ \A f \in Files : f > scheduled => file[f] = "none"
    /\ \A f \in Files : f \in saving \/ f > scheduled => Unknown(f)

(* The job a crawl is on has not ended (save with a success that the crawl *)
(* takes back), was not left by a former worker, and is not about to be    *)
(* requeued.                                                               *)
CrawlOwnsJob ==
    /\ (run.f = None) <=> (run.pc \in {"off", "idle"})
    /\ run.f # None =>
          /\ run.f \notin req.todo
          /\ LET j == job[run.f]
             IN  \/ j.status = "none"
                 \/ j.status = "Pending" /\ run.pc \in {"claim", "fail"}
                 \/ j.status = "Crawling" /\ j.fresh /\ run.pc # "claim"
                 \/ j.status = "Succeeded" /\ run.pc = "fail"

(* What the requeue read as left behind is still left behind, or gone. *)
BatchLeftBehind == \A f \in req.todo : Exists(f) => f \in Zombies

(* The files of crawls that ended well, or are about to be reported so. *)
Done(f) == job[f].status = "Succeeded" \/ (run.f = f /\ run.pc = "succeed")

FilesWhole ==
    \A f \in Files :
        /\ call[f] \in {"jobs", "unlink"} => file[f] = "none"
        /\ Done(f) => disk[f] # "open" /\ (file[f] # "none" => disk[f] = "full")

CrawlInv ==
    /\ TypeOK
    /\ ThreadMemory
    /\ Supervised /\ WorkerWatched /\ BackoffBounded
    /\ UnsavedUnknown /\ CrawlOwnsJob /\ BatchLeftBehind
    /\ FilesWhole

(***************************************************************************)
(* Liveness.                                                               *)
(***************************************************************************)

(* The crawl waits for pages of a site, which may never come. *)
Fetching == run.pc = "batch" /\ run.batch # {}

ThreadLost == \E t \in Threads : ~pool[t].alive

(* A job a former worker left in 'Crawling' does not stay there: it is put *)
(* back or finalised although a pass or the database fails at first.       *)
ZombiesRecovered == \A f \in Files : f \in Zombies ~> f \notin Zombies

Doomed(f) == ~Exists(f) \/ job[f].kill

(* A crawl whose job was killed, or removed with its file, ends, whatever  *)
(* its site does, as long as no page thread was lost.                      *)
DoomedCrawlEnds ==
    \A f \in Files : run.f = f /\ Doomed(f) ~> run.f # f \/ ThreadLost

(* A pending job is taken, unless a site keeps the crawl before it waiting *)
(* or a page thread was lost.                                              *)
PendingTaken ==
    \A f \in Files : []<>(job[f].status # "Pending" \/ Fetching \/ ThreadLost)

(***************************************************************************)
(* What the code should do and does not.                                   *)
(***************************************************************************)

(* The crawl writes the text of a page under that page's heading.          *)
TextUnderItsPage == \A p \in Pages : section[p] \in {None, <<run.f, p>>}
=============================================================================
