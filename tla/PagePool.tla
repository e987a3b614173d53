------------------------------ MODULE PagePool ------------------------------
(***************************************************************************)
(* The page threads of the crawl worker.  Each converts the pages posted   *)
(* to it one after the other and answers with a message that names no      *)
(* page.  The crawl hands pages out round robin; every promise that waits  *)
(* on a thread has a handler of its own on it, and all of them run at the  *)
(* thread's next message.                                                  *)
(***************************************************************************)
EXTENDS CrawlSupervisor

Waiting == UNION {pool[t].waiting : t \in Threads}

(* processPageOnThread: a message posted to a thread that died is lost. *)
PostPage(p) ==
    /\ run.pc = "batch"
    /\ p \in run.batch
    /\ ~run.abort
    /\ run.wrote < MaxPages
    /\ run' = [run EXCEPT !.batch = @ \ {p}]
    /\ pool' = [pool EXCEPT ![rr].waiting = @ \cup {p},
                            ![rr].queue = IF pool[rr].alive THEN Append(@, <<run.f, p>>) ELSE @]
    /\ rr' = (rr % NumThreads) + 1
    /\ UNCHANGED <<store, api, sup, thread, req, section, left>>

(* The promises that settle at a message of thread t. *)
Answered(t) == pool[t].waiting

(* A thread answers: with markdown, which every handler writes under the   *)
(* heading of its own page, or with nothing to keep (empty, skipped for    *)
(* its language, or an error).                                             *)
Reply(t, keep) ==
    /\ pool[t].queue # <<>>
    /\ pool' = [pool EXCEPT ![t].waiting = @ \ Answered(t), ![t].queue = Tail(@)]
    /\ IF keep
         THEN /\ section' = [p \in Pages |-> IF p \in Answered(t) THEN Head(pool[t].queue)
                                                                  ELSE section[p]]
              /\ run' = [run EXCEPT !.wrote = @ + Cardinality(Answered(t))]
         ELSE UNCHANGED <<section, run>>
    /\ UNCHANGED <<store, api, sup, thread, req, rr, left>>

(* A page thread dies with promises waiting on it: they are rejected, and  *)
(* the thread stays in the pool.                                           *)
ThreadDies(t) ==
    /\ thread = "live"
    /\ pool[t].alive
    /\ pool[t].waiting # {}
    /\ Spend("oom")
    /\ pool' = [pool EXCEPT ![t] = [alive |-> FALSE, queue |-> <<>>, waiting |-> {}]]
    /\ UNCHANGED <<store, api, sup, thread, req, run, section, rr>>

(* Without one, nobody listens to its error: the crawl worker dies of it. *)
IdleThreadDies(t) ==
    /\ thread = "live"
    /\ pool[t].alive
    /\ pool[t].waiting = {}
    /\ Spend("oom")
    /\ thread' = "dead"
    /\ NoWorker
    /\ UNCHANGED <<store, api, sup>>

PoolStep == \E t \in Threads, keep \in BOOLEAN : Reply(t, keep)

PoolNext ==
    \/ PoolStep
    \/ \E p \in Pages : PostPage(p)
    \/ \E t \in Threads : ThreadDies(t) \/ IdleThreadDies(t)
=============================================================================
