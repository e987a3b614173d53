--------------------------- MODULE CrawlSupervisor --------------------------
(***************************************************************************)
(* The supervisor of the crawl worker thread, and the server process it    *)
(* runs in.  A thread that died is respawned after a backoff; after more   *)
(* than MaxRestarts failures in a row the supervisor gives up and re-arms  *)
(* itself after a cooldown.  The delays are what the timers wait for, so   *)
(* only which timer is armed is kept.                                      *)
(*                                                                         *)
(* The server calls start() once per process, when nothing is running, and *)
(* stop() once, when it shuts down.                                        *)
(***************************************************************************)
EXTENDS CrawlState

(* What a worker thread holds in memory, before it runs and after it died. *)
NoWorker ==
    /\ req' = NoReq
    /\ run' = NoRun
    /\ section' = Blank
    /\ pool' = NewPool
    /\ rr' = 1

(* A thread that starts takes BOOT_TIME: every claim there is predates it. *)
Spawned ==
    /\ thread' = "live"
    /\ req' = [NoReq EXCEPT !.pc = "read"]
    /\ job' = [f \in Files |-> [job[f] EXCEPT !.fresh = FALSE]]
    /\ UNCHANGED <<run, section, pool, rr>>

(* Mutants of AfterExit: the timer that re-arms is forgotten; the limit is. *)
AfterExit_GivesUp(s) ==
    IF s.fails + 1 > MaxRestarts THEN [s EXCEPT !.timer = "none", !.fails = @ + 1, !.gaveUp = TRUE]
                                 ELSE [s EXCEPT !.timer = "respawn", !.fails = @ + 1]

AfterExit_NoLimit(s) == [s EXCEPT !.timer = "respawn", !.fails = @ + 1]

(* onExit: one more failure; past the limit the supervisor gives up. *)
AfterExit(s) ==
    IF s.fails + 1 > MaxRestarts
      THEN [s EXCEPT !.timer = "rearm", !.fails = @ + 1, !.gaveUp = TRUE]
      ELSE [s EXCEPT !.timer = "respawn", !.fails = @ + 1]

Fresh == [phase |-> "up", timer |-> "none", fails |-> 0, gaveUp |-> FALSE]

SpawnFrom(s) ==
    \/ Spawned /\ sup' = s /\ UNCHANGED left
    \/ Spend("spawnfail") /\ sup' = AfterExit(s) /\ UNCHANGED <<job, thread, req, run, section, pool, rr>>

(* The server process starts listening. *)
Start ==
    /\ sup.phase = "down"
    /\ SpawnFrom(Fresh)
    /\ UNCHANGED <<file, disk, api>>

(* The timer that is armed fires: a respawn, or the re-arming. *)
TimerFires ==
    /\ sup.timer # "none"
    /\ SpawnFrom(IF sup.timer = "rearm" THEN Fresh ELSE [sup EXCEPT !.timer = "none"])
    /\ UNCHANGED <<file, disk, api>>

(* The thread dies by itself: what it had in memory is gone. *)
WorkerDies ==
    /\ thread = "live"
    /\ Spend("crash")
    /\ thread' = "dead"
    /\ NoWorker
    /\ UNCHANGED <<store, api, sup>>

(* Its exit event reaches the main thread, after a healthy run or not. *)
ExitEvent ==
    /\ thread = "dead"
    /\ thread' = "none"
    /\ IF sup.phase = "up"
         THEN \E healthy \in BOOLEAN : sup' = AfterExit([sup EXCEPT !.fails = IF healthy THEN 0 ELSE @])
         ELSE UNCHANGED sup
    /\ UNCHANGED <<store, api, req, run, pages, left>>

(* stop(), at the beginning of a graceful shutdown. *)
Stop ==
    /\ sup.phase = "up"
    /\ Spend("stop")
    /\ sup' = [sup EXCEPT !.phase = "stopping", !.timer = "none"]
    /\ thread' = IF thread = "none" THEN "none" ELSE "dead"
    /\ NoWorker
    /\ UNCHANGED <<store, api>>

(* The process ends, and every request with it: its shutdown is over (it   *)
(* is forced after a deadline), or it crashes.                             *)
ProcessEnds ==
    /\ sup' = [Fresh EXCEPT !.phase = "down"]
    /\ thread' = "none"
    /\ NoWorker
    /\ saving' = {}
    /\ call' = [f \in Files |-> "idle"]
    /\ UNCHANGED <<store, scheduled>>

ShutdownEnds == sup.phase = "stopping" /\ ProcessEnds /\ UNCHANGED left

ServerCrash == sup.phase = "up" /\ Spend("crash") /\ ProcessEnds

SupervisorStep == Start \/ TimerFires \/ ExitEvent \/ ShutdownEnds

SupervisorNext == SupervisorStep \/ WorkerDies \/ Stop \/ ServerCrash
=============================================================================
