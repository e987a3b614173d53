----------------------------- MODULE CrawlJobs ------------------------------
(***************************************************************************)
(* What the crawl queue promises about its jobs, whatever threads, timers  *)
(* and requests implement it: at most one job is being worked on, nobody   *)
(* else changes the status of that job short of removing it, a job left    *)
(* in the middle can be put back, and a job that ended has ended for good, *)
(* save that the crawl which reported a success may still take it back.    *)
(***************************************************************************)
CONSTANTS Jobs, None

VARIABLES
    status,   \* status[j]
    owned     \* the job being worked on, or None

vars == <<status, owned>>

Ended == {"Succeeded", "Failed", "Killed"}

Init ==
    /\ status = [j \in Jobs |-> "none"]
    /\ owned = None

Become(j, s) == status' = [status EXCEPT ![j] = s]

Submit(j) ==
    /\ status[j] = "none"
    /\ Become(j, "Pending")
    /\ UNCHANGED owned

Take(j) ==
    /\ owned = None
    /\ status[j] = "Pending"
    /\ owned' = j
    /\ UNCHANGED status

Begin(j) ==
    /\ owned = j
    /\ status[j] = "Pending"
    /\ Become(j, "Crawling")
    /\ UNCHANGED owned

(* The success is reported before the crawl lets go of the job. *)
Report(j) ==
    /\ owned = j
    /\ status[j] = "Crawling"
    /\ Become(j, "Succeeded")
    /\ UNCHANGED owned

(* The job ends and says how, *)
Complete(j) ==
    /\ owned = j
    /\ status[j] \in {"Pending", "Crawling", "Succeeded"}
    /\ \E s \in Ended : Become(j, s)
    /\ owned' = None

(* or is left without a word: its worker died, or its last write failed; *)
Abandon ==
    /\ owned # None
    /\ owned' = None
    /\ UNCHANGED status

(* then the job is put back, or finalised if it was to be killed. *)
Recover(j) ==
    /\ owned # j
    /\ status[j] = "Crawling"
    /\ \E s \in {"Pending", "Killed"} : Become(j, s)
    /\ UNCHANGED owned

(* Deleting its file removes a job at any time. *)
Remove(j) ==
    /\ Become(j, "none")
    /\ UNCHANGED owned

Next ==
    \/ Abandon
    \/ \E j \in Jobs :
          \/ Submit(j) \/ Take(j) \/ Begin(j) \/ Report(j) \/ Complete(j)
          \/ Recover(j) \/ Remove(j)

Spec == Init /\ [][Next]_vars
=============================================================================
