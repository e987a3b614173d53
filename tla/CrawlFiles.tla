----------------------------- MODULE CrawlFiles -----------------------------
(***************************************************************************)
(* The requests of the document repository that touch the crawl queue:     *)
(* schedule a crawl, kill it, delete its file.  deleteFile first           *)
(* terminates an active crawl, then removes the files document, the        *)
(* crawl_job documents and the file on disk, each in a call of its own.    *)
(***************************************************************************)
EXTENDS CrawlState

Serving == sup.phase = "up"

(* scheduleSiteCrawl saves the file stub, then the job. *)
ScheduleFile ==
    /\ Serving
    /\ scheduled < MaxFiles
    /\ scheduled' = scheduled + 1
    /\ file' = [file EXCEPT ![scheduled'] = "stub"]
    /\ saving' = saving \cup {scheduled'}
    /\ UNCHANGED <<job, disk, call, sup, thread, req, run, pages, left>>

ScheduleJob(f) ==
    /\ f \in saving
    /\ saving' = saving \ {f}
    /\ job' = [job EXCEPT ![f] = [NoJob EXCEPT !.status = "Pending"]]
    /\ UNCHANGED <<file, disk, scheduled, call, sup, thread, req, run, pages, left>>

ScheduleJobFails(f) ==
    /\ f \in saving
    /\ Spend("dberr")
    /\ saving' = saving \ {f}
    /\ UNCHANGED <<store, scheduled, call, sup, thread, req, run, pages>>

Flag(f) == job' = [job EXCEPT ![f].kill = Exists(f)]

Kill(f) ==
    /\ Serving
    /\ Exists(f)
    /\ Spend("kill")
    /\ Flag(f)
    /\ UNCHANGED <<file, disk, api, sup, thread, req, run, pages>>

(***************************************************************************)
(* deleteFile.                                                             *)
(***************************************************************************)
To(f, pc) == call' = [call EXCEPT ![f] = pc]

(* Bound: nobody deletes a file before the answer that names it. *)
Delete(f) ==
    /\ Serving
    /\ call[f] = "idle"
    /\ file[f] # "none" /\ f \notin saving
    /\ Spend("delete")
    /\ To(f, "read")
    /\ UNCHANGED <<store, scheduled, saving, sup, thread, req, run, pages>>

(* _terminateActiveCrawl reads the active jobs of the file, *)
AfterRead(f) ==
    IF job[f].status = "Crawling" THEN "kill"
    ELSE IF job[f].status = "Pending" THEN "unqueue"
    ELSE "meta"

DeleteReads(f) ==
    /\ call[f] = "read"
    /\ To(f, AfterRead(f))
    /\ UNCHANGED <<store, scheduled, saving, sup, thread, req, run, pages, left>>

(* kills one that is crawling, *)
DeleteKills(f) ==
    /\ call[f] = "kill"
    /\ Flag(f)
    /\ To(f, "wait")
    /\ UNCHANGED <<file, disk, scheduled, saving, sup, thread, req, run, pages, left>>

Stopped(f) == job[f].status # "Crawling"

(* and waits until it stopped or the deadline has passed; *)
DeleteWaits(f) ==
    /\ call[f] = "wait"
    /\ To(f, IF Stopped(f) THEN "meta" ELSE "idle")
    /\ UNCHANGED <<store, scheduled, saving, sup, thread, req, run, pages, left>>

(* or removes one that is still pending. *)
DeleteUnqueues(f) ==
    /\ call[f] = "unqueue"
    /\ job' = [job EXCEPT ![f] = IF @.status = "Pending" THEN NoJob ELSE @]
    /\ To(f, "meta")
    /\ UNCHANGED <<file, disk, scheduled, saving, sup, thread, req, run, pages, left>>

DeleteMetadata(f) ==
    /\ call[f] = "meta"
    /\ To(f, IF file[f] = "none" THEN "idle" ELSE "jobs")
    /\ file' = [file EXCEPT ![f] = "none"]
    /\ UNCHANGED <<job, disk, scheduled, saving, sup, thread, req, run, pages, left>>

(* A document that was ingested and still serves is not deleted. *)
DeleteRefused(f) ==
    /\ call[f] = "meta"
    /\ file[f] = "saved"
    /\ To(f, "idle")
    /\ UNCHANGED <<store, scheduled, saving, sup, thread, req, run, pages, left>>

DeleteJobs(f) ==
    /\ call[f] = "jobs"
    /\ job' = [job EXCEPT ![f] = NoJob]
    /\ To(f, "unlink")
    /\ UNCHANGED <<file, disk, scheduled, saving, sup, thread, req, run, pages, left>>

DeleteUnlinks(f) ==
    /\ call[f] = "unlink"
    /\ disk' = [disk EXCEPT ![f] = "none"]
    /\ To(f, "idle")
    /\ UNCHANGED <<job, file, scheduled, saving, sup, thread, req, run, pages, left>>

(* A database error ends the request, save that of the jobs' cleanup, which *)
(* is only logged once there is a connection.                               *)
DeleteFails(f) ==
    /\ call[f] \notin {"idle", "unlink"}
    /\ Spend("dberr")
    /\ To(f, "idle") \/ (call[f] = "jobs" /\ To(f, "unlink"))
    /\ UNCHANGED <<store, scheduled, saving, sup, thread, req, run, pages>>

(* A file that cannot be unlinked has its metadata put back. *)
UnlinkFails(f) ==
    /\ call[f] = "unlink"
    /\ disk[f] # "none"
    /\ Spend("diskerr")
    /\ file' = [file EXCEPT ![f] = "saved"]
    /\ To(f, "idle")
    /\ UNCHANGED <<job, disk, scheduled, saving, sup, thread, req, run, pages>>

DeleteStep(f) ==
    \/ DeleteReads(f) \/ DeleteKills(f) \/ DeleteWaits(f) \/ DeleteUnqueues(f)
    \/ DeleteMetadata(f) \/ DeleteJobs(f) \/ DeleteUnlinks(f)

FilesNext ==
    \/ ScheduleFile
    \/ \E f \in Files :
          \/ ScheduleJob(f) \/ ScheduleJobFails(f) \/ Kill(f)
          \/ Delete(f) \/ DeleteStep(f) \/ DeleteRefused(f) \/ DeleteFails(f) \/ UnlinkFails(f)
=============================================================================
