---------------------------- MODULE IngestWorker ----------------------------
(***************************************************************************)
(* One cycle of the ingest worker (_processOneJob): claim a row, check the *)
(* graph before starting, retract what an earlier attempt left, POST the   *)
(* concept to dataprep, wait for the callback, report.  A cycle holds a    *)
(* snapshot of the row it claimed and works from the snapshot; the patches *)
(* it writes are unconditional, only the stamp and the 429 unclaim compare *)
(* the claim first.  Every await of the code is a boundary between two     *)
(* steps here.                                                             *)
(***************************************************************************)
EXTENDS Dataprep

(* A claim older than the staleness window no longer protects the row. *)
ClaimOpen_IgnoresAge(r) == TRUE   \* mutant: the staleness filter is gone

ClaimOpen(r) == r.claim = None \/ r.age # "fresh"

ParkOpen(r) == r.park # "held"

Claimable(c) ==
    /\ row[c].status = "parsed"
    /\ repo.armed
    /\ ClaimOpen(row[c])
    /\ ParkOpen(row[c])
    /\ row[c].attempts < MaxAttempts

Job(c) == [ Idle EXCEPT
              !.c = c, !.seen = row[c].claim, !.stale = row[c].claim # None,
              !.parked = row[c].park # "none", !.good = row[c].good,
              !.retry = row[c].retry, !.graph = row[c].graph ]

(* claimNextSerialized: one claim at a time between the read and the stamp. *)
ChainFree == \A k \in Cycles : ~At(k, "stamp")

ClaimRead(k, c) ==
    /\ ~Fair
    /\ At(k, "idle")
    /\ ChainFree
    /\ Claimable(c)
    /\ proc' = [proc EXCEPT ![k] = [Job(c) EXCEPT !.pc = "stamp"]]
    /\ UNCHANGED <<row, repo, exists, chunks, task, late, left>>

(* The compare-and-set names the claim value only: not the status, not the arm. *)
StampMatches(k) == row[proc[k].c].claim = proc[k].seen

Stamp(k) ==
    /\ At(k, "stamp")
    /\ \/ /\ StampMatches(k)
          /\ PatchRow(proc[k].c, Stamped(row[proc[k].c], k))
          /\ Goto(k, "pre_progress")
       \/ /\ ~StampMatches(k)
          /\ Finish(k)
          /\ UNCHANGED row
    /\ UNCHANGED <<repo, exists, chunks, task, late, left>>

(* The stamp landed, its acknowledgement did not, and the retry misses. *)
StampAckLost(k) ==
    /\ At(k, "stamp")
    /\ StampMatches(k)
    /\ Spend("lostack")
    /\ PatchRow(proc[k].c, Stamped(row[proc[k].c], k))
    /\ Finish(k)
    /\ UNCHANGED <<repo, exists, chunks, task, late>>

(* claimNextJobFair: pick and stamp in one statement. *)
ClaimFair(k, c) ==
    /\ Fair
    /\ At(k, "idle")
    /\ Claimable(c)
    /\ PatchRow(c, Stamped(row[c], k))
    /\ proc' = [proc EXCEPT ![k] = [Job(c) EXCEPT !.pc = "pre_progress"]]
    /\ UNCHANGED <<repo, exists, chunks, task, late, left>>

-----------------------------------------------------------------------------
(***************************************************************************)
(* Pre-flight: recorded progress against a missing graph is a lie, and     *)
(* resets the drain.  The record is only written while the repository is   *)
(* armed; the rows are requeued either way.                                *)
(***************************************************************************)
ReadProgress(k) ==
    /\ At(k, "pre_progress")
    /\ proc' = [proc EXCEPT ![k].pc = "pre_graph", ![k].flag = repo.progress]
    /\ UNCHANGED <<row, repo, exists, chunks, task, late, left>>

(* Where a job goes that needs no reset, or just had one: a missing graph  *)
(* (flag) skips the probe of a parked row.                                 *)
AfterPreflight(job) ==
    IF job.parked /\ ~job.flag THEN "probe_park"
    ELSE IF job.stale THEN "probe_stale" ELSE "retract_file"

CheckGraph(k) ==
    LET job == [proc[k] EXCEPT !.flag = proc[k].graph \notin exists]
    IN /\ At(k, "pre_graph")
       /\ proc' = [proc EXCEPT ![k] =
                     [job EXCEPT !.pc = IF job.flag /\ proc[k].flag THEN "reset_record"
                                        ELSE AfterPreflight(job)]]
       /\ UNCHANGED <<row, repo, exists, chunks, task, late, left>>

ResetRecord(k) ==
    /\ At(k, "reset_record")
    /\ Goto(k, "reset_rows")
    /\ repo' = IF repo.armed THEN [repo EXCEPT !.progress = FALSE] ELSE repo
    /\ UNCHANGED <<row, exists, chunks, task, late, left>>

Reset_KeepsClaim(r) ==   \* mutant: the rows of other jobs keep their claims
    [r EXCEPT !.status = "parsed", !.attempts = 0, !.park = "none"]

Reset(r) == [Released(r) EXCEPT !.status = "parsed", !.attempts = 0, !.park = "none"]

ResetRows(k) ==
    /\ At(k, "reset_rows")
    /\ row' = [c \in Concepts |-> IF row[c].graph = proc[k].graph THEN Reset(row[c]) ELSE row[c]]
    /\ Goto(k, AfterPreflight(proc[k]))
    /\ UNCHANGED <<repo, exists, chunks, task, late, left>>

-----------------------------------------------------------------------------
(***************************************************************************)
(* Liveness probes.  A row that was parked, or whose claim went stale, may *)
(* still have a running task: the retract below must not race it.          *)
(***************************************************************************)
AfterParkProbe(job) == IF job.stale THEN "probe_stale" ELSE "retract_file"

ProbePark(k) ==
    /\ At(k, "probe_park")
    /\ Goto(k, IF Live(proc[k].c) THEN "defer" ELSE AfterParkProbe(proc[k]))
    /\ UNCHANGED <<row, repo, exists, chunks, task, late, left>>

StaleVerdict_Blind(k) == "retract_file"   \* mutant: the probe's answer is ignored

StaleVerdict(k) == IF Live(proc[k].c) THEN "defer" ELSE "retract_file"

ProbeStale(k) ==
    /\ At(k, "probe_stale")
    /\ Goto(k, StaleVerdict(k))
    /\ UNCHANGED <<row, repo, exists, chunks, task, late, left>>

Defer(k) ==
    /\ At(k, "defer")
    /\ PatchRow(proc[k].c, Deferred(row[proc[k].c]))
    /\ Finish(k)
    /\ UNCHANGED <<repo, exists, chunks, task, late, left>>

-----------------------------------------------------------------------------
(***************************************************************************)
(* Retract, then POST.                                                     *)
(***************************************************************************)
RetractFile(k) ==
    /\ At(k, "retract_file")
    /\ DeleteChunks(proc[k].c, proc[k].graph)
    /\ Goto(k, "post")
    /\ UNCHANGED <<row, repo, exists, task, late, left>>

(* The POST failed; flag says whether the release parks the row. *)
GoRelease(k, parks) == proc' = [proc EXCEPT ![k].pc = "release", ![k].flag = parks]

Post(k) ==
    /\ At(k, "post")
    /\ \/ /\ ~SlotFree(proc[k].c)                               \* 429
          /\ Goto(k, "unclaim")
          /\ UNCHANGED task
       \/ /\ SlotFree(proc[k].c) /\ Live(proc[k].c)             \* 409
          /\ GoRelease(k, FALSE)
          /\ UNCHANGED task
       \/ /\ Accepts(proc[k].c)
          /\ StartTask(proc[k].c, proc[k].graph)
          /\ Goto(k, "wait")
    /\ UNCHANGED <<row, repo, exists, chunks, late, left>>

Unclaimed_KeepsClaim(r) == [r EXCEPT !.attempts = 0]   \* mutant: un-counted, the claim kept

Unclaimed(r) ==
    [Released(r) EXCEPT !.attempts = IF @ > 0 THEN @ - 1 ELSE 0]

Unclaim(k) ==
    /\ At(k, "unclaim")
    /\ row' = IF row[proc[k].c].claim = k
              THEN [row EXCEPT ![proc[k].c] = Unclaimed(@)] ELSE row
    /\ Finish(k)
    /\ UNCHANGED <<repo, exists, chunks, task, late, left>>

ReleasePatch_KeepsClaim(r, parks) ==     \* mutant: the error path leaves the claim stamped
    IF parks THEN [r EXCEPT !.park = "held"] ELSE r

ReleasePatch(r, parks) == IF parks THEN Deferred(r) ELSE Released(r)

Release(k) ==
    /\ At(k, "release")
    /\ PatchRow(proc[k].c, ReleasePatch(row[proc[k].c], proc[k].flag))
    /\ Finish(k)
    /\ UNCHANGED <<repo, exists, chunks, task, late, left>>

(* A failed retract writes the backoff whatever it is, so none clears a park. *)
Abort(k) ==
    /\ At(k, "abort")
    /\ PatchRow(proc[k].c, [Released(row[proc[k].c]) EXCEPT !.park = IF Backoff THEN "held" ELSE "none"])
    /\ Finish(k)
    /\ UNCHANGED <<repo, exists, chunks, task, late, left>>

(***************************************************************************)
(* A request to dataprep fails: a probe that fails reads as a dead task, a *)
(* retract or a POST may fail before dataprep saw it or after it was done. *)
(***************************************************************************)
HttpFails(k) ==
    /\ Spend("http")
    /\ \/ At(k, "probe_park") /\ Goto(k, AfterParkProbe(proc[k])) /\ UNCHANGED <<task, chunks>>
       \/ At(k, "probe_stale") /\ Goto(k, "retract_file") /\ UNCHANGED <<task, chunks>>
       \/ At(k, "timeout_probe") /\ Goto(k, "timeout_release") /\ UNCHANGED <<task, chunks>>
       \/ At(k, "retract_file") /\ Goto(k, "abort") /\ UNCHANGED <<task, chunks>>
       \/ /\ At(k, "retract_file")
          /\ DeleteChunks(proc[k].c, proc[k].graph)
          /\ Goto(k, "abort")
          /\ UNCHANGED task
       \/ At(k, "post") /\ GoRelease(k, Backoff) /\ UNCHANGED <<task, chunks>>
       \/ /\ At(k, "post") /\ Accepts(proc[k].c)
          /\ StartTask(proc[k].c, proc[k].graph)
          /\ GoRelease(k, Backoff)
          /\ UNCHANGED chunks
    /\ UNCHANGED <<row, repo, exists, late>>

-----------------------------------------------------------------------------
(***************************************************************************)
(* Wait for the row to leave 'parsed'.                                     *)
(***************************************************************************)
NeedsHeal(job) == job.good /\ ~job.retry

SeeVerdict(k) ==
    /\ At(k, "wait")
    /\ \/ row[proc[k].c].status = "indexed" /\ GoRefresh(k)
       \/ /\ row[proc[k].c].status = "failed"
          /\ \/ NeedsHeal(proc[k]) /\ Goto(k, "heal")
             \/ ~NeedsHeal(proc[k]) /\ GoRefresh(k)
    /\ UNCHANGED <<row, repo, exists, chunks, task, late, left>>

(* The wait began after the stamp, so its deadline passes after the claim's. *)
Timeout(k) ==
    /\ Ageing
    /\ At(k, "wait")
    /\ row[proc[k].c].status = "parsed"
    /\ Adaptive \/ ~(row[proc[k].c].claim = k /\ row[proc[k].c].age = "fresh")
    /\ Goto(k, "timeout")
    /\ UNCHANGED <<row, repo, exists, chunks, task, late, left>>

(* The re-read: an outcome that arrived meanwhile is accepted, and ends the job. *)
Recheck(k) ==
    /\ At(k, "timeout")
    /\ \/ row[proc[k].c].status # "parsed" /\ Finish(k)
       \/ /\ row[proc[k].c].status = "parsed"
          /\ Goto(k, IF Adaptive THEN "timeout_probe" ELSE "timeout_release")
    /\ UNCHANGED <<row, repo, exists, chunks, task, late, left>>

ProbeTimeout(k) ==
    /\ At(k, "timeout_probe")
    /\ Goto(k, IF Live(proc[k].c) THEN "defer" ELSE "timeout_release")
    /\ UNCHANGED <<row, repo, exists, chunks, task, late, left>>

TimeoutRelease(k) ==
    /\ At(k, "timeout_release")
    /\ PatchRow(proc[k].c, Released(row[proc[k].c]))
    /\ GoRefresh(k)
    /\ UNCHANGED <<repo, exists, chunks, task, late, left>>

Heal(k) ==
    /\ At(k, "heal")
    /\ PatchRow(proc[k].c, [Released(row[proc[k].c]) EXCEPT !.status = "parsed", !.retry = TRUE])
    /\ GoRefresh(k)
    /\ UNCHANGED <<repo, exists, chunks, task, late, left>>

(***************************************************************************)
(* A statement of the cycle fails: where its catch block leads.  A read    *)
(* that no block catches ends the cycle with its claim standing.           *)
(***************************************************************************)
CycleStoreFails(k) ==
    /\ Spend("dberr")
    /\ \/ proc[k].pc \in {"stamp", "pre_graph", "wait", "defer", "unclaim", "release", "abort"}
          /\ Finish(k)
       \/ proc[k].pc \in {"timeout", "timeout_release", "heal"} /\ GoRefresh(k)
       \/ At(k, "pre_progress") /\ proc' = [proc EXCEPT ![k].pc = "pre_graph", ![k].flag = FALSE]
       \/ At(k, "reset_record") /\ Goto(k, "reset_rows")
       \/ At(k, "reset_rows") /\ Goto(k, AfterPreflight(proc[k]))
    /\ UNCHANGED <<row, repo, exists, chunks, task, late>>

CycleStep(k) ==
    \/ Stamp(k) \/ ReadProgress(k) \/ CheckGraph(k) \/ ResetRecord(k) \/ ResetRows(k)
    \/ ProbePark(k) \/ ProbeStale(k) \/ Defer(k)
    \/ RetractFile(k) \/ Post(k) \/ Unclaim(k) \/ Release(k) \/ Abort(k)
    \/ SeeVerdict(k) \/ Timeout(k) \/ Recheck(k) \/ ProbeTimeout(k)
    \/ TimeoutRelease(k) \/ Heal(k)

Claim(k) == \E c \in Concepts : ClaimRead(k, c) \/ ClaimFair(k, c)

WorkerNext ==
    \E k \in Cycles :
        Claim(k) \/ CycleStep(k) \/ StampAckLost(k) \/ HttpFails(k) \/ CycleStoreFails(k)
=============================================================================
