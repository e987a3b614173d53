--------------------------- MODULE BenchmarkRuns ----------------------------
(***************************************************************************)
(* The benchmark runs of one suite in the okf-server: runs and re-scores,  *)
(* each a detached worker that answers the questions of the suite, has     *)
(* them judged by the sidecar and lands in a document of its own, beside   *)
(* the requests that poll, cancel and delete them and the sweep that looks *)
(* for interrupted runs when the server starts.  The documents are durable *)
(* and the sidecar is another process; all else is lost in a crash.        *)
(***************************************************************************)
EXTENDS Sidecar

CONSTANTS
    Finished,    \* the runs that are done at first
    None,        \* null
    Allowed,     \* which faults may happen
    MaxFaults    \* bound: how often, all together

Faults == {"crash", "restart", "net", "db", "leg"}

ASSUME BenchmarkAssumption ==
    /\ Finished \subseteq Runs
    /\ None \notin Runs \cup Jobs
    /\ Allowed \subseteq Faults
    /\ MaxFaults \in Nat

VARIABLES
    suite,       \* whether the suite's document exists
    doc,         \* doc[r]: the status of run r's document
    recorded,    \* recorded[r]: the sidecar_job_id in it
    inFlight,    \* runInFlight of the suite
    rescoring,   \* rescoreInFlight
    asked,       \* userCancelledRun
    active,      \* activeSidecarJobs
    worker,      \* worker[r]: where the promise chain of run r stands
    get,         \* get[r]: where a poll of run r by the panel stands
    deleting,    \* the jobs a deletion of the suite waits to see cancelled, or None
    sweep,       \* sweepInterruptedRuns
    kills,       \* the DELETEs on their way to the sidecar
    lost,        \* history: the jobs with a DELETE that failed
    left         \* how many faults may still happen

docs == <<suite, doc, recorded>>
memory == <<inFlight, rescoring, asked, active>>
wire == <<job, kills, lost>>
vars == <<job, suite, doc, recorded, inFlight, rescoring, asked, active, worker, get, deleting,
          sweep, kills, lost, left>>

(* "orphan": the placeholder was saved, but the answer was lost: nobody was *)
(* told the key of the run, and there is no promise chain.                  *)
WorkerPCs == {"new", "save", "copy", "load", "answer", "fail", "submit", "record", "guard",
              "poll", "drop", "write", "persist", "finish", "orphan", "off"}

(* Before, or after, all that a run does under its in-flight entry. *)
Idle == {"new", "copy", "orphan", "off"}

(* "told": the panel was answered "failed", and asks no more. *)
GetPCs == {"idle", "probe", "mark", "told"}

WorkerType == [ pc    : WorkerPCs,
                tries : 0 .. MaxTries,                     \* submits so far
                why   : {"none", "failed", "cancelled"} ]  \* what the error says

SweepType == [ pc    : {"off", "start", "read", "rows", "mark"},
               noted : SUBSET Runs,                         \* liveKeys, rescoreKeys
               rows  : SUBSET (Runs \X (Jobs \cup {None})), \* what it read, still to be looked at
               r     : Runs \cup {None} ]

DocStatus == {"none", "running", "done", "failed", "cancelled"}

TypeOK ==
    /\ job \in [Jobs -> JobStatus]
    /\ suite \in BOOLEAN
    /\ doc \in [Runs -> DocStatus]
    /\ recorded \in [Runs -> Jobs \cup {None}]
    /\ inFlight \in Runs \cup {None}
    /\ rescoring \in SUBSET Runs
    /\ asked \in SUBSET Runs
    /\ active \in SUBSET Jobs
    /\ worker \in [Runs -> WorkerType]
    /\ get \in [Runs -> GetPCs]
    /\ deleting \in (SUBSET Jobs) \cup {None}
    /\ sweep \in SweepType
    /\ kills \in SUBSET Jobs
    /\ lost \in SUBSET Jobs
    /\ left \in Nat

Worker(pc) == [pc |-> pc, tries |-> 0, why |-> "none"]

NoSweep == [pc |-> "off", noted |-> {}, rows |-> {}, r |-> None]

Init ==
    /\ job = [j \in Jobs |-> "none"]
    /\ suite = TRUE
    /\ doc = [r \in Runs |-> IF r \in Finished THEN "done" ELSE "none"]
    /\ recorded = [r \in Runs |-> None]
    /\ inFlight = None
    /\ rescoring = {}
    /\ asked = {}
    /\ active = {}
    /\ worker = [r \in Runs |-> Worker(IF r \in Finished THEN "off" ELSE "new")]
    /\ get = [r \in Runs |-> "idle"]
    /\ deleting = None
    /\ sweep = NoSweep
    /\ kills = {}
    /\ lost = {}
    /\ left = MaxFaults

Spend(e) == e \in Allowed /\ left > 0 /\ left' = left - 1

Goto(r, pc) == worker' = [worker EXCEPT ![r].pc = pc]

At(r, pc) == worker[r].pc = pc

(* The job of the last submit. *)
Held(r) == <<r, worker[r].tries>>

Alive_RunOnly(r) == inFlight = r   \* mutant: a re-score is not looked for

Alive(r) == inFlight = r \/ r \in rescoring

-----------------------------------------------------------------------------
(***************************************************************************)
(* The start of a run, which reserves the suite before it saves the        *)
(* placeholder, and of a re-score, which saves the placeholder first.      *)
(***************************************************************************)
BeginRun(r) ==
    /\ At(r, "new")
    /\ suite
    /\ inFlight = None
    /\ inFlight' = r
    /\ Goto(r, "save")
    /\ UNCHANGED <<docs, rescoring, asked, active, get, deleting, sweep, wire, left>>

SavePlaceholder(r) ==
    /\ At(r, "save")
    /\ doc' = [doc EXCEPT ![r] = "running"]
    /\ Goto(r, "load")
    /\ UNCHANGED <<suite, recorded, memory, get, deleting, sweep, wire, left>>

LockAfterFailedSave_Kept == inFlight   \* mutant: the reservation outlives the failed save

LockAfterFailedSave == None

(* The save fails, or only its answer is lost. *)
SaveFails(r) ==
    /\ Spend("db")
    /\ \/ At(r, "save") /\ inFlight' = LockAfterFailedSave
       \/ At(r, "copy") /\ UNCHANGED inFlight
    /\ \/ Goto(r, "off") /\ UNCHANGED doc
       \/ Goto(r, "orphan") /\ doc' = [doc EXCEPT ![r] = "running"]
    /\ UNCHANGED <<suite, recorded, rescoring, asked, active, get, deleting, sweep, wire>>

BeginRescore(r, src) ==
    /\ At(r, "new")
    /\ doc[src] = "done"
    /\ suite
    /\ Goto(r, "copy")
    /\ UNCHANGED <<docs, memory, get, deleting, sweep, wire, left>>

SaveCopy(r) ==
    /\ At(r, "copy")
    /\ doc' = [doc EXCEPT ![r] = "running"]
    /\ rescoring' = rescoring \cup {r}
    /\ Goto(r, "submit")
    /\ UNCHANGED <<suite, recorded, inFlight, asked, active, get, deleting, sweep, wire, left>>

-----------------------------------------------------------------------------
(***************************************************************************)
(* An error ends a run's promise chain in its catch block.  A run drops    *)
(* its cancel flag there and asks nothing else; a re-score also counts a   *)
(* job that was cancelled, whoever cancelled it.                           *)
(***************************************************************************)
Verdict(r, why) ==
    IF r \in asked \/ (r \in rescoring /\ why = "cancelled") THEN "cancelled" ELSE "failed"

Fails(r, why) ==
    /\ worker' = [worker EXCEPT ![r].pc = "persist", ![r].why = Verdict(r, why)]
    /\ asked' = IF inFlight = r THEN asked \ {r} ELSE asked

(* runSuite loads the suite again, and finds no graph or a missing suite. *)
LoadRun(r) ==
    /\ At(r, "load")
    /\ \/ suite /\ Goto(r, "answer") /\ UNCHANGED <<asked, left>>
       \/ ~suite /\ Fails(r, "failed") /\ UNCHANGED left
       \/ Spend("leg") /\ Fails(r, "failed")
    /\ UNCHANGED <<docs, inFlight, rescoring, active, get, deleting, sweep, wire>>

(* The answer leg ends: cancelled, without a single answer, or to be judged. *)
AnswersEnd(r) ==
    /\ At(r, "answer")
    /\ \/ r \in asked /\ Fails(r, "cancelled") /\ UNCHANGED left
       \/ r \notin asked /\ Goto(r, "submit") /\ UNCHANGED <<asked, left>>
       \/ r \notin asked /\ Spend("leg") /\ Goto(r, "fail") /\ UNCHANGED asked
    /\ UNCHANGED <<docs, inFlight, rescoring, active, get, deleting, sweep, wire>>

Replaced(r, status) == doc[r] # "none" /\ doc' = [doc EXCEPT ![r] = status]

(* A replace needs the document it replaces.  The answer to one that was   *)
(* made may be lost: the catch block then runs over a document that has    *)
(* its verdict already.                                                    *)
Lands(r, status) ==
    \/ Replaced(r, status) /\ Goto(r, "finish") /\ UNCHANGED <<asked, left>>
    \/ Replaced(r, status) /\ Spend("db") /\ Fails(r, "failed")
    \/ doc[r] = "none" /\ Fails(r, "failed") /\ UNCHANGED <<doc, left>>
    \/ Spend("db") /\ Fails(r, "failed") /\ UNCHANGED doc

WriteFailed(r) ==
    /\ At(r, "fail")
    /\ Lands(r, "failed")
    /\ UNCHANGED <<suite, recorded, inFlight, rescoring, active, get, deleting, sweep, wire>>

-----------------------------------------------------------------------------
(***************************************************************************)
(* The judge phase.  An attempt of the submit that fails for want of the   *)
(* sidecar is repeated, whether the sidecar has started a job or not.      *)
(***************************************************************************)
Attempt(r) == <<r, worker[r].tries + 1>>

TryFails(r) ==
    IF worker[r].tries + 1 < MaxTries
    THEN worker' = [worker EXCEPT ![r].tries = @ + 1] /\ UNCHANGED asked
    ELSE Fails(r, "failed")

Submit(r) ==
    /\ At(r, "submit")
    /\ \/ /\ StartJob(Attempt(r))
          /\ worker' = [worker EXCEPT ![r].pc = "record", ![r].tries = @ + 1]
          /\ UNCHANGED <<asked, left>>
       \/ Busy /\ TryFails(r) /\ UNCHANGED <<job, left>>
       \/ Spend("net") /\ TryFails(r) /\ UNCHANGED job
       \/ Spend("net") /\ StartJob(Attempt(r)) /\ TryFails(r)   \* the answer is lost
       \/ Spend("leg") /\ Fails(r, "failed") /\ UNCHANGED job     \* refused
    /\ UNCHANGED <<docs, inFlight, rescoring, active, get, deleting, sweep, kills, lost>>

(* The job's id goes into the document, if that is still there. *)
RecordJob(r) ==
    /\ At(r, "record")
    /\ \/ recorded' = [recorded EXCEPT ![r] = IF doc[r] = "none" THEN None ELSE Held(r)] /\ UNCHANGED left
       \/ Spend("db") /\ UNCHANGED recorded
    /\ Goto(r, "guard")
    /\ UNCHANGED <<suite, doc, memory, get, deleting, sweep, wire>>

(* cancelSidecarJob: the entry goes at once, the DELETE is awaited. *)
SendKill(js) ==
    /\ active' = active \ js
    /\ kills' = kills \cup js

DropJob(r, why) ==
    /\ worker' = [worker EXCEPT ![r].pc = "drop", ![r].why = why]
    /\ SendKill({Held(r)})

CancelLanded_Unchecked(r) == FALSE   \* mutant: nobody looks for a cancel after the submit

CancelLanded(r) == r \in asked

(* A cancel that landed during the submit is honoured; or the job is polled. *)
CheckCancel(r) ==
    /\ At(r, "guard")
    /\ \/ CancelLanded(r) /\ DropJob(r, "cancelled")
       \/ /\ ~CancelLanded(r)
          /\ active' = active \cup {Held(r)}
          /\ Goto(r, "poll")
          /\ UNCHANGED kills
    /\ UNCHANGED <<docs, inFlight, rescoring, asked, get, deleting, sweep, job, lost, left>>

PollEnds_Not404(j) == job[j] \notin {"none", "live"}   \* mutant: a forgotten job is polled on

PollEnds(j) == ~JobLive(j)

PollJob(r) ==
    /\ At(r, "poll")
    /\ \/ /\ PollEnds(Held(r)) /\ job[Held(r)] = "done"
          /\ active' = active \ {Held(r)}
          /\ Goto(r, "write")
          /\ UNCHANGED <<kills, left>>
       \/ /\ PollEnds(Held(r)) /\ job[Held(r)] # "done"
          /\ DropJob(r, IF job[Held(r)] = "cancelled" THEN "cancelled" ELSE "failed")
          /\ UNCHANGED left
       \/ Spend("net") /\ DropJob(r, "failed")      \* unreachable until the horizon
    /\ UNCHANGED <<docs, inFlight, rescoring, asked, get, deleting, sweep, job, lost>>

DropEnds(r) ==
    /\ At(r, "drop")
    /\ Held(r) \notin kills
    /\ Fails(r, worker[r].why)
    /\ UNCHANGED <<docs, inFlight, rescoring, active, get, deleting, sweep, wire, left>>

WriteDone(r) ==
    /\ At(r, "write")
    /\ Lands(r, "done")
    /\ UNCHANGED <<suite, recorded, inFlight, rescoring, active, get, deleting, sweep, wire>>

(* The terminal document, whose failure is only logged. *)
Persist(r) ==
    /\ At(r, "persist")
    /\ \/ /\ doc' = [doc EXCEPT ![r] = IF @ = "none" THEN "none" ELSE worker[r].why]
          /\ UNCHANGED left
       \/ Spend("db") /\ UNCHANGED doc
    /\ Goto(r, "finish")
    /\ UNCHANGED <<suite, recorded, memory, get, deleting, sweep, wire>>

(* The finally block; a run leaves its cancel flag to its catch block. *)
Finish(r) ==
    /\ At(r, "finish")
    /\ worker' = [worker EXCEPT ![r] = Worker("off")]
    /\ \/ inFlight = r /\ inFlight' = None /\ UNCHANGED <<rescoring, asked>>
       \/ r \in rescoring /\ rescoring' = rescoring \ {r} /\ asked' = asked \ {r} /\ UNCHANGED inFlight
    /\ UNCHANGED <<docs, active, get, deleting, sweep, wire, left>>

WorkerStep(r) ==
    \/ SavePlaceholder(r) \/ SaveCopy(r) \/ LoadRun(r) \/ AnswersEnd(r) \/ WriteFailed(r)
    \/ Submit(r) \/ RecordJob(r) \/ CheckCancel(r) \/ PollJob(r) \/ DropEnds(r)
    \/ WriteDone(r) \/ Persist(r) \/ Finish(r)

-----------------------------------------------------------------------------
(***************************************************************************)
(* Requests.  A cancel sets the flag and stops the jobs it finds.          *)
(***************************************************************************)
CancelRun(r) ==
    /\ Alive(r)
    /\ ~At(r, "save")      \* nobody knows its key yet
    /\ asked' = asked \cup {r}
    /\ SendKill(active \cap JobsOf(r))
    /\ UNCHANGED <<docs, inFlight, rescoring, worker, get, deleting, sweep, job, lost, left>>

DeleteRun(r) ==
    /\ ~Alive(r)
    /\ doc[r] # "none"
    /\ doc' = [doc EXCEPT ![r] = "none"]
    /\ recorded' = [recorded EXCEPT ![r] = None]
    /\ UNCHANGED <<suite, memory, worker, get, deleting, sweep, wire, left>>

(* The suite goes with its runs once the DELETEs were answered; a run, but *)
(* not a re-score, that is in flight when the request arrives prevents it. *)
DeleteSuite ==
    /\ deleting = None
    /\ suite
    /\ inFlight = None
    /\ deleting' = active
    /\ SendKill(active)
    /\ UNCHANGED <<docs, inFlight, rescoring, asked, worker, get, sweep, job, lost, left>>

RemoveSuite ==
    /\ deleting # None
    /\ deleting \cap kills = {}
    /\ suite' = FALSE
    /\ doc' = [r \in Runs |-> "none"]
    /\ recorded' = [r \in Runs |-> None]
    /\ deleting' = None
    /\ UNCHANGED <<memory, worker, get, sweep, wire, left>>

(***************************************************************************)
(* The panel polls a run.  A running document of a run that is not in      *)
(* flight is failed, unless the sidecar still judges it.                   *)
(***************************************************************************)
GetRun(r) ==
    /\ get[r] \in {"idle", "told"}
    /\ ~Alive(r)
    /\ doc[r] = "running"
    /\ get' = [get EXCEPT ![r] = "probe"]
    /\ UNCHANGED <<docs, memory, worker, deleting, sweep, wire, left>>

JudgedAs(j) == j # None /\ JobLive(j)

ProbeRun(r) ==
    /\ get[r] = "probe"
    /\ \/ get' = [get EXCEPT ![r] = IF JudgedAs(recorded[r]) THEN "idle" ELSE "mark"] /\ UNCHANGED left
       \/ Spend("net") /\ get' = [get EXCEPT ![r] = "mark"]
    /\ UNCHANGED <<docs, memory, worker, deleting, sweep, wire>>

Interrupted(r) == doc' = [doc EXCEPT ![r] = IF @ = "none" THEN "none" ELSE "failed"]

(* A replace that fails is not even logged: the answer is "failed" anyway. *)
MarkRun(r) ==
    /\ get[r] = "mark"
    /\ \/ Interrupted(r) /\ get' = [get EXCEPT ![r] = "idle"] /\ UNCHANGED left
       \/ Spend("db") /\ get' = [get EXCEPT ![r] = "told"] /\ UNCHANGED doc
    /\ UNCHANGED <<suite, recorded, memory, worker, deleting, sweep, wire>>

-----------------------------------------------------------------------------
(***************************************************************************)
(* The sweep at the start of the server, which answers requests already:   *)
(* it notes what is in flight, reads the running documents, and fails one  *)
(* by one those it did not note and the sidecar does not judge.            *)
(***************************************************************************)
SweepNotes ==
    /\ sweep.pc = "start"
    /\ sweep' = [sweep EXCEPT !.pc = "read", !.noted = {r \in Runs : Alive(r)}]
    /\ UNCHANGED <<docs, memory, worker, get, deleting, wire, left>>

Unnoted == {r \in Runs : doc[r] = "running" /\ r \notin sweep.noted}

SweepReads ==
    /\ sweep.pc = "read"
    /\ \/ /\ sweep' = [sweep EXCEPT !.pc = "rows", !.noted = {},
                                    !.rows = {<<r, recorded[r]>> : r \in Unnoted}]
          /\ UNCHANGED left
       \/ Spend("db") /\ sweep' = NoSweep
    /\ UNCHANGED <<docs, memory, worker, get, deleting, wire>>

SweepProbes(row) ==
    /\ sweep.pc = "rows"
    /\ row \in sweep.rows
    /\ \/ /\ JudgedAs(row[2])
          /\ sweep' = [sweep EXCEPT !.rows = @ \ {row}]
          /\ UNCHANGED left
       \/ /\ \/ ~JudgedAs(row[2]) /\ UNCHANGED left
             \/ Spend("net")
          /\ sweep' = [sweep EXCEPT !.pc = "mark", !.rows = @ \ {row}, !.r = row[1]]
    /\ UNCHANGED <<docs, memory, worker, get, deleting, wire>>

NextRow == [sweep EXCEPT !.pc = "rows", !.r = None]

(* It reads a document again to replace it: one that has gone, or that     *)
(* cannot be read, ends the sweep; a replace that fails does not.          *)
SweepMarks ==
    /\ sweep.pc = "mark"
    /\ \/ /\ Interrupted(sweep.r)
          /\ sweep' = IF doc[sweep.r] = "none" THEN NoSweep ELSE NextRow
          /\ UNCHANGED left
       \/ Spend("db") /\ sweep' \in {NoSweep, NextRow} /\ UNCHANGED doc
    /\ UNCHANGED <<suite, recorded, memory, worker, get, deleting, wire>>

SweepEnds ==
    /\ sweep.pc = "rows"
    /\ sweep.rows = {}
    /\ sweep' = NoSweep
    /\ UNCHANGED <<docs, memory, worker, get, deleting, wire, left>>

SweepStep ==
    SweepNotes \/ SweepReads \/ (\E row \in sweep.rows : SweepProbes(row)) \/ SweepMarks \/ SweepEnds
=============================================================================
