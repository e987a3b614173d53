------------------------------ MODULE Dataprep ------------------------------
(***************************************************************************)
(* The dataprep service as the drain sees it: ingestion tasks that run in  *)
(* the background after the POST was answered, the chunks they append to   *)
(* the version graph, and the completion callback that is the only thing   *)
(* that moves a row out of 'parsed'.  The okf-server's side of the         *)
(* callback (conceptStatus) is here too: it patches the row the callback   *)
(* names whatever the row's claim, graph or version is by then.            *)
(***************************************************************************)
EXTENDS DrainState

(* The verdict conceptStatus applies to a row. *)
Verdict(r, status) ==
    IF status = "indexed" THEN [r EXCEPT !.status = "indexed", !.good = TRUE]
                          ELSE [r EXCEPT !.status = "failed"]

(***************************************************************************)
(* What a request to dataprep does.  A slot is held by a task from the     *)
(* POST until the task ends; the 429 is decided before the 409.            *)
(***************************************************************************)
LiveTasks == {c \in Concepts : Live(c)}

SlotFree(c) == Cardinality(LiveTasks) < Slots

Accepts(c) == SlotFree(c) /\ ~Live(c)

StartTask(c, g) == task' = [task EXCEPT ![c] = [stage |-> "running", graph |-> g]]

DeleteChunks_Never(c, g) == UNCHANGED chunks   \* mutant: nothing is retracted

DeleteChunks(c, g) == chunks' = [chunks EXCEPT ![g][c] = 0]

Append(c, g) == chunks' = [chunks EXCEPT ![g][c] = IF @ < 2 THEN @ + 1 ELSE 2]

(***************************************************************************)
(* The task.                                                               *)
(***************************************************************************)
Stage(c, s) == task' = [task EXCEPT ![c].stage = s]

TaskAt(c, s) == task[c].stage = s

EnsureGraph(c) ==
    /\ TaskAt(c, "running")
    /\ Stage(c, "ensured")
    /\ exists' = exists \cup {task[c].graph}
    /\ UNCHANGED <<row, repo, chunks, late, proc, left>>

(* Every batch fails when the graph was dropped since it was ensured. *)
StoreChunks(c) ==
    /\ TaskAt(c, "ensured")
    /\ \/ /\ task[c].graph \in exists
          /\ Append(c, task[c].graph)
          /\ Stage(c, "stored")
       \/ /\ task[c].graph \notin exists
          /\ Stage(c, "failing")
          /\ UNCHANGED chunks
    /\ UNCHANGED <<row, repo, exists, late, proc, left>>

(* A stage raises: nothing, or part of the document, is in the graph. *)
TaskFails(c) ==
    /\ task[c].stage \in {"running", "ensured"}
    /\ Spend("taskfail")
    /\ Stage(c, "failing")
    /\ \/ UNCHANGED chunks
       \/ TaskAt(c, "ensured") /\ task[c].graph \in exists /\ Append(c, task[c].graph)
    /\ UNCHANGED <<row, repo, exists, late, proc>>

(* kill_ingest: the chunks are retracted before the status is announced;   *)
(* a task already in its failure path dies without callback or rollback.   *)
Kill(c) ==
    /\ Spend("kill")
    /\ \/ /\ task[c].stage \in {"running", "ensured", "stored"}
          /\ Stage(c, "killed")
          /\ DeleteChunks(c, task[c].graph)
       \/ /\ task[c].stage \in {"failing", "cleanup"}
          /\ Stage(c, "done")
          /\ UNCHANGED chunks
    /\ UNCHANGED <<row, repo, exists, late, proc>>

(***************************************************************************)
(* The completion callback.  A task stays alive until its callback was     *)
(* answered or given up; a generic failure is announced before the         *)
(* rollback, a kill after it.                                              *)
(***************************************************************************)
VerdictOf(stage) == IF stage = "stored" THEN "indexed" ELSE "failed"

AfterCallback(stage) == IF stage = "failing" THEN "cleanup" ELSE "done"

Reporting(c) == task[c].stage \in {"stored", "failing", "killed"}

Callback(c) ==
    /\ Reporting(c)
    /\ PatchRow(c, Verdict(row[c], VerdictOf(task[c].stage)))
    /\ Stage(c, AfterCallback(task[c].stage))
    /\ UNCHANGED <<repo, exists, chunks, late, proc, left>>

CallbackLost(c) ==
    /\ Reporting(c)
    /\ Spend("lost")
    /\ Stage(c, AfterCallback(task[c].stage))
    /\ UNCHANGED <<row, repo, exists, chunks, late, proc>>

(* The client timed out on a request the okf-server still handles: it      *)
(* retries, and the verdict may be applied twice, or it gives up.          *)
CallbackLate(c) ==
    /\ Reporting(c)
    /\ Spend("late")
    /\ late' = late \cup {<<c, VerdictOf(task[c].stage)>>}
    /\ \/ UNCHANGED task
       \/ Stage(c, AfterCallback(task[c].stage))
    /\ UNCHANGED <<row, repo, exists, chunks, proc>>

DeliverLate(cb) ==
    /\ cb \in late
    /\ PatchRow(cb[1], Verdict(row[cb[1]], cb[2]))
    /\ late' = late \ {cb}
    /\ UNCHANGED <<repo, exists, chunks, task, proc, left>>

(* The auto-retract of the generic-failure path. *)
Rollback(c) ==
    /\ TaskAt(c, "cleanup")
    /\ DeleteChunks(c, task[c].graph)
    /\ Stage(c, "done")
    /\ UNCHANGED <<row, repo, exists, late, proc, left>>

TaskEnds(c) ==
    /\ TaskAt(c, "done")
    /\ task' = [task EXCEPT ![c] = NoTask]
    /\ UNCHANGED <<row, repo, exists, chunks, late, proc, left>>

(* A restart of dataprep forgets every task and calls nobody back. *)
DataprepCrash ==
    /\ Spend("dpcrash")
    /\ task' = [c \in Concepts |-> NoTask]
    /\ UNCHANGED <<row, repo, exists, chunks, late, proc>>

TaskStep(c) ==
    \/ EnsureGraph(c) \/ StoreChunks(c) \/ Callback(c) \/ Rollback(c) \/ TaskEnds(c)

DataprepNext ==
    \/ \E c \in Concepts : TaskStep(c) \/ TaskFails(c) \/ Kill(c) \/ CallbackLost(c) \/ CallbackLate(c)
    \/ \E cb \in late : DeliverLate(cb)
    \/ DataprepCrash
=============================================================================
