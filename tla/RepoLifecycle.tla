--------------------------- MODULE RepoLifecycle ----------------------------
(***************************************************************************)
(* The lifecycle routes that touch the drain: ingest and re-ingest arm it, *)
(* retract tears it down, unpublish, submit, approve and publish lead to   *)
(* the next version.  A request loads the repository, checks its guards on *)
(* that copy and then writes step by step; nothing it writes is compared   *)
(* with what it read, and a request that throws stays where it got to.     *)
(***************************************************************************)
EXTENDS Settlement

(* A refresh is milliseconds long, a request is a person's: without Overlap *)
(* no request arrives inside one.                                          *)
Arrives(a) == At(a, "idle") /\ (Overlap \/ \A p \in Procs : proc[p].pc \notin SettlePCs)

Enter(a, e, pc, g) ==
    /\ Arrives(a)
    /\ Spend(e)
    /\ proc' = [proc EXCEPT ![a] = [Idle EXCEPT !.pc = pc, !.graph = g, !.good = (e = "ingest")]]
    /\ UNCHANGED <<row, repo, exists, chunks, task, late>>

(* buildingBlocker: an armed drain freezes every transition but retract. *)
Frozen_Never == FALSE   \* mutant: transitions are accepted during a drain

Frozen == repo.armed

Ingest(a) ==
    /\ repo.state = "publish" /\ ~Frozen
    /\ ~(repo.served # 0 /\ repo.served = repo.version)
    /\ Enter(a, "ingest", "arm_count", repo.version)

Reingest(a) ==
    /\ repo.served # 0 /\ ~repo.armed
    /\ Enter(a, "reingest", "requeue_failed", repo.version)

Retract(a) ==
    /\ repo.state = "publish"
    /\ repo.served # 0 \/ repo.armed
    /\ Enter(a, "retract", "drop", repo.version + 1)

Unpublish(a) ==
    /\ repo.state = "publish" /\ ~Frozen
    /\ Enter(a, "unpublish", "unpublish", repo.version)

(* Content that differs from the version's fingerprint is minted; the same *)
(* content only completes a version whose bundle was never listed.         *)
Publish(a) ==
    /\ repo.state \in {"approve", "publish"} /\ ~Frozen
    /\ repo.served = 0
    /\ \/ repo.version < MaxVersion /\ Enter(a, "publish", "mint", repo.version)
       \/ ~repo.bundled /\ Enter(a, "publish", "publish_write", repo.version)

(* submit and approve are bounded by the publish they lead to. *)
SignOff(a) ==
    /\ Arrives(a) /\ ~Frozen
    /\ \/ repo.state = "retracted" /\ Goto(a, "submit")
       \/ repo.state = "review" /\ Goto(a, "approve")
    /\ UNCHANGED <<row, repo, exists, chunks, task, late, left>>

-----------------------------------------------------------------------------
(***************************************************************************)
(* armRagDrain, and the requeue of failed rows that precedes it.           *)
(***************************************************************************)
RequeueFailed(a) ==
    /\ At(a, "requeue_failed")
    /\ \E victims \in {RowsIn("failed")} \cup {{c} \cap RowsIn("failed") : c \in Concepts} :
         /\ row' = [c \in Concepts |-> IF c \in victims THEN Requeued(row[c], row[c].graph) ELSE row[c]]
         /\ IF victims = {} THEN Finish(a) ELSE Goto(a, "arm_count")
    /\ UNCHANGED <<repo, exists, chunks, task, late, left>>

ArmCount(a) ==
    /\ At(a, "arm_count")
    /\ proc' = [proc EXCEPT ![a].pc = "arm_stamp",
                            ![a].flag = RowsIn("parsed") = {},
                            ![a].done = RowsIn("indexed") # {}]
    /\ UNCHANGED <<row, repo, exists, chunks, task, late, left>>

ArmStamp(a) ==
    /\ At(a, "arm_stamp")
    /\ RefreshMetaGraphNames(proc[a].graph)
    /\ Goto(a, "arm_write")
    /\ UNCHANGED <<repo, exists, chunks, task, late, left>>

(* An ingest with nothing pending settles at once, on a fresh copy. *)
ArmWrite(a) ==
    /\ At(a, "arm_write")
    /\ repo' = [repo EXCEPT !.armed = TRUE,
                            !.record = IF proc[a].flag THEN "completed" ELSE "draining",
                            !.progress = proc[a].done]
    /\ IF proc[a].good /\ proc[a].flag
       THEN proc' = [proc EXCEPT ![a] = [Idle EXCEPT !.pc = "load"]]
       ELSE Finish(a)
    /\ UNCHANGED <<row, exists, chunks, task, late, left>>

-----------------------------------------------------------------------------
(***************************************************************************)
(* Retract.  The teardown drops the serving graph and the working graph;   *)
(* its sweep for other graphs of the repository collects collection names  *)
(* and appends the collection suffixes to them again, so it drops nothing. *)
(***************************************************************************)
WorkingNow == IF repo.served # 0 \/ repo.state = "publish" THEN repo.version ELSE repo.version + 1

Drop(a) ==
    /\ At(a, "drop")
    /\ DropGraphs({repo.servedGraph, WorkingNow})
    /\ Goto(a, "requeue")
    /\ UNCHANGED <<row, repo, task, late, left>>

RequeueAll(g) == row' = [c \in Concepts |-> Requeued(row[c], g)]

Requeue(a) ==
    /\ At(a, "requeue")
    /\ RequeueAll(proc[a].graph)
    /\ Goto(a, "disarm")
    /\ UNCHANGED <<repo, exists, chunks, task, late, left>>

(* The update leaves settle_claimed_at as it is. *)
Disarm(a) ==
    /\ At(a, "disarm")
    /\ repo' = [repo EXCEPT !.state = "retracted", !.served = 0, !.servedGraph = 0,
                            !.armed = FALSE, !.record = "cancelled", !.progress = FALSE]
    /\ Finish(a)
    /\ UNCHANGED <<row, exists, chunks, task, late, left>>

-----------------------------------------------------------------------------
(***************************************************************************)
(* The other transitions.                                                  *)
(***************************************************************************)
UnpublishWrite(a) ==
    /\ At(a, "unpublish")
    /\ repo' = [repo EXCEPT !.state = "review", !.served = 0]
    /\ Finish(a)
    /\ UNCHANGED <<row, exists, chunks, task, late, left>>

SignOffWrite(a) ==
    /\ proc[a].pc \in {"submit", "approve"}
    /\ repo' = [repo EXCEPT !.state = IF At(a, "submit") THEN "review" ELSE "approve"]
    /\ Finish(a)
    /\ UNCHANGED <<row, exists, chunks, task, late, left>>

(* mintVersion reads the repository again and refuses an armed one. *)
Mint(a) ==
    /\ At(a, "mint")
    /\ IF repo.armed \/ repo.version = MaxVersion
       THEN UNCHANGED repo /\ Finish(a)
       ELSE /\ repo' = [repo EXCEPT !.version = @ + 1, !.bundled = FALSE]
            /\ proc' = [proc EXCEPT ![a].pc = "publish_write", ![a].graph = repo.version + 1]
    /\ UNCHANGED <<row, exists, chunks, task, late, left>>

PublishWrite(a) ==
    /\ At(a, "publish_write")
    /\ repo' = [repo EXCEPT !.state = "publish", !.served = 0, !.armed = FALSE, !.bundled = TRUE]
    /\ Goto(a, "publish_requeue")
    /\ UNCHANGED <<row, exists, chunks, task, late, left>>

PublishRequeue(a) ==
    /\ At(a, "publish_requeue")
    /\ RequeueAll(proc[a].graph)
    /\ Finish(a)
    /\ UNCHANGED <<repo, exists, chunks, task, late, left>>

(* A request throws where it stands, except that a drop that fails is only logged. *)
RequestFails(a) ==
    /\ Spend("dberr")
    /\ \/ proc[a].pc \in AdminPCs \ {"drop"} /\ Finish(a)
       \/ At(a, "drop") /\ Goto(a, "requeue")
    /\ UNCHANGED <<row, repo, exists, chunks, task, late>>

Request(a) ==
    \/ Ingest(a) \/ Reingest(a) \/ Retract(a) \/ Unpublish(a) \/ Publish(a) \/ SignOff(a)

RequestStep(a) ==
    \/ RequeueFailed(a) \/ ArmCount(a) \/ ArmStamp(a) \/ ArmWrite(a)
    \/ Drop(a) \/ Requeue(a) \/ Disarm(a)
    \/ UnpublishWrite(a) \/ SignOffWrite(a) \/ Mint(a) \/ PublishWrite(a) \/ PublishRequeue(a)

LifecycleNext == \E a \in Admins : Request(a) \/ RequestStep(a) \/ RequestFails(a)
=============================================================================
