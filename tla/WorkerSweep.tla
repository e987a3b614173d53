---------------------------- MODULE WorkerSweep -----------------------------
(***************************************************************************)
(* The sweep of the worker process.  It reconciles armed repositories      *)
(* whose queue is empty (as the process does when it starts) and           *)
(* dead-letters stuck rows.  The reaper reads its victims in one query and *)
(* patches them one by one, comparing nothing; it leaves their claims.     *)
(***************************************************************************)
EXTENDS Settlement

Reconcile ==
    /\ At(Sweeper, "idle")
    /\ repo.armed
    /\ RowsIn("parsed") = {}
    /\ GoRefresh(Sweeper)
    /\ UNCHANGED <<row, repo, exists, chunks, task, late, left>>

Stuck(r) ==
    \/ r.claim # None /\ r.age = "expired"
    \/ r.attempts >= MaxClaims

ReapRead ==
    LET victims == {c \in RowsIn("parsed") : Stuck(row[c])}
    IN /\ At(Sweeper, "idle")
       /\ victims # {}
       /\ proc' = [proc EXCEPT ![Sweeper] = [Idle EXCEPT !.pc = "reap", !.list = victims]]
       /\ UNCHANGED <<row, repo, exists, chunks, task, late, left>>

NextVictim(c) ==
    LET rest == proc[Sweeper].list \ {c}
    IN IF rest = {} THEN Finish(Sweeper) ELSE proc' = [proc EXCEPT ![Sweeper].list = rest]

Reap(c) ==
    /\ At(Sweeper, "reap")
    /\ c \in proc[Sweeper].list
    /\ PatchRow(c, [row[c] EXCEPT !.status = "failed"])
    /\ NextVictim(c)
    /\ UNCHANGED <<repo, exists, chunks, task, late, left>>

ReapFails(c) ==
    /\ At(Sweeper, "reap")
    /\ c \in proc[Sweeper].list
    /\ Spend("dberr")
    /\ NextVictim(c)
    /\ UNCHANGED <<row, repo, exists, chunks, task, late>>

SweepStep == Reconcile \/ ReapRead \/ \E c \in Concepts : Reap(c)

SweepNext == SweepStep \/ \E c \in Concepts : ReapFails(c)
=============================================================================
