----------------------------- MODULE Settlement -----------------------------
(***************************************************************************)
(* The end of a drain: _refreshRagIngestion, which a finished job and the  *)
(* sweep's reconcile run, and _settleIngest, which it or an ingest request *)
(* enters once no row is parsed.  A settler takes a lease on the           *)
(* repository, promotes the graph to the version's serving name, flips the *)
(* serving flags (an unconditional update), drops the graph it superseded  *)
(* and writes the final record from counts it takes last.                  *)
(***************************************************************************)
EXTENDS DrainState

ParsedCount_Forgets == {c \in RowsIn("parsed") : row[c].claim = None}  \* mutant: claimed rows are not counted

ParsedCount == RowsIn("parsed")

(* The three counts; only whether any is parsed, or indexed, matters here. *)
Counts(p) ==
    /\ At(p, "counts")
    /\ proc' = [proc EXCEPT ![p].pc = IF ParsedCount # {} THEN "mark" ELSE "load",
                            ![p].done = RowsIn("indexed") # {}]
    /\ UNCHANGED <<row, repo, exists, chunks, task, late, left>>

(* The fused check and write of the progress record. *)
MarkAllowed_Always == TRUE   \* mutant: progress is written over a disarmed repository

MarkAllowed == repo.armed

Mark(p) ==
    /\ At(p, "mark")
    /\ repo' = IF MarkAllowed THEN [repo EXCEPT !.record = "draining", !.progress = proc[p].done]
                              ELSE repo
    /\ Finish(p)
    /\ UNCHANGED <<row, exists, chunks, task, late, left>>

(* The repository is loaded once: version, previous graph, and (flag)      *)
(* whether it counts as serving content for workingGraphName.              *)
Load(p) ==
    /\ At(p, "load")
    /\ IF repo.armed
       THEN proc' = [proc EXCEPT ![p].pc = "lease",
                                 ![p].graph = repo.version,
                                 ![p].prev = repo.servedGraph,
                                 ![p].flag = repo.served # 0 \/ repo.state = "publish"]
       ELSE Finish(p)
    /\ UNCHANGED <<row, repo, exists, chunks, task, late, left>>

LeaseOpen_IgnoresHolder == TRUE   \* mutant: the lease is taken over from a live settler

LeaseOpen_NeverExpires == repo.lease = None   \* mutant: a dead settler's lease stays

LeaseOpen == repo.lease = None \/ repo.leaseOld

TakeLease(p) ==
    /\ At(p, "lease")
    /\ IF repo.armed /\ LeaseOpen
       THEN /\ repo' = [repo EXCEPT !.lease = p, !.leaseOld = FALSE]
            /\ Goto(p, "promote")
       ELSE /\ UNCHANGED repo
            /\ Finish(p)
    /\ UNCHANGED <<row, exists, chunks, task, late, left>>

(***************************************************************************)
(* promoteGraph.  The graph to promote is the first candidate that exists: *)
(* the names the rows were drained into, the previous serving graph, the   *)
(* working name, the versioned name.                                       *)
(***************************************************************************)
Drained == {row[c].graph : c \in Concepts}

Working(p) == IF proc[p].flag THEN proc[p].graph ELSE proc[p].graph + 1

IsSource(p, g) ==
    /\ g \in exists
    /\ \/ g \in Drained /\ \A h \in Drained \cap exists : g <= h
       \/ /\ Drained \cap exists = {}
          /\ \/ g = proc[p].prev
             \/ proc[p].prev \notin exists /\ g = Working(p)
             \/ exists \cap {proc[p].prev, Working(p)} = {} /\ g = proc[p].graph

NoChunks == [c \in Concepts |-> 0]

DropGraphs(gs) ==
    /\ exists' = exists \ gs
    /\ chunks' = [g \in Graphs |-> IF g \in gs THEN NoChunks ELSE chunks[g]]

(* The collections move to the target name; a target of our own is dropped. *)
RenameGraph(from, to) ==
    /\ exists' = (exists \ {from}) \cup {to}
    /\ chunks' = [chunks EXCEPT ![to] = chunks[from], ![from] = NoChunks]

Conflict(p, from) ==
    from # proc[p].graph /\ proc[p].graph \in exists /\ proc[p].prev # proc[p].graph

RefreshMetaGraphNames(g) == row' = [c \in Concepts |-> [row[c] EXCEPT !.graph = g]]

Promote(p) ==
    /\ At(p, "promote")
    /\ \/ /\ \A g \in Graphs : ~IsSource(p, g)
          /\ UNCHANGED <<exists, chunks>>
          /\ RefreshMetaGraphNames(proc[p].graph)
          /\ Goto(p, "flip")
       \/ \E from \in exists :
            /\ IsSource(p, from)
            /\ IF Conflict(p, from)
               THEN UNCHANGED <<row, exists, chunks>> /\ Goto(p, "unlease")
               ELSE /\ IF from = proc[p].graph THEN UNCHANGED <<exists, chunks>>
                                               ELSE RenameGraph(from, proc[p].graph)
                    /\ RefreshMetaGraphNames(proc[p].graph)
                    /\ Goto(p, "flip")
    /\ UNCHANGED <<repo, task, late, left>>

(* The previous graph of an earlier version is dropped after the flip. *)
Superseded_Any(p) == proc[p].prev # 0   \* mutant: the graph just promoted counts as superseded

Superseded(p) == proc[p].prev \notin {0, proc[p].graph}

(* The flip is unconditional: it names neither the state nor the arm. *)
Flip(p) ==
    /\ At(p, "flip")
    /\ repo' = [repo EXCEPT !.state = "publish", !.served = proc[p].graph,
                            !.servedGraph = proc[p].graph, !.armed = FALSE,
                            !.lease = None, !.leaseOld = FALSE]
    /\ Goto(p, IF Superseded(p) THEN "gc" ELSE "tally")
    /\ UNCHANGED <<row, exists, chunks, task, late, left>>

Unlease(p) ==
    /\ At(p, "unlease")
    /\ repo' = [repo EXCEPT !.lease = None, !.leaseOld = FALSE]
    /\ Finish(p)
    /\ UNCHANGED <<row, exists, chunks, task, late, left>>

CollectGraph(p) ==
    /\ At(p, "gc")
    /\ DropGraphs({proc[p].prev})
    /\ Goto(p, "tally")
    /\ UNCHANGED <<row, repo, task, late, left>>

AllIndexed_ButFailed == RowsIn("parsed") = {}   \* mutant: failed concepts do not count

AllIndexed == RowsIn("parsed") \cup RowsIn("failed") = {}

(* The final counts: flag is whether every row was indexed. *)
Tally(p) ==
    /\ At(p, "tally")
    /\ proc' = [proc EXCEPT ![p].pc = "record",
                            ![p].flag = AllIndexed,
                            ![p].done = RowsIn("indexed") # {}]
    /\ UNCHANGED <<row, repo, exists, chunks, task, late, left>>

WriteRecord(p) ==
    /\ At(p, "record")
    /\ repo' = [repo EXCEPT !.record = IF proc[p].flag THEN "completed" ELSE "failed",
                            !.progress = proc[p].done]
    /\ Finish(p)
    /\ UNCHANGED <<row, exists, chunks, task, late, left>>

(* A settler that outlives OKF_SETTLE_LEASE_MS may be overtaken. *)
LeaseAges ==
    /\ LeaseExpires
    /\ repo.lease # None /\ ~repo.leaseOld
    /\ repo' = [repo EXCEPT !.leaseOld = TRUE]
    /\ UNCHANGED <<row, exists, chunks, task, late, proc, left>>

(* A failed promote or flip gives the lease back; the other writes are best effort. *)
SettleWriteFails(p) ==
    /\ Spend("dberr")
    /\ \/ proc[p].pc \in {"counts", "mark", "load", "lease", "unlease", "record", "tally"} /\ Finish(p)
       \/ proc[p].pc \in {"promote", "flip"} /\ Goto(p, "unlease")
       \/ At(p, "gc") /\ Goto(p, "tally")
    /\ UNCHANGED <<row, repo, exists, chunks, task, late>>

SettleStep(p) ==
    \/ Counts(p) \/ Mark(p) \/ Load(p) \/ TakeLease(p) \/ Promote(p) \/ Flip(p)
    \/ Unlease(p) \/ CollectGraph(p) \/ Tally(p) \/ WriteRecord(p)

SettlementNext ==
    \/ \E p \in Procs : SettleStep(p) \/ SettleWriteFails(p)
    \/ LeaseAges
=============================================================================
