-------------------------- MODULE DrainTypes_proofs --------------------------
(***************************************************************************)
(* The ingest drain keeps its types: whatever the interleaving of cycles,  *)
(* settlers, requests, tasks and faults, every row, task and snapshot is   *)
(* one the code could write, and every graph a step names is a graph of    *)
(* the repository.  The lemmas come first: what each helper returns, and   *)
(* what each kind of step does to the variable it writes.                  *)
(***************************************************************************)
EXTENDS IngestDrain, TLAPS

(* The parts of the type invariant, one for each variable. *)
RowOK  == row \in [Concepts -> RowType]
TaskOK == task \in [Concepts -> TaskType] /\ \A c \in Concepts : Live(c) => task[c].graph \in Graphs
ProcOK == proc \in [Procs -> ProcType] /\ \A p \in Procs : Snapshot(proc[p])
StoreOK == exists \in SUBSET Graphs /\ chunks \in [Graphs -> [Concepts -> 0 .. 2]]
RestOK == late \in SUBSET (Concepts \X {"indexed", "failed"}) /\ left \in [Events -> Nat]

(* The type invariant is its parts. *)
LEMMA TypeParts ==
    /\ TypeInvariant <=> RowOK /\ repo \in RepoType /\ TaskOK /\ ProcOK /\ StoreOK /\ RestOK
    /\ TypeInvariant' <=> RowOK' /\ repo' \in RepoType /\ TaskOK' /\ ProcOK' /\ StoreOK' /\ RestOK'
BY DEF TypeInvariant, TypeOK, SnapshotOK, RowOK, TaskOK, ProcOK, StoreOK, RestOK

(* A part whose variable a step leaves alone stays. *)
LEMMA PartsStay ==
    /\ RowOK /\ UNCHANGED row => RowOK'
    /\ TaskOK /\ UNCHANGED task => TaskOK'
    /\ ProcOK /\ UNCHANGED proc => ProcOK'
    /\ StoreOK /\ UNCHANGED <<exists, chunks>> => StoreOK'
    /\ RestOK /\ UNCHANGED <<late, left>> => RestOK'
BY DEF RowOK, TaskOK, ProcOK, StoreOK, RestOK, Live

-----------------------------------------------------------------------------
(***************************************************************************)
(* Rows.                                                                   *)
(***************************************************************************)

(* Every patch of a row is a row. *)
LEMMA PatchTypes ==
    ASSUME NEW r \in RowType
    PROVE  /\ Released(r) \in RowType
           /\ Deferred(r) \in RowType
           /\ Unclaimed(r) \in RowType
           /\ Reset(r) \in RowType
           /\ \A k \in Procs : Stamped(r, k) \in RowType
           /\ \A g \in Graphs : Requeued(r, g) \in RowType
           /\ \A s : Verdict(r, s) \in RowType
           /\ \A b : ReleasePatch(r, b) \in RowType
<1>1. r.attempts \in Nat
  BY DEF RowType
<1>2. Released(r) \in RowType /\ Deferred(r) \in RowType /\ Reset(r) \in RowType
  BY DEF RowType, Released, Deferred, Reset
<1>3. Unclaimed(r) \in RowType
  <2> DEFINE n == IF Released(r).attempts > 0 THEN Released(r).attempts - 1 ELSE 0
  <2>1. Released(r).attempts \in Nat
    BY <1>1 DEF Released, RowType
  <2>2. n \in Nat
    BY <2>1
  <2>3. Unclaimed(r) = [Released(r) EXCEPT !.attempts = n]
    BY DEF Unclaimed
  <2> HIDE DEF n
  <2> QED BY <1>2, <2>2, <2>3 DEF RowType
<1>4. \A k \in Procs : Stamped(r, k) \in RowType
  <2> DEFINE n == r.attempts + 1
  <2>1. n \in Nat
    BY <1>1
  <2> HIDE DEF n
  <2> SUFFICES ASSUME NEW k \in Procs
               PROVE  [r EXCEPT !.claim = k, !.age = "fresh", !.attempts = n] \in RowType
    BY DEF Stamped, n
  <2> QED BY <2>1 DEF RowType
<1>5. \A g \in Graphs : Requeued(r, g) \in RowType
  BY DEF RowType, Requeued
<1>6. \A s : Verdict(r, s) \in RowType
  BY DEF RowType, Verdict
<1>7. \A b : ReleasePatch(r, b) \in RowType
  BY <1>2 DEF ReleasePatch
<1> QED BY <1>2, <1>3, <1>4, <1>5, <1>6, <1>7

(* So are the patches of an aborted kick and of a heal. *)
LEMMA AbortTypes ==
    ASSUME NEW r \in RowType
    PROVE  /\ [Released(r) EXCEPT !.park = IF Backoff THEN "held" ELSE "none"] \in RowType
           /\ [Released(r) EXCEPT !.status = "parsed", !.retry = TRUE] \in RowType
BY DEF RowType, Released

(* Patching one row with a row keeps the rows. *)
LEMMA PatchKeepsRows ==
    ASSUME RowOK, NEW c \in Concepts, NEW r \in RowType, PatchRow(c, r)
    PROVE  RowOK'
BY DEF RowOK, PatchRow

-----------------------------------------------------------------------------
(***************************************************************************)
(* Tasks, chunks, budgets.                                                 *)
(***************************************************************************)
Stages == {"none", "running", "ensured", "stored", "failing", "cleanup", "killed", "done"}

(* Moving a live task to another stage, and starting one, keeps the tasks. *)
LEMMA StageKeepsTasks ==
    ASSUME TaskOK, NEW c \in Concepts, Live(c), NEW s \in Stages, Stage(c, s)
    PROVE  TaskOK'
BY DEF TaskOK, Live, Stage, Stages, TaskType

LEMMA StartKeepsTasks ==
    ASSUME TaskOK, NEW c \in Concepts, NEW g \in Graphs, StartTask(c, g)
    PROVE  TaskOK'
BY DEF TaskOK, Live, StartTask, TaskType

(* Deleting or appending chunks keeps the counts between 0 and 2. *)
LEMMA ChunkSteps ==
    ASSUME StoreOK, NEW c \in Concepts, NEW g \in Graphs, UNCHANGED exists,
           DeleteChunks(c, g) \/ Append(c, g)
    PROVE  StoreOK'
<1>1. chunks[g] \in [Concepts -> 0 .. 2] /\ chunks[g][c] \in 0 .. 2
  BY DEF StoreOK
<1>2. CASE DeleteChunks(c, g)
  BY <1>1, <1>2 DEF StoreOK, DeleteChunks
<1>3. CASE Append(c, g)
  <2> DEFINE n == IF chunks[g][c] < 2 THEN chunks[g][c] + 1 ELSE 2
  <2>1. n \in 0 .. 2
    BY <1>1
  <2>2. chunks' = [chunks EXCEPT ![g][c] = n]
    BY <1>3 DEF Append
  <2> QED BY <1>1, <2>1, <2>2 DEF StoreOK
<1> QED BY <1>2, <1>3

(* Dropping or renaming graphs keeps the stores. *)
LEMMA DropKeepsStores ==
    ASSUME StoreOK, NEW gs, DropGraphs(gs)
    PROVE  StoreOK'
BY DEF StoreOK, DropGraphs, NoChunks

LEMMA RenameKeepsStores ==
    ASSUME StoreOK, NEW from \in Graphs, NEW to \in Graphs, RenameGraph(from, to)
    PROVE  StoreOK'
<1>1. exists' \in SUBSET Graphs
  BY DEF StoreOK, RenameGraph
<1>2. chunks[from] \in [Concepts -> 0 .. 2] /\ NoChunks \in [Concepts -> 0 .. 2]
  BY DEF StoreOK, NoChunks
<1>3. chunks' \in [Graphs -> [Concepts -> 0 .. 2]]
  BY <1>2 DEF StoreOK, RenameGraph
<1> QED BY <1>1, <1>3 DEF StoreOK

(* An event is spent from its budget, which never goes below zero. *)
LEMMA SpendKeepsBudgets ==
    ASSUME RestOK, NEW e \in Events, Spend(e)
    PROVE  left' \in [Events -> Nat]
BY DEF RestOK, Spend

-----------------------------------------------------------------------------
(***************************************************************************)
(* Processes.                                                              *)
(***************************************************************************)

(* A process that takes a snapshot in order keeps the processes. *)
LEMMA SetProc ==
    ASSUME ProcOK, NEW p \in Procs, NEW j \in ProcType, Snapshot(j),
           proc' = [proc EXCEPT ![p] = j]
    PROVE  ProcOK'
BY DEF ProcOK

(* The idle process, and one about to refresh, have nothing to remember. *)
LEMMA Finishes ==
    ASSUME ProcOK, NEW p \in Procs, Finish(p) \/ GoRefresh(p)
    PROVE  ProcOK'
<1> DEFINE j == [Idle EXCEPT !.pc = "counts"]
<1>1. Idle \in ProcType /\ j \in ProcType
  BY DEF Idle, ProcType, PCs, SettlePCs
<1>2. Snapshot(Idle) /\ Snapshot(j)
  BY DEF Idle, Snapshot, CyclePCs, CarriesVersion, SettlePCs, AdminPCs
<1> QED BY <1>1, <1>2, SetProc DEF Finish, GoRefresh

(* Inside a cycle the snapshot goes along, with whatever flag. *)
LEMMA CycleMoves ==
    ASSUME ProcOK, NEW p \in Procs, proc[p].pc \in CyclePCs,
           NEW pc \in CyclePCs, NEW b \in BOOLEAN,
           \/ Goto(p, pc)
           \/ proc' = [proc EXCEPT ![p].pc = pc, ![p].flag = b]
    PROVE  ProcOK'
<1> DEFINE j == [proc[p] EXCEPT !.pc = pc]
           f == [proc[p] EXCEPT !.pc = pc, !.flag = b]
<1>1. proc[p] \in ProcType /\ proc[p].c \in Concepts /\ proc[p].graph \in Graphs
  BY DEF ProcOK, Snapshot
<1>2. pc \in PCs
  BY DEF PCs
<1>3. j \in ProcType /\ f \in ProcType
  BY <1>1, <1>2 DEF ProcType
<1>4. pc \notin CarriesVersion \cup {"drop", "requeue", "disarm"}
  BY DEF CyclePCs, CarriesVersion, SettlePCs, AdminPCs
<1>5. Snapshot(j) /\ Snapshot(f)
  BY <1>1, <1>4 DEF Snapshot, ProcType
<1> QED BY <1>3, <1>5, SetProc DEF Goto, ProcOK

(* From one step that carries a version to another it goes along too. *)
LEMMA VersionMoves ==
    ASSUME ProcOK, NEW p \in Procs, proc[p].pc \in CarriesVersion,
           NEW pc \in CarriesVersion, Goto(p, pc)
    PROVE  ProcOK'
<1> DEFINE j == [proc[p] EXCEPT !.pc = pc]
<1>1. proc[p] \in ProcType /\ proc[p].graph \in Versions
  BY DEF ProcOK, Snapshot
<1>2. pc \in PCs
  BY DEF PCs, CarriesVersion
<1>3. pc \notin CyclePCs \cup {"drop", "requeue", "disarm"}
  BY DEF CyclePCs, CarriesVersion, SettlePCs, AdminPCs
<1>4. j \in ProcType /\ Snapshot(j)
  BY <1>1, <1>2, <1>3 DEF ProcType, Snapshot
<1> QED BY <1>4, SetProc DEF Goto, ProcOK

(* A claim hands the cycle a snapshot of a row. *)
LEMMA ClaimHands ==
    ASSUME ProcOK, NEW k \in Procs, NEW c \in Concepts, row[c] \in RowType,
           NEW pc \in CyclePCs, proc' = [proc EXCEPT ![k] = [Job(c) EXCEPT !.pc = pc]]
    PROVE  ProcOK'
<1> DEFINE j == [Job(c) EXCEPT !.pc = pc]
<1>1. /\ row[c].claim \in Procs \cup {None} /\ row[c].graph \in Graphs
      /\ row[c].good \in BOOLEAN /\ row[c].retry \in BOOLEAN
  BY DEF RowType
<1>2. j \in ProcType
  BY <1>1, ZenonT(60) DEF ProcType, Job, Idle, PCs
<1>3. pc \notin CarriesVersion \cup {"drop", "requeue", "disarm"}
  BY DEF CyclePCs, CarriesVersion, SettlePCs, AdminPCs
<1>4. j.c = c /\ j.graph = row[c].graph /\ j.pc = pc
  BY DEF Job, Idle
<1>5. Snapshot(j)
  BY <1>1, <1>3, <1>4 DEF Snapshot
<1> QED BY <1>2, <1>5, SetProc

(* What a cycle that holds a job works on. *)
LEMMA Holding ==
    ASSUME TypeInvariant, NEW k \in Cycles, proc[k].pc \in CyclePCs
    PROVE  /\ k \in Procs /\ RowOK /\ ProcOK
           /\ proc[k].c \in Concepts /\ proc[k].graph \in Graphs
           /\ row[proc[k].c] \in RowType
BY DEF TypeInvariant, TypeOK, SnapshotOK, Snapshot, Procs, RowOK, ProcOK
-----------------------------------------------------------------------------
(***************************************************************************)
(* Actions.  A step keeps the parts it writes, by the lemmas above, and    *)
(* leaves the others alone.                                                *)
(***************************************************************************)

(* A claim, and every step of a cycle that holds a job. *)
LEMMA CycleTypes ==
    ASSUME TypeInvariant, NEW k \in Cycles, CycleStep(k)
    PROVE  TypeInvariant'
<1> USE DEF At
<1>1. CASE Stamp(k)
  <2>1. RowOK'
    BY <1>1, Holding, PatchTypes, PatchKeepsRows, PartsStay DEF Stamp, CyclePCs
  <2>2. ProcOK'
    BY <1>1, Holding, CycleMoves, Finishes DEF Stamp, CyclePCs
  <2> QED BY <1>1, <2>1, <2>2, TypeParts, PartsStay DEF Stamp
<1>2. CASE ReadProgress(k)
  <2>1. ProcOK'
    BY <1>2, Holding, CycleMoves, TypeParts DEF ReadProgress, CyclePCs, RepoType
  <2> QED BY <1>2, <2>1, TypeParts, PartsStay DEF ReadProgress
<1>3. CASE CheckGraph(k)
  <2> DEFINE missing == proc[k].graph \notin exists
             job == [proc[k] EXCEPT !.flag = missing]
             pc == IF job.flag /\ proc[k].flag THEN "reset_record" ELSE AfterPreflight(job)
  <2>1. pc \in CyclePCs
    BY DEF AfterPreflight, CyclePCs
  <2>2. proc[k].pc \in CyclePCs
    BY <1>3 DEF CheckGraph, CyclePCs
  <2>3. proc' = [proc EXCEPT ![k] = [job EXCEPT !.pc = pc]]
    BY <1>3 DEF CheckGraph
  <2> HIDE DEF pc
  <2>4. proc' = [proc EXCEPT ![k].pc = pc, ![k].flag = missing]
    BY <2>2, <2>3, Holding DEF ProcOK, ProcType
  <2>5. ProcOK'
    BY <2>1, <2>2, <2>4, Holding, CycleMoves
  <2> QED BY <1>3, <2>5, TypeParts, PartsStay DEF CheckGraph
<1>4. CASE ResetRecord(k)
  <2>1. ProcOK'
    BY <1>4, Holding, CycleMoves DEF ResetRecord, CyclePCs
  <2>2. repo' \in RepoType
    BY <1>4, TypeParts DEF ResetRecord, RepoType
  <2> QED BY <1>4, <2>1, <2>2, TypeParts, PartsStay DEF ResetRecord
<1>5. CASE ResetRows(k)
  <2>1. RowOK'
    BY <1>5, Holding, PatchTypes DEF ResetRows, RowOK, CyclePCs
  <2>2. ProcOK'
    BY <1>5, Holding, CycleMoves DEF ResetRows, CyclePCs, AfterPreflight
  <2> QED BY <1>5, <2>1, <2>2, TypeParts, PartsStay DEF ResetRows
<1>6. CASE ProbePark(k)
  <2>1. ProcOK'
    BY <1>6, Holding, CycleMoves DEF ProbePark, CyclePCs, AfterParkProbe
  <2> QED BY <1>6, <2>1, TypeParts, PartsStay DEF ProbePark
<1>7. CASE ProbeStale(k)
  <2>1. ProcOK'
    BY <1>7, Holding, CycleMoves DEF ProbeStale, CyclePCs, StaleVerdict
  <2> QED BY <1>7, <2>1, TypeParts, PartsStay DEF ProbeStale
<1>8. CASE Defer(k)
  <2>1. RowOK'
    BY <1>8, Holding, PatchTypes, PatchKeepsRows DEF Defer, CyclePCs
  <2>2. ProcOK'
    BY <1>8, Holding, Finishes DEF Defer, CyclePCs
  <2> QED BY <1>8, <2>1, <2>2, TypeParts, PartsStay DEF Defer
<1>9. CASE RetractFile(k)
  <2>1. StoreOK'
    BY <1>9, Holding, ChunkSteps, TypeParts DEF RetractFile, CyclePCs
  <2>2. ProcOK'
    BY <1>9, Holding, CycleMoves DEF RetractFile, CyclePCs
  <2> QED BY <1>9, <2>1, <2>2, TypeParts, PartsStay DEF RetractFile
<1>10. CASE Post(k)
  <2>1. TaskOK'
    BY <1>10, Holding, StartKeepsTasks, PartsStay, TypeParts DEF Post, CyclePCs
  <2>2. ProcOK'
    BY <1>10, Holding, CycleMoves DEF Post, CyclePCs, GoRelease
  <2> QED BY <1>10, <2>1, <2>2, TypeParts, PartsStay DEF Post
<1>11. CASE Unclaim(k)
  <2>1. RowOK'
    BY <1>11, Holding, PatchTypes, PatchKeepsRows DEF Unclaim, CyclePCs, PatchRow, RowOK
  <2>2. ProcOK'
    BY <1>11, Holding, Finishes DEF Unclaim, CyclePCs
  <2> QED BY <1>11, <2>1, <2>2, TypeParts, PartsStay DEF Unclaim
<1>12. CASE Release(k)
  <2>1. RowOK'
    BY <1>12, Holding, PatchTypes, PatchKeepsRows DEF Release, CyclePCs
  <2>2. ProcOK'
    BY <1>12, Holding, Finishes DEF Release, CyclePCs
  <2> QED BY <1>12, <2>1, <2>2, TypeParts, PartsStay DEF Release
<1>13. CASE Abort(k)
  <2>1. RowOK'
    BY <1>13, Holding, AbortTypes, PatchKeepsRows DEF Abort, CyclePCs
  <2>2. ProcOK'
    BY <1>13, Holding, Finishes DEF Abort, CyclePCs
  <2> QED BY <1>13, <2>1, <2>2, TypeParts, PartsStay DEF Abort
<1>14. CASE SeeVerdict(k)
  <2>1. ProcOK'
    BY <1>14, Holding, CycleMoves, Finishes DEF SeeVerdict, CyclePCs
  <2> QED BY <1>14, <2>1, TypeParts, PartsStay DEF SeeVerdict
<1>15. CASE Timeout(k)
  <2>1. ProcOK'
    BY <1>15, Holding, CycleMoves DEF Timeout, CyclePCs
  <2> QED BY <1>15, <2>1, TypeParts, PartsStay DEF Timeout
<1>16. CASE Recheck(k)
  <2>1. ProcOK'
    BY <1>16, Holding, CycleMoves, Finishes DEF Recheck, CyclePCs
  <2> QED BY <1>16, <2>1, TypeParts, PartsStay DEF Recheck
<1>17. CASE ProbeTimeout(k)
  <2>1. ProcOK'
    BY <1>17, Holding, CycleMoves DEF ProbeTimeout, CyclePCs
  <2> QED BY <1>17, <2>1, TypeParts, PartsStay DEF ProbeTimeout
<1>18. CASE TimeoutRelease(k)
  <2>1. RowOK'
    BY <1>18, Holding, PatchTypes, PatchKeepsRows DEF TimeoutRelease, CyclePCs
  <2>2. ProcOK'
    BY <1>18, Holding, Finishes DEF TimeoutRelease, CyclePCs
  <2> QED BY <1>18, <2>1, <2>2, TypeParts, PartsStay DEF TimeoutRelease
<1>19. CASE Heal(k)
  <2>1. RowOK'
    BY <1>19, Holding, AbortTypes, PatchKeepsRows DEF Heal, CyclePCs
  <2>2. ProcOK'
    BY <1>19, Holding, Finishes DEF Heal, CyclePCs
  <2> QED BY <1>19, <2>1, <2>2, TypeParts, PartsStay DEF Heal
<1> QED BY <1>1, <1>2, <1>3, <1>4, <1>5, <1>6, <1>7, <1>8, <1>9, <1>10, <1>11, <1>12, <1>13, <1>14, <1>15, <1>16, <1>17, <1>18, <1>19 DEF CycleStep

(* Taking a job, and the failures a cycle meets. *)
LEMMA CycleFaultTypes ==
    ASSUME TypeInvariant, NEW k \in Cycles, Claim(k) \/ StampAckLost(k) \/ HttpFails(k) \/ CycleStoreFails(k)
    PROVE  TypeInvariant'
<1> USE DEF At
<1>1. ASSUME NEW c \in Concepts, ClaimRead(k, c) \/ ClaimFair(k, c)
     PROVE  TypeInvariant'
  <2>1. row[c] \in RowType /\ k \in Procs
    BY TypeParts DEF RowOK, Procs
  <2>2. RowOK'
    BY <1>1, <2>1, PatchTypes, PatchKeepsRows, PartsStay, TypeParts DEF ClaimRead, ClaimFair
  <2>3. ProcOK'
    BY <1>1, <2>1, ClaimHands, TypeParts DEF ClaimRead, ClaimFair, CyclePCs
  <2> QED BY <1>1, <2>2, <2>3, TypeParts, PartsStay DEF ClaimRead, ClaimFair
<1>2. CASE StampAckLost(k)
  <2>1. RowOK'
    BY <1>2, Holding, PatchTypes, PatchKeepsRows DEF StampAckLost, CyclePCs
  <2>2. ProcOK'
    BY <1>2, Holding, Finishes DEF StampAckLost, CyclePCs
  <2>3. RestOK'
    BY <1>2, TypeParts, SpendKeepsBudgets DEF StampAckLost, RestOK, Events
  <2> QED BY <1>2, <2>1, <2>2, <2>3, TypeParts, PartsStay DEF StampAckLost
<1>3. CASE HttpFails(k)
  <2>1. TaskOK'
    BY <1>3, Holding, StartKeepsTasks, PartsStay, TypeParts DEF HttpFails, CyclePCs
  <2>2. ProcOK'
    BY <1>3, Holding, CycleMoves, SwitchAssumption DEF HttpFails, CyclePCs, AfterParkProbe, GoRelease
  <2>3. RestOK'
    BY <1>3, TypeParts, SpendKeepsBudgets DEF HttpFails, RestOK, Events
  <2>4. StoreOK'
    BY <1>3, Holding, ChunkSteps, PartsStay, TypeParts DEF HttpFails, CyclePCs
  <2> QED BY <1>3, <2>1, <2>2, <2>3, <2>4, TypeParts, PartsStay DEF HttpFails
<1>4. CASE CycleStoreFails(k)
  <2>1. ProcOK'
    BY <1>4, Holding, CycleMoves, Finishes DEF CycleStoreFails, AfterPreflight, CyclePCs
  <2>2. RestOK'
    BY <1>4, TypeParts, SpendKeepsBudgets DEF CycleStoreFails, RestOK, Events
  <2> QED BY <1>4, <2>1, <2>2, TypeParts, PartsStay DEF CycleStoreFails
<1> QED BY <1>1, <1>2, <1>3, <1>4 DEF Claim

(* What a task works on. *)
LEMMA Running ==
    ASSUME TypeInvariant, NEW c \in Concepts, task[c].stage # "none"
    PROVE  TaskOK /\ StoreOK /\ Live(c) /\ task[c].graph \in Graphs
BY TypeParts DEF TaskOK, Live

(* The steps of a task. *)
LEMMA TaskTypes ==
    ASSUME TypeInvariant, NEW c \in Concepts, TaskStep(c) \/ TaskFails(c) \/ Kill(c) \/ CallbackLost(c) \/ CallbackLate(c)
    PROVE  TypeInvariant'
<1> USE DEF TaskAt
<1>1. CASE EnsureGraph(c)
  <2>1. TaskOK'
    BY <1>1, Running, StageKeepsTasks, TypeParts DEF EnsureGraph, Stages
  <2>2. StoreOK'
    BY <1>1, Running, TypeParts DEF EnsureGraph, StoreOK
  <2> QED BY <1>1, <2>1, <2>2, TypeParts, PartsStay DEF EnsureGraph
<1>2. CASE StoreChunks(c)
  <2>1. TaskOK'
    BY <1>2, Running, StageKeepsTasks, TypeParts DEF StoreChunks, Stages
  <2>2. StoreOK'
    BY <1>2, Running, ChunkSteps, PartsStay, TypeParts DEF StoreChunks
  <2> QED BY <1>2, <2>1, <2>2, TypeParts, PartsStay DEF StoreChunks
<1>3. CASE Callback(c)
  <2>1. TaskOK'
    BY <1>3, Running, StageKeepsTasks, TypeParts DEF Callback, Stages, Reporting, AfterCallback
  <2>2. RowOK'
    BY <1>3, Running, PatchTypes, PatchKeepsRows, TypeParts DEF Callback, Reporting, RowOK
  <2> QED BY <1>3, <2>1, <2>2, TypeParts, PartsStay DEF Callback
<1>4. CASE Rollback(c)
  <2>1. TaskOK'
    BY <1>4, Running, StageKeepsTasks, TypeParts DEF Rollback, Stages
  <2>2. StoreOK'
    BY <1>4, Running, ChunkSteps, TypeParts DEF Rollback
  <2> QED BY <1>4, <2>1, <2>2, TypeParts, PartsStay DEF Rollback
<1>5. CASE TaskEnds(c)
  <2>1. TaskOK'
    BY <1>5, TypeParts DEF TaskEnds, TaskOK, TaskType, NoTask, Live
  <2> QED BY <1>5, <2>1, TypeParts, PartsStay DEF TaskEnds
<1>6. CASE TaskFails(c)
  <2>1. TaskOK'
    BY <1>6, Running, StageKeepsTasks, TypeParts DEF TaskFails, Stages
  <2>2. StoreOK'
    BY <1>6, Running, ChunkSteps, PartsStay, TypeParts DEF TaskFails
  <2>3. RestOK'
    BY <1>6, TypeParts, SpendKeepsBudgets DEF TaskFails, RestOK, Events
  <2> QED BY <1>6, <2>1, <2>2, <2>3, TypeParts, PartsStay DEF TaskFails
<1>7. CASE Kill(c)
  <2>1. TaskOK'
    BY <1>7, Running, StageKeepsTasks, TypeParts DEF Kill, Stages
  <2>2. StoreOK'
    BY <1>7, Running, ChunkSteps, PartsStay, TypeParts DEF Kill
  <2>3. RestOK'
    BY <1>7, TypeParts, SpendKeepsBudgets DEF Kill, RestOK, Events
  <2> QED BY <1>7, <2>1, <2>2, <2>3, TypeParts, PartsStay DEF Kill
<1>8. CASE CallbackLost(c)
  <2>1. TaskOK'
    BY <1>8, Running, StageKeepsTasks, TypeParts DEF CallbackLost, Stages, Reporting, AfterCallback
  <2>2. RestOK'
    BY <1>8, TypeParts, SpendKeepsBudgets DEF CallbackLost, RestOK, Events
  <2> QED BY <1>8, <2>1, <2>2, TypeParts, PartsStay DEF CallbackLost
<1>9. CASE CallbackLate(c)
  <2>1. TaskOK'
    BY <1>9, Running, StageKeepsTasks, PartsStay, TypeParts DEF CallbackLate, Stages, Reporting, AfterCallback
  <2>2. RestOK'
    BY <1>9, TypeParts, SpendKeepsBudgets DEF CallbackLate, RestOK, Events, VerdictOf
  <2> QED BY <1>9, <2>1, <2>2, TypeParts, PartsStay DEF CallbackLate
<1> QED BY <1>1, <1>2, <1>3, <1>4, <1>5, <1>6, <1>7, <1>8, <1>9 DEF TaskStep

(* A callback that arrives late, and a restart of dataprep. *)
LEMMA DataprepTypes ==
    ASSUME TypeInvariant, DataprepNext
    PROVE  TypeInvariant'
<1>1. ASSUME NEW cb \in late, DeliverLate(cb)
      PROVE  TypeInvariant'
  <2>1. cb[1] \in Concepts /\ row[cb[1]] \in RowType
    BY TypeParts DEF RestOK, RowOK
  <2>2. RowOK'
    BY <1>1, <2>1, PatchTypes, PatchKeepsRows, TypeParts DEF DeliverLate
  <2>3. RestOK'
    BY <1>1, TypeParts DEF DeliverLate, RestOK
  <2> QED BY <1>1, <2>2, <2>3, TypeParts, PartsStay DEF DeliverLate
<1>2. CASE DataprepCrash
  <2>1. TaskOK'
    BY <1>2, TypeParts DEF DataprepCrash, TaskOK, NoTask, TaskType, Live
  <2>2. RestOK'
    BY <1>2, TypeParts, SpendKeepsBudgets DEF DataprepCrash, RestOK, Events
  <2> QED BY <1>2, <2>1, <2>2, TypeParts, PartsStay DEF DataprepCrash
<1> QED BY <1>1, <1>2, TaskTypes DEF DataprepNext

(* A settler past its load carries a version. *)
LEMMA Serving ==
    ASSUME TypeInvariant, NEW p \in Procs
    PROVE  /\ ProcOK /\ RowOK /\ StoreOK /\ RestOK /\ repo \in RepoType /\ proc[p] \in ProcType
           /\ proc[p].pc \in CarriesVersion => proc[p].graph \in Versions /\ proc[p].graph \in Graphs
BY TypeParts, BoundsAssumption DEF ProcOK, Snapshot, Versions, Graphs

(* The rows take the graph a refresh names. *)
LEMMA RefreshKeepsRows ==
    ASSUME RowOK, NEW g \in Graphs, RefreshMetaGraphNames(g)
    PROVE  RowOK'
BY DEF RowOK, RefreshMetaGraphNames, RowType

(* A settler without a version counts, or counts last. *)
LEMMA CountsMove ==
    ASSUME ProcOK, NEW p \in Procs, NEW pc \in {"mark", "load", "record", "arm_stamp"},
           NEW f \in BOOLEAN, NEW d \in BOOLEAN,
           pc \in {"record", "arm_stamp"} => proc[p].graph \in Versions,
           \/ proc' = [proc EXCEPT ![p].pc = pc, ![p].done = d]
           \/ proc' = [proc EXCEPT ![p].pc = pc, ![p].flag = f, ![p].done = d]
    PROVE  ProcOK'
<1> DEFINE j == [proc[p] EXCEPT !.pc = pc, !.done = d]
           i == [proc[p] EXCEPT !.pc = pc, !.flag = f, !.done = d]
<1>1. proc[p] \in ProcType /\ pc \in PCs
  BY DEF ProcOK, PCs, SettlePCs, AdminPCs
<1>2. j \in ProcType /\ i \in ProcType
  BY <1>1 DEF ProcType
<1>3. pc \notin CyclePCs \cup {"drop", "requeue", "disarm"} /\ (pc \in CarriesVersion => proc[p].graph \in Versions)
  BY DEF CyclePCs, CarriesVersion, SettlePCs, AdminPCs
<1>4. Snapshot(j) /\ Snapshot(i)
  BY <1>1, <1>3 DEF Snapshot, ProcType
<1>5. CASE proc' = [proc EXCEPT ![p].pc = pc, ![p].done = d]
  <2>1. proc' = [proc EXCEPT ![p] = j]
    BY <1>5 DEF ProcOK
  <2> QED BY <1>2, <1>4, <2>1, SetProc
<1>6. CASE proc' = [proc EXCEPT ![p].pc = pc, ![p].flag = f, ![p].done = d]
  <2>1. proc' = [proc EXCEPT ![p] = i]
    BY <1>6 DEF ProcOK
  <2> QED BY <1>2, <1>4, <2>1, SetProc
<1> QED BY <1>5, <1>6

(* The steps of a settler, and the failures it meets. *)
LEMMA SettleTypes ==
    ASSUME TypeInvariant, NEW p \in Procs, SettleStep(p) \/ SettleWriteFails(p)
    PROVE  TypeInvariant'
<1> USE DEF At
<1>1. CASE Counts(p)
  <2>1. ProcOK'
    BY <1>1, Serving, CountsMove DEF Counts
  <2> QED BY <1>1, <2>1, TypeParts, PartsStay DEF Counts
<1>2. CASE Mark(p)
  <2>1. repo' \in RepoType
    BY <1>2, Serving DEF Mark, RepoType, ProcType
  <2>2. ProcOK'
    BY <1>2, Serving, Finishes DEF Mark
  <2> QED BY <1>2, <2>1, <2>2, TypeParts, PartsStay DEF Mark
<1>3. CASE Load(p)
  <2> DEFINE j == [proc[p] EXCEPT !.pc = "lease", !.graph = repo.version, !.prev = repo.servedGraph,
                                  !.flag = repo.served # 0 \/ repo.state = "publish"]
  <2>1. proc[p] \in ProcType /\ repo.version \in Versions /\ repo.servedGraph \in {0} \cup Graphs
    BY Serving DEF RepoType
  <2>2. repo.version \in Graphs /\ "lease" \in PCs
    BY <2>1, BoundsAssumption DEF Versions, Graphs, PCs, SettlePCs
  <2>3. j \in ProcType
    BY <2>1, <2>2 DEF ProcType
  <2>4. Snapshot(j)
    BY <2>1 DEF Snapshot, ProcType, CyclePCs
  <2>5. proc' = [proc EXCEPT ![p] = j] \/ Finish(p)
    BY <1>3, Serving DEF Load, ProcOK
  <2>6. ProcOK'
    BY <2>3, <2>4, <2>5, Serving, SetProc, Finishes
  <2> QED BY <1>3, <2>6, TypeParts, PartsStay DEF Load
<1>4. CASE TakeLease(p)
  <2>1. repo' \in RepoType
    BY <1>4, Serving, ZenonT(60) DEF TakeLease, RepoType
  <2>2. ProcOK'
    BY <1>4, Serving, VersionMoves, Finishes DEF TakeLease, CarriesVersion, SettlePCs, AdminPCs
  <2> QED BY <1>4, <2>1, <2>2, TypeParts, PartsStay DEF TakeLease
<1>5. CASE Promote(p)
  <2>1. proc[p].graph \in Versions /\ proc[p].graph \in Graphs
    BY <1>5, Serving DEF Promote, CarriesVersion, SettlePCs
  <2>2. RowOK'
    BY <1>5, <2>1, Serving, RefreshKeepsRows, PartsStay DEF Promote
  <2>3. StoreOK'
    <3>1. exists \subseteq Graphs
      BY Serving DEF StoreOK
    <3> QED BY <1>5, <2>1, <3>1, Serving, RenameKeepsStores, PartsStay DEF Promote
  <2>4. ProcOK'
    <3>1. Goto(p, "flip") \/ Goto(p, "unlease")
      BY <1>5 DEF Promote
    <3> QED BY <1>5, <3>1, Serving, VersionMoves DEF Promote, CarriesVersion, SettlePCs
  <2>5. UNCHANGED <<repo, task, late, left>>
    BY <1>5 DEF Promote
  <2> QED BY <2>2, <2>3, <2>4, <2>5, TypeParts, PartsStay
<1>6. CASE Flip(p)
  <2>1. proc[p].graph \in Versions /\ proc[p].graph \in Graphs /\ proc[p].graph \in 0 .. MaxVersion
    BY <1>6, Serving, BoundsAssumption DEF Flip, CarriesVersion, SettlePCs, Versions
  <2>2. repo' \in RepoType
    BY <1>6, <2>1, Serving DEF Flip, RepoType
  <2>3. ProcOK'
    BY <1>6, Serving, VersionMoves DEF Flip, CarriesVersion, SettlePCs
  <2> QED BY <1>6, <2>2, <2>3, TypeParts, PartsStay DEF Flip
<1>7. CASE Unlease(p)
  <2>1. repo' \in RepoType
    BY <1>7, Serving DEF Unlease, RepoType
  <2>2. ProcOK'
    BY <1>7, Serving, Finishes DEF Unlease
  <2> QED BY <1>7, <2>1, <2>2, TypeParts, PartsStay DEF Unlease
<1>8. CASE CollectGraph(p)
  <2>1. StoreOK'
    BY <1>8, Serving, DropKeepsStores DEF CollectGraph
  <2>2. ProcOK'
    BY <1>8, Serving, VersionMoves, Finishes DEF CollectGraph, CarriesVersion, SettlePCs, AdminPCs
  <2> QED BY <1>8, <2>1, <2>2, TypeParts, PartsStay DEF CollectGraph
<1>9. CASE Tally(p)
  <2>1. ProcOK'
    BY <1>9, Serving, CountsMove DEF Tally, AllIndexed, CarriesVersion, SettlePCs, AdminPCs
  <2> QED BY <1>9, <2>1, TypeParts, PartsStay DEF Tally
<1>10. CASE WriteRecord(p)
  <2>1. repo' \in RepoType
    BY <1>10, Serving DEF WriteRecord, RepoType, ProcType
  <2>2. ProcOK'
    BY <1>10, Serving, Finishes DEF WriteRecord
  <2> QED BY <1>10, <2>1, <2>2, TypeParts, PartsStay DEF WriteRecord
<1>11. CASE SettleWriteFails(p)
  <2>1. ProcOK'
    BY <1>11, Serving, VersionMoves, Finishes DEF SettleWriteFails, CarriesVersion, SettlePCs, AdminPCs
  <2>2. RestOK'
    BY <1>11, TypeParts, SpendKeepsBudgets DEF SettleWriteFails, RestOK, Events
  <2> QED BY <1>11, <2>1, <2>2, TypeParts, PartsStay DEF SettleWriteFails
<1> QED BY <1>1, <1>2, <1>3, <1>4, <1>5, <1>6, <1>7, <1>8, <1>9, <1>10, <1>11 DEF SettleStep

(* The sweep is a process, and a reaper with its victims stays in order. *)
LEMMA SweeperRuns ==
    ASSUME TypeInvariant
    PROVE  Sweeper \in Procs /\ ProcOK /\ RowOK /\ RestOK /\ proc[Sweeper] \in ProcType
BY TypeParts DEF Procs, ProcOK

LEMMA VictimMoves ==
    ASSUME TypeInvariant, NEW c \in Concepts, NextVictim(c), proc[Sweeper].pc = "reap"
    PROVE  ProcOK'
<1> DEFINE rest == proc[Sweeper].list \ {c}
           j == [proc[Sweeper] EXCEPT !.list = rest]
<1>1. rest \in SUBSET Concepts
  BY SweeperRuns DEF ProcType
<1> HIDE DEF rest
<1>2. j \in ProcType
  BY <1>1, SweeperRuns DEF ProcType
<1>3. Snapshot(j)
  BY SweeperRuns DEF Snapshot, ProcOK, ProcType
<1>4. Finish(Sweeper) \/ proc' = [proc EXCEPT ![Sweeper] = j]
  BY SweeperRuns DEF NextVictim, rest, ProcOK
<1> QED BY <1>2, <1>3, <1>4, SweeperRuns, SetProc, Finishes

(* The sweep. *)
LEMMA SweepTypes ==
    ASSUME TypeInvariant, SweepNext
    PROVE  TypeInvariant'
<1> USE DEF At
<1>1. CASE Reconcile
  <2>1. ProcOK'
    BY <1>1, SweeperRuns, Finishes DEF Reconcile
  <2> QED BY <1>1, <2>1, TypeParts, PartsStay DEF Reconcile
<1>2. CASE ReapRead
  <2> DEFINE victims == {c \in RowsIn("parsed") : Stuck(row[c])}
             j == [Idle EXCEPT !.pc = "reap", !.list = victims]
  <2>1. victims \subseteq Concepts
    BY DEF RowsIn
  <2> HIDE DEF victims
  <2>2. j \in ProcType /\ Snapshot(j)
    BY <2>1 DEF ProcType, Idle, PCs, Snapshot, CyclePCs, CarriesVersion, SettlePCs, AdminPCs
  <2>3. ProcOK'
    BY <1>2, <2>2, SweeperRuns, SetProc DEF ReapRead, victims
  <2> QED BY <1>2, <2>3, TypeParts, PartsStay DEF ReapRead
<1>3. ASSUME NEW c \in Concepts, Reap(c) \/ ReapFails(c)
     PROVE  TypeInvariant'
  <2>1. NextVictim(c) /\ At(Sweeper, "reap")
    BY <1>3 DEF Reap, ReapFails
  <2>2. ProcOK'
    BY <2>1, SweeperRuns, VictimMoves
  <2>3. RowOK'
    <3>1. row[c] \in RowType
      BY SweeperRuns DEF RowOK
    <3>2. [row[c] EXCEPT !.status = "failed"] \in RowType
      BY <3>1 DEF RowType
    <3> QED BY <1>3, <3>2, SweeperRuns, PatchKeepsRows, PartsStay DEF Reap, ReapFails
  <2>4. RestOK'
    BY <1>3, SweeperRuns, SpendKeepsBudgets DEF Reap, ReapFails, RestOK, Events
  <2> QED BY <1>3, <2>2, <2>3, <2>4, TypeParts, PartsStay DEF Reap, ReapFails
<1> QED BY <1>1, <1>2, <1>3 DEF SweepNext, SweepStep

(* A request starts with the version it read, or with the next draft. *)
LEMMA Enters ==
    ASSUME ProcOK, RestOK, NEW a \in Procs, NEW e \in Events, NEW g \in Graphs, NEW pc,
           \/ pc \in {"arm_count", "requeue_failed", "unpublish", "mint", "publish_write"} /\ g \in Versions
           \/ pc = "drop",
           Enter(a, e, pc, g)
    PROVE  ProcOK' /\ left' \in [Events -> Nat]
<1> DEFINE j == [Idle EXCEPT !.pc = pc, !.graph = g, !.good = (e = "ingest")]
<1>1. pc \in PCs /\ pc \notin CyclePCs
  BY DEF PCs, CyclePCs, AdminPCs
<1>2. j \in ProcType
  BY <1>1 DEF ProcType, Idle
<1>3. pc \in CarriesVersion => g \in Versions
  BY DEF CarriesVersion, SettlePCs, AdminPCs
<1>4. Snapshot(j)
  BY <1>1, <1>3 DEF Snapshot, Idle
<1> QED BY <1>2, <1>4, SetProc, SpendKeepsBudgets DEF Enter

(* A retract goes on with the draft it opened. *)
LEMMA DraftMoves ==
    ASSUME ProcOK, NEW a \in Procs, proc[a].pc \in {"drop", "requeue"},
           NEW pc \in {"requeue", "disarm"}, Goto(a, pc)
    PROVE  ProcOK'
<1> DEFINE j == [proc[a] EXCEPT !.pc = pc]
<1>1. proc[a] \in ProcType /\ proc[a].graph \in Graphs
  BY DEF ProcOK, Snapshot
<1>2. pc \in PCs /\ pc \notin CyclePCs \cup CarriesVersion
  BY DEF PCs, CyclePCs, CarriesVersion, SettlePCs, AdminPCs
<1>3. j \in ProcType /\ Snapshot(j)
  BY <1>1, <1>2 DEF ProcType, Snapshot
<1> QED BY <1>3, SetProc DEF Goto, ProcOK

(* Requeued rows are rows. *)
LEMMA RequeueAllKeepsRows ==
    ASSUME RowOK, NEW g \in Graphs, RequeueAll(g)
    PROVE  RowOK'
BY PatchTypes DEF RowOK, RequeueAll

(* The versions a request reads. *)
LEMMA RequestReads ==
    ASSUME TypeInvariant, NEW a \in Admins
    PROVE  /\ a \in Procs /\ ProcOK /\ RowOK /\ StoreOK /\ RestOK /\ repo \in RepoType
           /\ repo.version \in Versions /\ repo.version \in Graphs /\ repo.version + 1 \in Graphs
           /\ 0 \in 0 .. MaxVersion
           /\ proc[a] \in ProcType
           /\ proc[a].pc \in CarriesVersion => proc[a].graph \in Versions /\ proc[a].graph \in Graphs
           /\ proc[a].pc \in {"drop", "requeue", "disarm"} => proc[a].graph \in Graphs
BY TypeParts, BoundsAssumption DEF ProcOK, Snapshot, Procs, RepoType, Versions, Graphs

(* A request arrives. *)
LEMMA RequestTypes ==
    ASSUME TypeInvariant, NEW a \in Admins, Request(a)
    PROVE  TypeInvariant'
<1> USE DEF At
<1>1. CASE Ingest(a)
  <2>1. ProcOK' /\ left' \in [Events -> Nat]
    BY <1>1, RequestReads, Enters DEF Ingest, Events
  <2>2. RestOK'
    BY <1>1, <2>1, RequestReads DEF Ingest, Enter, RestOK
  <2> QED BY <1>1, <2>1, <2>2, TypeParts, PartsStay DEF Ingest, Enter
<1>2. CASE Reingest(a)
  <2>1. ProcOK' /\ left' \in [Events -> Nat]
    BY <1>2, RequestReads, Enters DEF Reingest, Events
  <2>2. RestOK'
    BY <1>2, <2>1, RequestReads DEF Reingest, Enter, RestOK
  <2> QED BY <1>2, <2>1, <2>2, TypeParts, PartsStay DEF Reingest, Enter
<1>3. CASE Retract(a)
  <2>1. ProcOK' /\ left' \in [Events -> Nat]
    BY <1>3, RequestReads, Enters DEF Retract, Events
  <2>2. RestOK'
    BY <1>3, <2>1, RequestReads DEF Retract, Enter, RestOK
  <2> QED BY <1>3, <2>1, <2>2, TypeParts, PartsStay DEF Retract, Enter
<1>4. CASE Unpublish(a)
  <2>1. ProcOK' /\ left' \in [Events -> Nat]
    BY <1>4, RequestReads, Enters DEF Unpublish, Events
  <2>2. RestOK'
    BY <1>4, <2>1, RequestReads DEF Unpublish, Enter, RestOK
  <2> QED BY <1>4, <2>1, <2>2, TypeParts, PartsStay DEF Unpublish, Enter
<1>5. CASE Publish(a)
  <2>1. ProcOK' /\ left' \in [Events -> Nat]
    BY <1>5, RequestReads, Enters DEF Publish, Events
  <2>2. RestOK'
    BY <1>5, <2>1, RequestReads DEF Publish, Enter, RestOK
  <2> QED BY <1>5, <2>1, <2>2, TypeParts, PartsStay DEF Publish, Enter
<1>6. CASE SignOff(a)
  <2> DEFINE j(pc) == [proc[a] EXCEPT !.pc = pc]
  <2>1. \A pc \in {"submit", "approve"} : j(pc) \in ProcType /\ Snapshot(j(pc))
    BY RequestReads DEF ProcType, PCs, Snapshot, CyclePCs, CarriesVersion, SettlePCs, AdminPCs
  <2>2. \E pc \in {"submit", "approve"} : proc' = [proc EXCEPT ![a] = j(pc)]
    BY <1>6, RequestReads DEF SignOff, Goto, ProcOK
  <2> HIDE DEF j
  <2>3. ProcOK'
    BY <2>1, <2>2, RequestReads, SetProc
  <2> QED BY <1>6, <2>3, TypeParts, PartsStay DEF SignOff
<1> QED BY <1>1, <1>2, <1>3, <1>4, <1>5, <1>6 DEF Request

(* The steps of a request, and its failures. *)
LEMMA RequestStepTypes ==
    ASSUME TypeInvariant, NEW a \in Admins, RequestStep(a) \/ RequestFails(a)
    PROVE  TypeInvariant'
<1> USE DEF At
<1>1. CASE RequeueFailed(a)
  <2>1. RowOK'
    <3>1. \A c \in Concepts : row[c] \in RowType /\ row[c].graph \in Graphs
      BY RequestReads DEF RowOK, RowType
    <3>2. \A c \in Concepts : Requeued(row[c], row[c].graph) \in RowType
      BY <3>1, PatchTypes
    <3> QED BY <1>1, <3>1, <3>2 DEF RequeueFailed, RowOK
  <2>2. Finish(a) \/ Goto(a, "arm_count")
    BY <1>1 DEF RequeueFailed
  <2>3. ProcOK'
    BY <1>1, <2>2, RequestReads, VersionMoves, Finishes DEF RequeueFailed, CarriesVersion, AdminPCs
  <2>4. UNCHANGED <<repo, exists, chunks, task, late, left>>
    BY <1>1 DEF RequeueFailed
  <2> QED BY <2>1, <2>3, <2>4, TypeParts, PartsStay
<1>2. CASE ArmCount(a)
  <2>1. ProcOK'
    BY <1>2, RequestReads, CountsMove DEF ArmCount, CarriesVersion, SettlePCs, AdminPCs
  <2> QED BY <1>2, <2>1, TypeParts, PartsStay DEF ArmCount
<1>3. CASE ArmStamp(a)
  <2>1. RowOK'
    BY <1>3, RequestReads, RefreshKeepsRows DEF ArmStamp, CarriesVersion, SettlePCs, AdminPCs
  <2>2. ProcOK'
    BY <1>3, RequestReads, VersionMoves DEF ArmStamp, CarriesVersion, SettlePCs, AdminPCs
  <2> QED BY <1>3, <2>1, <2>2, TypeParts, PartsStay DEF ArmStamp
<1>4. CASE ArmWrite(a)
  <2> DEFINE j == [Idle EXCEPT !.pc = "load"]
  <2>1. j \in ProcType /\ Snapshot(j)
    BY DEF ProcType, Idle, PCs, Snapshot, CyclePCs, CarriesVersion, SettlePCs, AdminPCs
  <2>2. ProcOK'
    BY <1>4, <2>1, RequestReads, SetProc, Finishes DEF ArmWrite
  <2>3. repo' \in RepoType
    BY <1>4, RequestReads DEF ArmWrite, RepoType, ProcType
  <2> QED BY <1>4, <2>2, <2>3, TypeParts, PartsStay DEF ArmWrite
<1>5. CASE Drop(a)
  <2>1. StoreOK'
    BY <1>5, RequestReads, DropKeepsStores DEF Drop
  <2>2. ProcOK'
    BY <1>5, RequestReads, DraftMoves DEF Drop
  <2> QED BY <1>5, <2>1, <2>2, TypeParts, PartsStay DEF Drop
<1>6. CASE Requeue(a)
  <2>1. RowOK'
    BY <1>6, RequestReads, RequeueAllKeepsRows DEF Requeue
  <2>2. ProcOK'
    BY <1>6, RequestReads, DraftMoves DEF Requeue
  <2> QED BY <1>6, <2>1, <2>2, TypeParts, PartsStay DEF Requeue
<1>7. CASE Disarm(a)
  <2>1. repo' \in RepoType
    BY <1>7, RequestReads DEF Disarm, RepoType
  <2>2. ProcOK'
    BY <1>7, RequestReads, Finishes DEF Disarm
  <2> QED BY <1>7, <2>1, <2>2, TypeParts, PartsStay DEF Disarm
<1>8. CASE UnpublishWrite(a)
  <2>1. repo' \in RepoType
    BY <1>8, RequestReads DEF UnpublishWrite, RepoType
  <2>2. ProcOK'
    BY <1>8, RequestReads, Finishes DEF UnpublishWrite
  <2> QED BY <1>8, <2>1, <2>2, TypeParts, PartsStay DEF UnpublishWrite
<1>9. CASE SignOffWrite(a)
  <2>1. repo' \in RepoType
    BY <1>9, RequestReads DEF SignOffWrite, RepoType
  <2>2. ProcOK'
    BY <1>9, RequestReads, Finishes DEF SignOffWrite
  <2> QED BY <1>9, <2>1, <2>2, TypeParts, PartsStay DEF SignOffWrite
<1>10. CASE Mint(a)
  <2> DEFINE v == repo.version + 1
             j == [proc[a] EXCEPT !.pc = "publish_write", !.graph = v]
  <2>1. CASE repo.armed \/ repo.version = MaxVersion
    BY <1>10, <2>1, RequestReads, Finishes, TypeParts, PartsStay DEF Mint
  <2>2. CASE ~(repo.armed \/ repo.version = MaxVersion)
    <3>1. v \in Versions /\ v \in Graphs
      BY <2>2, RequestReads, BoundsAssumption DEF Versions, Graphs
    <3>2. repo' = [repo EXCEPT !.version = v, !.bundled = FALSE]
      BY <1>10, <2>2 DEF Mint
    <3>3. proc' = [proc EXCEPT ![a] = j]
      BY <1>10, <2>2, RequestReads DEF Mint, ProcOK
    <3> HIDE DEF v
    <3>4. repo' \in RepoType
      BY <3>1, <3>2, RequestReads DEF RepoType
    <3>5. "publish_write" \in PCs /\ "publish_write" \notin CyclePCs \cup {"drop", "requeue", "disarm"}
      BY DEF PCs, CyclePCs, AdminPCs
    <3>7. j \in ProcType
      BY <3>1, <3>5, RequestReads DEF ProcType
    <3>8. j.pc = "publish_write" /\ j.graph = v
      BY RequestReads DEF ProcType
    <3>9. Snapshot(j)
      BY <3>1, <3>5, <3>8 DEF Snapshot
    <3>6. ProcOK'
      BY <3>3, <3>7, <3>9, RequestReads, SetProc
    <3> QED BY <1>10, <3>4, <3>6, TypeParts, PartsStay DEF Mint
  <2> QED BY <2>1, <2>2
<1>11. CASE PublishWrite(a)
  <2>1. repo' \in RepoType
    BY <1>11, RequestReads DEF PublishWrite, RepoType
  <2>2. ProcOK'
    BY <1>11, RequestReads, VersionMoves DEF PublishWrite, CarriesVersion, SettlePCs, AdminPCs
  <2> QED BY <1>11, <2>1, <2>2, TypeParts, PartsStay DEF PublishWrite
<1>12. CASE PublishRequeue(a)
  <2>1. RowOK'
    BY <1>12, RequestReads, RequeueAllKeepsRows DEF PublishRequeue, CarriesVersion, SettlePCs, AdminPCs
  <2>2. ProcOK'
    BY <1>12, RequestReads, Finishes DEF PublishRequeue
  <2> QED BY <1>12, <2>1, <2>2, TypeParts, PartsStay DEF PublishRequeue
<1>13. CASE RequestFails(a)
  <2>1. ProcOK'
    BY <1>13, RequestReads, DraftMoves, Finishes DEF RequestFails
  <2>2. RestOK'
    BY <1>13, TypeParts, SpendKeepsBudgets DEF RequestFails, RestOK, Events
  <2> QED BY <1>13, <2>1, <2>2, TypeParts, PartsStay DEF RequestFails
<1> QED BY <1>1, <1>2, <1>3, <1>4, <1>5, <1>6, <1>7, <1>8, <1>9, <1>10, <1>11, <1>12, <1>13 DEF RequestStep

(* Time passes, or the okf-server restarts. *)
LEMMA TimeTypes ==
    ASSUME TypeInvariant, TimeNext \/ ServerCrash
    PROVE  TypeInvariant'
<1>1. ASSUME NEW c \in Concepts, ClaimStales(c) \/ ClaimExpires(c) \/ ParkEnds(c)
      PROVE  TypeInvariant'
  <2>1. row[c] \in RowType /\ RowOK
    BY TypeParts DEF RowOK
  <2>2. /\ \A to \in {"stale", "expired"} : [row[c] EXCEPT !.age = to] \in RowType
        /\ [row[c] EXCEPT !.park = "over"] \in RowType
    BY <2>1 DEF RowType
  <2>3. RowOK'
    BY <1>1, <2>1, <2>2, PatchKeepsRows DEF ClaimStales, ClaimExpires, ParkEnds, Age
  <2> QED BY <1>1, <2>3, TypeParts, PartsStay DEF ClaimStales, ClaimExpires, ParkEnds, Age
<1>2. CASE ServerCrash
  <2>1. Idle \in ProcType /\ Snapshot(Idle)
    BY DEF Idle, ProcType, PCs, Snapshot, CyclePCs, CarriesVersion, SettlePCs, AdminPCs
  <2>2. ProcOK'
    BY <1>2, <2>1 DEF ServerCrash, ProcOK
  <2>3. RestOK'
    BY <1>2, TypeParts, SpendKeepsBudgets DEF ServerCrash, RestOK, Events
  <2> QED BY <1>2, <2>2, <2>3, TypeParts, PartsStay DEF ServerCrash
<1> QED BY <1>1, <1>2 DEF TimeNext

-----------------------------------------------------------------------------
(***************************************************************************)
(* The invariant.                                                          *)
(***************************************************************************)

(* The drain starts with its types. *)
LEMMA InitTypes == Init => TypeInvariant
<1> SUFFICES ASSUME Init
             PROVE  TypeInvariant
  OBVIOUS
<1>1. 1 \in Graphs /\ 1 \in Versions /\ 0 \in 0 .. 2
  BY BoundsAssumption DEF Graphs, Versions
<1>2. RowOK
  BY <1>1 DEF Init, RowOK, FreshRow, RowType
<1>3. repo \in RepoType
  BY <1>1, BoundsAssumption DEF Init, RepoType
<1>4. TaskOK
  BY DEF Init, TaskOK, TaskType, NoTask, Live
<1>5. ProcOK
  BY DEF Init, ProcOK, Idle, ProcType, PCs, Snapshot, CyclePCs, CarriesVersion, SettlePCs, AdminPCs
<1>6. StoreOK /\ RestOK
  BY <1>1, BoundsAssumption DEF Init, StoreOK, RestOK
<1> QED BY <1>2, <1>3, <1>4, <1>5, <1>6, TypeParts

(* Every step keeps the types. *)
LEMMA NextTypes == TypeInvariant /\ [Next]_vars => TypeInvariant'
<1> SUFFICES ASSUME TypeInvariant, [Next]_vars
             PROVE  TypeInvariant'
  OBVIOUS
<1>1. CASE WorkerNext
  BY <1>1, CycleTypes, CycleFaultTypes DEF WorkerNext
<1>2. CASE DataprepNext
  BY <1>2, DataprepTypes
<1>3. CASE SettlementNext
  <2>1. ASSUME LeaseAges
        PROVE  TypeInvariant'
    <3>1. repo' \in RepoType
      BY <2>1, TypeParts DEF LeaseAges, RepoType
    <3> QED BY <2>1, <3>1, TypeParts, PartsStay DEF LeaseAges
  <2> QED BY <1>3, <2>1, SettleTypes DEF SettlementNext
<1>4. CASE SweepNext
  BY <1>4, SweepTypes
<1>5. CASE LifecycleNext
  BY <1>5, RequestTypes, RequestStepTypes DEF LifecycleNext
<1>6. CASE TimeNext \/ ServerCrash
  BY <1>6, TimeTypes
<1>7. CASE UNCHANGED vars
  BY <1>7, TypeParts, PartsStay DEF vars
<1> QED BY <1>1, <1>2, <1>3, <1>4, <1>5, <1>6, <1>7 DEF Next

(* The drain keeps its types: a row, a task or a snapshot is never one the *)
(* code could not write, and no step loses the graph it works on.          *)
THEOREM Typing == Spec => []TypeInvariant
BY InitTypes, NextTypes, PTL DEF Spec
==============================================================================
