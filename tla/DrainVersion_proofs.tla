------------------------ MODULE DrainVersion_proofs --------------------------
(***************************************************************************)
(* The drain of one version, for any number of concepts and cycles: while  *)
(* no publish and no retract replaces the graph under it, a settle only    *)
(* disarms a drained repository, an indexed concept has one copy of its    *)
(* chunks, a completed version is complete, and a lone adaptive cycle      *)
(* never retracts under a live task.                                       *)
(*                                                                         *)
(* The first part shows what it means that the version stays: every row,   *)
(* job and task names its graph, which once made is never dropped, so that *)
(* no cycle ever finds the drain's progress to be a lie and resets it, and *)
(* no row that was indexed becomes pending again.                          *)
(***************************************************************************)
EXTENDS DrainGuards_proofs

OneVersion == Allowance["publish"] = 0 /\ Allowance["retract"] = 0

VersionEvents == {"publish", "retract"}

(* What no process reaches: the requests that replace the version, the     *)
(* reset of a drain, the heal of a good row, the drop of an older graph.   *)
UnreachedPCs == { "mint", "publish_write", "publish_requeue", "drop", "requeue", "disarm",
                  "reset_record", "reset_rows", "heal", "gc" }

(* The graph exists as soon as a row was indexed, or somebody counted one. *)
JobOne(p) ==
    /\ proc[p].pc \notin UnreachedPCs
    /\ proc[p].pc \in CyclePCs \cup CarriesVersion => proc[p].graph = 1
    /\ proc[p].pc \in PastLoad => proc[p].prev \in {0, 1}
    /\ proc[p].pc \in CyclePCs => ~proc[p].good
    /\ proc[p].done => 1 \in exists
    /\ proc[p].pc = "pre_graph" /\ proc[p].flag => 1 \in exists

RowOne(c) ==
    /\ row[c].graph = 1
    /\ row[c].status = "parsed" => ~row[c].good
    /\ row[c].status = "indexed" => 1 \in exists

TaskOne(c) ==
    /\ Live(c) => task[c].graph = 1
    /\ task[c].stage \in {"ensured", "stored"} => 1 \in exists

RowsOne  == \A c \in Concepts : RowOne(c)
TasksOne == \A c \in Concepts : TaskOne(c)
ProcsOne == \A p \in Procs : JobOne(p)

RestOne ==
    /\ repo.version = 1
    /\ repo.servedGraph \in {0, 1}
    /\ repo.progress => 1 \in exists
    /\ exists \subseteq {1}
    /\ \A c \in Concepts : <<c, "indexed">> \in late => 1 \in exists

VersionInv == TypeInvariant /\ Spared(VersionEvents) /\ RowsOne /\ TasksOne /\ ProcsOne /\ RestOne

(* How a row may change: its graph stays, and it only leaves 'parsed',     *)
(* except where a re-ingest requeues the failed rows.                      *)
RowStays(c) ==
    /\ row'[c].graph = row[c].graph
    /\ \/ row'[c].status = row[c].status /\ row'[c].good = row[c].good
       \/ row'[c].status = "failed"
       \/ row'[c].status = "indexed" /\ 1 \in exists

RowsStay == \A c \in Concepts : RowStays(c)

RowsRequeued ==
    \A c \in Concepts :
        row'[c] # row[c] => row[c].status = "failed" /\ row'[c] = Requeued(row[c], row[c].graph)

-----------------------------------------------------------------------------
(* What leaves the graph in place leaves the parts a step does not touch.  *)
LEMMA PartsOne ==
    ASSUME exists \subseteq exists'
    PROVE  /\ RowsOne /\ UNCHANGED row => RowsOne'
           /\ TasksOne /\ UNCHANGED task => TasksOne'
           /\ ProcsOne /\ UNCHANGED proc => ProcsOne'
           /\ RestOne /\ UNCHANGED <<repo, exists, late>> => RestOne'
BY DEF RowsOne, RowOne, TasksOne, TaskOne, Live, ProcsOne, JobOne, RestOne

LEMMA RowsStayOne ==
    ASSUME RowsOne, exists \subseteq exists', RowsStay \/ RowsRequeued
    PROVE  RowsOne'
<1>1. CASE RowsStay
  BY <1>1 DEF RowsOne, RowOne, RowsStay, RowStays
<1>2. CASE RowsRequeued
  <2>1. ASSUME NEW c \in Concepts, row'[c] = row[c]
        PROVE  RowOne(c)'
    BY <2>1 DEF RowsOne, RowOne
  <2>2. ASSUME NEW c \in Concepts, row'[c] = Requeued(row[c], row[c].graph)
        PROVE  RowOne(c)'
    BY <2>2 DEF RowsOne, RowOne, Requeued
  <2> QED BY <1>2, <2>1, <2>2 DEF RowsOne, RowsRequeued
<1> QED BY <1>1, <1>2

LEMMA RowStaysPatched ==
    ASSUME RowOK, NEW c \in Concepts, NEW r, PatchRow(c, r), r.graph = row[c].graph,
           \/ r.status = row[c].status /\ r.good = row[c].good
           \/ r.status = "failed"
           \/ r.status = "indexed" /\ 1 \in exists
    PROVE  RowsStay
BY DEF RowOK, PatchRow, RowsStay, RowStays

LEMMA PatchStays ==
    ASSUME NEW r \in RowType
    PROVE  \A s \in { Released(r), Deferred(r), Unclaimed(r),
                      [Released(r) EXCEPT !.park = IF Backoff THEN "held" ELSE "none"] }
                    \cup { Stamped(r, k) : k \in Procs } \cup { ReleasePatch(r, b) : b \in BOOLEAN } :
             s.graph = r.graph /\ s.status = r.status /\ s.good = r.good
<1> DEFINE Same(s) == s.graph = r.graph /\ s.status = r.status /\ s.good = r.good
<1>1. Same(Released(r)) /\ Same(Deferred(r)) /\ Same(Unclaimed(r))
  BY DEF RowType, Released, Deferred, Unclaimed
<1>2. Same([Released(r) EXCEPT !.park = IF Backoff THEN "held" ELSE "none"])
  BY DEF RowType, Released
<1>3. \A k \in Procs : Same(Stamped(r, k))
  BY DEF RowType, Stamped
<1>4. \A b \in BOOLEAN : Same(ReleasePatch(r, b))
  BY <1>1 DEF ReleasePatch
<1> QED BY <1>1, <1>2, <1>3, <1>4

LEMMA StartsOne ==
    ASSUME TaskOK, TasksOne, UNCHANGED exists, NEW c \in Concepts, StartTask(c, 1)
    PROVE  TasksOne'
BY DEF TaskOK, TasksOne, TaskOne, Live, StartTask

(* A step of p keeps the processes when where it leads p is in order.      *)
LEMMA JobsOne ==
    ASSUME ProcsOne, exists \subseteq exists', NEW p \in Procs, Others(p), JobOne(p)'
    PROVE  ProcsOne'
BY DEF ProcsOne, JobOne, Others

LEMMA GoesOne ==
    ASSUME ProcOK, ProcsOne, exists \subseteq exists', NEW p \in Procs, NEW pc, NEW f,
           Goto(p, pc) \/ proc' = [proc EXCEPT ![p].pc = pc, ![p].flag = f],
           pc \notin UnreachedPCs,
           pc \in CyclePCs => proc[p].pc \in CyclePCs,
           pc \in CarriesVersion => proc[p].pc \in CarriesVersion,
           pc \in PastLoad => proc[p].pc \in PastLoad,
           pc = "pre_graph" => proc' = [proc EXCEPT ![p].pc = pc, ![p].flag = f] /\ (f = TRUE => 1 \in exists)
    PROVE  ProcsOne'
<1>1. Others(p) /\ proc'[p].pc = pc
  BY Goes, Flags
<1>2. /\ proc'[p].graph = proc[p].graph /\ proc'[p].prev = proc[p].prev
      /\ proc'[p].good = proc[p].good /\ proc'[p].done = proc[p].done
      /\ proc'[p].flag \in {f, proc[p].flag}
  BY DEF Goto, ProcOK, ProcType
<1>3. JobOne(p)
  BY DEF ProcsOne
<1>4. pc \in CyclePCs \cup CarriesVersion => proc'[p].graph = 1
  BY <1>2, <1>3 DEF JobOne, CyclePCs, CarriesVersion, SettlePCs, AdminPCs
<1>5. pc = "pre_graph" /\ proc'[p].flag => 1 \in exists
  BY <1>1 DEF ProcOK, ProcType
<1>6. JobOne(p)'
  BY <1>1, <1>2, <1>3, <1>4, <1>5 DEF JobOne
<1> QED BY <1>1, <1>6, JobsOne

LEMMA GotoOne ==
    ASSUME ProcOK, ProcsOne, exists \subseteq exists', NEW p \in Procs, NEW pc, Goto(p, pc),
           pc \notin UnreachedPCs \cup {"pre_graph"},
           pc \in CyclePCs => proc[p].pc \in CyclePCs,
           pc \in CarriesVersion => proc[p].pc \in CarriesVersion,
           pc \in PastLoad => proc[p].pc \in PastLoad
    PROVE  ProcsOne'
<1> DEFINE f == FALSE
<1>1. Goto(p, pc) \/ proc' = [proc EXCEPT ![p].pc = pc, ![p].flag = f]
  OBVIOUS
<1> HIDE DEF f
<1> QED BY <1>1, GoesOne

LEMMA EndsOne ==
    ASSUME ProcOK, ProcsOne, exists \subseteq exists', NEW p \in Procs, Finish(p) \/ GoRefresh(p)
    PROVE  ProcsOne'
<1>1. Others(p) /\ proc'[p].pc \in {"idle", "counts"}
  BY Ends
<1>2. ~proc'[p].done
  <2> DEFINE j == [Idle EXCEPT !.pc = "counts"]
  <2>1. ~Idle.done /\ ~j.done
    BY DEF Idle
  <2>2. proc'[p] \in {Idle, j}
    BY DEF Finish, GoRefresh, ProcOK
  <2> QED BY <2>1, <2>2
<1>3. JobOne(p)'
  BY <1>1, <1>2 DEF JobOne, UnreachedPCs, CyclePCs, CarriesVersion, SettlePCs, AdminPCs, PastLoad
<1> QED BY <1>1, <1>3, JobsOne

(* Within a job a cycle goes from point to point, ...                      *)
LEMMA CycleGoes ==
    ASSUME ProcOK, ProcsOne, UNCHANGED exists, NEW k \in Procs, proc[k].pc \in CyclePCs,
           NEW pc \in CyclePCs \ (UnreachedPCs \cup {"pre_graph"}), NEW f,
           Goto(k, pc) \/ proc' = [proc EXCEPT ![k].pc = pc, ![k].flag = f]
    PROVE  ProcsOne'
BY GoesOne DEF CyclePCs, CarriesVersion, SettlePCs, AdminPCs, PastLoad

(* ... and leaves the store and the repository alone.                      *)
LEMMA CycleOne ==
    ASSUME VersionInv, NEW k \in Cycles,
           Claim(k) \/ CycleStep(k) \/ HttpFails(k) \/ CycleStoreFails(k) \/ StampAckLost(k)
    PROVE  RowsStay /\ TasksOne' /\ ProcsOne' /\ UNCHANGED <<repo, exists, late>>
<1> USE DEF At
<1> /\ k \in Procs /\ ProcOK /\ RowOK /\ JobOne(k)
    /\ RowsOne /\ TasksOne /\ ProcsOne /\ RestOne
    /\ proc[k].pc \in CyclePCs => proc[k].c \in Concepts /\ row[proc[k].c] \in RowType
  BY TypeParts, Holding DEF VersionInv, ProcsOne, Procs
<1> DEFINE Done == RowsStay /\ TasksOne' /\ ProcsOne' /\ UNCHANGED <<repo, exists, late>>
           Kept == UNCHANGED <<repo, exists, late>>
<1>1. ASSUME NEW r, PatchRow(proc[k].c, r), proc[k].pc \in CyclePCs,
             r.graph = row[proc[k].c].graph, r.status = row[proc[k].c].status,
             r.good = row[proc[k].c].good
      PROVE  RowsStay
  BY <1>1, RowStaysPatched
<1>2. UNCHANGED row => RowsStay
  BY DEF RowsStay, RowStays
<1>3. UNCHANGED <<exists, task>> => TasksOne'
  BY PartsOne
<1>4. ASSUME UNCHANGED exists, Finish(k) \/ GoRefresh(k)
      PROVE  ProcsOne'
  BY <1>4, EndsOne
<1>5. ASSUME UNCHANGED exists, proc[k].pc \in CyclePCs,
             NEW pc \in CyclePCs \ (UnreachedPCs \cup {"pre_graph"}), NEW f,
             Goto(k, pc) \/ proc' = [proc EXCEPT ![k].pc = pc, ![k].flag = f]
      PROVE  ProcsOne'
  BY <1>5, CycleGoes
<1>6. CASE Stamp(k) \/ StampAckLost(k)
  <2>1. RowsStay
    <3>1. CASE UNCHANGED row
      BY <1>2, <3>1
    <3>2. CASE PatchRow(proc[k].c, Stamped(row[proc[k].c], k))
      BY <1>1, <1>6, <3>2, PatchStays DEF Stamp, StampAckLost, CyclePCs
    <3> QED BY <1>6, <3>1, <3>2 DEF Stamp, StampAckLost
  <2> QED BY <1>3, <1>4, <1>5, <1>6, <2>1 DEF Stamp, StampAckLost, CyclePCs, UnreachedPCs
<1>7. CASE ReadProgress(k)
  <2>1. ProcsOne'
    <3>1. /\ proc' = [proc EXCEPT ![k].pc = "pre_graph", ![k].flag = repo.progress]
          /\ UNCHANGED exists /\ proc[k].pc = "pre_progress"
      BY <1>7 DEF ReadProgress
    <3>2. repo.progress = TRUE => 1 \in exists
      BY DEF RestOne
    <3>3. /\ "pre_graph" \in CyclePCs \ UnreachedPCs /\ "pre_progress" \in CyclePCs
          /\ "pre_graph" \notin CarriesVersion \cup PastLoad
      BY DEF CyclePCs, UnreachedPCs, CarriesVersion, SettlePCs, AdminPCs, PastLoad
    <3> QED BY <3>1, <3>2, <3>3, GoesOne
  <2> QED BY <1>2, <1>3, <1>7, <2>1 DEF ReadProgress
<1>8. CASE CheckGraph(k)
  <2> DEFINE job == [proc[k] EXCEPT !.flag = proc[k].graph \notin exists]
             pc == IF job.flag /\ proc[k].flag THEN "reset_record" ELSE AfterPreflight(job)
             j == [job EXCEPT !.pc = pc]
  <2>1. pc \in {"probe_park", "probe_stale", "retract_file"}
    <3>1. ~(job.flag /\ proc[k].flag)
      BY <1>8 DEF CheckGraph, JobOne, CyclePCs, ProcOK, ProcType
    <3> QED BY <3>1 DEF AfterPreflight
  <2>2. proc' = [proc EXCEPT ![k] = j] /\ UNCHANGED <<row, repo, exists, task, late>>
    BY <1>8 DEF CheckGraph
  <2> HIDE DEF pc
  <2>3. /\ j.pc = pc /\ j.graph = proc[k].graph /\ j.prev = proc[k].prev
        /\ j.good = proc[k].good /\ j.done = proc[k].done
    BY DEF ProcOK, ProcType
  <2> HIDE DEF j
  <2>4. Others(k) /\ proc'[k] = j
    BY <2>2, Takes
  <2>5. JobOne(k)'
    BY <1>8, <2>1, <2>2, <2>3, <2>4
       DEF CheckGraph, JobOne, CyclePCs, UnreachedPCs, CarriesVersion, SettlePCs, AdminPCs, PastLoad
  <2> QED BY <1>2, <1>3, <2>2, <2>4, <2>5, JobsOne
<1>9. CASE ProbePark(k) \/ ProbeStale(k) \/ ProbeTimeout(k) \/ Timeout(k) \/ RetractFile(k)
  <2>1. /\ UNCHANGED <<row, repo, exists, task, late>> /\ proc[k].pc \in CyclePCs
        /\ \E pc \in {"defer", "probe_stale", "retract_file", "timeout_release", "timeout", "post"} :
             Goto(k, pc)
    BY <1>9 DEF ProbePark, AfterParkProbe, ProbeStale, StaleVerdict, ProbeTimeout, Timeout, RetractFile,
                CyclePCs
  <2> QED BY <1>2, <1>3, <1>5, <2>1 DEF CyclePCs, UnreachedPCs
<1>10. CASE Defer(k) \/ Release(k) \/ TimeoutRelease(k) \/ Abort(k) \/ Unclaim(k)
  <2>1. /\ proc[k].pc \in CyclePCs /\ UNCHANGED <<repo, exists, task, late>>
        /\ Finish(k) \/ GoRefresh(k)
    BY <1>10 DEF Defer, Release, TimeoutRelease, Abort, Unclaim, CyclePCs
  <2>2. RowsStay
    <3> DEFINE r == row[proc[k].c]
    <3>0. r \in RowType
      BY <2>1
    <3>1. CASE Defer(k)
      BY <1>1, <2>1, <3>0, <3>1, PatchStays DEF Defer
    <3>2. CASE Release(k)
      BY <1>1, <2>1, <3>0, <3>2, PatchStays DEF Release, ProcOK, ProcType
    <3>3. CASE TimeoutRelease(k)
      BY <1>1, <2>1, <3>0, <3>3, PatchStays DEF TimeoutRelease
    <3>4. CASE Abort(k)
      BY <1>1, <2>1, <3>0, <3>4, PatchStays DEF Abort
    <3>5. CASE Unclaim(k)
      <4>1. UNCHANGED row \/ PatchRow(proc[k].c, Unclaimed(r))
        BY <2>1, <3>5 DEF Unclaim, PatchRow, RowOK
      <4> QED BY <1>1, <1>2, <2>1, <3>0, <4>1, PatchStays
    <3> QED BY <1>10, <3>1, <3>2, <3>3, <3>4, <3>5
  <2> QED BY <1>3, <1>4, <2>1, <2>2
<1>11. CASE Post(k)
  <2>1. UNCHANGED <<row, repo, exists, late>> /\ proc[k].pc = "post"
    BY <1>11 DEF Post
  <2>2. ProcsOne'
    BY <1>5, <1>11, <2>1 DEF Post, GoRelease, CyclePCs, UnreachedPCs
  <2>3. TasksOne'
    <3>1. CASE UNCHANGED task
      BY <1>3, <2>1, <3>1
    <3>2. CASE StartTask(proc[k].c, proc[k].graph)
      BY <2>1, <3>2, StartsOne, TypeParts DEF VersionInv, JobOne, CyclePCs
    <3> QED BY <1>11, <3>1, <3>2 DEF Post
  <2> QED BY <1>2, <2>1, <2>2, <2>3
<1>12. CASE HttpFails(k)
  <2>1. UNCHANGED <<row, repo, exists, late>> /\ proc[k].pc \in CyclePCs
    BY <1>12 DEF HttpFails, CyclePCs
  <2>2. ProcsOne'
    BY <1>5, <1>12, <2>1 DEF HttpFails, GoRelease, AfterParkProbe, CyclePCs, UnreachedPCs
  <2>3. TasksOne'
    <3>1. CASE UNCHANGED task
      BY <1>3, <2>1, <3>1
    <3>2. CASE StartTask(proc[k].c, proc[k].graph)
      BY <2>1, <3>2, StartsOne, TypeParts DEF VersionInv, JobOne
    <3> QED BY <1>12, <3>1, <3>2 DEF HttpFails
  <2> QED BY <1>2, <2>1, <2>2, <2>3
<1>13. CASE SeeVerdict(k) \/ Recheck(k)
  <2>1. ~NeedsHeal(proc[k])
    BY <1>13 DEF NeedsHeal, SeeVerdict, Recheck, JobOne, CyclePCs
  <2>2. UNCHANGED <<row, repo, exists, task, late>> /\ proc[k].pc \in CyclePCs
    BY <1>13 DEF SeeVerdict, Recheck, CyclePCs
  <2>3. ProcsOne'
    BY <1>4, <1>5, <1>13, <2>1, <2>2 DEF SeeVerdict, Recheck, CyclePCs, UnreachedPCs
  <2> QED BY <1>2, <1>3, <2>2, <2>3
<1>14. CASE ResetRecord(k) \/ ResetRows(k) \/ Heal(k)
  BY <1>14 DEF ResetRecord, ResetRows, Heal, JobOne, UnreachedPCs
<1>15. CASE CycleStoreFails(k)
  <2>1. UNCHANGED <<row, repo, exists, task, late>>
    BY <1>15 DEF CycleStoreFails
  <2>2. proc[k].pc \notin {"reset_record", "reset_rows"}
    BY DEF JobOne, UnreachedPCs
  <2>3. CASE Finish(k) \/ GoRefresh(k)
    BY <1>2, <1>3, <1>4, <2>1, <2>3
  <2>4. CASE At(k, "pre_progress") /\ proc' = [proc EXCEPT ![k].pc = "pre_graph", ![k].flag = FALSE]
    <3>1. /\ "pre_graph" \in CyclePCs /\ proc[k].pc \in CyclePCs
          /\ "pre_graph" \notin UnreachedPCs \cup CarriesVersion \cup PastLoad
      BY <2>4 DEF CyclePCs, UnreachedPCs, CarriesVersion, SettlePCs, AdminPCs, PastLoad
    <3>2. ProcsOne'
      BY <2>1, <2>4, <3>1, GoesOne
    <3> QED BY <1>2, <1>3, <2>1, <3>2
  <2> QED BY <1>15, <2>2, <2>3, <2>4 DEF CycleStoreFails
<1>16. CASE Claim(k)
  <2>1. PICK c \in Concepts : ClaimRead(k, c) \/ ClaimFair(k, c)
    BY <1>16 DEF Claim
  <2>2. UNCHANGED <<repo, exists, task, late>> /\ row[c] \in RowType /\ RowOne(c)
    BY <2>1 DEF ClaimRead, ClaimFair, RowOK, RowsOne
  <2>3. RowsStay
    <3>1. CASE ClaimRead(k, c)
      BY <1>2, <3>1 DEF ClaimRead
    <3>2. CASE ClaimFair(k, c)
      BY <2>2, <3>2, PatchStays, RowStaysPatched DEF ClaimFair
    <3> QED BY <2>1, <3>1, <3>2
  <2>4. ProcsOne'
    <3>1. PICK pc \in {"stamp", "pre_progress"} : proc' = [proc EXCEPT ![k] = [Job(c) EXCEPT !.pc = pc]]
      BY <2>1 DEF ClaimRead, ClaimFair
    <3> DEFINE j == [Job(c) EXCEPT !.pc = pc]
    <3>2. j.pc = pc /\ j.graph = row[c].graph /\ j.prev = 0 /\ j.good = row[c].good /\ ~j.done
      BY DEF Job, Idle
    <3> HIDE DEF j
    <3>3. Others(k) /\ proc'[k] = j
      BY <3>1, Takes DEF j
    <3>4. row[c].status = "parsed"
      BY <2>1 DEF ClaimRead, ClaimFair, Claimable
    <3>5. JobOne(k)'
      BY <2>2, <3>2, <3>3, <3>4
         DEF RowOne, JobOne, CyclePCs, UnreachedPCs, CarriesVersion, SettlePCs, AdminPCs, PastLoad
    <3> QED BY <2>2, <3>3, <3>5, JobsOne
  <2> QED BY <1>3, <2>2, <2>3, <2>4
<1> QED BY <1>6, <1>7, <1>8, <1>9, <1>10, <1>11, <1>12, <1>13, <1>14, <1>15, <1>16 DEF CycleStep

(* Dataprep makes the version's graph before it stores in it, and its      *)
(* verdict 'indexed' is of a stored concept.                               *)
LEMMA DataprepOne ==
    ASSUME VersionInv, DataprepNext
    PROVE  RowsStay /\ TasksOne' /\ RestOne' /\ UNCHANGED proc /\ exists \subseteq exists'
<1> USE DEF TaskAt
<1> RowOK /\ TaskOK /\ RestOK /\ RowsOne /\ TasksOne /\ ProcsOne /\ RestOne
  BY TypeParts DEF VersionInv
<1> UNCHANGED proc
  BY DataprepEvolves DEF VersionInv
<1>1. UNCHANGED row => RowsStay
  BY DEF RowsStay, RowStays
<1>2. ASSUME NEW c \in Concepts, NEW s, s = "indexed" => 1 \in exists, PatchRow(c, Verdict(row[c], s))
      PROVE  RowsStay
  <2>1. row[c] \in RowType
    BY DEF RowOK
  <2>2. CASE s = "indexed"
    BY <1>2, <2>1, <2>2, RowStaysPatched DEF Verdict, RowType
  <2>3. CASE s # "indexed"
    BY <1>2, <2>1, <2>3, RowStaysPatched DEF Verdict, RowType
  <2> QED BY <2>2, <2>3
<1>3. ASSUME NEW c \in Concepts, Live(c), NEW s, Stage(c, s), exists \subseteq exists',
             s \in {"ensured", "stored"} => 1 \in exists'
      PROVE  TasksOne'
  <2>1. /\ task'[c].stage = s /\ task'[c].graph = task[c].graph
        /\ \A d \in Concepts \ {c} : task'[d] = task[d]
    BY <1>3 DEF TaskOK, TaskType, Stage
  <2> QED BY <1>3, <2>1 DEF TasksOne, TaskOne, Live
<1>4. UNCHANGED <<repo, exists, late>> => RestOne'
  BY PartsOne
<1>5. ASSUME NEW c \in Concepts, TaskStep(c)
      PROVE  RowsStay /\ TasksOne' /\ RestOne' /\ exists \subseteq exists'
  <2>1. CASE EnsureGraph(c)
    <3>1. Live(c) /\ task[c].graph = 1
      BY <2>1 DEF EnsureGraph, Live, TasksOne, TaskOne
    <3>2. exists' = exists \cup {1} /\ Stage(c, "ensured") /\ UNCHANGED <<row, repo, late>>
      BY <2>1, <3>1 DEF EnsureGraph
    <3>3. RestOne'
      BY <3>2 DEF RestOne
    <3> QED BY <1>1, <1>3, <3>1, <3>2, <3>3
  <2>2. CASE StoreChunks(c)
    <3>1. /\ Live(c) /\ UNCHANGED <<row, repo, late, exists>> /\ 1 \in exists
          /\ Stage(c, "stored") \/ Stage(c, "failing")
      BY <2>2 DEF StoreChunks, Live, TasksOne, TaskOne
    <3> QED BY <1>1, <1>3, <1>4, <3>1
  <2>3. CASE Callback(c)
    <3>1. /\ Live(c) /\ UNCHANGED <<repo, late, exists>>
          /\ Stage(c, "cleanup") \/ Stage(c, "done")
          /\ PatchRow(c, Verdict(row[c], VerdictOf(task[c].stage)))
      BY <2>3 DEF Callback, Live, Reporting, AfterCallback
    <3>2. VerdictOf(task[c].stage) = "indexed" => 1 \in exists
      BY DEF VerdictOf, TasksOne, TaskOne
    <3> QED BY <1>2, <1>3, <1>4, <3>1, <3>2
  <2>4. CASE Rollback(c)
    <3>1. Live(c) /\ UNCHANGED <<row, repo, late, exists>> /\ Stage(c, "done")
      BY <2>4 DEF Rollback, Live
    <3> QED BY <1>1, <1>3, <1>4, <3>1
  <2>5. CASE TaskEnds(c)
    <3>1. TasksOne'
      BY <2>5 DEF TaskEnds, TasksOne, TaskOne, Live, NoTask, TaskOK
    <3> QED BY <1>1, <1>4, <2>5, <3>1 DEF TaskEnds
  <2> QED BY <1>5, <2>1, <2>2, <2>3, <2>4, <2>5 DEF TaskStep
<1>6. ASSUME NEW c \in Concepts, TaskFails(c) \/ Kill(c) \/ CallbackLost(c)
      PROVE  RowsStay /\ TasksOne' /\ RestOne' /\ exists \subseteq exists'
  <2>1. /\ Live(c) /\ UNCHANGED <<row, repo, late, exists>>
        /\ \E s \in {"failing", "killed", "done", "cleanup"} : Stage(c, s)
    BY <1>6 DEF TaskFails, Kill, CallbackLost, Live, Reporting, AfterCallback
  <2> QED BY <1>1, <1>3, <1>4, <2>1
<1>7. ASSUME NEW c \in Concepts, CallbackLate(c)
      PROVE  RowsStay /\ TasksOne' /\ RestOne' /\ exists \subseteq exists'
  <2>1. /\ Live(c) /\ UNCHANGED <<row, repo, exists>>
        /\ late' = late \cup {<<c, VerdictOf(task[c].stage)>>}
        /\ UNCHANGED task \/ Stage(c, "cleanup") \/ Stage(c, "done")
    BY <1>7 DEF CallbackLate, Live, Reporting, AfterCallback
  <2>2. VerdictOf(task[c].stage) = "indexed" => 1 \in exists
    BY DEF VerdictOf, TasksOne, TaskOne
  <2>3. RestOne'
    BY <2>1, <2>2 DEF RestOne
  <2>4. TasksOne'
    BY <1>3, <2>1, PartsOne
  <2> QED BY <1>1, <2>1, <2>3, <2>4
<1>8. ASSUME NEW cb \in late, DeliverLate(cb)
      PROVE  RowsStay /\ TasksOne' /\ RestOne' /\ exists \subseteq exists'
  <2>1. PICK c \in Concepts, s \in {"indexed", "failed"} : cb = <<c, s>>
    BY DEF RestOK
  <2>2. s = "indexed" => 1 \in exists
    BY <2>1 DEF RestOne
  <2>3. PatchRow(c, Verdict(row[c], s)) /\ UNCHANGED <<repo, exists, task>> /\ late' \subseteq late
    BY <1>8, <2>1 DEF DeliverLate
  <2>4. RestOne'
    BY <2>3 DEF RestOne
  <2> QED BY <1>2, <2>2, <2>3, <2>4, PartsOne
<1>9. CASE DataprepCrash
  <2>1. TasksOne'
    BY <1>9 DEF DataprepCrash, TasksOne, TaskOne, Live, NoTask
  <2> QED BY <1>1, <1>4, <1>9, <2>1 DEF DataprepCrash
<1> QED BY <1>5, <1>6, <1>7, <1>8, <1>9 DEF DataprepNext

(* The sweep and the clock.                                                *)
LEMMA SweepOne ==
    ASSUME VersionInv, SweepNext
    PROVE  RowsStay /\ ProcsOne' /\ UNCHANGED <<repo, exists, task, late>>
<1> USE DEF At
<1> Sweeper \in Procs /\ ProcOK /\ RowOK /\ ProcsOne
  BY SweeperRuns DEF VersionInv
<1>1. UNCHANGED row => RowsStay
  BY DEF RowsStay, RowStays
<1>2. CASE Reconcile
  BY <1>1, <1>2, EndsOne DEF Reconcile
<1>3. CASE ReapRead
  <2> DEFINE victims == {c \in RowsIn("parsed") : Stuck(row[c])}
             j == [Idle EXCEPT !.pc = "reap", !.list = victims]
  <2>1. Others(Sweeper) /\ proc'[Sweeper] = j
    BY <1>3, Takes DEF ReapRead
  <2>2. j.pc = "reap" /\ ~j.done
    BY DEF Idle
  <2> HIDE DEF j
  <2>3. JobOne(Sweeper)'
    BY <2>1, <2>2 DEF JobOne, UnreachedPCs, CyclePCs, CarriesVersion, SettlePCs, AdminPCs, PastLoad
  <2> QED BY <1>1, <1>3, <2>1, <2>3, JobsOne DEF ReapRead
<1>4. ASSUME NEW c \in Concepts, Reap(c) \/ ReapFails(c)
      PROVE  RowsStay /\ ProcsOne' /\ UNCHANGED <<repo, exists, task, late>>
  <2>1. UNCHANGED <<repo, exists, task, late>> /\ proc[Sweeper].pc = "reap" /\ NextVictim(c)
    BY <1>4 DEF Reap, ReapFails
  <2>2. RowsStay
    <3>1. CASE Reap(c)
      BY <3>1, RowStaysPatched DEF Reap, RowOK, RowType
    <3> QED BY <1>1, <1>4, <3>1 DEF ReapFails
  <2>3. ProcsOne'
    <3>1. CASE Finish(Sweeper)
      BY <2>1, <3>1, EndsOne
    <3>2. CASE ~Finish(Sweeper)
      <4>1. proc' = [proc EXCEPT ![Sweeper].list = proc[Sweeper].list \ {c}]
        BY <2>1, <3>2 DEF NextVictim
      <4>2. Others(Sweeper) /\ proc'[Sweeper].pc = "reap" /\ proc'[Sweeper].done = proc[Sweeper].done
        BY <2>1, <4>1 DEF Others, ProcOK, ProcType
      <4>3. JobOne(Sweeper)'
        BY <2>1, <4>2
           DEF ProcsOne, JobOne, UnreachedPCs, CyclePCs, CarriesVersion, SettlePCs, AdminPCs, PastLoad
      <4> QED BY <2>1, <4>2, <4>3, JobsOne
    <3> QED BY <3>1, <3>2
  <2> QED BY <2>1, <2>2, <2>3
<1> QED BY <1>2, <1>3, <1>4 DEF SweepNext, SweepStep

LEMMA TimeOne ==
    ASSUME VersionInv, TimeNext
    PROVE  RowsStay /\ UNCHANGED <<repo, exists, task, late, proc>>
<1> RowOK
  BY TypeParts DEF VersionInv
<1>1. ASSUME NEW c \in Concepts, ClaimStales(c) \/ ClaimExpires(c) \/ ParkEnds(c)
      PROVE  RowsStay /\ UNCHANGED <<repo, exists, task, late, proc>>
  <2>1. row[c] \in RowType
    BY DEF RowOK
  <2>2. \E a : \/ PatchRow(c, [row[c] EXCEPT !.age = a])
              \/ PatchRow(c, [row[c] EXCEPT !.park = a])
    BY <1>1 DEF ClaimStales, ClaimExpires, Age, ParkEnds
  <2>3. RowsStay
    BY <2>1, <2>2, RowStaysPatched DEF RowType
  <2> QED BY <1>1, <2>3 DEF ClaimStales, ClaimExpires, Age, ParkEnds
<1> QED BY <1>1 DEF TimeNext

(* A settler finds the graph where it belongs: nothing is renamed, and no  *)
(* older graph is left to drop.                                            *)
LEMMA SettleOne ==
    ASSUME VersionInv, NEW p \in Procs, SettleStep(p) \/ SettleWriteFails(p)
    PROVE  RowsStay /\ ProcsOne' /\ RestOne' /\ UNCHANGED <<exists, chunks, task, late>>
<1> USE DEF At
<1> /\ ProcOK /\ RowOK /\ repo \in RepoType /\ proc[p] \in ProcType
    /\ RowsOne /\ ProcsOne /\ RestOne /\ JobOne(p)
  BY Serving DEF VersionInv, ProcsOne
<1> DEFINE Kept == UNCHANGED <<exists, chunks, task, late>>
<1>1. UNCHANGED row => RowsStay
  BY DEF RowsStay, RowStays
<1>2. ASSUME Kept, Finish(p) \/ GoRefresh(p)
      PROVE  ProcsOne'
  BY <1>2, EndsOne
<1>3. ASSUME Kept, NEW pc \in {"flip", "unlease", "promote", "tally"}, Goto(p, pc),
             proc[p].pc \in {"lease", "promote", "flip"}
      PROVE  ProcsOne'
  BY <1>3, GoesOne DEF CyclePCs, UnreachedPCs, CarriesVersion, SettlePCs, AdminPCs, PastLoad
<1>4. ASSUME UNCHANGED <<exists, late, repo>>
      PROVE  RestOne'
  BY <1>4, PartsOne
<1>5. RowsIn("indexed") # {} => 1 \in exists
  BY DEF RowsIn, RowsOne, RowOne
<1>6. ASSUME Kept, Others(p), proc'[p].pc \in {"mark", "load", "record"},
             proc'[p].done => 1 \in exists,
             proc'[p].pc = "record" => proc[p].pc = "tally" /\ GraphsKept(p)
      PROVE  ProcsOne'
  <2>1. JobOne(p)'
    BY <1>6 DEF JobOne, GraphsKept, UnreachedPCs, CyclePCs, CarriesVersion, SettlePCs, AdminPCs, PastLoad
  <2> QED BY <1>6, <2>1, JobsOne
<1>7. CASE Counts(p)
  <2>1. Others(p) /\ proc'[p].pc \in {"mark", "load"} /\ proc'[p].done = (RowsIn("indexed") # {})
    BY <1>7 DEF Counts, Others, ProcOK, ProcType
  <2> QED BY <1>1, <1>4, <1>5, <1>6, <1>7, <2>1 DEF Counts
<1>8. CASE Mark(p)
  <2>1. RestOne'
    BY <1>8 DEF Mark, RestOne, JobOne, RepoType
  <2> QED BY <1>1, <1>2, <1>8, <2>1 DEF Mark
<1>9. CASE Load(p)
  <2>1. ProcsOne'
    <3>1. CASE repo.armed
      <4>1. /\ Others(p) /\ proc'[p].pc = "lease" /\ proc'[p].graph = 1
            /\ proc'[p].prev \in {0, 1} /\ proc'[p].done = proc[p].done /\ Kept
        BY <1>9, <3>1 DEF Load, Others, ProcOK, ProcType, RestOne
      <4>2. JobOne(p)'
        BY <4>1 DEF JobOne, UnreachedPCs, CyclePCs, CarriesVersion, SettlePCs, AdminPCs, PastLoad
      <4> QED BY <4>1, <4>2, JobsOne
    <3>2. CASE ~repo.armed
      BY <1>2, <1>9, <3>2 DEF Load
    <3> QED BY <3>1, <3>2
  <2> QED BY <1>1, <1>4, <1>9, <2>1 DEF Load
<1>10. CASE TakeLease(p)
  <2>1. RestOne'
    BY <1>10 DEF TakeLease, RestOne, RepoType
  <2> QED BY <1>1, <1>2, <1>3, <1>10, <2>1 DEF TakeLease
<1>11. CASE Promote(p)
  <2>1. proc[p].graph = 1
    BY <1>11 DEF Promote, JobOne, CarriesVersion, SettlePCs
  <2>2. Kept /\ UNCHANGED repo /\ (Goto(p, "flip") \/ Goto(p, "unlease"))
    BY <1>11, <2>1 DEF Promote, RestOne
  <2>3. UNCHANGED row \/ RefreshMetaGraphNames(1)
    BY <1>11, <2>1 DEF Promote
  <2>4. RefreshMetaGraphNames(1) => RowsStay
    BY DEF RefreshMetaGraphNames, RowOK, RowType, RowsOne, RowOne, RowsStay, RowStays
  <2> QED BY <1>1, <1>3, <1>4, <1>11, <2>2, <2>3, <2>4 DEF Promote
<1>12. CASE Flip(p)
  <2>1. ~Superseded(p) /\ proc[p].graph = 1
    BY <1>12 DEF Flip, Superseded, JobOne, CarriesVersion, SettlePCs, AdminPCs, PastLoad
  <2>2. RestOne'
    BY <1>12, <2>1 DEF Flip, RestOne, RepoType
  <2> QED BY <1>1, <1>3, <1>12, <2>1, <2>2 DEF Flip
<1>13. CASE Unlease(p)
  <2>1. RestOne'
    BY <1>13 DEF Unlease, RestOne, RepoType
  <2> QED BY <1>1, <1>2, <1>13, <2>1 DEF Unlease
<1>14. CASE CollectGraph(p)
  BY <1>14 DEF CollectGraph, JobOne, UnreachedPCs
<1>15. CASE Tally(p)
  <2>1. /\ Others(p) /\ proc'[p].pc = "record" /\ proc'[p].done = (RowsIn("indexed") # {})
        /\ GraphsKept(p)
    BY <1>15 DEF Tally, Others, ProcOK, ProcType, GraphsKept
  <2> QED BY <1>1, <1>4, <1>5, <1>6, <1>15, <2>1 DEF Tally
<1>16. CASE WriteRecord(p)
  <2>1. RestOne'
    BY <1>16 DEF WriteRecord, RestOne, JobOne, RepoType
  <2> QED BY <1>1, <1>2, <1>16, <2>1 DEF WriteRecord
<1>17. CASE SettleWriteFails(p)
  <2>1. ~At(p, "gc") /\ Kept /\ UNCHANGED <<row, repo>>
    BY <1>17 DEF SettleWriteFails, JobOne, UnreachedPCs
  <2> QED BY <1>1, <1>2, <1>3, <1>4, <1>17, <2>1 DEF SettleWriteFails
<1> QED BY <1>7, <1>8, <1>9, <1>10, <1>11, <1>12, <1>13, <1>14, <1>15, <1>16, <1>17 DEF SettleStep

(* Of the requests only a re-ingest touches the rows' status.              *)
LEMMA RequestOne ==
    ASSUME VersionInv, NEW a \in Admins, Request(a) \/ RequestStep(a) \/ RequestFails(a)
    PROVE  /\ RowsStay \/ (RequeueFailed(a) /\ RowsRequeued)
           /\ ProcsOne' /\ RestOne' /\ UNCHANGED <<exists, chunks, task, late>>
<1> USE DEF At
<1> /\ a \in Procs /\ ProcOK /\ RowOK /\ repo \in RepoType /\ proc[a] \in ProcType
    /\ RowsOne /\ ProcsOne /\ RestOne /\ JobOne(a)
    /\ left["publish"] = 0 /\ left["retract"] = 0
  BY RequestReads DEF VersionInv, ProcsOne, Spared, VersionEvents
<1> DEFINE Kept == UNCHANGED <<exists, chunks, task, late>>
           Moves == RowsStay \/ (RequeueFailed(a) /\ RowsRequeued)
<1>0. RowsStay => Moves
  OBVIOUS
<1>1. UNCHANGED row => Moves
  BY DEF RowsStay, RowStays
<1> SUFFICES Moves /\ ProcsOne' /\ RestOne' /\ Kept
  OBVIOUS
<1> HIDE DEF Moves
<1>2. ASSUME Kept, Finish(a)
      PROVE  ProcsOne'
  BY <1>2, EndsOne
<1>3. ASSUME UNCHANGED <<exists, late, repo>>
      PROVE  RestOne'
  BY <1>3, PartsOne
<1>4. ASSUME NEW e, NEW pc \in {"arm_count", "requeue_failed", "unpublish"},
             Enter(a, e, pc, repo.version)
      PROVE  Moves /\ ProcsOne' /\ RestOne' /\ Kept
  <2> DEFINE j == [Idle EXCEPT !.pc = pc, !.graph = 1, !.good = (e = "ingest")]
  <2>1. j.pc = pc /\ j.graph = 1 /\ ~j.done
    BY DEF Idle
  <2>2. proc' = [proc EXCEPT ![a] = j] /\ Kept /\ UNCHANGED <<row, repo>>
    BY <1>4 DEF Enter, RestOne
  <2> HIDE DEF j
  <2>3. Others(a) /\ proc'[a] = j
    BY <2>2, Takes
  <2>4. JobOne(a)'
    BY <2>1, <2>3 DEF JobOne, UnreachedPCs, CyclePCs, CarriesVersion, SettlePCs, AdminPCs, PastLoad
  <2> QED BY <1>1, <1>3, <2>2, <2>3, <2>4, JobsOne
<1>5. CASE Request(a)
  <2>1. ~Retract(a) /\ ~Publish(a)
    BY DEF Retract, Publish, Enter, Spend
  <2>2. CASE Ingest(a) \/ Reingest(a) \/ Unpublish(a)
    BY <1>4, <2>2 DEF Ingest, Reingest, Unpublish
  <2>3. CASE SignOff(a)
    <3>1. ProcsOne'
      BY <2>3, GotoOne DEF SignOff, CyclePCs, UnreachedPCs, CarriesVersion, SettlePCs, AdminPCs, PastLoad
    <3> QED BY <1>1, <1>3, <2>3, <3>1 DEF SignOff
  <2> QED BY <1>5, <2>1, <2>2, <2>3 DEF Request
<1>6. ASSUME Kept, Others(a), GraphsKept(a), proc[a].pc \in ArmingPCs,
             proc'[a].pc \in {"arm_count", "arm_stamp", "arm_write"},
             proc'[a].done => 1 \in exists
      PROVE  ProcsOne'
  <2>1. JobOne(a)'
    BY <1>6
       DEF JobOne, GraphsKept, ArmingPCs, UnreachedPCs, CyclePCs, CarriesVersion, SettlePCs, AdminPCs,
           PastLoad
  <2> QED BY <1>6, <2>1, JobsOne
<1>7. CASE RequeueFailed(a)
  <2>1. Moves
    BY <1>7 DEF Moves, RequeueFailed, RowsRequeued, RowsIn, RowOK
  <2>2. Kept /\ UNCHANGED repo /\ proc[a].pc = "requeue_failed" /\ (Finish(a) \/ Goto(a, "arm_count"))
    BY <1>7 DEF RequeueFailed
  <2>3. ProcsOne'
    <3>1. CASE Goto(a, "arm_count")
      BY <2>2, <3>1, GotoOne DEF CyclePCs, UnreachedPCs, CarriesVersion, SettlePCs, AdminPCs, PastLoad
    <3> QED BY <1>2, <2>2, <3>1
  <2> QED BY <1>3, <1>7, <2>1, <2>2, <2>3
<1>8. CASE ArmCount(a)
  <2>1. /\ Others(a) /\ GraphsKept(a) /\ proc'[a].pc = "arm_stamp"
        /\ proc'[a].done = (RowsIn("indexed") # {})
    BY <1>8 DEF ArmCount, Others, GraphsKept, ProcOK, ProcType
  <2>2. RowsIn("indexed") # {} => 1 \in exists
    BY DEF RowsIn, RowsOne, RowOne
  <2> QED BY <1>1, <1>3, <1>6, <1>8, <2>1, <2>2 DEF ArmCount, ArmingPCs
<1>9. CASE ArmStamp(a)
  <2>1. proc[a].graph = 1
    BY <1>9 DEF ArmStamp, JobOne, CarriesVersion, SettlePCs, AdminPCs
  <2>2. RowsStay
    BY <1>9, <2>1 DEF ArmStamp, RefreshMetaGraphNames, RowOK, RowType, RowsOne, RowOne, RowsStay, RowStays
  <2>3. ProcsOne'
    BY <1>9, GotoOne DEF ArmStamp, CyclePCs, UnreachedPCs, CarriesVersion, SettlePCs, AdminPCs, PastLoad
  <2> QED BY <1>0, <1>3, <1>9, <2>2, <2>3 DEF ArmStamp
<1>10. CASE ArmWrite(a)
  <2>1. RestOne'
    BY <1>10 DEF ArmWrite, RestOne, JobOne, RepoType
  <2>2. ProcsOne'
    <3>1. CASE Finish(a)
      BY <1>2, <1>10, <3>1 DEF ArmWrite
    <3>2. CASE ~Finish(a)
      <4> DEFINE j == [Idle EXCEPT !.pc = "load"]
      <4>1. proc' = [proc EXCEPT ![a] = j] /\ UNCHANGED exists
        BY <1>10, <3>2 DEF ArmWrite
      <4>2. j.pc = "load" /\ ~j.done
        BY DEF Idle
      <4> HIDE DEF j
      <4>3. Others(a) /\ proc'[a] = j
        BY <4>1, Takes
      <4>4. JobOne(a)'
        BY <4>2, <4>3 DEF JobOne, UnreachedPCs, CyclePCs, CarriesVersion, SettlePCs, AdminPCs, PastLoad
      <4> QED BY <4>1, <4>3, <4>4, JobsOne
    <3> QED BY <3>1, <3>2
  <2> QED BY <1>1, <1>10, <2>1, <2>2 DEF ArmWrite
<1>11. CASE UnpublishWrite(a) \/ SignOffWrite(a)
  <2>1. RestOne'
    BY <1>11 DEF UnpublishWrite, SignOffWrite, RestOne, RepoType
  <2> QED BY <1>1, <1>2, <1>11, <2>1 DEF UnpublishWrite, SignOffWrite
<1>12. CASE Drop(a) \/ Requeue(a) \/ Disarm(a) \/ Mint(a) \/ PublishWrite(a) \/ PublishRequeue(a)
  BY <1>12 DEF Drop, Requeue, Disarm, Mint, PublishWrite, PublishRequeue, JobOne, UnreachedPCs
<1>13. CASE RequestFails(a)
  BY <1>1, <1>2, <1>3, <1>13 DEF RequestFails, JobOne, UnreachedPCs
<1> QED BY <1>5, <1>7, <1>8, <1>9, <1>10, <1>11, <1>12, <1>13 DEF RequestStep

(* So one version stays one version, and a pending row is an old one, or   *)
(* one that a re-ingest requeued.                                          *)
LEMMA VersionKept ==
    ASSUME VersionInv, [Next]_vars
    PROVE  /\ VersionInv'
           /\ RowsStay \/ \E a \in Admins : RequeueFailed(a) /\ RowsRequeued
<1>0. TypeInvariant' /\ Spared(VersionEvents)'
  BY NextTypes, SparedStays DEF VersionInv, VersionEvents, Events
<1> DEFINE Moves == RowsStay \/ \E a \in Admins : RequeueFailed(a) /\ RowsRequeued
<1>1. Moves => RowsStay \/ RowsRequeued
  OBVIOUS
<1>2. ASSUME exists \subseteq exists', Moves, TasksOne', ProcsOne', RestOne'
      PROVE  VersionInv'
  BY <1>0, <1>1, <1>2, RowsStayOne DEF VersionInv
<1>3. ASSUME exists \subseteq exists'
      PROVE  /\ UNCHANGED task => TasksOne'
             /\ UNCHANGED proc => ProcsOne'
             /\ UNCHANGED <<repo, exists, late>> => RestOne'
  BY <1>3, PartsOne DEF VersionInv
<1>4. UNCHANGED row => RowsStay
  BY DEF RowsStay, RowStays
<1>5. CASE WorkerNext
  BY <1>2, <1>3, <1>5, CycleOne DEF WorkerNext
<1>6. CASE DataprepNext
  BY <1>2, <1>3, <1>6, DataprepOne
<1>7. CASE SettlementNext
  <2>1. CASE LeaseAges
    <3>1. RestOne'
      BY <2>1, TypeParts DEF LeaseAges, VersionInv, RestOne, RepoType
    <3> QED BY <1>2, <1>3, <1>4, <2>1, <3>1 DEF LeaseAges
  <2> QED BY <1>2, <1>3, <1>7, <2>1, SettleOne DEF SettlementNext
<1>8. CASE SweepNext
  BY <1>2, <1>3, <1>8, SweepOne
<1>9. CASE LifecycleNext
  BY <1>2, <1>3, <1>9, RequestOne DEF LifecycleNext
<1>10. CASE TimeNext
  BY <1>2, <1>3, <1>10, TimeOne
<1>11. CASE ServerCrash
  <2>1. ProcsOne'
    <3>1. \A p \in Procs : proc'[p].pc = "idle" /\ ~proc'[p].done
      BY <1>11 DEF ServerCrash, Idle
    <3> QED BY <3>1 DEF ProcsOne, JobOne, UnreachedPCs, CyclePCs, CarriesVersion, SettlePCs, AdminPCs,
                        PastLoad
  <2>2. RestOne'
    BY <1>11 DEF ServerCrash, VersionInv, RestOne
  <2> QED BY <1>2, <1>3, <1>4, <1>11, <2>1, <2>2 DEF ServerCrash
<1>12. CASE UNCHANGED vars
  BY <1>2, <1>3, <1>4, <1>12 DEF vars
<1> QED BY <1>5, <1>6, <1>7, <1>8, <1>9, <1>10, <1>11, <1>12 DEF Next

LEMMA VersionStarts ==
    ASSUME OneVersion, Init
    PROVE  VersionInv
<1>1. TypeInvariant /\ Spared(VersionEvents)
  BY InitTypes DEF Init, OneVersion, Spared, VersionEvents
<1>2. RowsOne /\ TasksOne /\ RestOne
  BY DEF Init, FreshRow, NoTask, RowsOne, RowOne, TasksOne, TaskOne, Live, RestOne
<1>3. ProcsOne
  <2>1. \A p \in Procs : proc[p].pc = "idle" /\ ~proc[p].done
    BY DEF Init, Idle
  <2> QED BY <2>1 DEF ProcsOne, JobOne, UnreachedPCs, CyclePCs, CarriesVersion, SettlePCs, AdminPCs, PastLoad
<1> QED BY <1>1, <1>2, <1>3 DEF VersionInv

-----------------------------------------------------------------------------
(***************************************************************************)
(* A settle disarms a drained repository: without a re-ingest no row turns *)
(* pending again, so what was counted zero before the settler loaded the   *)
(* repository, or before the request armed it, is zero when it flips.      *)
(***************************************************************************)
DrainedPCs == {"load", "lease", "promote", "flip"}

DrainedAt(p) ==
    /\ proc[p].pc \in DrainedPCs => RowsIn("parsed") = {}
    /\ proc[p].pc \in {"arm_stamp", "arm_write"} /\ proc[p].flag => RowsIn("parsed") = {}
    /\ proc[p].pc # "requeue_failed"

CountedDrained == \A p \in Procs : DrainedAt(p)

(* A settler only comes to load the repository from its counts.            *)
LEMMA SettleLoads ==
    ASSUME TypeInvariant, NEW p \in Procs, SettleStep(p), ~Counts(p)
    PROVE  proc'[p].pc # "load"
<1> ProcOK
  BY Serving
<1>1. CASE Load(p)
  BY <1>1, Ends DEF Load, ProcOK, ProcType
<1>2. CASE Tally(p)
  BY <1>2 DEF Tally, ProcOK, ProcType
<1>3. CASE Flip(p)
  BY <1>3, Goes DEF Flip
<1> QED BY <1>1, <1>2, <1>3, Goes, Ends
        DEF SettleStep, Mark, TakeLease, Promote, Unlease, CollectGraph, WriteRecord

LEMMA CountsStayDrained ==
    ASSUME VersionInv, Spared({"reingest"}), CountedDrained, [Next]_vars
    PROVE  CountedDrained'
<1> USE DEF At
<1> ProcOK /\ Procs = Cycles \cup {Sweeper} \cup Admins
  BY TypeParts DEF VersionInv, Procs
<1>1. RowsIn("parsed") = {} => RowsIn("parsed")' = {}
  <2>1. RowsStay
    BY VersionKept DEF CountedDrained, DrainedAt, RequeueFailed
  <2> QED BY <2>1 DEF RowsStay, RowStays, RowsIn
<1>2. ASSUME NEW p \in Procs, Others(p), DrainedAt(p)'
      PROVE  CountedDrained'
  BY <1>1, <1>2 DEF Others, CountedDrained, DrainedAt
<1>3. ASSUME UNCHANGED proc
      PROVE  CountedDrained'
  BY <1>1, <1>3 DEF CountedDrained, DrainedAt
<1>4. ASSUME NEW p \in Procs, Others(p),
             proc'[p].pc \notin DrainedPCs \cup {"arm_stamp", "arm_write", "requeue_failed"}
      PROVE  CountedDrained'
  BY <1>2, <1>4 DEF DrainedAt
<1>5. CASE WorkerNext
  <2>1. PICK k \in Cycles :
          CycleStep(k) \/ HttpFails(k) \/ CycleStoreFails(k) \/ StampAckLost(k) \/ Claim(k)
    BY <1>5 DEF WorkerNext
  <2> QED BY <1>4, <2>1, CyclesPlain DEF VersionInv, Plain, DrainedPCs, AdminPCs, PastLoad, SettlePCs
<1>6. CASE SweepNext
  BY <1>4, <1>6, SweepPlain DEF VersionInv, Plain, DrainedPCs, AdminPCs, PastLoad, SettlePCs
<1>7. CASE DataprepNext \/ TimeNext
  BY <1>3, <1>7, DataprepEvolves, TimeEvolves DEF VersionInv
<1>8. CASE SettlementNext
  <2>1. CASE LeaseAges
    BY <1>3, <2>1 DEF LeaseAges
  <2>2. ASSUME NEW p \in Procs, SettleStep(p) \/ SettleWriteFails(p)
        PROVE  CountedDrained'
    <3>0. Others(p) /\ SettleMove(p)
      BY <2>2, SettleMoves DEF VersionInv
    <3>1. CASE Counts(p)
      <4>1. proc'[p].pc = IF ParsedCount # {} THEN "mark" ELSE "load"
        BY <3>1 DEF Counts, ProcOK, ProcType
      <4>2. UNCHANGED row
        BY <3>1 DEF Counts
      <4> QED BY <1>2, <3>0, <4>1, <4>2 DEF DrainedAt, DrainedPCs, ParsedCount, RowsIn
    <3>2. CASE ~Counts(p)
      <4>1. proc'[p].pc \in DrainedPCs => proc[p].pc \in DrainedPCs
        <5>1. CASE SettleStep(p)
          <6>1. proc'[p].pc # "load"
            BY <3>2, <5>1, Goes, Ends, SettleLoads DEF VersionInv
          <6> QED BY <3>0, <6>1 DEF SettleMove, Plain, Leads, DrainedPCs, PastLoad, SettlePCs
        <5>2. CASE SettleWriteFails(p)
          <6>1. proc'[p].pc # "load"
            BY <5>2, Goes, Ends DEF SettleWriteFails
          <6> QED BY <3>0, <6>1 DEF SettleMove, Plain, Leads, DrainedPCs, PastLoad, SettlePCs
        <5> QED BY <2>2, <5>1, <5>2
      <4>2. proc'[p].pc \notin AdminPCs
        BY <3>0 DEF SettleMove, Plain, Leads, AdminPCs
      <4>3. DrainedAt(p)'
        BY <1>1, <4>1, <4>2 DEF CountedDrained, DrainedAt, AdminPCs
      <4> QED BY <1>2, <3>0, <4>3
    <3> QED BY <3>1, <3>2
  <2> QED BY <1>8, <2>1, <2>2 DEF SettlementNext
<1>9. CASE LifecycleNext
  <2>1. PICK a \in Admins : Request(a) \/ RequestStep(a) \/ RequestFails(a)
    BY <1>9 DEF LifecycleNext
  <2>2. Others(a) /\ RequestMove(a) /\ a \in Procs
    BY <2>1, RequestMoves DEF VersionInv
  <2>3. CASE ArmCount(a)
    <3>1. /\ proc'[a].pc = "arm_stamp" /\ proc'[a].flag = (RowsIn("parsed") = {})
          /\ UNCHANGED row
      BY <2>2, <2>3 DEF ArmCount, ProcOK, ProcType
    <3> QED BY <1>2, <2>2, <3>1 DEF DrainedAt, DrainedPCs, RowsIn
  <2>4. CASE ArmStamp(a)
    <3>1. proc'[a].pc = "arm_write" /\ proc'[a].flag = proc[a].flag /\ proc[a].pc = "arm_stamp"
      BY <2>2, <2>4 DEF ArmStamp, Goto, ProcOK, ProcType
    <3> QED BY <1>1, <1>2, <2>2, <3>1 DEF CountedDrained, DrainedAt, DrainedPCs
  <2>5. CASE ArmWrite(a)
    <3>1. CASE Finish(a)
      BY <1>4, <2>2, <3>1, Ends DEF DrainedPCs
    <3>2. CASE ~Finish(a)
      <4> DEFINE j == [Idle EXCEPT !.pc = "load"]
      <4>1. proc' = [proc EXCEPT ![a] = j] /\ proc[a].flag /\ proc[a].pc = "arm_write"
        BY <2>5, <3>2 DEF ArmWrite
      <4>2. j.pc = "load"
        BY DEF Idle
      <4> HIDE DEF j
      <4>3. proc'[a].pc = "load"
        BY <2>2, <4>1, <4>2, Takes
      <4> QED BY <1>1, <1>2, <2>2, <4>1, <4>3 DEF CountedDrained, DrainedAt, DrainedPCs
    <3> QED BY <3>1, <3>2
  <2>6. CASE Request(a)
    <3>1. proc'[a].pc \notin DrainedPCs \cup {"arm_stamp", "arm_write", "requeue_failed"}
      <4>1. ~Reingest(a)
        BY DEF Reingest, Enter, Spend, Spared
      <4>2. CASE SignOff(a)
        BY <2>2, <4>2, Goes DEF SignOff, DrainedPCs
      <4>3. ASSUME NEW e, NEW pc \in {"arm_count", "drop", "unpublish", "mint", "publish_write"}, NEW g,
                   Enter(a, e, pc, g)
            PROVE  proc'[a].pc = pc
        <5> DEFINE j == [Idle EXCEPT !.pc = pc, !.graph = g, !.good = (e = "ingest")]
        <5>1. j.pc = pc /\ proc' = [proc EXCEPT ![a] = j]
          BY <4>3 DEF Enter, Idle
        <5> HIDE DEF j
        <5> QED BY <2>2, <5>1, Takes
      <4> QED BY <2>6, <4>1, <4>2, <4>3 DEF Request, Ingest, Retract, Unpublish, Publish, DrainedPCs
    <3> QED BY <1>4, <2>2, <3>1
  <2>7. CASE ~(Request(a) \/ ArmCount(a) \/ ArmStamp(a) \/ ArmWrite(a))
    <3>1. proc'[a].pc \notin DrainedPCs \cup {"arm_stamp", "arm_write", "requeue_failed"}
      <4>1. ~RequeueFailed(a)
        BY <2>2 DEF RequeueFailed, CountedDrained, DrainedAt
      <4>2. CASE Mint(a)
        <5>1. Finish(a) \/ proc'[a].pc = "publish_write"
          BY <2>2, <4>2 DEF Mint, ProcOK, ProcType
        <5> QED BY <2>2, <5>1, Ends DEF DrainedPCs
      <4> QED BY <2>1, <2>2, <2>7, <4>1, <4>2, Goes, Ends
              DEF RequestStep, Drop, Requeue, Disarm, UnpublishWrite, SignOffWrite, PublishWrite,
                  PublishRequeue, RequestFails, DrainedPCs
    <3> QED BY <1>4, <2>2, <3>1
  <2> QED BY <2>3, <2>4, <2>5, <2>6, <2>7
<1>10. CASE ServerCrash
  <2>1. \A p \in Procs : proc'[p].pc = "idle"
    BY <1>10 DEF ServerCrash, Idle
  <2> QED BY <2>1 DEF CountedDrained, DrainedAt, DrainedPCs
<1>11. CASE UNCHANGED vars
  BY <1>3, <1>11 DEF vars
<1> QED BY <1>5, <1>6, <1>7, <1>8, <1>9, <1>10, <1>11 DEF Next

(* A settle disarms the repository only when no concept is pending: with   *)
(* one version and no re-ingest, for any number of concepts, cycles,       *)
(* requests and faults, whether or not requests overlap refreshes and      *)
(* settles outlast their lease, the count a refresh or an ingest request   *)
(* took several awaits earlier still holds at the flip.                    *)
THEOREM SettlesWhatIsDrained ==
    ASSUME OneVersion, Allowance["reingest"] = 0
    PROVE  Spec => SettleOnlyDrained
<1> DEFINE I == VersionInv /\ Spared({"reingest"}) /\ CountedDrained
<1>1. Init => I
  <2> SUFFICES ASSUME Init
               PROVE  I
    OBVIOUS
  <2>1. \A p \in Procs : proc[p].pc = "idle"
    BY DEF Init, Idle
  <2> QED BY <2>1, VersionStarts DEF Init, Spared, CountedDrained, DrainedAt, DrainedPCs
<1>2. I /\ [Next]_vars => I'
  BY VersionKept, CountsStayDrained, SparedStays DEF VersionInv, Events
<1>3. I /\ [Next]_vars => [SettlesDrained]_vars
  BY DEF SettlesDrained, CountedDrained, DrainedAt, DrainedPCs, At
<1> QED BY <1>1, <1>2, <1>3, PTL DEF Spec, SettleOnlyDrained

-----------------------------------------------------------------------------
(***************************************************************************)
(* One copy.  While no wait outlasts its window, no answer of dataprep is  *)
(* late and none of its requests fails, a row is claimed by one cycle from *)
(* the stamp to its verdict: the cycle that retracts and posts a concept   *)
(* holds its claim, a task at work has a claimed pending row, and nobody   *)
(* retracts under it.  Crashes and lost writes and callbacks leave claims  *)
(* that nobody takes over, requeues happen to failed rows only.            *)
(***************************************************************************)
Unhurried ==
    /\ ~Ageing /\ MaxAttempts < MaxClaims
    /\ Allowance["late"] = 0 /\ Allowance["http"] = 0

CopyEvents == {"late", "http"}

CalmPCs == { "stamp", "pre_progress", "pre_graph", "retract_file", "post", "unclaim", "release",
             "wait" }

WorkPCs == CalmPCs \ {"stamp", "wait"}

JobCalm(p) ==
    /\ proc[p].pc \in CyclePCs => proc[p].pc \in CalmPCs /\ ~proc[p].parked /\ ~proc[p].stale
    /\ proc[p].pc = "stamp" => proc[p].seen = None
    /\ proc[p].pc = "release" => ~proc[p].flag
    /\ proc[p].pc # "reap"

RowCalm(c) == row[c].park = "none" /\ row[c].age = "fresh" /\ row[c].attempts <= MaxAttempts

OpenRow(c) == row[c].status = "parsed" /\ row[c].claim = None

(* A cycle about to stamp finds the row open; past it, the row is its own. *)
JobRow(k, c) ==
    /\ proc[k].pc \in WorkPCs => row[c].status = "parsed" /\ row[c].claim = k
    /\ proc[k].pc = "stamp" => OpenRow(c) /\ row[c].attempts < MaxAttempts

Active(c) == task[c].stage \in {"running", "ensured", "stored", "failing", "killed"}

TaskRow(c) ==
    /\ Active(c) => row[c].status = "parsed" /\ row[c].claim # None
    /\ Active(c) => \A k \in Cycles : proc[k].c = c => proc[k].pc \notin WorkPCs \cup {"stamp"}
    /\ task[c].stage = "cleanup" => row[c].status # "indexed"

Copies(c) ==
    /\ task[c].stage \in {"running", "ensured"} => chunks[1][c] = 0
    /\ task[c].stage = "stored" => chunks[1][c] = 1
    /\ row[c].status = "indexed" => chunks[1][c] = 1
    /\ \A k \in Cycles : proc[k].c = c /\ proc[k].pc = "post" => chunks[1][c] = 0

ConceptInv(c) ==
    /\ RowCalm(c) /\ TaskRow(c) /\ Copies(c)
    /\ \A k \in Cycles : proc[k].c = c => JobRow(k, c)

ConceptsOne == \A c \in Concepts : ConceptInv(c)

JobsCalm == \A p \in Procs : JobCalm(p)

CopyInv ==
    /\ VersionInv /\ DrainInv /\ Spared(CopyEvents) /\ late = {}
    /\ JobsCalm /\ ConceptsOne

(* What a concept does not notice: a step that leaves its row's claim, its *)
(* task and its chunks alone, and moves its cycle on within its work.      *)
RowSame(c) ==
    /\ row'[c].status = row[c].status /\ row'[c].claim = row[c].claim
    /\ row'[c].attempts = row[c].attempts /\ row'[c].park = row[c].park
    /\ row'[c].age = row[c].age

StoreSame(c) == task'[c] = task[c] /\ chunks'[1][c] = chunks[1][c]

WorksOn(c) ==
    \A k \in Cycles :
        proc'[k].c = c /\ proc'[k].pc \in WorkPCs \cup {"stamp"} =>
            /\ proc[k].c = c
            /\ \/ proc[k].pc = proc'[k].pc
               \/ proc[k].pc \in WorkPCs /\ proc'[k].pc \in WorkPCs \ {"post"}

LEMMA ConceptStays ==
    ASSUME NEW c \in Concepts, ConceptInv(c), RowSame(c), StoreSame(c), WorksOn(c)
    PROVE  ConceptInv(c)'
<1> USE DEF ConceptInv, RowSame, StoreSame
<1> "stamp" \notin WorkPCs /\ "post" \in WorkPCs
  BY DEF WorkPCs, CalmPCs
<1>1. RowCalm(c)'
  BY DEF RowCalm
<1>2. TaskRow(c)'
  BY DEF TaskRow, Active, WorksOn
<1>3. Copies(c)'
  BY DEF Copies, WorksOn
<1>4. ASSUME NEW k \in Cycles, proc'[k].c = c
      PROVE  JobRow(k, c)'
  BY <1>4 DEF JobRow, OpenRow, WorksOn
<1> QED BY <1>1, <1>2, <1>3, <1>4

(* A step of p that is not a cycle's leaves the concepts whose row, task   *)
(* and chunks it leaves.                                                   *)
LEMMA BystandersStay ==
    ASSUME NEW p \in Procs, Others(p), proc'[p].pc \notin WorkPCs \cup {"stamp"}
    PROVE  \A c : WorksOn(c)
BY DEF Others, WorksOn, Procs

(***************************************************************************)
(* The moves of a cycle.                                                   *)
(***************************************************************************)
TakesJob(k, c) ==
    /\ proc'[k].c = c /\ proc'[k].pc = "stamp"
    /\ OpenRow(c) /\ row[c].attempts < MaxAttempts
    /\ UNCHANGED <<row, task, chunks>>

StampsRow(k, c) ==
    /\ OpenRow(c) /\ row[c].attempts < MaxAttempts
    /\ \A j \in Cycles \ {k} : proc[j].pc # "stamp"
    /\ PatchRow(c, Stamped(row[c], k))
    /\ \/ proc'[k].c = c /\ proc'[k].pc = "pre_progress"
       \/ proc'[k].pc = "idle"
    /\ UNCHANGED <<task, chunks>>

WorksAhead(k, c) ==
    /\ proc[k].c = c /\ proc[k].pc \in WorkPCs
    /\ proc'[k].c = c /\ proc'[k].pc \in WorkPCs \ {"post"}
    /\ UNCHANGED <<row, task, chunks>>

ClearsCopy(k, c) ==
    /\ proc[k].c = c /\ proc[k].pc = "retract_file"
    /\ proc'[k].c = c /\ proc'[k].pc = "post"
    /\ DeleteChunks(c, 1)
    /\ UNCHANGED <<row, task>>

PostsTask(k, c) ==
    /\ proc[k].c = c /\ proc[k].pc = "post" /\ proc'[k].pc = "wait"
    /\ StartTask(c, 1)
    /\ UNCHANGED <<row, chunks>>

GivesUpClaim(k, c) ==
    /\ proc[k].c = c /\ proc[k].pc \in WorkPCs /\ proc'[k].pc = "idle"
    /\ \A d \in Concepts \ {c} : row'[d] = row[d]
    /\ row'[c].status = "parsed" /\ row'[c].claim = None
    /\ row'[c].park = "none" /\ row'[c].age = "fresh" /\ row'[c].attempts <= MaxAttempts
    /\ UNCHANGED <<task, chunks>>

LeavesJob(k) ==
    /\ proc'[k].pc \in {"idle", "counts"}
    /\ UNCHANGED <<row, task, chunks>>

CalmMove(k) ==
    \/ \E c \in Concepts :
         \/ TakesJob(k, c) \/ StampsRow(k, c) \/ WorksAhead(k, c)
         \/ ClearsCopy(k, c) \/ PostsTask(k, c) \/ GivesUpClaim(k, c)
    \/ LeavesJob(k)

LEMMA CalmMoveKeeps ==
    ASSUME CopyInv, NEW k \in Cycles, Others(k), CalmMove(k)
    PROVE  ConceptsOne'
<1> /\ RowOK /\ TaskOK /\ StoreOK /\ ConceptsOne /\ k \in Procs /\ None \notin Cycles
    /\ 1 \in Graphs
  BY TypeParts, ProcsAssumption, BoundsAssumption DEF CopyInv, VersionInv, Procs, Graphs
<1> WorkPCs = {"pre_progress", "pre_graph", "retract_file", "post", "unclaim", "release"}
  BY DEF WorkPCs, CalmPCs
<1>1. ASSUME NEW c \in Concepts, proc'[k].pc \in WorkPCs \cup {"stamp"} => proc'[k].c = c,
             NEW d \in Concepts \ {c}, RowSame(d), StoreSame(d)
      PROVE  ConceptInv(d)'
  <2>1. WorksOn(d)
    BY <1>1 DEF WorksOn, Others, Procs
  <2> QED BY <1>1, <2>1, ConceptStays DEF ConceptsOne
<1>2. ASSUME NEW c \in Concepts, RowCalm(c)', TaskRow(c)', Copies(c)',
             \A j \in Cycles : proc'[j].c = c => JobRow(j, c)'
      PROVE  ConceptInv(c)'
  BY <1>2 DEF ConceptInv
<1>3. \A j \in Cycles \ {k} : proc'[j] = proc[j]
  BY DEF Others, Procs
<1>4. ASSUME NEW c \in Concepts
      PROVE  /\ RowCalm(c) /\ TaskRow(c) /\ Copies(c)
             /\ \A j \in Cycles : proc[j].c = c => JobRow(j, c)
  BY DEF ConceptsOne, ConceptInv
<1>5. UNCHANGED row => \A c \in Concepts : RowSame(c)
  BY DEF RowSame
<1>6. UNCHANGED <<task, chunks>> => \A c \in Concepts : StoreSame(c)
  BY DEF StoreSame
<1>7. ASSUME NEW c \in Concepts, TakesJob(k, c)
      PROVE  ConceptsOne'
  <2>1. ~Active(c)
    BY <1>4, <1>7 DEF TakesJob, OpenRow, TaskRow
  <2>2. RowCalm(c)' /\ TaskRow(c)' /\ Copies(c)'
    BY <1>3, <1>4, <1>7, <2>1 DEF TakesJob, RowCalm, TaskRow, Active, Copies
  <2>3. \A j \in Cycles : proc'[j].c = c => JobRow(j, c)'
    BY <1>3, <1>4, <1>7 DEF TakesJob, JobRow, OpenRow
  <2>4. ConceptInv(c)'
    BY <1>2, <2>2, <2>3
  <2> QED BY <1>1, <1>5, <1>6, <1>7, <2>4 DEF TakesJob, ConceptsOne
<1>8. ASSUME NEW c \in Concepts, StampsRow(k, c)
      PROVE  ConceptsOne'
  <2>1. ~Active(c)
    BY <1>4, <1>8 DEF StampsRow, OpenRow, TaskRow
  <2>2. /\ row'[c] = Stamped(row[c], k) /\ row[c] \in RowType
        /\ \A d \in Concepts \ {c} : row'[d] = row[d]
    BY <1>8 DEF StampsRow, PatchRow, RowOK
  <2>3. /\ row'[c].status = "parsed" /\ row'[c].claim = k /\ row'[c].age = "fresh"
        /\ row'[c].park = row[c].park /\ row'[c].attempts = row[c].attempts + 1
    BY <1>8, <2>2 DEF StampsRow, OpenRow, Stamped, RowType
  <2>4. RowCalm(c)'
    BY <1>4, <1>8, <2>2, <2>3, BoundsAssumption DEF StampsRow, RowCalm, RowType
  <2>5. TaskRow(c)' /\ Copies(c)'
    BY <1>3, <1>4, <1>8, <2>1, <2>3 DEF StampsRow, TaskRow, Active, Copies
  <2>6. \A j \in Cycles : proc'[j].c = c => JobRow(j, c)'
    BY <1>3, <1>4, <1>8, <2>3 DEF StampsRow, JobRow, OpenRow
  <2>7. ConceptInv(c)'
    BY <1>2, <2>4, <2>5, <2>6
  <2>8. \A d \in Concepts \ {c} : RowSame(d)
    BY <2>2 DEF RowSame
  <2> QED BY <1>1, <1>6, <1>8, <2>7, <2>8 DEF StampsRow, ConceptsOne
<1>9. ASSUME NEW c \in Concepts, WorksAhead(k, c)
      PROVE  ConceptsOne'
  <2>1. WorksOn(c)
    BY <1>3, <1>9 DEF WorksAhead, WorksOn
  <2>2. ConceptInv(c)'
    BY <1>5, <1>6, <1>9, <2>1, ConceptStays DEF WorksAhead, ConceptsOne
  <2> QED BY <1>1, <1>5, <1>6, <1>9, <2>2 DEF WorksAhead, ConceptsOne
<1>10. ASSUME NEW c \in Concepts, ClearsCopy(k, c)
       PROVE  ConceptsOne'
  <2>1. chunks'[1][c] = 0 /\ \A d \in Concepts \ {c} : chunks'[1][d] = chunks[1][d]
    BY <1>10 DEF ClearsCopy, DeleteChunks, StoreOK
  <2>2. ~Active(c) /\ row[c].status = "parsed" /\ row[c].claim = k
    BY <1>4, <1>10 DEF ClearsCopy, TaskRow, JobRow
  <2>3. RowCalm(c)' /\ TaskRow(c)'
    BY <1>4, <1>10, <2>2 DEF ClearsCopy, RowCalm, TaskRow, Active
  <2>4. Copies(c)'
    BY <1>10, <2>1, <2>2 DEF ClearsCopy, Copies, Active
  <2>5. \A j \in Cycles : proc'[j].c = c => JobRow(j, c)'
    BY <1>3, <1>4, <1>10, <2>2 DEF ClearsCopy, JobRow, OpenRow
  <2>6. ConceptInv(c)'
    BY <1>2, <2>3, <2>4, <2>5
  <2>7. \A d \in Concepts \ {c} : StoreSame(d)
    BY <1>10, <2>1 DEF ClearsCopy, StoreSame
  <2> QED BY <1>1, <1>5, <1>10, <2>6, <2>7 DEF ClearsCopy, ConceptsOne
<1>11. ASSUME NEW c \in Concepts, PostsTask(k, c)
       PROVE  ConceptsOne'
  <2>1. task'[c].stage = "running" /\ \A d \in Concepts \ {c} : task'[d] = task[d]
    BY <1>11 DEF PostsTask, StartTask, TaskOK
  <2>2. row[c].status = "parsed" /\ row[c].claim = k /\ chunks[1][c] = 0
    BY <1>4, <1>11 DEF PostsTask, JobRow, Copies
  <2>3. \A j \in Cycles \ {k} : proc[j].c = c => proc[j].pc \notin WorkPCs \cup {"stamp"}
    BY <1>4, <2>2 DEF JobRow, OpenRow
  <2>4. RowCalm(c)' /\ TaskRow(c)'
    BY <1>3, <1>4, <1>11, <2>1, <2>2, <2>3 DEF PostsTask, RowCalm, TaskRow, Active
  <2>5. Copies(c)'
    BY <1>11, <2>1, <2>2 DEF PostsTask, Copies
  <2>6. \A j \in Cycles : proc'[j].c = c => JobRow(j, c)'
    BY <1>3, <1>11, <2>3 DEF PostsTask, JobRow
  <2>7. ConceptInv(c)'
    BY <1>2, <2>4, <2>5, <2>6
  <2>8. \A d \in Concepts \ {c} : StoreSame(d)
    BY <1>11, <2>1 DEF PostsTask, StoreSame
  <2> QED BY <1>1, <1>5, <1>11, <2>7, <2>8 DEF PostsTask, ConceptsOne
<1>12. ASSUME NEW c \in Concepts, GivesUpClaim(k, c)
       PROVE  ConceptsOne'
  <2>1. ~Active(c) /\ row[c].claim = k
    BY <1>4, <1>12 DEF GivesUpClaim, TaskRow, JobRow
  <2>2. RowCalm(c)' /\ TaskRow(c)'
    BY <1>12, <2>1 DEF GivesUpClaim, RowCalm, TaskRow, Active
  <2>3. Copies(c)'
    BY <1>3, <1>4, <1>12 DEF GivesUpClaim, Copies
  <2>4. \A j \in Cycles : proc'[j].c = c => JobRow(j, c)'
    BY <1>3, <1>4, <1>12, <2>1 DEF GivesUpClaim, JobRow, OpenRow
  <2>5. ConceptInv(c)'
    BY <1>2, <2>2, <2>3, <2>4
  <2>6. \A d \in Concepts \ {c} : RowSame(d)
    BY <1>12 DEF GivesUpClaim, RowSame
  <2> QED BY <1>1, <1>6, <1>12, <2>5, <2>6 DEF GivesUpClaim, ConceptsOne
<1>13. CASE LeavesJob(k)
  <2>1. \A c \in Concepts : WorksOn(c)
    BY <1>13, BystandersStay DEF LeavesJob
  <2> QED BY <1>5, <1>6, <1>13, <2>1, ConceptStays DEF LeavesJob, ConceptsOne
<1> QED BY <1>7, <1>8, <1>9, <1>10, <1>11, <1>12, <1>13 DEF CalmMove

(* Every step of a cycle is one of these moves.                            *)
LEMMA CalmMoves ==
    ASSUME ~Ageing, CopyInv, NEW k \in Cycles,
           Claim(k) \/ CycleStep(k) \/ HttpFails(k) \/ CycleStoreFails(k) \/ StampAckLost(k)
    PROVE  Others(k) /\ CalmMove(k) /\ JobCalm(k)'
<1> USE DEF At
<1> DEFINE c == proc[k].c
<1> /\ k \in Procs /\ ProcOK /\ RowOK /\ JobCalm(k) /\ proc[k] \in ProcType
    /\ JobOne(k) /\ JobOne(k)' /\ StampReadsOpen /\ left["http"] = 0
  BY TypeParts, CycleOne
     DEF CopyInv, VersionInv, DrainInv, JobsCalm, ProcsOne, Procs, ProcOK, Spared, CopyEvents
<1>0. Others(k)
  BY CyclesPlain DEF CopyInv, VersionInv
<1> SUFFICES CalmMove(k) /\ JobCalm(k)'
  BY <1>0
<1>1. proc[k].pc \in CyclePCs => /\ proc[k].pc \in CalmPCs /\ ~proc[k].parked /\ ~proc[k].stale
                                /\ c \in Concepts /\ row[c] \in RowType /\ proc[k].graph = 1
                                /\ ConceptInv(c)
  BY Holding DEF CopyInv, VersionInv, JobCalm, JobOne, ConceptsOne
<1> WorkPCs = {"pre_progress", "pre_graph", "retract_file", "post", "unclaim", "release"}
  BY DEF WorkPCs, CalmPCs
<1> HIDE DEF c
<1>2. ASSUME proc[k].pc \in CyclePCs, UNCHANGED <<row, task, chunks>>, Finish(k) \/ GoRefresh(k)
      PROVE  CalmMove(k) /\ JobCalm(k)'
  <2>1. proc'[k].pc \in {"idle", "counts"}
    BY <1>2, Ends
  <2> QED BY <1>2, <2>1 DEF CalmMove, LeavesJob, JobCalm, CyclePCs
<1>3. ASSUME proc[k].pc \in WorkPCs, NEW pc \in WorkPCs \ {"post"}, UNCHANGED <<row, task, chunks>>,
             proc'[k].pc = pc, proc'[k].c = c, proc'[k].parked = proc[k].parked,
             proc'[k].stale = proc[k].stale, pc = "release" => ~proc'[k].flag
      PROVE  CalmMove(k) /\ JobCalm(k)'
  <2>1. c \in Concepts /\ WorksAhead(k, c)
    BY <1>1, <1>3 DEF WorksAhead, CyclePCs, c
  <2>2. JobCalm(k)'
    BY <1>1, <1>3 DEF JobCalm, CyclePCs, CalmPCs
  <2> QED BY <2>1, <2>2 DEF CalmMove
<1>4. ASSUME NEW pc, Goto(k, pc)
      PROVE  /\ proc'[k].pc = pc /\ proc'[k].c = c /\ proc'[k].parked = proc[k].parked
             /\ proc'[k].stale = proc[k].stale
  BY <1>4 DEF Goto, ProcOK, ProcType, c
<1>17. ASSUME NEW pc, NEW f, proc' = [proc EXCEPT ![k].pc = pc, ![k].flag = f]
       PROVE  /\ proc'[k].pc = pc /\ proc'[k].c = c /\ proc'[k].parked = proc[k].parked
              /\ proc'[k].stale = proc[k].stale /\ proc'[k].flag = f
  BY <1>17 DEF ProcOK, ProcType, c
<1>5. ASSUME NEW d \in Concepts, NEW pc \in {"stamp", "pre_progress"}, Claimable(d),
             proc' = [proc EXCEPT ![k] = [Job(d) EXCEPT !.pc = pc]]
      PROVE  /\ OpenRow(d) /\ row[d].attempts < MaxAttempts
             /\ proc'[k].c = d /\ proc'[k].pc = pc /\ JobCalm(k)'
  <2> DEFINE j == [Job(d) EXCEPT !.pc = pc]
  <2>1. /\ j.pc = pc /\ j.c = d /\ j.seen = row[d].claim /\ j.stale = (row[d].claim # None)
        /\ j.parked = (row[d].park # "none")
    BY DEF Job, Idle
  <2> HIDE DEF j
  <2>2. proc'[k] = j
    BY <1>5, Takes DEF j
  <2>3. RowCalm(d)
    BY DEF CopyInv, ConceptsOne, ConceptInv
  <2>4. OpenRow(d) /\ row[d].attempts < MaxAttempts
    BY <1>5, <2>3 DEF Claimable, ClaimOpen, RowCalm, OpenRow
  <2> QED BY <2>1, <2>2, <2>3, <2>4 DEF JobCalm, CalmPCs, CyclePCs, RowCalm, OpenRow
<1>6. CASE Claim(k)
  <2>1. PICK d \in Concepts : ClaimRead(k, d) \/ ClaimFair(k, d)
    BY <1>6 DEF Claim
  <2>2. CASE ClaimRead(k, d)
    BY <1>5, <2>2 DEF ClaimRead, CalmMove, TakesJob
  <2>3. CASE ClaimFair(k, d)
    <3>1. \A j \in Cycles : proc[j].pc # "stamp"
      BY <2>3 DEF ClaimFair, StampReadsOpen
    <3> QED BY <1>5, <2>3, <3>1 DEF ClaimFair, CalmMove, StampsRow
  <2> QED BY <2>1, <2>2, <2>3
<1>7. CASE Stamp(k) \/ StampAckLost(k)
  <2>1. /\ proc[k].pc = "stamp" /\ c \in Concepts /\ OpenRow(c) /\ row[c].attempts < MaxAttempts
        /\ proc[k].seen = None
    BY <1>1, <1>7 DEF Stamp, StampAckLost, CyclePCs, ConceptInv, JobRow, JobCalm, c
  <2>2. StampMatches(k)
    BY <2>1 DEF StampMatches, OpenRow, c
  <2>3. PatchRow(c, Stamped(row[c], k)) /\ UNCHANGED <<task, chunks>>
    BY <1>7, <2>2 DEF Stamp, StampAckLost, c
  <2>4. \A j \in Cycles \ {k} : proc[j].pc # "stamp"
    BY <2>1 DEF StampReadsOpen
  <2>5. Goto(k, "pre_progress") \/ Finish(k)
    BY <1>7 DEF Stamp, StampAckLost
  <2>6. \/ proc'[k].c = c /\ proc'[k].pc = "pre_progress"
        \/ proc'[k].pc = "idle"
    BY <1>4, <2>5, Ends
  <2>7. JobCalm(k)'
    <3>1. CASE Goto(k, "pre_progress")
      BY <1>1, <1>4, <2>1, <3>1 DEF JobCalm, CalmPCs, CyclePCs
    <3>2. CASE Finish(k)
      BY <3>2, Ends DEF JobCalm, CyclePCs
    <3> QED BY <2>5, <3>1, <3>2
  <2>8. StampsRow(k, c)
    BY <2>1, <2>3, <2>4, <2>6 DEF StampsRow
  <2> QED BY <2>1, <2>7, <2>8 DEF CalmMove
<1>8. CASE ReadProgress(k)
  BY <1>3, <1>8, <1>17 DEF ReadProgress
<1>9. CASE CheckGraph(k)
  <2> DEFINE job == [proc[k] EXCEPT !.flag = proc[k].graph \notin exists]
             pc == IF job.flag /\ proc[k].flag THEN "reset_record" ELSE AfterPreflight(job)
             j == [job EXCEPT !.pc = pc]
  <2>1. pc \in {"reset_record", "retract_file"}
    BY <1>1, <1>9 DEF CheckGraph, CyclePCs, AfterPreflight, ProcType
  <2>2. proc' = [proc EXCEPT ![k] = j] /\ UNCHANGED <<row, task, chunks>> /\ proc[k].pc = "pre_graph"
    BY <1>9 DEF CheckGraph
  <2> HIDE DEF pc
  <2>3. j.pc = pc /\ j.c = c /\ j.parked = proc[k].parked /\ j.stale = proc[k].stale
    BY DEF ProcType, c
  <2> HIDE DEF j
  <2>4. proc'[k] = j
    BY <2>2, Takes
  <2>5. pc = "retract_file"
    BY <2>1, <2>3, <2>4 DEF JobOne, UnreachedPCs
  <2> QED BY <1>3, <2>2, <2>3, <2>4, <2>5
<1>10. CASE RetractFile(k)
  <2>1. /\ c \in Concepts /\ proc[k].pc = "retract_file" /\ DeleteChunks(c, 1) /\ UNCHANGED <<row, task>>
        /\ Goto(k, "post")
    BY <1>1, <1>10 DEF RetractFile, CyclePCs, c
  <2>2. proc'[k].pc = "post" /\ proc'[k].c = c /\ JobCalm(k)'
    BY <1>1, <1>4, <2>1 DEF JobCalm, CalmPCs, CyclePCs
  <2> QED BY <2>1, <2>2 DEF CalmMove, ClearsCopy, c
<1>11. CASE Post(k)
  <2>1. proc[k].pc = "post" /\ UNCHANGED <<row, chunks>> /\ c \in Concepts /\ proc[k].graph = 1
    BY <1>1, <1>11 DEF Post, CyclePCs
  <2>2. CASE Goto(k, "unclaim") /\ UNCHANGED task
    BY <1>3, <1>4, <2>1, <2>2
  <2>3. CASE GoRelease(k, FALSE) /\ UNCHANGED task
    <3>1. proc' = [proc EXCEPT ![k].pc = "release", ![k].flag = FALSE]
      BY <2>3 DEF GoRelease
    <3>2. /\ proc'[k].pc = "release" /\ proc'[k].c = c /\ proc'[k].parked = proc[k].parked
          /\ proc'[k].stale = proc[k].stale /\ ~proc'[k].flag
      BY <1>17, <3>1
    <3> QED BY <1>3, <2>1, <2>3, <3>2
  <2>4. CASE StartTask(proc[k].c, proc[k].graph) /\ Goto(k, "wait")
    <3>1. PostsTask(k, c)
      BY <1>4, <2>1, <2>4 DEF PostsTask, c
    <3>2. JobCalm(k)'
      BY <1>1, <1>4, <2>1, <2>4 DEF JobCalm, CalmPCs, CyclePCs
    <3> QED BY <2>1, <3>1, <3>2 DEF CalmMove
  <2> QED BY <1>11, <2>2, <2>3, <2>4 DEF Post
<1>12. CASE Unclaim(k) \/ Release(k)
  <2>1. /\ proc[k].pc \in {"unclaim", "release"} /\ c \in Concepts /\ row[c] \in RowType
        /\ UNCHANGED <<task, chunks>> /\ Finish(k)
        /\ row[c].status = "parsed" /\ row[c].claim = k /\ RowCalm(c)
    BY <1>1, <1>12 DEF Unclaim, Release, CyclePCs, ConceptInv, JobRow, c
  <2>2. PatchRow(c, Released(row[c])) \/ PatchRow(c, Unclaimed(row[c]))
    <3>1. CASE Unclaim(k)
      BY <2>1, <3>1 DEF Unclaim, PatchRow, RowOK, c
    <3>2. CASE Release(k)
      BY <2>1, <3>2 DEF Release, ReleasePatch, JobCalm, c
    <3> QED BY <1>12, <3>1, <3>2
  <2>3. \A r \in {Released(row[c]), Unclaimed(row[c])} :
          /\ r.status = "parsed" /\ r.claim = None /\ r.park = "none" /\ r.age = "fresh"
          /\ r.attempts <= MaxAttempts
    <3>1. /\ row[c].attempts \in Nat /\ MaxAttempts \in Nat /\ row[c].attempts <= MaxAttempts
          /\ row[c].park = "none"
      BY <2>1, BoundsAssumption DEF RowType, RowCalm
    <3>2. /\ Released(row[c]).status = "parsed" /\ Released(row[c]).claim = None
          /\ Released(row[c]).park = "none" /\ Released(row[c]).age = "fresh"
          /\ Released(row[c]).attempts = row[c].attempts
      BY <2>1, <3>1 DEF Released, RowType
    <3>3. /\ Unclaimed(row[c]).status = "parsed" /\ Unclaimed(row[c]).claim = None
          /\ Unclaimed(row[c]).park = "none" /\ Unclaimed(row[c]).age = "fresh"
          /\ Unclaimed(row[c]).attempts = IF row[c].attempts > 0 THEN row[c].attempts - 1 ELSE 0
      BY <2>1, <3>1 DEF Released, Unclaimed, RowType
    <3>4. Unclaimed(row[c]).attempts <= MaxAttempts
      BY <3>1, <3>3
    <3> QED BY <3>1, <3>2, <3>3, <3>4
  <2>4. row'[c] \in {Released(row[c]), Unclaimed(row[c])} /\ \A d \in Concepts \ {c} : row'[d] = row[d]
    BY <2>1, <2>2 DEF PatchRow, RowOK
  <2>5. proc'[k].pc = "idle" /\ JobCalm(k)'
    BY <2>1, Ends DEF JobCalm, CyclePCs
  <2>6. GivesUpClaim(k, c)
    BY <2>1, <2>3, <2>4, <2>5 DEF GivesUpClaim, c
  <2> QED BY <2>1, <2>5, <2>6 DEF CalmMove
<1>13. CASE SeeVerdict(k)
  <2>1. proc[k].pc \in CyclePCs /\ UNCHANGED <<row, task, chunks>> /\ (GoRefresh(k) \/ Goto(k, "heal"))
    BY <1>13 DEF SeeVerdict, CyclePCs
  <2>2. ~Goto(k, "heal")
    BY Goes DEF JobOne, UnreachedPCs
  <2> QED BY <1>2, <2>1, <2>2
<1>14. CASE HttpFails(k) \/ Timeout(k)
  BY <1>14 DEF HttpFails, Timeout, Spend
<1>15. CASE CycleStoreFails(k)
  <2>1. UNCHANGED <<row, task, chunks>>
    BY <1>15 DEF CycleStoreFails
  <2>2. CASE Finish(k) \/ GoRefresh(k)
    <3>1. proc'[k].pc \in {"idle", "counts"}
      BY <2>2, Ends
    <3> QED BY <2>1, <2>2, <3>1 DEF CalmMove, LeavesJob, JobCalm, CyclePCs
  <2>3. CASE At(k, "pre_progress") /\ proc' = [proc EXCEPT ![k].pc = "pre_graph", ![k].flag = FALSE]
    BY <1>3, <1>17, <2>1, <2>3
  <2>4. proc[k].pc \notin {"reset_record", "reset_rows"}
    BY DEF JobOne, UnreachedPCs
  <2> QED BY <1>15, <2>2, <2>3, <2>4 DEF CycleStoreFails
<1>16. CASE ResetRecord(k) \/ ResetRows(k) \/ ProbePark(k) \/ ProbeStale(k) \/ Defer(k) \/ Abort(k)
            \/ Recheck(k) \/ ProbeTimeout(k) \/ TimeoutRelease(k) \/ Heal(k)
  BY <1>16
     DEF ResetRecord, ResetRows, ProbePark, ProbeStale, Defer, Abort, Recheck, ProbeTimeout,
         TimeoutRelease, Heal, JobCalm, CyclePCs, CalmPCs
<1> QED BY <1>0, <1>6, <1>7, <1>8, <1>9, <1>10, <1>11, <1>12, <1>13, <1>14, <1>15, <1>16 DEF CycleStep

(* Dataprep: a task at work has its concept to itself, and leaves one copy *)
(* under an indexed row.                                                   *)
LEMMA TaskKeepsConcepts ==
    ASSUME CopyInv, NEW c \in Concepts,
           TaskStep(c) \/ TaskFails(c) \/ Kill(c) \/ CallbackLost(c)
    PROVE  ConceptsOne' /\ UNCHANGED <<late, proc>>
<1> /\ RowOK /\ TaskOK /\ StoreOK /\ ConceptsOne /\ row[c] \in RowType /\ 1 \in Graphs
    /\ ConceptInv(c) /\ (Live(c) => task[c].graph = 1) /\ task[c] \in TaskType
  BY TypeParts, BoundsAssumption
     DEF CopyInv, VersionInv, ConceptsOne, RowOK, TaskOK, Graphs, TasksOne, TaskOne
<1> USE DEF TaskAt, Live
<1>0. UNCHANGED <<late, proc>>
  BY DEF TaskStep, EnsureGraph, StoreChunks, Callback, Rollback, TaskEnds, TaskFails, Kill, CallbackLost
<1> SUFFICES ConceptsOne'
  BY <1>0
<1>1. ASSUME \A d \in Concepts \ {c} : RowSame(d) /\ StoreSame(d), ConceptInv(c)'
      PROVE  ConceptsOne'
  <2>1. \A d \in Concepts : WorksOn(d)
    BY <1>0 DEF WorksOn
  <2> QED BY <1>1, <2>1, ConceptStays DEF ConceptsOne
<1>2. UNCHANGED row => \A d \in Concepts : RowSame(d)
  BY DEF RowSame
<1>3. UNCHANGED row => RowCalm(c)'
  BY DEF ConceptInv, RowCalm
<1>4. ASSUME NEW s, Stage(c, s)
      PROVE  task'[c].stage = s /\ \A d \in Concepts \ {c} : task'[d] = task[d]
  BY <1>4 DEF Stage, TaskOK, TaskType
<1>5. DeleteChunks(c, 1) =>
        chunks'[1][c] = 0 /\ \A d \in Concepts \ {c} : chunks'[1][d] = chunks[1][d]
  BY DEF DeleteChunks, StoreOK
<1>6. Append(c, 1) =>
        /\ chunks[1][c] = 0 => chunks'[1][c] = 1
        /\ \A d \in Concepts \ {c} : chunks'[1][d] = chunks[1][d]
  BY DEF Append, StoreOK
<1>7. ASSUME Active(c), RowCalm(c)', TaskRow(c)',
             task'[c].stage \in {"running", "ensured"} => chunks'[1][c] = 0,
             task'[c].stage = "stored" \/ row'[c].status = "indexed" => chunks'[1][c] = 1,
             \A d \in Concepts \ {c} : RowSame(d) /\ StoreSame(d)
      PROVE  ConceptsOne'
  <2>1. \A k \in Cycles : proc'[k].c = c => proc'[k].pc \notin WorkPCs \cup {"stamp"}
    BY <1>0, <1>7 DEF ConceptInv, TaskRow
  <2>2. Copies(c)'
    BY <1>7, <2>1 DEF Copies, WorkPCs, CalmPCs
  <2>3. \A k \in Cycles : proc'[k].c = c => JobRow(k, c)'
    BY <2>1 DEF JobRow
  <2> QED BY <1>1, <1>7, <2>2, <2>3 DEF ConceptInv
<1>8. ASSUME Active(c), UNCHANGED row
      PROVE  TaskRow(c)' /\ row'[c].status # "indexed"
  BY <1>0, <1>8 DEF ConceptInv, TaskRow, Active
<1>9. CASE EnsureGraph(c)
  <2>1. /\ Active(c) /\ chunks[1][c] = 0 /\ UNCHANGED <<row, chunks>> /\ Stage(c, "ensured")
    BY <1>9 DEF EnsureGraph, Active, ConceptInv, Copies
  <2>2. task'[c].stage = "ensured" /\ \A d \in Concepts \ {c} : StoreSame(d)
    BY <1>4, <2>1 DEF StoreSame
  <2>3. TaskRow(c)' /\ row'[c].status # "indexed"
    BY <1>8, <2>1, <2>2
  <2> QED BY <1>2, <1>3, <1>7, <2>1, <2>2, <2>3
<1>10. CASE StoreChunks(c)
  <2>1. Active(c) /\ chunks[1][c] = 0 /\ UNCHANGED row /\ task[c].graph = 1
    BY <1>10 DEF StoreChunks, Active, ConceptInv, Copies
  <2>2. CASE Append(c, 1) /\ Stage(c, "stored")
    <3>1. task'[c].stage = "stored" /\ \A d \in Concepts \ {c} : StoreSame(d)
      BY <1>4, <1>6, <2>2 DEF StoreSame
    <3>2. TaskRow(c)' /\ row'[c].status # "indexed"
      BY <1>8, <2>1, <3>1
    <3> QED BY <1>2, <1>3, <1>6, <1>7, <2>1, <2>2, <3>1, <3>2
  <2>3. CASE UNCHANGED chunks /\ Stage(c, "failing")
    <3>1. task'[c].stage = "failing" /\ \A d \in Concepts \ {c} : StoreSame(d)
      BY <1>4, <2>3 DEF StoreSame
    <3>2. TaskRow(c)' /\ row'[c].status # "indexed"
      BY <1>8, <2>1, <3>1
    <3> QED BY <1>2, <1>3, <1>7, <2>1, <2>3, <3>1, <3>2
  <2> QED BY <1>10, <2>1, <2>2, <2>3 DEF StoreChunks
<1>11. CASE TaskFails(c)
  <2>1. /\ Active(c) /\ UNCHANGED row /\ task[c].graph = 1 /\ Stage(c, "failing")
        /\ UNCHANGED chunks \/ Append(c, 1)
    BY <1>11 DEF TaskFails, Active
  <2>2. task'[c].stage = "failing" /\ \A d \in Concepts \ {c} : StoreSame(d)
    BY <1>4, <1>6, <2>1 DEF StoreSame
  <2>3. TaskRow(c)' /\ row'[c].status # "indexed"
    BY <1>8, <2>1, <2>2
  <2> QED BY <1>2, <1>3, <1>7, <2>1, <2>2, <2>3
<1>12. CASE Kill(c) /\ task[c].stage \in {"running", "ensured", "stored"}
  <2>1. Active(c) /\ UNCHANGED row /\ DeleteChunks(c, 1) /\ Stage(c, "killed")
    BY <1>12 DEF Kill, Active
  <2>2. task'[c].stage = "killed" /\ \A d \in Concepts \ {c} : StoreSame(d)
    BY <1>4, <1>5, <2>1 DEF StoreSame
  <2>3. TaskRow(c)' /\ row'[c].status # "indexed"
    BY <1>8, <2>1, <2>2
  <2> QED BY <1>2, <1>3, <1>7, <2>1, <2>2, <2>3
<1>13. CASE CallbackLost(c)
  <2>1. /\ Active(c) /\ UNCHANGED <<row, chunks>>
        /\ Stage(c, "cleanup") \/ Stage(c, "done")
    BY <1>13 DEF CallbackLost, Reporting, AfterCallback, Active
  <2>2. task'[c].stage \in {"cleanup", "done"} /\ \A d \in Concepts \ {c} : StoreSame(d)
    BY <1>4, <2>1 DEF StoreSame
  <2>3. TaskRow(c)' /\ row'[c].status # "indexed"
    BY <1>8, <2>1, <2>2
  <2> QED BY <1>2, <1>3, <1>7, <2>1, <2>2, <2>3
<1>14. CASE Callback(c)
  <2>1. /\ Active(c) /\ UNCHANGED chunks
        /\ PatchRow(c, Verdict(row[c], VerdictOf(task[c].stage)))
        /\ Stage(c, AfterCallback(task[c].stage))
    BY <1>14 DEF Callback, Reporting, Active
  <2>2. /\ row'[c] = Verdict(row[c], VerdictOf(task[c].stage))
        /\ \A d \in Concepts \ {c} : row'[d] = row[d]
    BY <2>1 DEF PatchRow, RowOK
  <2>3. /\ row'[c].park = row[c].park /\ row'[c].age = row[c].age
        /\ row'[c].attempts = row[c].attempts
        /\ row'[c].status = IF VerdictOf(task[c].stage) = "indexed" THEN "indexed" ELSE "failed"
    BY <2>2 DEF Verdict, RowType
  <2>4. RowCalm(c)'
    BY <2>3 DEF ConceptInv, RowCalm
  <2>5. /\ task'[c].stage = AfterCallback(task[c].stage)
        /\ \A d \in Concepts \ {c} : RowSame(d) /\ StoreSame(d)
    BY <1>4, <2>1, <2>2 DEF RowSame, StoreSame
  <2>6. /\ task'[c].stage \in {"cleanup", "done"}
        /\ task'[c].stage = "cleanup" => row'[c].status # "indexed"
        /\ row'[c].status = "indexed" => task[c].stage = "stored"
    BY <2>3, <2>5 DEF AfterCallback, VerdictOf
  <2>7. TaskRow(c)'
    BY <2>6 DEF TaskRow, Active
  <2>8. row'[c].status = "indexed" => chunks'[1][c] = 1
    BY <2>1, <2>6 DEF ConceptInv, Copies
  <2> QED BY <1>7, <2>1, <2>4, <2>5, <2>6, <2>7, <2>8
<1>15. ASSUME UNCHANGED row, task'[c].stage \in {"done", "none"},
              UNCHANGED chunks \/ (DeleteChunks(c, 1) /\ row[c].status # "indexed"),
              \A d \in Concepts \ {c} : task'[d] = task[d]
       PROVE  ConceptsOne'
  <2>1. \A d \in Concepts \ {c} : RowSame(d) /\ StoreSame(d)
    BY <1>2, <1>5, <1>15 DEF StoreSame
  <2>2. TaskRow(c)'
    BY <1>15 DEF TaskRow, Active
  <2>3. Copies(c)'
    BY <1>0, <1>5, <1>15 DEF ConceptInv, Copies
  <2>4. \A k \in Cycles : proc'[k].c = c => JobRow(k, c)'
    BY <1>0, <1>15 DEF ConceptInv, JobRow, OpenRow
  <2> QED BY <1>1, <1>3, <1>15, <2>1, <2>2, <2>3, <2>4 DEF ConceptInv
<1>16. CASE Kill(c) /\ task[c].stage \notin {"running", "ensured", "stored"}
  <2>1. UNCHANGED <<row, chunks>> /\ Stage(c, "done")
    BY <1>16 DEF Kill
  <2> QED BY <1>4, <1>15, <2>1
<1>17. CASE Rollback(c)
  <2>1. UNCHANGED row /\ DeleteChunks(c, 1) /\ Stage(c, "done") /\ row[c].status # "indexed"
    BY <1>17 DEF Rollback, ConceptInv, TaskRow
  <2> QED BY <1>4, <1>15, <2>1
<1>18. CASE TaskEnds(c)
  <2>1. /\ task'[c].stage = "none" /\ UNCHANGED <<row, chunks>>
        /\ \A d \in Concepts \ {c} : task'[d] = task[d]
    BY <1>18 DEF TaskEnds, TaskOK, NoTask
  <2> QED BY <1>15, <2>1
<1> QED BY <1>0, <1>9, <1>10, <1>11, <1>12, <1>13, <1>14, <1>16, <1>17, <1>18 DEF TaskStep

(* Settlers and requests take no jobs, and leave the rows' claims alone,   *)
(* except that a re-ingest requeues failed rows.                           *)
LEMMA SettlersSame ==
    ASSUME VersionInv, NEW p \in Procs, SettleStep(p) \/ SettleWriteFails(p)
    PROVE  /\ Others(p) /\ proc'[p].pc \notin CyclePCs \cup {"reap"}
           /\ \A c \in Concepts : RowSame(c)
<1> ProcOK /\ RowOK /\ TypeInvariant
  BY TypeParts DEF VersionInv
<1>1. \A c \in Concepts : RowSame(c)
  BY DEF SettleStep, Counts, Mark, Load, TakeLease, Promote, RefreshMetaGraphNames, Flip, Unlease,
         CollectGraph, Tally, WriteRecord, SettleWriteFails, RowSame, RowOK, RowType
<1>2. Others(p)
  BY SettleMoves
<1>3. ASSUME NEW j, proc' = [proc EXCEPT ![p] = j], j.pc \notin CyclePCs \cup {"reap"}
      PROVE  proc'[p].pc \notin CyclePCs \cup {"reap"}
  BY <1>3, Takes
<1>4. CASE Counts(p)
  <2>1. proc'[p].pc \in {"mark", "load"}
    BY <1>4 DEF Counts, ProcOK, ProcType
  <2> QED BY <1>1, <1>2, <2>1 DEF CyclePCs
<1>5. CASE Load(p)
  <2>1. proc'[p].pc \in {"lease", "idle"}
    <3>1. CASE repo.armed
      BY <1>5, <3>1 DEF Load, ProcOK, ProcType
    <3> QED BY <1>5, <3>1, Ends DEF Load
  <2> QED BY <1>1, <1>2, <2>1 DEF CyclePCs
<1>6. CASE Tally(p)
  <2>1. proc'[p].pc = "record"
    BY <1>6 DEF Tally, ProcOK, ProcType
  <2> QED BY <1>1, <1>2, <2>1 DEF CyclePCs
<1>7. CASE ~(Counts(p) \/ Load(p) \/ Tally(p))
  <2>1. Finish(p) \/ \E pc \in {"promote", "flip", "unlease", "gc", "tally"} : Goto(p, pc)
    BY <1>7 DEF SettleStep, Mark, TakeLease, Promote, Flip, Unlease, CollectGraph, WriteRecord,
                SettleWriteFails
  <2>2. proc'[p].pc \in {"idle", "promote", "flip", "unlease", "gc", "tally"}
    BY <2>1, Goes, Ends
  <2> QED BY <1>1, <1>2, <2>2 DEF CyclePCs
<1> QED BY <1>4, <1>5, <1>6, <1>7

LEMMA RequestsSame ==
    ASSUME VersionInv, NEW a \in Admins, Request(a) \/ RequestStep(a) \/ RequestFails(a)
    PROVE  /\ Others(a) /\ proc'[a].pc \notin CyclePCs \cup {"reap"}
           /\ \/ \A c \in Concepts : RowSame(c)
              \/ RequeueFailed(a) /\ RowsRequeued
<1> ProcOK /\ RowOK /\ TypeInvariant /\ JobOne(a)
  BY TypeParts DEF VersionInv, ProcsOne, Procs
<1>1. Others(a) /\ proc'[a].pc \notin CyclePCs \cup {"reap"}
  BY RequestMoves DEF RequestMove, Leads, AdminPCs, SigningPCs, CyclePCs
<1>2. CASE RequeueFailed(a)
  <2>1. RowsRequeued
    BY <1>2 DEF RequeueFailed, RowsRequeued, RowsIn, RowOK
  <2> QED BY <1>1, <1>2, <2>1
<1>3. CASE ~RequeueFailed(a)
  <2>1. ~Requeue(a) /\ ~PublishRequeue(a)
    BY DEF Requeue, PublishRequeue, JobOne, UnreachedPCs, At
  <2>2. \A c \in Concepts : RowSame(c)
    <3>1. CASE ArmStamp(a)
      BY <3>1 DEF ArmStamp, RefreshMetaGraphNames, RowSame, RowOK, RowType
    <3>2. CASE UNCHANGED row
      BY <3>2 DEF RowSame
    <3>3. CASE Request(a)
      BY <3>2, <3>3
         DEF Request, Ingest, Reingest, Retract, Unpublish, Publish, SignOff, Enter
    <3>4. CASE RequestFails(a)
      BY <3>2, <3>4 DEF RequestFails
    <3>5. CASE RequestStep(a) /\ ~ArmStamp(a)
      <4>1. UNCHANGED row
        BY <1>3, <2>1, <3>5
           DEF RequestStep, ArmCount, ArmWrite, Drop, Disarm, UnpublishWrite, SignOffWrite, Mint,
               PublishWrite
      <4> QED BY <3>2, <4>1
    <3> QED BY <3>1, <3>3, <3>4, <3>5
  <2> QED BY <1>1, <2>2
<1> QED BY <1>2, <1>3

LEMMA CopyKept ==
    ASSUME Unhurried, CopyInv, [Next]_vars
    PROVE  CopyInv'
<1> VersionInv /\ DrainInv /\ TypeInvariant /\ ConceptsOne /\ JobsCalm /\ late = {}
  BY DEF CopyInv, VersionInv
<1>0. VersionInv' /\ DrainInv' /\ Spared(CopyEvents)'
  BY VersionKept, NextInv, SparedStays DEF CopyInv, CopyEvents, Events
<1> SUFFICES late' = {} /\ JobsCalm' /\ ConceptsOne'
  BY <1>0 DEF CopyInv
<1>1. left["late"] = 0 /\ left["http"] = 0
  BY DEF CopyInv, Spared, CopyEvents
<1>2. ASSUME NEW p \in Procs, Others(p), JobCalm(p)'
      PROVE  JobsCalm'
  BY <1>2 DEF Others, JobsCalm, JobCalm
<1>3. ASSUME NEW p \in Procs, Others(p), proc'[p].pc \notin CyclePCs \cup {"reap"}
      PROVE  JobsCalm' /\ \A c \in Concepts : WorksOn(c)
  <2>1. proc'[p].pc \notin WorkPCs \cup {"stamp"}
    BY <1>3 DEF WorkPCs, CalmPCs, CyclePCs
  <2>2. JobCalm(p)'
    BY <1>3 DEF JobCalm, CyclePCs
  <2> QED BY <1>2, <1>3, <2>1, <2>2, BystandersStay
<1>4. ASSUME \A c \in Concepts : RowSame(c) /\ StoreSame(c) /\ WorksOn(c)
      PROVE  ConceptsOne'
  BY <1>4, ConceptStays DEF ConceptsOne
<1>5. UNCHANGED proc => JobsCalm' /\ \A c \in Concepts : WorksOn(c)
  BY DEF JobsCalm, JobCalm, WorksOn
<1>6. /\ UNCHANGED row => \A c \in Concepts : RowSame(c)
      /\ UNCHANGED <<task, chunks>> => \A c \in Concepts : StoreSame(c)
  BY DEF RowSame, StoreSame
<1>7. CASE WorkerNext
  <2>1. PICK k \in Cycles :
          Claim(k) \/ CycleStep(k) \/ HttpFails(k) \/ CycleStoreFails(k) \/ StampAckLost(k)
    BY <1>7 DEF WorkerNext
  <2>2. Others(k) /\ CalmMove(k) /\ JobCalm(k)' /\ k \in Procs
    BY <2>1, CalmMoves DEF Unhurried, Procs
  <2>3. UNCHANGED late
    BY <2>1, CycleOne
  <2> QED BY <1>2, <2>2, <2>3, CalmMoveKeeps
<1>8. CASE DataprepNext
  <2>1. ~\E c \in Concepts : CallbackLate(c)
    BY <1>1 DEF CallbackLate, Spend
  <2>2. CASE DataprepCrash
    <3>1. UNCHANGED <<row, chunks, late, proc>> /\ \A c \in Concepts : task'[c].stage = "none"
      BY <2>2 DEF DataprepCrash, NoTask
    <3>2. ASSUME NEW c \in Concepts
          PROVE  ConceptInv(c)'
      <4>1. RowCalm(c)' /\ TaskRow(c)' /\ Copies(c)'
        BY <3>1 DEF ConceptsOne, ConceptInv, RowCalm, TaskRow, Active, Copies
      <4>2. \A k \in Cycles : proc'[k].c = c => JobRow(k, c)'
        BY <3>1 DEF ConceptsOne, ConceptInv, JobRow, OpenRow
      <4> QED BY <4>1, <4>2 DEF ConceptInv
    <3> QED BY <1>5, <3>1, <3>2 DEF ConceptsOne
  <2> QED BY <1>5, <1>8, <2>1, <2>2, TaskKeepsConcepts DEF DataprepNext
<1>9. CASE SettlementNext
  <2>1. CASE LeaseAges
    BY <1>4, <1>5, <1>6, <2>1 DEF LeaseAges
  <2>2. ASSUME NEW p \in Procs, SettleStep(p) \/ SettleWriteFails(p)
        PROVE  late' = {} /\ JobsCalm' /\ ConceptsOne'
    BY <1>3, <1>4, <1>6, <2>2, SettlersSame, SettleOne
  <2> QED BY <1>9, <2>1, <2>2 DEF SettlementNext
<1>10. CASE SweepNext
  <2>1. ~ReapRead /\ proc[Sweeper].pc # "reap"
    <3>1. \A c \in Concepts : ~Stuck(row[c])
      <4>1. ASSUME NEW c \in Concepts
            PROVE  ~Stuck(row[c])
        <5>1. row[c].attempts \in Nat /\ row[c].attempts <= MaxAttempts /\ row[c].age = "fresh"
          BY TypeParts DEF RowOK, RowType, ConceptsOne, ConceptInv, RowCalm
        <5> QED BY <5>1, BoundsAssumption DEF Stuck, Unhurried
      <4> QED BY <4>1
    <3> QED BY <3>1 DEF ReapRead, RowsIn, JobsCalm, JobCalm, Procs
  <2>2. Reconcile
    BY <1>10, <2>1 DEF SweepNext, SweepStep, Reap, ReapFails, At
  <2>3. UNCHANGED <<row, task, chunks, late>>
    BY <2>2 DEF Reconcile
  <2>4. Sweeper \in Procs /\ Others(Sweeper) /\ proc'[Sweeper].pc \notin CyclePCs \cup {"reap"}
    BY <2>2, Ends, SweeperRuns DEF Reconcile, CyclePCs
  <2> QED BY <1>3, <1>4, <1>6, <2>3, <2>4
<1>11. CASE LifecycleNext
  <2>1. PICK a \in Admins : Request(a) \/ RequestStep(a) \/ RequestFails(a)
    BY <1>11 DEF LifecycleNext
  <2>2. /\ a \in Procs /\ Others(a) /\ proc'[a].pc \notin CyclePCs \cup {"reap"}
        /\ (\A c \in Concepts : RowSame(c)) \/ RowsRequeued
        /\ UNCHANGED <<task, chunks, late>>
    BY <2>1, RequestsSame, RequestOne DEF Procs
  <2>3. ASSUME NEW c \in Concepts, row[c].status = "failed", row'[c] = Requeued(row[c], row[c].graph)
        PROVE  ConceptInv(c)'
    <3>1. WorksOn(c) /\ StoreSame(c) /\ ConceptInv(c)
      BY <1>3, <1>6, <2>2 DEF ConceptsOne
    <3>2. /\ row'[c].status = "parsed" /\ row'[c].park = "none" /\ row'[c].age = "fresh"
          /\ row'[c].attempts = 0
      BY <2>3 DEF Requeued
    <3>3. \A k \in Cycles : proc'[k].c = c => proc'[k].pc \notin WorkPCs \cup {"stamp"}
      BY <2>3, <3>1 DEF WorksOn, ConceptInv, JobRow, OpenRow
    <3>4. ~Active(c)
      BY <2>3, <3>1 DEF ConceptInv, TaskRow
    <3>5. RowCalm(c)'
      BY <3>2, BoundsAssumption DEF RowCalm
    <3>6. TaskRow(c)' /\ Copies(c)'
      BY <3>1, <3>2, <3>3, <3>4 DEF StoreSame, TaskRow, Active, Copies, WorkPCs, CalmPCs
    <3> QED BY <3>3, <3>5, <3>6 DEF ConceptInv, JobRow
  <2>4. ASSUME NEW c \in Concepts, row'[c] = row[c]
        PROVE  ConceptInv(c)'
    BY <1>3, <1>6, <2>2, <2>4, ConceptStays DEF RowSame, ConceptsOne
  <2>5. RowsRequeued => ConceptsOne'
    BY <2>3, <2>4 DEF RowsRequeued, ConceptsOne
  <2> QED BY <1>3, <1>4, <1>6, <2>2, <2>5
<1>12. CASE TimeNext
  <2>1. ASSUME NEW c \in Concepts, ParkEnds(c)
        PROVE  FALSE
    BY <2>1 DEF ParkEnds, ConceptsOne, ConceptInv, RowCalm
  <2> QED BY <1>12, <2>1 DEF TimeNext, ClaimStales, ClaimExpires, Age, Unhurried
<1>13. CASE ServerCrash
  <2>1. late' = {} /\ UNCHANGED <<row, task, chunks>> /\ \A p \in Procs : proc'[p].pc = "idle"
    BY <1>13 DEF ServerCrash, Idle
  <2>2. JobsCalm' /\ \A c \in Concepts : WorksOn(c)
    BY <2>1 DEF JobsCalm, JobCalm, CyclePCs, WorksOn, WorkPCs, CalmPCs, Procs
  <2> QED BY <1>4, <1>6, <2>1, <2>2
<1>14. CASE UNCHANGED vars
  BY <1>4, <1>5, <1>6, <1>14 DEF vars
<1> QED BY <1>7, <1>8, <1>9, <1>10, <1>11, <1>12, <1>13, <1>14 DEF Next

LEMMA CopyStarts ==
    ASSUME OneVersion, Unhurried, Init
    PROVE  CopyInv
<1>1. VersionInv /\ DrainInv /\ late = {} /\ Spared(CopyEvents)
  BY VersionStarts, InitInv DEF Init, Unhurried, Spared, CopyEvents
<1>2. \A p \in Procs : proc[p].pc = "idle"
  BY DEF Init, Idle
<1>3. JobsCalm
  BY <1>2 DEF JobsCalm, JobCalm, CyclePCs
<1>4. ASSUME NEW c \in Concepts
      PROVE  ConceptInv(c)
  <2>1. 1 \in Graphs /\ MaxAttempts \in Nat
    BY BoundsAssumption DEF Graphs
  <2>2. RowCalm(c)
    BY <2>1 DEF Init, FreshRow, RowCalm
  <2>3. TaskRow(c) /\ Copies(c)
    BY <1>2, <2>1 DEF Init, FreshRow, NoTask, TaskRow, Active, Copies, Procs
  <2>4. \A k \in Cycles : JobRow(k, c)
    BY <1>2 DEF JobRow, WorkPCs, CalmPCs, Procs
  <2> QED BY <2>2, <2>3, <2>4 DEF ConceptInv
<1> QED BY <1>1, <1>3, <1>4 DEF CopyInv, ConceptsOne

(* An indexed concept has exactly one copy of its chunks in the graph its  *)
(* row names: with one version, no wait that outlasts its window and no    *)
(* late or failing exchange with dataprep, for any number of cycles,       *)
(* requests, re-ingests, kills, failed tasks, lost callbacks and writes,   *)
(* and restarts of either service.                                         *)
THEOREM IndexedOnce ==
    ASSUME OneVersion, Unhurried
    PROVE  Spec => []IndexedHasOneCopy
<1>1. Init => CopyInv
  BY CopyStarts
<1>2. CopyInv /\ [Next]_vars => CopyInv'
  BY CopyKept
<1>3. CopyInv => IndexedHasOneCopy
  <2> SUFFICES ASSUME CopyInv, NEW c \in Concepts, row[c].status = "indexed"
               PROVE  chunks[row[c].graph][c] = 1
    BY DEF IndexedHasOneCopy, RowsIn
  <2> QED BY DEF CopyInv, ConceptsOne, ConceptInv, Copies, VersionInv, RowsOne, RowOne
<1> QED BY <1>1, <1>2, <1>3, PTL DEF Spec

-----------------------------------------------------------------------------
(***************************************************************************)
(* A completed version is complete.  Under the same calm no indexed row    *)
(* ever leaves 'indexed', so what the settler tallied last still holds     *)
(* when it writes the record, and as long as the record stands.            *)
(***************************************************************************)
CalmEvents == {"crash", "dberr"}

Closing == \E p \in Procs : proc[p].pc \in ClosingPCs

TalliedIndexed == \A p \in Procs : At(p, "record") /\ proc[p].flag => AllIndexed

CompleteInv ==
    /\ repo.served # 0 => repo.servedGraph = 1
    /\ TalliedIndexed
    /\ repo.record = "completed" => AllIndexed \/ repo.armed \/ Closing

LEMMA IndexedStays ==
    ASSUME Unhurried, CopyInv, [Next]_vars, NEW c \in Concepts, row[c].status = "indexed"
    PROVE  row'[c].status = "indexed"
<1> VersionInv /\ TypeInvariant /\ RowOK /\ ConceptInv(c) /\ JobsCalm /\ late = {}
  BY TypeParts DEF CopyInv, VersionInv, ConceptsOne
<1>0. UNCHANGED row \/ RowSame(c) => row'[c].status = "indexed"
  BY DEF RowSame
<1>1. CASE WorkerNext
  <2>1. PICK k \in Cycles :
          Claim(k) \/ CycleStep(k) \/ HttpFails(k) \/ CycleStoreFails(k) \/ StampAckLost(k)
    BY <1>1 DEF WorkerNext
  <2>2. CalmMove(k)
    BY <2>1, CalmMoves DEF Unhurried
  <2>3. ASSUME NEW d \in Concepts, GivesUpClaim(k, d)
        PROVE  row'[c] = row[c]
    <3>1. ConceptInv(d)
      BY DEF CopyInv, ConceptsOne
    <3>2. row[d].status = "parsed"
      BY <2>3, <3>1 DEF GivesUpClaim, ConceptInv, JobRow
    <3> QED BY <2>3, <3>2 DEF GivesUpClaim
  <2>4. ASSUME NEW d \in Concepts, StampsRow(k, d)
        PROVE  row'[c] = row[c]
    BY <2>4 DEF StampsRow, OpenRow, PatchRow, RowOK
  <2> QED BY <1>0, <2>2, <2>3, <2>4
          DEF CalmMove, TakesJob, WorksAhead, ClearsCopy, PostsTask, LeavesJob
<1>2. CASE DataprepNext
  <2>1. ASSUME NEW d \in Concepts, Callback(d)
        PROVE  row'[c] = row[c]
    <3>1. ConceptInv(d)
      BY DEF CopyInv, ConceptsOne
    <3>2. row[d].status = "parsed"
      BY <2>1, <3>1 DEF Callback, Reporting, ConceptInv, TaskRow, Active
    <3> QED BY <2>1, <3>2 DEF Callback, PatchRow, RowOK
  <2> QED BY <1>0, <1>2, <2>1
          DEF DataprepNext, TaskStep, EnsureGraph, StoreChunks, Rollback, TaskEnds, TaskFails, Kill,
              CallbackLost, CallbackLate, DeliverLate, DataprepCrash
<1>3. CASE SettlementNext
  <2>1. CASE LeaseAges
    BY <1>0, <2>1 DEF LeaseAges
  <2> QED BY <1>0, <1>3, <2>1, SettlersSame DEF SettlementNext
<1>4. CASE SweepNext
  <2>1. proc[Sweeper].pc # "reap"
    BY DEF JobsCalm, JobCalm, Procs
  <2> QED BY <1>0, <1>4, <2>1 DEF SweepNext, SweepStep, Reconcile, ReapRead, Reap, ReapFails, At
<1>5. CASE LifecycleNext
  <2>1. RowSame(c) \/ RowsRequeued
    BY <1>5, RequestsSame DEF LifecycleNext
  <2> QED BY <1>0, <2>1 DEF RowsRequeued
<1>6. CASE TimeNext
  BY <1>6 DEF TimeNext, ClaimStales, ClaimExpires, ParkEnds, Age, PatchRow, RowOK, RowType
<1>7. CASE ServerCrash \/ UNCHANGED vars
  BY <1>0, <1>7 DEF ServerCrash, vars
<1> QED BY <1>1, <1>2, <1>3, <1>4, <1>5, <1>6, <1>7 DEF Next

(* What a settler does to the record and to the tally it writes it from.   *)
LEMMA SettleRecords ==
    ASSUME VersionInv, NEW p \in Procs, SettleStep(p)
    PROVE  /\ proc'[p].pc = "record" /\ proc'[p].flag => AllIndexed
           /\ repo'.record = "completed" => repo.record = "completed" \/ At(p, "record")
           /\ repo'.record = "completed" /\ At(p, "record") => proc[p].flag
           /\ repo.armed /\ ~repo'.armed => proc'[p].pc \in ClosingPCs
           /\ proc[p].pc \in ClosingPCs \ {"record"} => proc'[p].pc \in ClosingPCs
           /\ (repo'.served = repo.served /\ repo'.servedGraph = repo.servedGraph)
              \/ repo'.servedGraph = 1
<1> USE DEF At, ClosingPCs
<1> ProcOK /\ repo \in RepoType /\ TypeInvariant /\ JobOne(p)
  BY TypeParts DEF VersionInv, ProcsOne
<1>1. CASE Tally(p)
  <2>1. proc'[p].pc = "record" /\ proc'[p].flag = AllIndexed
    BY <1>1 DEF Tally, ProcOK, ProcType
  <2> QED BY <1>1, <2>1 DEF Tally
<1>2. CASE WriteRecord(p)
  <2>1. proc'[p].pc = "idle" /\ proc[p].pc = "record"
    BY <1>2, Ends DEF WriteRecord
  <2>2. /\ repo'.record = IF proc[p].flag THEN "completed" ELSE "failed"
        /\ repo'.armed = repo.armed /\ repo'.served = repo.served
        /\ repo'.servedGraph = repo.servedGraph
    BY <1>2 DEF WriteRecord, RepoType
  <2> QED BY <2>1, <2>2
<1>3. CASE Flip(p)
  <2>1. proc'[p].pc \in {"gc", "tally"} /\ proc[p].pc = "flip"
    BY <1>3, Goes DEF Flip
  <2>2. repo'.record = repo.record /\ repo'.servedGraph = 1
    BY <1>3, <2>1 DEF Flip, RepoType, JobOne, CarriesVersion, SettlePCs
  <2> QED BY <2>1, <2>2
<1>4. CASE Counts(p) \/ Mark(p) \/ Load(p) \/ TakeLease(p) \/ Promote(p) \/ Unlease(p)
  <2>1. /\ repo'.record \in {repo.record, "draining"} /\ repo'.armed = repo.armed
        /\ repo'.served = repo.served /\ repo'.servedGraph = repo.servedGraph
    BY <1>4 DEF Counts, Mark, MarkAllowed, Load, TakeLease, Promote, Unlease, RepoType
  <2>2. proc[p].pc \in {"counts", "mark", "load", "lease", "promote", "unlease"}
    BY <1>4 DEF Counts, Mark, Load, TakeLease, Promote, Unlease
  <2>3. proc'[p].pc # "record"
    <3>1. CASE Counts(p)
      BY <3>1 DEF Counts, ProcOK, ProcType
    <3>2. CASE Load(p)
      BY <3>2, Ends DEF Load, ProcOK, ProcType
    <3> QED BY <1>4, <3>1, <3>2, Goes, Ends DEF Mark, TakeLease, Promote, Unlease
  <2> QED BY <2>1, <2>2, <2>3
<1>5. CASE CollectGraph(p)
  BY <1>5, Goes DEF CollectGraph
<1> QED BY <1>1, <1>2, <1>3, <1>4, <1>5 DEF SettleStep

LEMMA CompleteKept ==
    ASSUME Unhurried, CopyInv, Spared(CalmEvents), CompleteInv, [Next]_vars
    PROVE  CompleteInv'
<1> USE DEF At
<1> VersionInv /\ TypeInvariant /\ RowOK /\ repo \in RepoType
  BY TypeParts DEF CopyInv, VersionInv
<1>1. AllIndexed => AllIndexed'
  <2>1. AllIndexed <=> \A c \in Concepts : row[c].status = "indexed"
    BY DEF AllIndexed, RowsIn, RowOK, RowType
  <2>2. (\A c \in Concepts : row'[c].status = "indexed") => AllIndexed'
    BY DEF AllIndexed, RowsIn
  <2> QED BY <2>1, <2>2, IndexedStays
<1>2. left["crash"] = 0 /\ left["dberr"] = 0
  BY DEF Spared, CalmEvents
<1>3. ASSUME NEW p \in Procs, Others(p), FieldsKept, proc[p].pc \notin ClosingPCs, proc'[p].pc # "record"
      PROVE  CompleteInv'
  <2>1. Closing => Closing'
    BY <1>3 DEF Closing, Others
  <2>2. TalliedIndexed'
    BY <1>1, <1>3 DEF CompleteInv, TalliedIndexed, Others
  <2> QED BY <1>1, <1>3, <2>1, <2>2 DEF CompleteInv, FieldsKept, Fields
<1>4. ASSUME NEW p \in Procs, Others(p), Plain(p)
      PROVE  CompleteInv'
  BY <1>3, <1>4 DEF Plain, PastLoad, SettlePCs
<1>5. ASSUME UNCHANGED proc, FieldsKept
      PROVE  CompleteInv'
  <2>1. Closing => Closing'
    BY <1>5 DEF Closing
  <2>2. TalliedIndexed'
    BY <1>1, <1>5 DEF CompleteInv, TalliedIndexed
  <2> QED BY <1>1, <1>5, <2>1, <2>2 DEF CompleteInv, FieldsKept, Fields
<1>6. CASE WorkerNext
  <2>1. PICK k \in Cycles :
          CycleStep(k) \/ HttpFails(k) \/ CycleStoreFails(k) \/ StampAckLost(k) \/ Claim(k)
    BY <1>6 DEF WorkerNext
  <2> QED BY <1>4, <2>1, CyclesPlain DEF Procs
<1>7. CASE DataprepNext \/ TimeNext
  BY <1>5, <1>7, DataprepEvolves, TimeEvolves DEF FieldsKept, Fields
<1>8. CASE SettlementNext
  <2>1. CASE LeaseAges
    BY <1>5, <2>1 DEF LeaseAges, FieldsKept, Fields, RepoType
  <2>2. ASSUME NEW p \in Procs, SettleStep(p)
        PROVE  CompleteInv'
    <3>0. Others(p)
      BY <2>2, SettleMoves
    <3>1. TalliedIndexed'
      BY <1>1, <2>2, <3>0, SettleRecords DEF CompleteInv, TalliedIndexed, Others
    <3>2. repo'.served # 0 => repo'.servedGraph = 1
      BY <2>2, SettleRecords DEF CompleteInv
    <3>3. ASSUME repo'.record = "completed"
          PROVE  AllIndexed' \/ repo'.armed \/ Closing'
      <4>1. CASE At(p, "record")
        BY <1>1, <2>2, <3>3, <4>1, SettleRecords DEF CompleteInv, TalliedIndexed
      <4>2. CASE ~At(p, "record")
        <5>1. AllIndexed \/ repo.armed \/ Closing
          BY <2>2, <3>3, <4>2, SettleRecords DEF CompleteInv
        <5>2. repo.armed => repo'.armed \/ Closing'
          BY <2>2, SettleRecords DEF Closing
        <5>3. Closing => Closing'
          BY <2>2, <3>0, <4>2, SettleRecords DEF Closing, Others
        <5> QED BY <1>1, <5>1, <5>2, <5>3
      <4> QED BY <4>1, <4>2
    <3> QED BY <3>1, <3>2, <3>3 DEF CompleteInv
  <2>3. ~\E p \in Procs : SettleWriteFails(p)
    BY <1>2 DEF SettleWriteFails, Spend
  <2> QED BY <1>8, <2>1, <2>2, <2>3 DEF SettlementNext
<1>9. CASE SweepNext
  BY <1>4, <1>9, SweepPlain DEF Procs
<1>10. CASE LifecycleNext
  <2>1. PICK a \in Admins : Request(a) \/ RequestStep(a) \/ RequestFails(a)
    BY <1>10 DEF LifecycleNext
  <2>2. Others(a) /\ RequestMove(a) /\ a \in Procs /\ JobOne(a)
    BY <2>1, RequestMoves DEF Procs, VersionInv, ProcsOne
  <2>3. proc[a].pc \notin ClosingPCs /\ proc'[a].pc # "record"
    BY <2>2 DEF RequestMove, Leads, ClosingPCs, AdminPCs, SigningPCs
  <2>4. proc[a].pc \notin {"disarm", "publish_write"}
    BY <2>2 DEF JobOne, UnreachedPCs
  <2>5. /\ repo'.served # 0 => repo'.served = repo.served
        /\ repo'.servedGraph = repo.servedGraph
        /\ repo'.armed \/ (repo'.armed = repo.armed /\ repo'.record = repo.record)
    BY <2>2, <2>4 DEF RequestMove, Leads, FieldsKept, Fields
  <2>6. Closing => Closing'
    BY <2>2, <2>3 DEF Closing, Others
  <2>7. TalliedIndexed'
    BY <1>1, <2>2, <2>3 DEF CompleteInv, TalliedIndexed, Others
  <2> QED BY <1>1, <2>5, <2>6, <2>7 DEF CompleteInv
<1>11. CASE ServerCrash
  BY <1>2, <1>11 DEF ServerCrash, Spend
<1>12. CASE UNCHANGED vars
  BY <1>5, <1>12 DEF vars, FieldsKept, Fields
<1> QED BY <1>6, <1>7, <1>8, <1>9, <1>10, <1>11, <1>12 DEF Next

(* A version reported completed serves every concept, once, from its       *)
(* serving graph: under the conditions of IndexedOnce, when besides no     *)
(* crash and no failed write comes between a flip and its final record;    *)
(* any number of settlers may overlap, and a settle outlast its lease.     *)
THEOREM CompleteServed ==
    ASSUME OneVersion, Unhurried, Allowance["crash"] = 0, Allowance["dberr"] = 0
    PROVE  Spec => []CompletedIsComplete
<1> DEFINE I == CopyInv /\ Spared(CalmEvents) /\ CompleteInv
<1>1. Init => I
  <2> SUFFICES ASSUME Init
               PROVE  I
    OBVIOUS
  <2>1. CompleteInv
    BY DEF Init, Idle, At, CompleteInv, TalliedIndexed
  <2> QED BY <2>1, CopyStarts DEF Init, Spared, CalmEvents
<1>2. I /\ [Next]_vars => I'
  <2> SUFFICES ASSUME I, [Next]_vars
               PROVE  I'
    OBVIOUS
  <2>1. Spared(CalmEvents)'
    BY SparedStays DEF CopyInv, VersionInv, CalmEvents, Events
  <2> QED BY <2>1, CopyKept, CompleteKept
<1>3. I => CompletedIsComplete
  <2> SUFFICES ASSUME I, repo.record = "completed", ~repo.armed, repo.served = repo.version,
                      \A p \in Procs : proc[p].pc \notin {"gc", "tally", "record"},
                      NEW c \in Concepts
               PROVE  row[c].status = "indexed" /\ chunks[repo.servedGraph][c] = 1
    BY DEF CompletedIsComplete
  <2>1. row[c].status = "indexed"
    <3>1. AllIndexed /\ RowOK
      BY TypeParts DEF CompleteInv, Closing, ClosingPCs, CopyInv, VersionInv
    <3> QED BY <3>1 DEF AllIndexed, RowsIn, RowOK, RowType
  <2>2. repo.servedGraph = 1
    BY DEF CompleteInv, CopyInv, VersionInv, RestOne
  <2> QED BY <2>1, <2>2 DEF CopyInv, ConceptsOne, ConceptInv, Copies
<1> QED BY <1>1, <1>2, <1>3, PTL DEF Spec

-----------------------------------------------------------------------------
(***************************************************************************)
(* No retract under a live task.  With adaptive windows a lone cycle gives *)
(* a claim back without parking the row only where it knows that the row   *)
(* has no task: so a pending row with a task is claimed or parked, the job *)
(* that takes it over is stale or parked, and a probe finds the task.      *)
(***************************************************************************)
OneCycle == \A j, k \in Cycles : j = k

SparingEvents == {"http", "reingest"}

ParkedOrClaimed(c) ==
    Live(c) /\ row[c].status = "parsed" => row[c].claim # None \/ row[c].park # "none"

(* What a job knows of its row, and of a task behind it.                   *)
HoldsRow(k) ==
    LET j == proc[k]
    IN j.pc \in CyclePCs =>
         /\ j.pc # "stamp" => row[j.c].claim = k
         /\ j.parked => row[j.c].park # "none"
         /\ j.pc = "probe_park" => j.parked /\ ~j.flag
         /\ j.pc # "abort"

KnowsTask(k) ==
    LET j == proc[k]
    IN j.pc \in CyclePCs /\ Live(j.c) =>
         /\ j.pc \in {"stamp", "pre_progress", "pre_graph"} => j.parked \/ j.stale
         /\ j.pc = "retract_file" => j.parked /\ j.flag
         /\ j.pc \in {"post", "unclaim", "release"} => j.parked
         /\ j.pc # "timeout_release"

SpareInv ==
    /\ \A c \in Concepts : ParkedOrClaimed(c)
    /\ \A k \in Cycles : HoldsRow(k) /\ KnowsTask(k)
    /\ \A p \in Procs : proc[p].pc # "requeue_failed"

(* What the cycle does not notice of its surroundings.                     *)
RowKept(c) ==
    /\ row'[c].claim = row[c].claim
    /\ row'[c].park = "none" => row[c].park = "none"
    /\ row'[c].status = "parsed" => row[c].status = "parsed"

Unnoticed ==
    /\ \A c \in Concepts : RowKept(c) /\ (Live(c)' => Live(c))
    /\ \A k \in Cycles : proc'[k].pc \in CyclePCs => proc'[k] = proc[k]
    /\ \A p \in Procs : proc'[p].pc # "requeue_failed"

LEMMA UnnoticedSpares ==
    ASSUME ProcOK, SpareInv, Unnoticed
    PROVE  SpareInv'
<1>1. \A c \in Concepts : ParkedOrClaimed(c)'
  BY DEF SpareInv, Unnoticed, RowKept, ParkedOrClaimed
<1>2. ASSUME NEW k \in Cycles
      PROVE  HoldsRow(k)' /\ KnowsTask(k)'
  <2>1. CASE proc'[k].pc \in CyclePCs
    <3>1. proc'[k] = proc[k] /\ proc[k].c \in Concepts
      BY <2>1 DEF Unnoticed, ProcOK, Snapshot, Procs
    <3>2. HoldsRow(k) /\ KnowsTask(k)
      BY DEF SpareInv
    <3>3. RowKept(proc[k].c) /\ (Live(proc[k].c)' => Live(proc[k].c))
      BY <3>1 DEF Unnoticed
    <3>4. HoldsRow(k)'
      BY <3>1, <3>2, <3>3 DEF HoldsRow, RowKept
    <3>5. KnowsTask(k)'
      BY <3>1, <3>2, <3>3 DEF KnowsTask
    <3> QED BY <3>4, <3>5
  <2> QED BY <2>1 DEF HoldsRow, KnowsTask
<1> QED BY <1>1, <1>2 DEF SpareInv, Unnoticed

(* The requeue of a re-ingest is reached by a re-ingest only.              *)
LEMMA RequestReaches ==
    ASSUME ProcOK, left["reingest"] = 0, NEW a \in Admins,
           Request(a) \/ RequestStep(a) \/ RequestFails(a), ~At(a, "requeue_failed")
    PROVE  proc'[a].pc # "requeue_failed"
<1> USE DEF At
<1> a \in Procs
  BY DEF Procs
<1>1. ASSUME NEW e, NEW pc, NEW g, Enter(a, e, pc, g), pc # "requeue_failed"
      PROVE  proc'[a].pc # "requeue_failed"
  BY <1>1 DEF Enter, Idle, ProcOK
<1>2. CASE Request(a)
  <2>1. ~Reingest(a)
    BY DEF Reingest, Enter, Spend
  <2> QED BY <1>1, <1>2, <2>1, Goes DEF Request, Ingest, Retract, Unpublish, Publish, SignOff
<1>3. CASE RequestFails(a)
  BY <1>3, Goes, Ends DEF RequestFails
<1>4. CASE RequestStep(a)
  <2>1. CASE ArmCount(a)
    <3> DEFINE j == [proc[a] EXCEPT !.pc = "arm_stamp", !.flag = RowsIn("parsed") = {},
                                    !.done = RowsIn("indexed") # {}]
    <3>1. proc' = [proc EXCEPT ![a] = j]
      BY <2>1 DEF ArmCount
    <3>2. j.pc = "arm_stamp"
      BY DEF ProcOK, ProcType
    <3> HIDE DEF j
    <3> QED BY <3>1, <3>2, Takes
  <2>2. CASE ArmWrite(a)
    BY <2>2, Ends DEF ArmWrite, ProcOK, Idle
  <2>3. CASE Mint(a)
    BY <2>3, Ends DEF Mint, ProcOK, ProcType
  <2> QED BY <1>4, <2>1, <2>2, <2>3, Goes, Ends
          DEF RequestStep, RequeueFailed, ArmStamp, Drop, Requeue, Disarm, UnpublishWrite, SignOffWrite,
              PublishWrite, PublishRequeue
<1> QED BY <1>2, <1>3, <1>4

LEMMA CycleSpares ==
    ASSUME OneCycle, Adaptive, VersionInv, SpareInv, left["http"] = 0, NEW k \in Cycles,
           Claim(k) \/ CycleStep(k) \/ HttpFails(k) \/ CycleStoreFails(k) \/ StampAckLost(k)
    PROVE  SpareInv'
<1> USE DEF At
<1> DEFINE c == proc[k].c
<1> /\ k \in Procs /\ ProcOK /\ RowOK /\ TaskOK /\ proc[k] \in ProcType /\ TypeInvariant
    /\ JobOne(k) /\ HoldsRow(k) /\ KnowsTask(k) /\ None \notin Procs
    /\ \A d \in Concepts : ParkedOrClaimed(d)
  BY TypeParts, ProcsAssumption
     DEF VersionInv, ProcsOne, Procs, ProcOK, SpareInv
<1>0. Others(k) /\ proc'[k].pc # "requeue_failed"
  BY CyclesPlain DEF Plain, AdminPCs
<1>1. ASSUME \A d \in Concepts : ParkedOrClaimed(d)', HoldsRow(k)', KnowsTask(k)'
      PROVE  SpareInv'
  BY <1>0, <1>1 DEF SpareInv, Others, OneCycle
<1>2. proc[k].pc \in CyclePCs => c \in Concepts /\ row[c] \in RowType
  BY Holding
<1> HIDE DEF c
<1>3. UNCHANGED <<row, task>> => \A d \in Concepts : ParkedOrClaimed(d)'
  BY DEF ParkedOrClaimed, Live
<1>4. ASSUME proc'[k].pc \in {"idle", "counts"}
      PROVE  HoldsRow(k)' /\ KnowsTask(k)'
  BY <1>4 DEF HoldsRow, KnowsTask, CyclePCs
<1>5. ASSUME proc[k].pc \in CyclePCs, NEW r, PatchRow(c, r), UNCHANGED task,
             Live(c) => r.status # "parsed" \/ r.claim # None \/ r.park # "none"
      PROVE  \A d \in Concepts : ParkedOrClaimed(d)'
  <2>1. row'[c] = r /\ \A d \in Concepts \ {c} : row'[d] = row[d]
    BY <1>2, <1>5 DEF PatchRow, RowOK
  <2> QED BY <1>5, <2>1 DEF ParkedOrClaimed, Live
<1>6. ASSUME UNCHANGED <<row, task>>, Finish(k) \/ GoRefresh(k)
      PROVE  SpareInv'
  BY <1>1, <1>3, <1>4, <1>6, Ends
<1>7. ASSUME proc[k].pc \in CyclePCs \ {"stamp"}, NEW pc \in CyclePCs \ {"stamp", "abort"},
             UNCHANGED <<row, task>>,
             proc'[k].pc = pc, proc'[k].c = c, proc'[k].parked = proc[k].parked,
             proc'[k].stale = proc[k].stale,
             pc = "probe_park" => proc[k].parked /\ ~proc'[k].flag,
             pc = "timeout_release" => ~Live(c),
             pc = "pre_graph" /\ Live(c) => proc[k].parked \/ proc[k].stale,
             pc = "pre_progress" => FALSE,
             pc = "retract_file" /\ Live(c) => proc[k].parked /\ proc'[k].flag,
             pc \in {"post", "unclaim", "release"} /\ Live(c) => proc[k].parked
      PROVE  SpareInv'
  <2>1. HoldsRow(k)'
    BY <1>7 DEF HoldsRow, c
  <2>2. KnowsTask(k)'
    BY <1>7 DEF KnowsTask, Live
  <2> QED BY <1>1, <1>3, <1>7, <2>1, <2>2
<1>8. ASSUME NEW pc, Goto(k, pc)
      PROVE  /\ proc'[k].pc = pc /\ proc'[k].c = c /\ proc'[k].parked = proc[k].parked
             /\ proc'[k].stale = proc[k].stale /\ proc'[k].flag = proc[k].flag
  BY <1>8 DEF Goto, ProcOK, ProcType, c
<1>9. ASSUME NEW pc, NEW f, proc' = [proc EXCEPT ![k].pc = pc, ![k].flag = f]
      PROVE  /\ proc'[k].pc = pc /\ proc'[k].c = c /\ proc'[k].parked = proc[k].parked
             /\ proc'[k].stale = proc[k].stale /\ proc'[k].flag = f
  BY <1>9 DEF ProcOK, ProcType, c
<1>10. ASSUME NEW d \in Concepts, NEW pc \in {"stamp", "pre_progress"}, Claimable(d),
              proc' = [proc EXCEPT ![k] = [Job(d) EXCEPT !.pc = pc]]
       PROVE  /\ proc'[k].c = d /\ proc'[k].pc = pc
              /\ proc'[k].parked => row[d].park # "none"
              /\ Live(d) => proc'[k].parked \/ proc'[k].stale
  <2> DEFINE j == [Job(d) EXCEPT !.pc = pc]
  <2>1. /\ j.pc = pc /\ j.c = d /\ j.stale = (row[d].claim # None)
        /\ j.parked = (row[d].park # "none")
    BY DEF Job, Idle
  <2> HIDE DEF j
  <2>2. proc'[k] = j
    BY <1>10, Takes DEF j
  <2> QED BY <1>10, <2>1, <2>2 DEF Claimable, ParkedOrClaimed
<1>11. CASE Claim(k)
  <2>1. PICK d \in Concepts : ClaimRead(k, d) \/ ClaimFair(k, d)
    BY <1>11 DEF Claim
  <2>2. CASE ClaimRead(k, d)
    <3>1. UNCHANGED <<row, task>>
      BY <2>2 DEF ClaimRead
    <3>2. HoldsRow(k)' /\ KnowsTask(k)'
      BY <1>10, <2>2, <3>1 DEF ClaimRead, HoldsRow, KnowsTask, Live
    <3> QED BY <1>1, <1>3, <3>1, <3>2
  <2>3. CASE ClaimFair(k, d)
    <3>1. /\ row'[d].claim = k /\ row'[d].park = row[d].park /\ UNCHANGED task
          /\ \A e \in Concepts \ {d} : row'[e] = row[e]
      BY <2>3 DEF ClaimFair, PatchRow, Stamped, RowOK, RowType
    <3>2. /\ proc'[k].c = d /\ proc'[k].pc = "pre_progress"
          /\ proc'[k].parked => row[d].park # "none"
          /\ Live(d) => proc'[k].parked \/ proc'[k].stale
      BY <1>10, <2>3 DEF ClaimFair
    <3>3. HoldsRow(k)' /\ KnowsTask(k)'
      BY <3>1, <3>2 DEF HoldsRow, KnowsTask, Live
    <3>4. \A e \in Concepts : ParkedOrClaimed(e)'
      BY <3>1 DEF ParkedOrClaimed, Live
    <3> QED BY <1>1, <3>3, <3>4
  <2> QED BY <2>1, <2>2, <2>3
<1>12. CASE Stamp(k) \/ StampAckLost(k)
  <2>1. CASE PatchRow(c, Stamped(row[c], k)) /\ UNCHANGED task
    <3>1. /\ proc[k].pc = "stamp" /\ c \in Concepts
          /\ Finish(k) \/ Goto(k, "pre_progress")
      BY <1>2, <1>12 DEF Stamp, StampAckLost, CyclePCs
    <3>2. row'[c].claim = k /\ row'[c].park = row[c].park
      BY <2>1, <3>1 DEF PatchRow, Stamped, RowOK, RowType
    <3>3. \A d \in Concepts : ParkedOrClaimed(d)'
      <4> DEFINE r == Stamped(row[c], k)
      <4>1. r.claim = k
        BY <1>2, <3>1 DEF Stamped, RowType, CyclePCs
      <4> HIDE DEF r
      <4>2. PatchRow(c, r)
        BY <2>1 DEF r
      <4> QED BY <1>5, <2>1, <3>1, <4>1, <4>2 DEF CyclePCs
    <3>4. CASE Goto(k, "pre_progress")
      <4>1. HoldsRow(k)' /\ KnowsTask(k)'
        BY <1>8, <2>1, <3>1, <3>2, <3>4 DEF HoldsRow, KnowsTask, Live, CyclePCs, c
      <4> QED BY <1>1, <3>3, <4>1
    <3>5. CASE Finish(k)
      BY <1>1, <1>4, <3>3, <3>5, Ends
    <3> QED BY <3>1, <3>4, <3>5
  <2>2. CASE UNCHANGED <<row, task>> /\ Finish(k)
    BY <1>6, <2>2
  <2> QED BY <1>12, <2>1, <2>2 DEF Stamp, StampAckLost, c
<1>13. CASE ReadProgress(k)
  <2>1. /\ proc[k].pc = "pre_progress" /\ UNCHANGED <<row, task>>
        /\ proc' = [proc EXCEPT ![k].pc = "pre_graph", ![k].flag = repo.progress]
    BY <1>13 DEF ReadProgress
  <2>2. Live(c) => proc[k].parked \/ proc[k].stale
    BY <2>1 DEF KnowsTask, CyclePCs, c
  <2>3. /\ proc'[k].pc = "pre_graph" /\ proc'[k].c = c /\ proc'[k].parked = proc[k].parked
        /\ proc'[k].stale = proc[k].stale
    BY <1>9, <2>1
  <2> QED BY <1>7, <2>1, <2>2, <2>3 DEF CyclePCs
<1>14. CASE CheckGraph(k)
  <2> DEFINE job == [proc[k] EXCEPT !.flag = proc[k].graph \notin exists]
             pc == IF job.flag /\ proc[k].flag THEN "reset_record" ELSE AfterPreflight(job)
             j == [job EXCEPT !.pc = pc]
  <2>1. /\ pc \in {"reset_record", "probe_park", "probe_stale", "retract_file"}
        /\ pc = "probe_park" => job.parked /\ ~job.flag
        /\ pc = "retract_file" => ~job.stale /\ (job.parked => job.flag)
    BY DEF AfterPreflight
  <2>2. /\ job.parked = proc[k].parked /\ job.stale = proc[k].stale /\ job.c = c
    BY DEF ProcType, c
  <2>3. proc' = [proc EXCEPT ![k] = j] /\ UNCHANGED <<row, task>> /\ proc[k].pc = "pre_graph"
    BY <1>14 DEF CheckGraph
  <2>4. /\ j.pc = pc /\ j.c = job.c /\ j.parked = job.parked /\ j.stale = job.stale
        /\ j.flag = job.flag
    BY DEF ProcType
  <2> HIDE DEF pc, job
  <2>5. proc'[k] = j
    BY <2>3, Takes
  <2> HIDE DEF j
  <2>6. Live(c) => proc[k].parked \/ proc[k].stale
    BY <2>3 DEF KnowsTask, CyclePCs, c
  <2> QED BY <1>7, <2>1, <2>2, <2>3, <2>4, <2>5, <2>6 DEF CyclePCs
<1>15. ~(ResetRecord(k) \/ ResetRows(k) \/ Heal(k) \/ Abort(k) \/ HttpFails(k))
  BY DEF ResetRecord, ResetRows, Heal, Abort, HttpFails, Spend, JobOne, UnreachedPCs, HoldsRow, CyclePCs
<1>16. CASE ProbePark(k) \/ ProbeStale(k) \/ ProbeTimeout(k)
  <2>1. UNCHANGED <<row, task>> /\ proc[k].pc \in {"probe_park", "probe_stale", "timeout_probe"}
    BY <1>16 DEF ProbePark, ProbeStale, ProbeTimeout
  <2>2. \/ Goto(k, "defer")
        \/ /\ ~Live(c)
           /\ \/ Goto(k, "probe_stale") \/ Goto(k, "retract_file") \/ Goto(k, "timeout_release")
    BY <1>16 DEF ProbePark, ProbeStale, ProbeTimeout, AfterParkProbe, StaleVerdict, c
  <2> QED BY <1>7, <1>8, <2>1, <2>2 DEF CyclePCs
<1>17. CASE Defer(k)
  <2> DEFINE r == Deferred(row[c])
  <2>1. proc[k].pc = "defer" /\ Finish(k) /\ UNCHANGED task /\ PatchRow(c, r)
    BY <1>17 DEF Defer, c
  <2>2. r.park = "held"
    BY <1>2, <2>1 DEF Deferred, Released, RowType, CyclePCs
  <2> HIDE DEF r
  <2>3. \A d \in Concepts : ParkedOrClaimed(d)'
    BY <1>5, <2>1, <2>2 DEF CyclePCs
  <2> QED BY <1>1, <1>4, <2>1, <2>3, Ends
<1>18. CASE RetractFile(k)
  BY <1>7, <1>8, <1>18 DEF RetractFile, KnowsTask, CyclePCs, c
<1>19. CASE Post(k)
  <2>1. proc[k].pc = "post" /\ UNCHANGED row /\ (Live(c) => proc[k].parked) /\ c \in Concepts
    BY <1>2, <1>19 DEF Post, KnowsTask, CyclePCs, c
  <2>2. CASE UNCHANGED task /\ (Goto(k, "unclaim") \/ GoRelease(k, FALSE))
    BY <1>7, <1>8, <1>9, <2>1, <2>2 DEF GoRelease, CyclePCs
  <2>3. CASE StartTask(c, proc[k].graph) /\ Goto(k, "wait")
    <3>1. row[c].claim = k
      BY <2>1 DEF HoldsRow, CyclePCs, c
    <3>2. \A d \in Concepts \ {c} : task'[d] = task[d]
      BY <2>3 DEF StartTask, TaskOK
    <3>3. \A d \in Concepts : ParkedOrClaimed(d)'
      BY <2>1, <3>1, <3>2 DEF ParkedOrClaimed, Live
    <3>4. HoldsRow(k)' /\ KnowsTask(k)'
      BY <1>8, <2>1, <2>3, <3>1 DEF HoldsRow, KnowsTask, CyclePCs, c
    <3> QED BY <1>1, <3>3, <3>4
  <2> QED BY <1>19, <2>2, <2>3 DEF Post, c
<1>20. CASE Unclaim(k) \/ Release(k) \/ TimeoutRelease(k)
  <2>1. /\ proc[k].pc \in {"unclaim", "release", "timeout_release"} /\ UNCHANGED task
        /\ Finish(k) \/ GoRefresh(k)
        /\ row[c] \in RowType /\ c \in Concepts /\ row[c].claim = k
        /\ Live(c) => row[c].park # "none"
    <3>1. /\ proc[k].pc \in {"unclaim", "release", "timeout_release"} /\ UNCHANGED task
          /\ Finish(k) \/ GoRefresh(k)
      BY <1>20 DEF Unclaim, Release, TimeoutRelease
    <3> QED BY <1>2, <3>1 DEF HoldsRow, KnowsTask, CyclePCs, c
  <2>2. PICK r \in {Unclaimed(row[c]), Released(row[c]), Deferred(row[c])} : PatchRow(c, r)
    BY <1>20, <2>1 DEF Unclaim, Release, TimeoutRelease, ReleasePatch, PatchRow, c
  <2>3. r.park \in {row[c].park, "held"}
    BY <2>1, <2>2 DEF Unclaimed, Released, Deferred, RowType
  <2>4. \A d \in Concepts : ParkedOrClaimed(d)'
    BY <1>5, <2>1, <2>2, <2>3 DEF CyclePCs
  <2> QED BY <1>1, <1>4, <2>1, <2>4, Ends
<1>21. CASE SeeVerdict(k) \/ Timeout(k) \/ Recheck(k)
  <2>1. UNCHANGED <<row, task>> /\ proc[k].pc \in {"wait", "timeout"}
    BY <1>21 DEF SeeVerdict, Timeout, Recheck
  <2>2. \/ Finish(k) \/ GoRefresh(k)
        \/ Goto(k, "heal") \/ Goto(k, "timeout") \/ Goto(k, "timeout_probe")
    BY <1>21 DEF SeeVerdict, Timeout, Recheck
  <2> QED BY <1>6, <1>7, <1>8, <2>1, <2>2 DEF CyclePCs
<1>22. CASE CycleStoreFails(k)
  <2>1. UNCHANGED <<row, task>>
    BY <1>22 DEF CycleStoreFails
  <2>2. \/ Finish(k) \/ GoRefresh(k)
        \/ proc[k].pc = "pre_progress" /\ proc' = [proc EXCEPT ![k].pc = "pre_graph", ![k].flag = FALSE]
    BY <1>22 DEF CycleStoreFails, JobOne, UnreachedPCs
  <2> QED BY <1>6, <1>7, <1>9, <2>1, <2>2 DEF KnowsTask, CyclePCs, c
<1> QED BY <1>11, <1>12, <1>13, <1>14, <1>15, <1>16, <1>17, <1>18, <1>19, <1>20, <1>21, <1>22
        DEF CycleStep

LEMMA SpareKept ==
    ASSUME OneCycle, Adaptive, VersionInv, Spared(SparingEvents), SpareInv, [Next]_vars
    PROVE  SpareInv'
<1> USE DEF At
<1> TypeInvariant /\ ProcOK /\ RowOK /\ TaskOK /\ left["http"] = 0 /\ left["reingest"] = 0
  BY TypeParts DEF VersionInv, Spared, SparingEvents
<1>1. ASSUME NEW p \in Procs, Others(p), proc'[p].pc \notin CyclePCs \cup {"requeue_failed"},
             \A c \in Concepts : RowKept(c), UNCHANGED task
      PROVE  SpareInv'
  <2>1. Unnoticed
    BY <1>1 DEF Unnoticed, Others, Live, SpareInv, Procs
  <2> QED BY <2>1, UnnoticedSpares
<1>2. ASSUME UNCHANGED proc, \A c \in Concepts : RowKept(c) /\ (Live(c)' => Live(c))
      PROVE  SpareInv'
  <2>1. Unnoticed
    BY <1>2 DEF Unnoticed, SpareInv
  <2> QED BY <2>1, UnnoticedSpares
<1>3. (UNCHANGED row => \A c \in Concepts : RowKept(c)) /\ \A c : RowSame(c) => RowKept(c)
  BY DEF RowKept, RowSame
<1>4. CASE WorkerNext
  BY <1>4, CycleSpares DEF WorkerNext
<1>5. CASE DataprepNext
  <2>1. UNCHANGED proc
    BY <1>5, DataprepEvolves
  <2>2. ASSUME NEW c \in Concepts
        PROVE  RowKept(c)
    <3>1. ASSUME NEW d \in Concepts, NEW s, PatchRow(d, Verdict(row[d], s))
          PROVE  RowKept(c)
      BY <3>1 DEF PatchRow, Verdict, RowKept, RowOK, RowType
    <3>2. ASSUME NEW cb \in late, DeliverLate(cb)
          PROVE  RowKept(c)
      BY <3>1, <3>2, TypeParts DEF DeliverLate, RestOK
    <3>3. ASSUME NEW d \in Concepts, Callback(d)
          PROVE  RowKept(c)
      BY <3>1, <3>3 DEF Callback
    <3> QED BY <1>3, <1>5, <3>2, <3>3
            DEF DataprepNext, TaskStep, EnsureGraph, StoreChunks, Rollback, TaskEnds, TaskFails, Kill,
                CallbackLost, CallbackLate, DataprepCrash
  <2>3. ASSUME NEW c \in Concepts
        PROVE  Live(c)' => Live(c)
    <3>1. ASSUME NEW d \in Concepts, NEW s, Stage(d, s), task[d].stage # "none"
          PROVE  Live(c)' => Live(c)
      BY <3>1 DEF Stage, Live, TaskOK, TaskType
    <3>2. ASSUME NEW d \in Concepts, task' = [task EXCEPT ![d] = NoTask]
          PROVE  Live(c)' => Live(c)
      BY <3>2 DEF Live, TaskOK, NoTask
    <3>3. CASE \E d \in Concepts : TaskStep(d)
      BY <3>1, <3>2, <3>3 DEF TaskStep, EnsureGraph, StoreChunks, Callback, Reporting, Rollback, TaskEnds,
                              TaskAt
    <3>4. CASE \E d \in Concepts : TaskFails(d) \/ Kill(d) \/ CallbackLost(d) \/ CallbackLate(d)
      BY <3>1, <3>4 DEF TaskFails, Kill, CallbackLost, CallbackLate, Reporting, TaskAt, Live
    <3>5. CASE DataprepCrash \/ \E cb \in late : DeliverLate(cb)
      BY <3>5 DEF DataprepCrash, DeliverLate, NoTask, Live
    <3> QED BY <1>5, <3>3, <3>4, <3>5 DEF DataprepNext
  <2> QED BY <1>2, <2>1, <2>2, <2>3
<1>6. CASE SettlementNext
  <2>1. CASE LeaseAges
    BY <1>2, <1>3, <2>1 DEF LeaseAges, Live
  <2>2. ASSUME NEW p \in Procs, SettleStep(p) \/ SettleWriteFails(p)
        PROVE  SpareInv'
    <3>1. Others(p) /\ SettleMove(p) /\ proc'[p].pc # "requeue_failed"
      BY <2>2, SettleMoves DEF SettleMove, Plain, Leads, AdminPCs
    <3>2. UNCHANGED task
      BY <2>2 DEF SettleStep, Counts, Mark, Load, TakeLease, Promote, Flip, Unlease, CollectGraph, Tally,
                  WriteRecord, SettleWriteFails
    <3> QED BY <1>1, <1>3, <2>2, <3>1, <3>2, SettlersSame
  <2> QED BY <1>6, <2>1, <2>2 DEF SettlementNext
<1>7. CASE SweepNext
  <2>1. /\ Others(Sweeper) /\ proc'[Sweeper].pc # "requeue_failed" /\ Sweeper \in Procs
        /\ UNCHANGED task
    BY <1>7, SweepPlain, SweeperRuns
       DEF Plain, AdminPCs, SweepNext, SweepStep, Reconcile, ReapRead, Reap, ReapFails
  <2>2. proc'[Sweeper].pc \notin CyclePCs
    <3> DEFINE j == [Idle EXCEPT !.pc = "reap", !.list = {c \in RowsIn("parsed") : Stuck(row[c])}]
    <3>1. j.pc = "reap"
      BY DEF Idle
    <3> HIDE DEF j
    <3>2. CASE ReapRead
      <4>1. proc' = [proc EXCEPT ![Sweeper] = j]
        BY <3>2 DEF ReapRead, j
      <4> QED BY <2>1, <3>1, <4>1, Takes DEF CyclePCs
    <3>3. ASSUME NEW c, At(Sweeper, "reap"), NextVictim(c)
          PROVE  proc'[Sweeper].pc \notin CyclePCs
      <4>1. CASE Finish(Sweeper)
        BY <2>1, <4>1, Ends DEF CyclePCs
      <4>2. ASSUME NEW rest, proc' = [proc EXCEPT ![Sweeper].list = rest]
            PROVE  proc'[Sweeper].pc \notin CyclePCs
        BY <2>1, <3>3, <4>2 DEF ProcOK, ProcType, CyclePCs
      <4> QED BY <3>3, <4>1, <4>2 DEF NextVictim
    <3>4. CASE Reconcile
      BY <2>1, <3>4, Ends DEF Reconcile, CyclePCs
    <3> QED BY <1>7, <3>2, <3>3, <3>4 DEF SweepNext, SweepStep, Reap, ReapFails
  <2>3. \A c \in Concepts : RowKept(c)
    BY <1>3, <1>7
       DEF SweepNext, SweepStep, Reconcile, ReapRead, Reap, ReapFails, PatchRow, RowKept, RowOK, RowType
  <2> QED BY <1>1, <2>1, <2>2, <2>3
<1>8. CASE LifecycleNext
  <2>1. PICK a \in Admins : Request(a) \/ RequestStep(a) \/ RequestFails(a)
    BY <1>8 DEF LifecycleNext
  <2>2. /\ a \in Procs /\ Others(a) /\ proc'[a].pc \notin CyclePCs
        /\ UNCHANGED task
    BY <2>1, RequestsSame, RequestOne DEF Procs
  <2>3. proc[a].pc # "requeue_failed"
    BY <2>2 DEF SpareInv
  <2>4. \A c \in Concepts : RowKept(c)
    BY <1>3, <2>1, <2>3, RequestsSame DEF RequeueFailed
  <2>5. proc'[a].pc # "requeue_failed"
    BY <2>1, <2>2, <2>3, RequestReaches
  <2> QED BY <1>1, <2>2, <2>4, <2>5
<1>9. CASE TimeNext
  <2>1. UNCHANGED <<proc, task>>
    BY <1>9 DEF TimeNext, ClaimStales, ClaimExpires, ParkEnds, Age
  <2>2. \A c \in Concepts : RowKept(c)
    BY <1>9 DEF TimeNext, ClaimStales, ClaimExpires, ParkEnds, Age, PatchRow, RowKept, RowOK, RowType
  <2> QED BY <1>2, <2>1, <2>2 DEF Live
<1>10. CASE ServerCrash
  <2>1. Unnoticed
    BY <1>3, <1>10 DEF ServerCrash, Unnoticed, Live, Idle, CyclePCs, Procs
  <2> QED BY <2>1, UnnoticedSpares
<1>11. CASE UNCHANGED vars
  BY <1>2, <1>3, <1>11 DEF vars, Live
<1> QED BY <1>4, <1>5, <1>6, <1>7, <1>8, <1>9, <1>10, <1>11 DEF Next

(* The retract before a POST spares a live task: a job that found its      *)
(* graph in place and deletes the chunks of its concept does so when       *)
(* dataprep has no task of it; with adaptive windows, one cycle, one       *)
(* version, no re-ingest and no failed request to dataprep, whatever else  *)
(* crashes, fails, is lost, late or killed, and whatever ages.             *)
THEOREM RetractsSpare ==
    ASSUME OneVersion, OneCycle, Adaptive, Allowance["http"] = 0, Allowance["reingest"] = 0
    PROVE  Spec => RetractSparesLiveTask
<1> DEFINE I == VersionInv /\ Spared(SparingEvents) /\ SpareInv
<1>1. Init => I
  <2> SUFFICES ASSUME Init
               PROVE  I
    OBVIOUS
  <2>1. \A p \in Procs : proc[p].pc = "idle"
    BY DEF Init, Idle
  <2>2. SpareInv
    BY <2>1 DEF Init, NoTask, Live, SpareInv, ParkedOrClaimed, HoldsRow, KnowsTask, CyclePCs, Procs
  <2> QED BY <2>2, VersionStarts DEF Init, Spared, SparingEvents
<1>2. I /\ [Next]_vars => I'
  <2> SUFFICES ASSUME I, [Next]_vars
               PROVE  I'
    OBVIOUS
  <2>1. Spared(SparingEvents)'
    BY SparedStays DEF VersionInv, SparingEvents, Events
  <2> QED BY <2>1, VersionKept, SpareKept
<1>3. I => [RetractsDead]_vars
  BY DEF SpareInv, KnowsTask, RetractsDead, Retracts, At, CyclePCs
<1> QED BY <1>1, <1>2, <1>3, PTL DEF Spec, RetractSparesLiveTask
=============================================================================
