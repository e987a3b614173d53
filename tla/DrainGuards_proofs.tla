------------------------- MODULE DrainGuards_proofs --------------------------
(***************************************************************************)
(* What guards the repository during a drain, for any number of concepts   *)
(* and cycles: a pending row's claim always has its cycle, a drain is only *)
(* armed on a published repository and only then recorded as draining, and *)
(* a settler never drops the graph that is served.                         *)
(*                                                                         *)
(* Each theorem states the faults and the overlaps it excludes; what they  *)
(* would break is in the README.  The first part says which moves a step   *)
(* may make between the points of a request and of a settle, and what it   *)
(* may write to the repository on the way; the invariants are shown from   *)
(* those moves alone.                                                      *)
(***************************************************************************)
EXTENDS IngestDrain_proofs

(* The points a request may only reach when the drain is not armed: all    *)
(* but those of a retract.                                                 *)
FreezingPCs == AdminPCs \ {"drop", "requeue", "disarm"}

ArmingPCs == {"requeue_failed", "arm_count", "arm_stamp", "arm_write"}

SigningPCs == {"submit", "approve"}

(* The points of a settler that has seen the repository armed, and those   *)
(* of one that has disarmed it.                                            *)
PastLoad == SettlePCs \ {"counts", "mark", "load"}

ClosingPCs == {"gc", "tally", "record"}

(* The fields of the repository the guards are about.                      *)
Fields == <<repo.state, repo.armed, repo.served, repo.servedGraph, repo.record>>

FieldsKept == Fields' = Fields

Others(p) == \A q \in Procs \ {p} : proc'[q] = proc[q]

Leads(p, from, to) == At(p, from) /\ proc'[p].pc = to

GraphsKept(p) == proc'[p].graph = proc[p].graph /\ proc'[p].prev = proc[p].prev

(* A step that leaves the guards alone: it starts neither a request nor a  *)
(* promotion, and is not one of a settler that disarmed the repository.    *)
Plain(p) ==
    /\ FieldsKept
    /\ proc[p].pc \notin ClosingPCs
    /\ proc'[p].pc \notin AdminPCs \cup PastLoad

(* The moves of a settler.                                                 *)
SettleMove(p) ==
    \/ Plain(p)
    \/ /\ Leads(p, "mark", "idle") /\ repo.armed
       /\ Fields' = <<repo.state, repo.armed, repo.served, repo.servedGraph, "draining">>
    \/ /\ FieldsKept /\ repo.armed /\ Leads(p, "load", "lease")
       /\ proc'[p].prev = repo.servedGraph
    \/ FieldsKept /\ repo.armed /\ Leads(p, "lease", "promote") /\ GraphsKept(p)
    \/ /\ FieldsKept /\ GraphsKept(p)
       /\ Leads(p, "promote", "flip") \/ Leads(p, "promote", "unlease")
    \/ /\ At(p, "flip") /\ GraphsKept(p)
       /\ proc'[p].pc = IF Superseded(p) THEN "gc" ELSE "tally"
       /\ Fields' = <<"publish", FALSE, proc[p].graph, proc[p].graph, repo.record>>
    \/ FieldsKept /\ (Leads(p, "gc", "tally") \/ Leads(p, "tally", "record"))
    \/ /\ Leads(p, "record", "idle")
       /\ \E r \in {"completed", "failed"} :
            Fields' = <<repo.state, repo.armed, repo.served, repo.servedGraph, r>>
    \/ /\ FieldsKept /\ left["dberr"] > 0
       /\ \/ Leads(p, "promote", "unlease") \/ Leads(p, "flip", "unlease")
          \/ Leads(p, "gc", "tally")
          \/ proc[p].pc \in {"tally", "record"} /\ proc'[p].pc = "idle"

(* The moves of a request.                                                 *)
RequestMove(a) ==
    \/ /\ FieldsKept /\ At(a, "idle") /\ proc'[a].pc \in AdminPCs
       /\ Overlap \/ \A p \in Procs : proc[p].pc \notin SettlePCs
       /\ proc'[a].pc \in FreezingPCs => ~repo.armed
       /\ proc'[a].pc \in ArmingPCs => repo.state = "publish" \/ repo.served # 0
       /\ proc'[a].pc \in SigningPCs => repo.state # "publish"
    \/ /\ FieldsKept /\ proc[a].pc \in AdminPCs
       /\ proc'[a].pc \in (AdminPCs \ SigningPCs) \cup {"idle"}
       /\ proc'[a].pc \in FreezingPCs => proc[a].pc \in FreezingPCs
       /\ proc'[a].pc \in ArmingPCs => proc[a].pc \in ArmingPCs
    \/ /\ At(a, "arm_write") /\ proc'[a].pc \in {"idle", "load"}
       /\ \E r \in {"completed", "draining"} :
            Fields' = <<repo.state, TRUE, repo.served, repo.servedGraph, r>>
    \/ /\ Leads(a, "disarm", "idle")
       /\ Fields' = <<"retracted", FALSE, 0, 0, "cancelled">>
    \/ /\ Leads(a, "unpublish", "idle")
       /\ Fields' = <<"review", repo.armed, 0, repo.servedGraph, repo.record>>
    \/ /\ proc[a].pc \in SigningPCs /\ proc'[a].pc = "idle"
       /\ \E s : Fields' = <<s, repo.armed, repo.served, repo.servedGraph, repo.record>>
    \/ /\ Leads(a, "publish_write", "publish_requeue")
       /\ Fields' = <<"publish", FALSE, 0, repo.servedGraph, repo.record>>

GuardMove ==
    \/ FieldsKept /\ UNCHANGED proc
    \/ \E p \in Procs : Others(p) /\ Plain(p)
    \/ \E p \in Procs : Others(p) /\ SettleMove(p)
    \/ \E a \in Admins : Others(a) /\ RequestMove(a)
    \/ FieldsKept /\ left["crash"] > 0 /\ proc' = [p \in Procs |-> Idle]

-----------------------------------------------------------------------------
(* What a step of p that goes elsewhere, takes a new snapshot or ends does *)
(* to the processes.                                                       *)
LEMMA Goes ==
    ASSUME ProcOK, NEW p \in Procs, NEW pc, Goto(p, pc)
    PROVE  Others(p) /\ proc'[p].pc = pc /\ GraphsKept(p)
BY DEF ProcOK, ProcType, Goto, Others, GraphsKept

LEMMA Ends ==
    ASSUME ProcOK, NEW p \in Procs, Finish(p) \/ GoRefresh(p)
    PROVE  Others(p) /\ proc'[p].pc \in {"idle", "counts"} /\ (Finish(p) => proc'[p].pc = "idle")
BY DEF ProcOK, Finish, GoRefresh, Idle, Others

LEMMA Takes ==
    ASSUME ProcOK, NEW p \in Procs, NEW j, proc' = [proc EXCEPT ![p] = j]
    PROVE  Others(p) /\ proc'[p] = j
BY DEF ProcOK, Others

LEMMA Flags ==
    ASSUME ProcOK, NEW p \in Procs, NEW pc, NEW f, proc' = [proc EXCEPT ![p].pc = pc, ![p].flag = f]
    PROVE  Others(p) /\ proc'[p].pc = pc /\ GraphsKept(p)
BY DEF ProcOK, ProcType, Others, GraphsKept

(* A cycle never touches the guards: the reset writes the progress only.   *)
LEMMA CyclesPlain ==
    ASSUME TypeInvariant, NEW k \in Cycles,
           CycleStep(k) \/ HttpFails(k) \/ CycleStoreFails(k) \/ StampAckLost(k) \/ Claim(k)
    PROVE  Others(k) /\ Plain(k) /\ proc'[k].pc # "load"
<1> USE DEF At, PastLoad, SettlePCs, AdminPCs, ClosingPCs, Plain, FieldsKept, Fields
<1> k \in Procs /\ ProcOK /\ repo \in RepoType /\ proc[k] \in ProcType
  BY Serving DEF Procs
<1>1. CASE Stamp(k) \/ StampAckLost(k)
  BY <1>1, Goes, Ends DEF Stamp, StampAckLost
<1>2. CASE ReadProgress(k)
  <2>1. Others(k) /\ proc'[k].pc = "pre_graph"
    BY <1>2, Flags DEF ReadProgress
  <2> QED BY <1>2, <2>1 DEF ReadProgress
<1>3. CASE CheckGraph(k)
  <2> DEFINE job == [proc[k] EXCEPT !.flag = proc[k].graph \notin exists]
             pc == IF job.flag /\ proc[k].flag THEN "reset_record" ELSE AfterPreflight(job)
             j == [job EXCEPT !.pc = pc]
  <2>1. pc \in {"reset_record", "probe_park", "probe_stale", "retract_file"}
    BY DEF AfterPreflight
  <2>2. proc' = [proc EXCEPT ![k] = j] /\ UNCHANGED repo /\ proc[k].pc = "pre_graph"
    BY <1>3 DEF CheckGraph
  <2> HIDE DEF pc
  <2>3. j.pc = pc
    BY DEF ProcType
  <2> QED BY <2>1, <2>2, <2>3, Takes
<1>4. CASE ResetRecord(k)
  <2>1. FieldsKept
    BY <1>4 DEF ResetRecord, RepoType
  <2> QED BY <1>4, <2>1, Goes DEF ResetRecord
<1>5. CASE ResetRows(k) \/ ProbePark(k) \/ ProbeStale(k) \/ ProbeTimeout(k) \/ Recheck(k) \/ Timeout(k)
  BY <1>5, Goes, Ends
     DEF ResetRows, AfterPreflight, ProbePark, AfterParkProbe, ProbeStale, StaleVerdict,
         ProbeTimeout, Recheck, Timeout
<1>6. CASE Defer(k) \/ Unclaim(k) \/ Release(k) \/ Abort(k) \/ TimeoutRelease(k) \/ Heal(k)
  BY <1>6, Ends DEF Defer, Unclaim, Release, Abort, TimeoutRelease, Heal
<1>7. CASE RetractFile(k) \/ Post(k) \/ SeeVerdict(k)
  BY <1>7, Goes, Ends, Flags DEF RetractFile, Post, GoRelease, SeeVerdict
<1>8. CASE HttpFails(k)
  <2>1. CASE \E pc \in {"probe_stale", "retract_file", "timeout_release", "abort"} : Goto(k, pc)
    BY <1>8, <2>1, Goes DEF HttpFails
  <2>2. CASE GoRelease(k, Backoff)
    <3>1. Others(k) /\ proc'[k].pc = "release"
      BY <2>2, Flags DEF GoRelease
    <3> QED BY <1>8, <3>1 DEF HttpFails
  <2> QED BY <1>8, <2>1, <2>2 DEF HttpFails, AfterParkProbe
<1>9. CASE CycleStoreFails(k)
  BY <1>9, Goes, Ends, Flags DEF CycleStoreFails, AfterPreflight
<1>10. CASE Claim(k)
  <2>1. PICK c \in Concepts : ClaimRead(k, c) \/ ClaimFair(k, c)
    BY <1>10 DEF Claim
  <2>2. ASSUME NEW pc \in {"stamp", "pre_progress"}, proc' = [proc EXCEPT ![k] = [Job(c) EXCEPT !.pc = pc]]
        PROVE  Others(k) /\ proc'[k].pc = pc
    <3> DEFINE j == [Job(c) EXCEPT !.pc = pc]
    <3>1. j.pc = pc
      BY DEF Job, Idle
    <3> QED BY <2>2, <3>1, Takes
  <2> QED BY <2>1, <2>2 DEF ClaimRead, ClaimFair
<1> QED BY <1>1, <1>2, <1>3, <1>4, <1>5, <1>6, <1>7, <1>8, <1>9, <1>10 DEF CycleStep

(* Nor does the sweep.                                                     *)
LEMMA SweepPlain ==
    ASSUME TypeInvariant, SweepNext
    PROVE  Others(Sweeper) /\ Plain(Sweeper) /\ proc'[Sweeper].pc # "load"
<1> USE DEF At, PastLoad, SettlePCs, AdminPCs, ClosingPCs, Plain, FieldsKept, Fields
<1> Sweeper \in Procs /\ ProcOK /\ proc[Sweeper] \in ProcType
  BY SweeperRuns
<1>1. CASE Reconcile
  BY <1>1, Ends DEF Reconcile
<1>2. CASE ReapRead
  BY <1>2 DEF ReapRead, Idle, Others, ProcOK
<1>3. ASSUME NEW c \in Concepts, Reap(c) \/ ReapFails(c)
      PROVE  Others(Sweeper) /\ Plain(Sweeper) /\ proc'[Sweeper].pc # "load"
  BY <1>3, Ends DEF Reap, ReapFails, NextVictim, Others, ProcOK, ProcType
<1> QED BY <1>1, <1>2, <1>3 DEF SweepNext, SweepStep
(* A settler makes the moves of a settler.                                 *)
LEMMA SettleMoves ==
    ASSUME TypeInvariant, NEW p \in Procs, SettleStep(p) \/ SettleWriteFails(p)
    PROVE  Others(p) /\ SettleMove(p)
<1> USE DEF At, Leads
<1> ProcOK /\ repo \in RepoType /\ proc[p] \in ProcType
  BY Serving
<1>1. ASSUME FieldsKept, proc[p].pc \in SettlePCs \ ClosingPCs,
             proc'[p].pc \in {"idle", "mark", "load"}
      PROVE  SettleMove(p)
  BY <1>1 DEF SettleMove, Plain, PastLoad, SettlePCs, ClosingPCs, AdminPCs
<1>2. CASE Counts(p)
  <2>1. Others(p) /\ proc'[p].pc \in {"mark", "load"}
    BY <1>2 DEF Counts, Others, ProcOK, ProcType
  <2>2. FieldsKept /\ proc[p].pc \in SettlePCs \ ClosingPCs
    BY <1>2 DEF Counts, FieldsKept, Fields, SettlePCs, ClosingPCs
  <2> QED BY <1>1, <2>1, <2>2
<1>3. CASE Mark(p)
  <2>1. Others(p) /\ proc'[p].pc = "idle" /\ proc[p].pc = "mark"
    BY <1>3, Ends DEF Mark
  <2>2. CASE ~repo.armed
    BY <1>1, <1>3, <2>1, <2>2 DEF Mark, MarkAllowed, FieldsKept, Fields, SettlePCs, ClosingPCs
  <2>3. CASE repo.armed
    <3>1. Fields' = <<repo.state, repo.armed, repo.served, repo.servedGraph, "draining">>
      BY <1>3, <2>3 DEF Mark, MarkAllowed, Fields, RepoType
    <3> QED BY <2>1, <2>3, <3>1 DEF SettleMove
  <2> QED BY <2>2, <2>3
<1>4. CASE Load(p)
  <2>1. CASE ~repo.armed
    BY <1>1, <1>4, <2>1, Ends DEF Load, FieldsKept, Fields, SettlePCs, ClosingPCs
  <2>2. CASE repo.armed
    <3>1. Others(p) /\ proc'[p].pc = "lease" /\ proc'[p].prev = repo.servedGraph
      BY <1>4, <2>2 DEF Load, Others, ProcOK, ProcType
    <3> QED BY <1>4, <2>2, <3>1 DEF Load, SettleMove, FieldsKept, Fields
  <2> QED BY <2>1, <2>2
<1>5. CASE TakeLease(p)
  <2>1. FieldsKept /\ proc[p].pc = "lease"
    BY <1>5 DEF TakeLease, FieldsKept, Fields, RepoType
  <2>2. CASE repo.armed /\ LeaseOpen
    BY <1>5, <2>1, <2>2, Goes DEF TakeLease, SettleMove
  <2>3. CASE ~(repo.armed /\ LeaseOpen)
    BY <1>1, <1>5, <2>1, <2>3, Ends DEF TakeLease, SettlePCs, ClosingPCs
  <2> QED BY <2>2, <2>3
<1>6. CASE Promote(p)
  <2>1. FieldsKept /\ proc[p].pc = "promote" /\ (Goto(p, "flip") \/ Goto(p, "unlease"))
    BY <1>6 DEF Promote, FieldsKept, Fields
  <2> QED BY <2>1, Goes DEF SettleMove
<1>7. CASE Flip(p)
  <2>1. /\ Others(p) /\ GraphsKept(p)
        /\ proc'[p].pc = IF Superseded(p) THEN "gc" ELSE "tally"
    BY <1>7, Goes DEF Flip
  <2>2. Fields' = <<"publish", FALSE, proc[p].graph, proc[p].graph, repo.record>>
    BY <1>7 DEF Flip, Fields, RepoType
  <2> QED BY <1>7, <2>1, <2>2 DEF Flip, SettleMove
<1>8. CASE Unlease(p)
  <2>1. FieldsKept
    BY <1>8 DEF Unlease, FieldsKept, Fields, RepoType
  <2> QED BY <1>1, <1>8, <2>1, Ends DEF Unlease, SettlePCs, ClosingPCs
<1>9. CASE CollectGraph(p) \/ Tally(p)
  <2>1. FieldsKept
    BY <1>9 DEF CollectGraph, Tally, FieldsKept, Fields
  <2>2. CASE CollectGraph(p)
    BY <2>1, <2>2, Goes DEF CollectGraph, SettleMove
  <2>3. CASE Tally(p)
    <3>1. Others(p) /\ proc'[p].pc = "record"
      BY <2>3 DEF Tally, Others, ProcOK, ProcType
    <3> QED BY <2>1, <2>3, <3>1 DEF Tally, SettleMove
  <2> QED BY <1>9, <2>2, <2>3
<1>10. CASE WriteRecord(p)
  <2>1. Others(p) /\ proc'[p].pc = "idle" /\ proc[p].pc = "record"
    BY <1>10, Ends DEF WriteRecord
  <2>2. \E r \in {"completed", "failed"} :
          Fields' = <<repo.state, repo.armed, repo.served, repo.servedGraph, r>>
    BY <1>10 DEF WriteRecord, Fields, RepoType
  <2> QED BY <2>1, <2>2 DEF SettleMove
<1>11. CASE SettleWriteFails(p)
  <2>1. FieldsKept /\ left["dberr"] > 0
    BY <1>11 DEF SettleWriteFails, FieldsKept, Fields, Spend
  <2>2. CASE Finish(p)
    <3>1. Others(p) /\ proc'[p].pc = "idle"
      BY <2>2, Ends
    <3>2. proc[p].pc \in {"counts", "mark", "load", "lease", "unlease", "record", "tally"}
      BY <1>11, <3>1, Goes DEF SettleWriteFails
    <3>3. CASE proc[p].pc \in {"record", "tally"}
      BY <2>1, <3>1, <3>3 DEF SettleMove
    <3> QED BY <1>1, <2>1, <3>1, <3>2, <3>3 DEF SettlePCs, ClosingPCs
  <2>3. CASE ~Finish(p)
    BY <1>11, <2>1, <2>3, Goes DEF SettleWriteFails, SettleMove
  <2> QED BY <2>2, <2>3
<1> QED BY <1>2, <1>3, <1>4, <1>5, <1>6, <1>7, <1>8, <1>9, <1>10, <1>11 DEF SettleStep

(* A request makes the moves of a request.                                 *)
LEMMA RequestMoves ==
    ASSUME TypeInvariant, NEW a \in Admins, Request(a) \/ RequestStep(a) \/ RequestFails(a)
    PROVE  Others(a) /\ RequestMove(a)
<1> USE DEF At, Leads
<1> a \in Procs /\ ProcOK /\ repo \in RepoType /\ proc[a] \in ProcType
  BY RequestReads
<1>1. ASSUME NEW e, NEW pc \in AdminPCs, NEW g, Enter(a, e, pc, g),
             pc \in FreezingPCs => ~repo.armed,
             pc \in ArmingPCs => repo.state = "publish" \/ repo.served # 0,
             pc \notin SigningPCs
      PROVE  Others(a) /\ RequestMove(a)
  <2> DEFINE j == [Idle EXCEPT !.pc = pc, !.graph = g, !.good = (e = "ingest")]
  <2>1. j.pc = pc /\ proc' = [proc EXCEPT ![a] = j]
    BY <1>1 DEF Enter, Idle
  <2> HIDE DEF j
  <2>2. Others(a) /\ proc'[a].pc = pc
    BY <2>1, Takes
  <2> QED BY <1>1, <2>2 DEF Enter, Arrives, RequestMove, FieldsKept, Fields
<1>2. CASE Request(a)
  <2> USE DEF AdminPCs, FreezingPCs, ArmingPCs, SigningPCs
  <2>1. CASE Ingest(a) \/ Reingest(a) \/ Retract(a)
    BY <1>1, <2>1 DEF Ingest, Reingest, Retract, Frozen
  <2>2. CASE Unpublish(a) \/ Publish(a)
    BY <1>1, <2>2 DEF Unpublish, Publish, Frozen
  <2>3. CASE SignOff(a)
    <3>1. Others(a) /\ proc'[a].pc \in {"submit", "approve"}
      BY <2>3, Goes DEF SignOff
    <3> QED BY <2>3, <3>1 DEF SignOff, Arrives, Frozen, RequestMove, FieldsKept, Fields
  <2> QED BY <1>2, <2>1, <2>2, <2>3 DEF Request
<1>3. ASSUME FieldsKept, proc[a].pc \in AdminPCs,
             proc'[a].pc \in (AdminPCs \ SigningPCs) \cup {"idle"},
             proc'[a].pc \in FreezingPCs => proc[a].pc \in FreezingPCs,
             proc'[a].pc \in ArmingPCs => proc[a].pc \in ArmingPCs
      PROVE  RequestMove(a)
  BY <1>3 DEF RequestMove
<1>4. CASE RequeueFailed(a) \/ ArmCount(a) \/ ArmStamp(a) \/ Drop(a) \/ Requeue(a)
            \/ PublishRequeue(a) \/ RequestFails(a)
  <2>1. FieldsKept
    BY <1>4 DEF RequeueFailed, ArmCount, ArmStamp, Drop, Requeue, PublishRequeue, RequestFails,
                FieldsKept, Fields
  <2>2. CASE ArmCount(a)
    <3>1. Others(a) /\ proc'[a].pc = "arm_stamp"
      BY <2>2 DEF ArmCount, Others, ProcOK, ProcType
    <3> QED BY <1>3, <2>1, <2>2, <3>1 DEF ArmCount, AdminPCs, FreezingPCs, ArmingPCs, SigningPCs
  <2>3. CASE ~ArmCount(a)
    <3>1. Others(a) /\ proc[a].pc \in AdminPCs
          /\ \/ proc'[a].pc = "idle"
             \/ proc[a].pc \in ArmingPCs /\ proc'[a].pc \in {"arm_count", "arm_write"}
             \/ proc'[a].pc \in {"requeue", "disarm"}
      BY <1>4, <2>3, Goes, Ends
         DEF RequeueFailed, ArmStamp, Drop, Requeue, PublishRequeue, RequestFails, AdminPCs, ArmingPCs
    <3> QED BY <1>3, <2>1, <3>1 DEF AdminPCs, FreezingPCs, ArmingPCs, SigningPCs
  <2> QED BY <2>2, <2>3
<1>5. CASE ArmWrite(a)
  <2>1. Others(a) /\ proc'[a].pc \in {"idle", "load"}
    <3> DEFINE j == [Idle EXCEPT !.pc = "load"]
    <3>1. Finish(a) \/ proc' = [proc EXCEPT ![a] = j]
      BY <1>5 DEF ArmWrite
    <3>2. j.pc = "load"
      BY DEF Idle
    <3> QED BY <3>1, <3>2, Ends, Takes
  <2>2. \E r \in {"completed", "draining"} :
          Fields' = <<repo.state, TRUE, repo.served, repo.servedGraph, r>>
    BY <1>5 DEF ArmWrite, Fields, RepoType
  <2> QED BY <1>5, <2>1, <2>2 DEF ArmWrite, RequestMove
<1>6. CASE Disarm(a)
  <2>1. Fields' = <<"retracted", FALSE, 0, 0, "cancelled">>
    BY <1>6 DEF Disarm, Fields, RepoType
  <2> QED BY <1>6, <2>1, Ends DEF Disarm, RequestMove
<1>7. CASE UnpublishWrite(a)
  <2>1. Fields' = <<"review", repo.armed, 0, repo.servedGraph, repo.record>>
    BY <1>7 DEF UnpublishWrite, Fields, RepoType
  <2> QED BY <1>7, <2>1, Ends DEF UnpublishWrite, RequestMove
<1>8. CASE SignOffWrite(a)
  <2>1. \E s : Fields' = <<s, repo.armed, repo.served, repo.servedGraph, repo.record>>
    <3>1. Fields' = <<repo'.state, repo.armed, repo.served, repo.servedGraph, repo.record>>
      BY <1>8 DEF SignOffWrite, Fields, RepoType
    <3> QED BY <3>1
  <2> QED BY <1>8, <2>1, Ends DEF SignOffWrite, RequestMove, SigningPCs
<1>9. CASE Mint(a)
  <2>1. FieldsKept /\ proc[a].pc = "mint"
    BY <1>9 DEF Mint, FieldsKept, Fields, RepoType
  <2>2. Others(a) /\ proc'[a].pc \in {"idle", "publish_write"}
    BY <1>9, Ends DEF Mint, Others, ProcOK, ProcType
  <2> QED BY <1>3, <2>1, <2>2 DEF AdminPCs, FreezingPCs, ArmingPCs, SigningPCs
<1>10. CASE PublishWrite(a)
  <2>1. Fields' = <<"publish", FALSE, 0, repo.servedGraph, repo.record>>
    BY <1>10 DEF PublishWrite, Fields, RepoType
  <2> QED BY <1>10, <2>1, Goes DEF PublishWrite, RequestMove
<1> QED BY <1>2, <1>4, <1>5, <1>6, <1>7, <1>8, <1>9, <1>10 DEF RequestStep
(* So every step of the drain is one of these moves.                       *)
LEMMA GuardMoves ==
    ASSUME TypeInvariant, [Next]_vars
    PROVE  GuardMove
<1>1. CASE WorkerNext
  <2>1. PICK k \in Cycles :
          CycleStep(k) \/ HttpFails(k) \/ CycleStoreFails(k) \/ StampAckLost(k) \/ Claim(k)
    BY <1>1 DEF WorkerNext
  <2> QED BY <2>1, CyclesPlain DEF GuardMove, Procs
<1>2. CASE DataprepNext \/ TimeNext
  BY <1>2, DataprepEvolves, TimeEvolves DEF GuardMove, FieldsKept, Fields
<1>3. CASE SettlementNext
  <2>1. CASE LeaseAges
    BY <2>1, TypeParts DEF LeaseAges, GuardMove, FieldsKept, Fields, RepoType
  <2> QED BY <1>3, <2>1, SettleMoves DEF SettlementNext, GuardMove
<1>4. CASE SweepNext
  BY <1>4, SweepPlain DEF GuardMove, Procs
<1>5. CASE LifecycleNext
  BY <1>5, RequestMoves DEF LifecycleNext, GuardMove
<1>6. CASE ServerCrash
  BY <1>6 DEF ServerCrash, Spend, GuardMove, FieldsKept, Fields
<1>7. CASE UNCHANGED vars
  BY <1>7 DEF vars, GuardMove, FieldsKept, Fields
<1> QED BY <1>1, <1>2, <1>3, <1>4, <1>5, <1>6, <1>7 DEF Next

(* A budget that is spent stays spent.                                     *)
Spared(E) == \A e \in E : left[e] = 0

LEMMA BudgetSteps ==
    ASSUME [Next]_vars
    PROVE  UNCHANGED left \/ \E e \in Events : Spend(e)
<1> DEFINE Budget == UNCHANGED left \/ \E e \in Events : Spend(e)
<1>1. ASSUME NEW e \in Events, Spend(e)
      PROVE  Budget
  BY <1>1
<1>2. CASE WorkerNext
  <2>1. PICK k \in Cycles :
          Claim(k) \/ CycleStep(k) \/ StampAckLost(k) \/ HttpFails(k) \/ CycleStoreFails(k)
    BY <1>2 DEF WorkerNext
  <2>2. CASE Claim(k)
    BY <2>2 DEF Claim, ClaimRead, ClaimFair
  <2>3. CASE Stamp(k) \/ ReadProgress(k) \/ CheckGraph(k) \/ ResetRecord(k) \/ ResetRows(k) \/ ProbePark(k)
    BY <2>3 DEF Stamp, ReadProgress, CheckGraph, ResetRecord, ResetRows, ProbePark
  <2>4. CASE ProbeStale(k) \/ Defer(k) \/ RetractFile(k) \/ Post(k) \/ Unclaim(k) \/ Release(k) \/ Abort(k)
    BY <2>4 DEF ProbeStale, Defer, RetractFile, Post, Unclaim, Release, Abort
  <2>5. CASE SeeVerdict(k) \/ Timeout(k) \/ Recheck(k) \/ ProbeTimeout(k) \/ TimeoutRelease(k) \/ Heal(k)
    BY <2>5 DEF SeeVerdict, Timeout, Recheck, ProbeTimeout, TimeoutRelease, Heal
  <2>6. Spend("lostack") \/ Spend("http") \/ Spend("dberr") => Budget
    BY <1>1 DEF Events
  <2>7. CASE StampAckLost(k) \/ HttpFails(k) \/ CycleStoreFails(k)
    BY <2>6, <2>7 DEF StampAckLost, HttpFails, CycleStoreFails
  <2> QED BY <2>1, <2>2, <2>3, <2>4, <2>5, <2>7 DEF CycleStep
<1>3. CASE DataprepNext \/ TimeNext
  BY <1>1, <1>3
     DEF DataprepNext, TaskStep, EnsureGraph, StoreChunks, Callback, Rollback, TaskEnds, TaskFails, Kill,
         CallbackLost, CallbackLate, DeliverLate, DataprepCrash, TimeNext, ClaimStales, ClaimExpires,
         ParkEnds, Age, Events
<1>4. CASE SettlementNext \/ SweepNext
  BY <1>1, <1>4
     DEF SettlementNext, SettleStep, Counts, Mark, Load, TakeLease, Promote, Flip, Unlease, CollectGraph,
         Tally, WriteRecord, SettleWriteFails, LeaseAges, SweepNext, SweepStep, Reconcile, ReapRead,
         Reap, ReapFails, Events
<1>5. CASE LifecycleNext
  BY <1>1, <1>5
     DEF LifecycleNext, Request, Ingest, Reingest, Retract, Unpublish, Publish, SignOff, Enter, RequestStep,
         RequeueFailed, ArmCount, ArmStamp, ArmWrite, Drop, Requeue, Disarm, UnpublishWrite,
         SignOffWrite, Mint, PublishWrite, PublishRequeue, RequestFails, Events
<1>6. CASE ServerCrash \/ UNCHANGED vars
  BY <1>1, <1>6 DEF ServerCrash, vars, Events
<1> QED BY <1>2, <1>3, <1>4, <1>5, <1>6 DEF Next

LEMMA SparedStays ==
    ASSUME TypeInvariant, [Next]_vars, NEW E \in SUBSET Events, Spared(E)
    PROVE  Spared(E)'
<1> left \in [Events -> Nat]
  BY TypeParts DEF RestOK
<1> QED BY BudgetSteps DEF Spared, Spend

-----------------------------------------------------------------------------
(***************************************************************************)
(* The repository.                                                         *)
(***************************************************************************)

(* Only requests stand at the points of a request.                         *)
Roles == \A p \in Procs : proc[p].pc \in AdminPCs => p \in Admins

(* One request at a time: what the runs assume of the administrators.      *)
OneAtATime == \A a, b \in Admins : a = b

(* While a request but a retract is at work the drain is not armed.        *)
RequestsFreeze == \A p \in Procs : proc[p].pc \in FreezingPCs => ~repo.armed

LEMMA RolesKept ==
    ASSUME Roles, GuardMove
    PROVE  Roles'
<1> USE DEF Others, Roles
<1>1. ASSUME NEW p \in Procs, Others(p), Plain(p) \/ SettleMove(p)
      PROVE  Roles'
  <2>1. proc'[p].pc \notin AdminPCs
    BY <1>1 DEF Plain, SettleMove, Leads, AdminPCs
  <2> QED BY <1>1, <2>1
<1>2. ASSUME NEW a \in Admins, Others(a)
      PROVE  Roles'
  BY <1>2
<1> QED BY <1>1, <1>2 DEF GuardMove, Idle, AdminPCs

LEMMA FreezeKept ==
    ASSUME OneAtATime, TypeInvariant, Roles, RequestsFreeze, GuardMove
    PROVE  RequestsFreeze'
<1> USE DEF Others, At
<1> repo \in RepoType
  BY TypeParts
<1>1. CASE FieldsKept /\ UNCHANGED proc
  BY <1>1 DEF FieldsKept, Fields, RequestsFreeze
<1>2. ASSUME NEW p \in Procs, Others(p), SettleMove(p) \/ Plain(p)
      PROVE  RequestsFreeze'
  <2>1. proc'[p].pc \notin AdminPCs
    BY <1>2 DEF Plain, SettleMove, Leads, AdminPCs
  <2>2. repo'.armed => repo.armed
    BY <1>2 DEF Plain, SettleMove, FieldsKept, Fields
  <2> QED BY <1>2, <2>1, <2>2 DEF RequestsFreeze, FreezingPCs
<1>3. ASSUME NEW a \in Admins, Others(a), RequestMove(a)
      PROVE  RequestsFreeze'
  <2>1. \A p \in Procs \ {a} : proc'[p].pc \notin FreezingPCs
    BY <1>3 DEF Roles, OneAtATime, FreezingPCs
  <2>2. proc'[a].pc \in FreezingPCs => ~repo'.armed
    BY <1>3 DEF RequestMove, Leads, FieldsKept, Fields, RequestsFreeze, FreezingPCs, AdminPCs, Procs
  <2> QED BY <2>1, <2>2 DEF RequestsFreeze
<1>4. CASE proc' = [p \in Procs |-> Idle]
  BY <1>4 DEF RequestsFreeze, Idle, FreezingPCs, AdminPCs
<1> QED BY <1>1, <1>2, <1>3, <1>4 DEF GuardMove
(* A record that says draining: the settler that disarms the repository    *)
(* moves on to the final record, and a publish finds it disarmed.          *)
LEMMA DrainingKept ==
    ASSUME TypeInvariant, RequestsFreeze, Spared({"crash", "dberr"}), GuardMove,
           DrainingOnlyWhileArmed
    PROVE  DrainingOnlyWhileArmed'
<1> USE DEF Others, At
<1> repo \in RepoType
  BY TypeParts
<1> DEFINE Closing == \E p \in Procs : proc[p].pc \in ClosingPCs
<1>0. DrainingOnlyWhileArmed <=> (repo.record = "draining" => repo.armed \/ Closing)
  BY DEF DrainingOnlyWhileArmed, ClosingPCs
<1>1. DrainingOnlyWhileArmed' <=> (repo'.record = "draining" => repo'.armed \/ Closing')
  BY DEF DrainingOnlyWhileArmed, ClosingPCs
<1>2. CASE FieldsKept /\ UNCHANGED proc
  BY <1>0, <1>1, <1>2 DEF FieldsKept, Fields
<1>3. ASSUME NEW p \in Procs, Others(p), FieldsKept, proc[p].pc \notin ClosingPCs
      PROVE  DrainingOnlyWhileArmed'
  <2>1. Closing => Closing'
    BY <1>3
  <2> QED BY <1>0, <1>1, <1>3, <2>1 DEF FieldsKept, Fields
<1>4. ASSUME NEW p \in Procs, Others(p), SettleMove(p) \/ Plain(p)
      PROVE  DrainingOnlyWhileArmed'
  <2>1. CASE FieldsKept /\ proc[p].pc \notin ClosingPCs
    BY <1>3, <1>4, <2>1
  <2>2. CASE repo'.armed \/ Closing' \/ repo'.record # "draining"
    BY <1>1, <2>2
  <2>3. \/ FieldsKept /\ proc[p].pc \notin ClosingPCs
        \/ repo'.armed
        \/ proc'[p].pc \in ClosingPCs
        \/ repo'.record # "draining"
    <3>1. ~(left["dberr"] > 0)
      BY DEF Spared
    <3>2. CASE proc[p].pc = "record"
      BY <1>4, <3>1, <3>2 DEF SettleMove, Plain, Leads, Fields, ClosingPCs
    <3>3. CASE proc[p].pc # "record" /\ FieldsKept
      BY <1>4, <3>1, <3>3 DEF SettleMove, Plain, Leads, ClosingPCs
    <3>4. CASE proc[p].pc # "record" /\ ~FieldsKept
      BY <1>4, <3>4 DEF SettleMove, Plain, Leads, Fields, ClosingPCs
    <3> QED BY <3>2, <3>3, <3>4
  <2> QED BY <2>1, <2>2, <2>3
<1>5. ASSUME NEW a \in Admins, Others(a), RequestMove(a)
      PROVE  DrainingOnlyWhileArmed'
  <2>1. a \in Procs /\ proc[a].pc \notin ClosingPCs
    BY <1>5 DEF RequestMove, Leads, AdminPCs, SigningPCs, ClosingPCs, Procs
  <2>2. Closing => Closing'
    BY <1>5, <2>1
  <2>3. repo'.record = repo.record \/ repo'.armed \/ repo'.record # "draining"
    BY <1>5 DEF RequestMove, FieldsKept, Fields
  <2>4. repo'.record = repo.record /\ repo.armed => repo'.armed \/ repo'.record # "draining"
    BY <1>5, <2>1 DEF RequestMove, Leads, FieldsKept, Fields, RequestsFreeze, FreezingPCs, AdminPCs
  <2> QED BY <1>0, <1>1, <2>2, <2>3, <2>4
<1>6. left["crash"] = 0
  BY DEF Spared
<1> QED BY <1>2, <1>4, <1>5, <1>6 DEF GuardMove

-----------------------------------------------------------------------------
(* What keeps an armed drain on a published repository when no request     *)
(* arrives inside a refresh: no settler that has seen the repository armed *)
(* is at work while a request freezes it, so none can publish or disarm it *)
(* behind the request's back.                                              *)
SigningUnserved == \A p \in Procs : proc[p].pc \in SigningPCs => repo.served = 0

ArmingPublished == \A p \in Procs : proc[p].pc \in ArmingPCs => repo.state = "publish"

NoneBehind == \A p, q \in Procs : proc[p].pc \in FreezingPCs => proc[q].pc \notin PastLoad

ServedPublished == repo.served # 0 => repo.state = "publish"

PublishedInv ==
    ArmedOnlyPublished /\ ServedPublished /\ ArmingPublished /\ SigningUnserved /\ NoneBehind

LEMMA PublishedKept ==
    ASSUME OneAtATime, ~Overlap, TypeInvariant, Roles, RequestsFreeze, PublishedInv, GuardMove
    PROVE  PublishedInv'
<1> USE DEF Others, At, FreezingPCs
<1> repo \in RepoType
  BY TypeParts
<1> DEFINE Frozen2 == \E p \in Procs : proc[p].pc \in FreezingPCs
<1>1. CASE FieldsKept /\ UNCHANGED proc
  BY <1>1 DEF FieldsKept, Fields, PublishedInv, ArmedOnlyPublished, ServedPublished,
              ArmingPublished, SigningUnserved, NoneBehind
<1>2. ASSUME NEW p \in Procs, Others(p), SettleMove(p) \/ Plain(p)
      PROVE  PublishedInv'
  <2>1. proc'[p].pc \notin AdminPCs
    BY <1>2 DEF Plain, SettleMove, Leads, AdminPCs
  <2>2. repo'.state = repo.state \/ repo'.state = "publish"
    BY <1>2 DEF Plain, SettleMove, FieldsKept, Fields
  <2>3. repo'.armed => repo.armed
    BY <1>2 DEF Plain, SettleMove, FieldsKept, Fields
  <2>4. repo'.served = repo.served \/ repo'.state = "publish"
    BY <1>2 DEF Plain, SettleMove, FieldsKept, Fields
  <2>5. proc'[p].pc \in PastLoad => proc[p].pc \in PastLoad \/ repo.armed
    BY <1>2 DEF Plain, SettleMove, Leads, PastLoad, SettlePCs
  <2>6. NoneBehind'
    <3> SUFFICES ASSUME NEW q \in Procs, proc'[q].pc \in FreezingPCs, NEW r \in Procs,
                        proc'[r].pc \in PastLoad
                 PROVE  FALSE
      BY DEF NoneBehind
    <3>1. q # p /\ proc[q].pc \in FreezingPCs
      BY <1>2, <2>1
    <3>2. ~repo.armed
      BY <3>1 DEF RequestsFreeze
    <3>3. proc[r].pc \in PastLoad
      BY <1>2, <2>5, <3>2
    <3> QED BY <3>1, <3>3 DEF PublishedInv, NoneBehind
  <2>7. ArmingPublished'
    BY <1>2, <2>1, <2>2 DEF ArmingPublished, ArmingPCs, AdminPCs, PublishedInv
  <2>8. SigningUnserved'
    <3> SUFFICES ASSUME NEW q \in Procs, proc'[q].pc \in SigningPCs
                 PROVE  repo'.served = 0
      BY DEF SigningUnserved
    <3>1. q # p /\ proc[q].pc \in SigningPCs /\ proc[q].pc \in FreezingPCs
      BY <1>2, <2>1 DEF SigningPCs, AdminPCs
    <3>2. proc[p].pc # "flip"
      BY <3>1 DEF PublishedInv, NoneBehind, PastLoad, SettlePCs
    <3>3. repo'.served = repo.served
      BY <1>2, <3>2 DEF Plain, SettleMove, FieldsKept, Fields
    <3> QED BY <3>1, <3>3 DEF PublishedInv, SigningUnserved
  <2> QED BY <2>2, <2>3, <2>4, <2>6, <2>7, <2>8
          DEF PublishedInv, ArmedOnlyPublished, ServedPublished
<1>3. ASSUME NEW a \in Admins, Others(a), RequestMove(a)
      PROVE  PublishedInv'
  <2>1. \A p \in Procs \ {a} : proc'[p] = proc[p] /\ proc'[p].pc \notin AdminPCs
    BY <1>3 DEF Roles, OneAtATime
  <2>2. a \in Procs
    BY DEF Procs
  <2>3. proc'[a].pc \notin PastLoad
    BY <1>3 DEF RequestMove, Leads, PastLoad, SettlePCs, AdminPCs
  <2>4. NoneBehind'
    <3> SUFFICES ASSUME proc'[a].pc \in FreezingPCs, NEW r \in Procs, proc'[r].pc \in PastLoad
                 PROVE  FALSE
      BY <2>1 DEF NoneBehind
    <3>1. r # a /\ proc[r].pc \in PastLoad
      BY <2>1, <2>3
    <3>2. proc[a].pc \in FreezingPCs \/ \A p \in Procs : proc[p].pc \notin SettlePCs
      BY <1>3 DEF RequestMove, Leads, AdminPCs
    <3> QED BY <2>2, <3>1, <3>2 DEF PublishedInv, NoneBehind, PastLoad
  <2>5. ArmingPublished'
    <3>1. proc'[a].pc \in ArmingPCs => repo'.state = "publish"
      BY <1>3, <2>2 DEF RequestMove, Leads, ArmingPCs, FieldsKept, Fields, PublishedInv, ArmingPublished,
                        ServedPublished
    <3> QED BY <2>1, <3>1 DEF ArmingPublished, ArmingPCs, AdminPCs
  <2>6. ArmedOnlyPublished'
    <3>1. proc[a].pc \in {"submit", "approve", "unpublish"} => ~repo.armed
      BY <2>2 DEF RequestsFreeze, AdminPCs
    <3>2. proc[a].pc = "arm_write" => repo.state = "publish"
      BY <2>2 DEF PublishedInv, ArmingPublished, ArmingPCs
    <3> QED BY <1>3, <3>1, <3>2
            DEF RequestMove, Leads, SigningPCs, FieldsKept, Fields, PublishedInv, ArmedOnlyPublished
  <2>7. ServedPublished'
    BY <1>3, <2>2 DEF RequestMove, FieldsKept, Fields, PublishedInv, ServedPublished, SigningUnserved
  <2>8. SigningUnserved'
    <3>1. proc'[a].pc \in SigningPCs => repo'.served = 0
      BY <1>3, <2>2 DEF RequestMove, Leads, SigningPCs, FieldsKept, Fields, PublishedInv, ServedPublished
    <3> QED BY <2>1, <3>1 DEF SigningUnserved, SigningPCs, AdminPCs
  <2> QED BY <2>4, <2>5, <2>6, <2>7, <2>8 DEF PublishedInv
<1>4. CASE FieldsKept /\ proc' = [p \in Procs |-> Idle]
  BY <1>4 DEF FieldsKept, Fields, PublishedInv, ArmedOnlyPublished, ServedPublished,
              ArmingPublished, SigningUnserved, NoneBehind, Idle, PastLoad, SettlePCs,
              AdminPCs, ArmingPCs, SigningPCs
<1> QED BY <1>1, <1>2, <1>3, <1>4 DEF GuardMove
-----------------------------------------------------------------------------
(* A settler on its way to drop a superseded graph: it flipped the         *)
(* repository to the graph it promoted, and until it is done nobody else   *)
(* flips it, for the drain is no longer armed and the lease was exclusive. *)
CollectsAlone ==
    \A p \in Procs : At(p, "gc") =>
        /\ ~repo.armed
        /\ proc[p].prev \notin {0, proc[p].graph}
        /\ repo.servedGraph \in {0, proc[p].graph}
        /\ \A q \in Procs : proc[q].pc \notin {"promote", "flip"}

LEMMA CollectsKept ==
    ASSUME ~LeaseExpires, TypeInvariant, RequestsFreeze, NoneBehind, LeaseHeld, CollectsAlone, GuardMove
    PROVE  CollectsAlone'
<1> USE DEF Others, At
<1> repo \in RepoType
  BY TypeParts
<1>1. CASE FieldsKept /\ UNCHANGED proc
  BY <1>1 DEF FieldsKept, Fields, CollectsAlone
<1>2. ASSUME NEW p \in Procs, Others(p), SettleMove(p) \/ Plain(p)
      PROVE  CollectsAlone'
  <2>1. CASE proc[p].pc = "flip"
    <3>1. \A q \in Procs \ {p} : proc[q].pc \notin {"gc", "promote", "flip"}
      BY <2>1 DEF CollectsAlone, LeaseHeld, Settling
    <3>2. CASE proc'[p].pc \in {"gc", "tally"}
      <4>1. /\ ~repo'.armed /\ repo'.servedGraph = proc[p].graph
            /\ proc'[p].graph = proc[p].graph /\ proc'[p].prev = proc[p].prev
            /\ proc'[p].pc = "gc" => proc[p].prev \notin {0, proc[p].graph}
        BY <1>2, <2>1, <3>2 DEF SettleMove, Plain, Leads, Fields, GraphsKept, Superseded, PastLoad, SettlePCs
      <4> QED BY <1>2, <3>1, <3>2, <4>1 DEF CollectsAlone
    <3>3. CASE proc'[p].pc \notin {"gc", "tally"}
      <4>1. FieldsKept /\ proc'[p].pc \notin {"gc", "promote", "flip"}
        BY <1>2, <2>1, <3>3 DEF SettleMove, Plain, Leads, PastLoad, SettlePCs
      <4> QED BY <1>2, <3>1, <4>1 DEF CollectsAlone
    <3> QED BY <3>2, <3>3
  <2>2. CASE proc[p].pc # "flip"
    <3>1. /\ repo'.armed = repo.armed /\ repo'.servedGraph = repo.servedGraph
          /\ proc'[p].pc \notin {"gc"}
          /\ proc'[p].pc \in {"promote", "flip"} => repo.armed \/ proc[p].pc = "promote"
      BY <1>2, <2>2 DEF SettleMove, Plain, Leads, FieldsKept, Fields, PastLoad, SettlePCs
    <3> QED BY <1>2, <3>1 DEF CollectsAlone
  <2> QED BY <2>1, <2>2
<1>3. ASSUME NEW a \in Admins, Others(a), RequestMove(a)
      PROVE  CollectsAlone'
  <2>1. a \in Procs /\ proc[a].pc # "gc" /\ proc'[a].pc \notin {"gc", "promote", "flip"}
    BY <1>3 DEF RequestMove, Leads, AdminPCs, SigningPCs, Procs
  <2>2. repo'.servedGraph \in {0, repo.servedGraph}
    BY <1>3 DEF RequestMove, FieldsKept, Fields
  <2>3. repo'.armed => repo.armed \/ proc[a].pc = "arm_write"
    BY <1>3 DEF RequestMove, FieldsKept, Fields
  <2>4. proc[a].pc = "arm_write" => \A q \in Procs : proc[q].pc # "gc"
    BY <2>1 DEF NoneBehind, FreezingPCs, AdminPCs, PastLoad, SettlePCs
  <2> QED BY <1>3, <2>1, <2>2, <2>3, <2>4 DEF CollectsAlone
<1>4. CASE proc' = [p \in Procs |-> Idle]
  BY <1>4 DEF CollectsAlone, Idle
<1> QED BY <1>1, <1>2, <1>3, <1>4 DEF GuardMove

-----------------------------------------------------------------------------
(***************************************************************************)
(* The theorems about the repository.                                      *)
(***************************************************************************)
GuardStart == Roles /\ RequestsFreeze /\ DrainingOnlyWhileArmed /\ PublishedInv /\ CollectsAlone

LEMMA InitGuards == Init => GuardStart
BY DEF GuardStart, Init, Idle, At, Roles, RequestsFreeze, DrainingOnlyWhileArmed, PublishedInv,
       ArmedOnlyPublished, ServedPublished, ArmingPublished, SigningUnserved, NoneBehind,
       CollectsAlone, FreezingPCs, ArmingPCs, SigningPCs, AdminPCs, PastLoad, SettlePCs

(* The progress record says draining only while the repository is armed,   *)
(* or while the settler that disarmed it has yet to write the final one,   *)
(* whichever requests arrive between the steps of a refresh, when they     *)
(* come one at a time and nothing crashes and no write fails.              *)
THEOREM Draining ==
    ASSUME OneAtATime, Allowance["crash"] = 0, Allowance["dberr"] = 0
    PROVE  Spec => []DrainingOnlyWhileArmed
<1> DEFINE I == /\ DrainInv /\ Roles /\ RequestsFreeze /\ DrainingOnlyWhileArmed
                /\ Spared({"crash", "dberr"})
<1>1. Init => I
  BY InitInv, InitGuards DEF GuardStart, Init, Spared
<1>2. I /\ [Next]_vars => I'
  <2> SUFFICES ASSUME I, [Next]_vars
               PROVE  I'
    OBVIOUS
  <2>1. GuardMove
    BY GuardMoves DEF DrainInv
  <2>2. Spared({"crash", "dberr"})'
    BY SparedStays DEF DrainInv, Events
  <2> QED BY <2>1, <2>2, NextInv, RolesKept, FreezeKept, DrainingKept DEF DrainInv
<1>3. I => DrainingOnlyWhileArmed
  OBVIOUS
<1> QED BY <1>1, <1>2, <1>3, PTL DEF Spec

(* A drain is armed only on a published repository, whatever crashes or    *)
(* fails and however often, when requests come one at a time and none      *)
(* arrives inside a refresh.                                               *)
THEOREM ArmedPublished ==
    ASSUME OneAtATime, ~Overlap
    PROVE  Spec => []ArmedOnlyPublished
<1> DEFINE I == DrainInv /\ Roles /\ RequestsFreeze /\ PublishedInv
<1>1. Init => I
  BY InitInv, InitGuards DEF GuardStart
<1>2. I /\ [Next]_vars => I'
  BY NextInv, GuardMoves, RolesKept, FreezeKept, PublishedKept DEF DrainInv
<1>3. I => ArmedOnlyPublished
  BY DEF PublishedInv
<1> QED BY <1>1, <1>2, <1>3, PTL DEF Spec

(* The graph a settler drops as superseded is not the one the repository   *)
(* serves, under the same conditions and while no settle outlasts          *)
(* OKF_SETTLE_LEASE_MS.                                                    *)
THEOREM ServedNotCollected ==
    ASSUME OneAtATime, ~Overlap, ~LeaseExpires
    PROVE  Spec => []ServedGraphNotCollected
<1> DEFINE I == DrainInv /\ Roles /\ RequestsFreeze /\ PublishedInv /\ CollectsAlone
<1>1. Init => I
  BY InitInv, InitGuards DEF GuardStart
<1>2. I /\ [Next]_vars => I'
  <2> SUFFICES ASSUME I, [Next]_vars
               PROVE  I'
    OBVIOUS
  <2>1. GuardMove
    BY GuardMoves DEF DrainInv
  <2>2. CollectsAlone'
    BY <2>1, CollectsKept DEF DrainInv, PublishedInv
  <2> QED BY <2>1, <2>2, NextInv, RolesKept, FreezeKept, PublishedKept DEF DrainInv
<1>3. I => ServedGraphNotCollected
  BY DEF CollectsAlone, ServedGraphNotCollected
<1> QED BY <1>1, <1>2, <1>3, PTL DEF Spec
-----------------------------------------------------------------------------
(***************************************************************************)
(* Claims.  A pending row with a claim has the cycle that stamped it: a    *)
(* step that leaves the job gives the claim back, or finds the row         *)
(* terminal, and a step that makes a row pending again clears its claim.   *)
(***************************************************************************)
HoldingPCs == CyclePCs \ {"stamp"}

Holds(p, c) == proc[p].c = c /\ proc[p].pc \in HoldingPCs

(* No row becomes pending with a claim, and no pending row changes hands.  *)
RowsCalm ==
    \A c \in Concepts :
        row'[c].status = "parsed" /\ row'[c].claim # None =>
            row[c].status = "parsed" /\ row'[c].claim = row[c].claim

(* Whoever claims a row holds it, and a holder lets go with the claim.     *)
HoldKept(p) ==
    \A c \in Concepts :
        row'[c].status = "parsed" /\ row'[c].claim # None =>
            \/ /\ row[c].status = "parsed" /\ row'[c].claim = row[c].claim
               /\ Holds(p, c) /\ row[c].claim = p => Holds(p, c)'
            \/ p \in Cycles /\ row'[c].claim = p /\ Holds(p, c)'

LEMMA GhostKept ==
    ASSUME NoGhostClaim, NEW p \in Procs, Others(p), HoldKept(p)
    PROVE  NoGhostClaim'
<1> SUFFICES ASSUME NEW c \in Concepts, row'[c].status = "parsed", row'[c].claim # None
             PROVE  \E k \in Cycles : row'[c].claim = k /\ Holds(k, c)'
  BY DEF NoGhostClaim, HolderAt, Holds, HoldingPCs
<1>1. CASE row[c].status = "parsed" /\ row'[c].claim = row[c].claim
           /\ (Holds(p, c) /\ row[c].claim = p => Holds(p, c)')
  <2>1. PICK k \in Cycles : row[c].claim = k /\ Holds(k, c)
    BY <1>1 DEF NoGhostClaim, HolderAt, Holds, HoldingPCs
  <2>2. k = p \/ proc'[k] = proc[k]
    BY DEF Others, Procs
  <2> QED BY <1>1, <2>1, <2>2 DEF Holds
<1>2. CASE p \in Cycles /\ row'[c].claim = p /\ Holds(p, c)'
  BY <1>2
<1> QED BY <1>1, <1>2 DEF HoldKept

(* What the verdict and the other patches leave of a pending claim.        *)
LEMMA CalmPatch ==
    ASSUME RowOK, NEW c \in Concepts, NEW r, PatchRow(c, r),
           r.status = "parsed" /\ r.claim # None => row[c].status = "parsed" /\ r.claim = row[c].claim
    PROVE  RowsCalm
BY DEF RowOK, PatchRow, RowsCalm

LEMMA CalmKeeps ==
    ASSUME NEW p \in Procs, RowsCalm,
           proc[p].pc \in HoldingPCs => proc'[p].pc \in HoldingPCs /\ proc'[p].c = proc[p].c
    PROVE  HoldKept(p)
BY DEF RowsCalm, HoldKept, Holds

(* A cycle ends its job with a patch that clears the claim, ...            *)
LEMMA GivesBack ==
    ASSUME RowOK, NEW k \in Procs, proc[k].c \in Concepts, NEW r, PatchRow(proc[k].c, r), r.claim = None
    PROVE  HoldKept(k)
BY DEF RowOK, PatchRow, HoldKept, Holds

(* ... or when it sees the row terminal.                                   *)
LEMMA SeesVerdict ==
    ASSUME NEW k \in Procs, UNCHANGED row, row[proc[k].c].status # "parsed"
    PROVE  HoldKept(k)
BY DEF HoldKept, Holds

LEMMA Stays ==
    ASSUME ProcOK, NEW k \in Procs, NEW pc \in HoldingPCs, NEW f, UNCHANGED row,
           Goto(k, pc) \/ proc' = [proc EXCEPT ![k].pc = pc, ![k].flag = f]
    PROVE  HoldKept(k)
<1>1. proc'[k].pc = pc /\ proc'[k].c = proc[k].c
  BY DEF ProcOK, ProcType, Goto
<1> QED BY <1>1 DEF HoldKept, Holds

LEMMA CycleHolds ==
    ASSUME TypeInvariant, NEW k \in Cycles, CycleStep(k) \/ HttpFails(k)
    PROVE  HoldKept(k)
<1> USE DEF At
<1> k \in Procs /\ ProcOK /\ RowOK
  BY TypeParts DEF Procs
<1>1. CASE Stamp(k)
  <2>1. CASE StampMatches(k) /\ PatchRow(proc[k].c, Stamped(row[proc[k].c], k)) /\ Goto(k, "pre_progress")
    <3>1. proc[k].c \in Concepts /\ row[proc[k].c] \in RowType
      BY <1>1, Holding DEF Stamp, CyclePCs
    <3>2. row'[proc[k].c].claim = k /\ \A c \in Concepts \ {proc[k].c} : row'[c] = row[c]
      BY <2>1, <3>1 DEF PatchRow, RowOK, Stamped, RowType
    <3>3. proc'[k].c = proc[k].c /\ proc'[k].pc = "pre_progress"
      BY <2>1 DEF Goto, ProcOK, ProcType
    <3>4. \A c : c = proc[k].c => Holds(k, c)'
      BY <3>3 DEF Holds, HoldingPCs, CyclePCs
    <3>5. \A c \in Concepts \ {proc[k].c} : row'[c] = row[c] /\ ~Holds(k, c)
      BY <3>2 DEF Holds
    <3>6. \A c \in Concepts : c = proc[k].c => row'[c].claim = k /\ Holds(k, c)'
      BY <3>2, <3>4
    <3> QED BY <3>5, <3>6 DEF HoldKept
  <2>2. CASE UNCHANGED row
    BY <1>1, <2>2, CalmKeeps DEF Stamp, RowsCalm, HoldingPCs
  <2> QED BY <1>1, <2>1, <2>2 DEF Stamp
<1>2. CASE ReadProgress(k)
  <2>1. proc' = [proc EXCEPT ![k].pc = "pre_graph", ![k].flag = repo.progress] /\ UNCHANGED row
    BY <1>2 DEF ReadProgress
  <2> QED BY <2>1, Stays DEF HoldingPCs, CyclePCs
<1>3. CASE CheckGraph(k)
  <2> DEFINE job == [proc[k] EXCEPT !.flag = proc[k].graph \notin exists]
             pc == IF job.flag /\ proc[k].flag THEN "reset_record" ELSE AfterPreflight(job)
             j == [job EXCEPT !.pc = pc]
  <2>1. pc \in HoldingPCs
    BY DEF AfterPreflight, HoldingPCs, CyclePCs
  <2>2. proc' = [proc EXCEPT ![k] = j] /\ UNCHANGED row
    BY <1>3 DEF CheckGraph
  <2> HIDE DEF pc
  <2>3. j.pc = pc /\ j.c = proc[k].c
    BY DEF ProcOK, ProcType
  <2>4. proc'[k].pc \in HoldingPCs /\ proc'[k].c = proc[k].c
    BY <2>1, <2>2, <2>3, Takes
  <2> QED BY <2>2, <2>4 DEF HoldKept, Holds
<1>4. CASE ResetRows(k)
  <2>1. \A c \in Concepts : row'[c] = row[c] \/ row'[c].claim = None
    BY <1>4, PatchClaims DEF ResetRows, RowOK
  <2>2. proc'[k].pc \in HoldingPCs /\ proc'[k].c = proc[k].c
    BY <1>4 DEF ResetRows, AfterPreflight, Goto, HoldingPCs, CyclePCs, ProcOK, ProcType
  <2> QED BY <2>1, <2>2, CalmKeeps DEF RowsCalm
<1>5. ASSUME UNCHANGED row, NEW pc \in HoldingPCs, Goto(k, pc)
      PROVE  HoldKept(k)
  BY <1>5, Stays
<1>6. CASE ResetRecord(k) \/ ProbePark(k) \/ ProbeStale(k) \/ ProbeTimeout(k) \/ Timeout(k) \/ RetractFile(k)
  BY <1>5, <1>6
     DEF ResetRecord, ProbePark, AfterParkProbe, ProbeStale, StaleVerdict, ProbeTimeout, Timeout,
         RetractFile, HoldingPCs, CyclePCs
<1>7. CASE Post(k) \/ HttpFails(k)
  <2>1. CASE GoRelease(k, FALSE) \/ GoRelease(k, Backoff)
    BY <1>7, <2>1, Stays DEF Post, HttpFails, GoRelease, HoldingPCs, CyclePCs
  <2>2. CASE \E pc \in HoldingPCs : Goto(k, pc)
    BY <1>5, <1>7, <2>2 DEF Post, HttpFails
  <2> QED BY <1>7, <2>1, <2>2 DEF Post, HttpFails, AfterParkProbe, HoldingPCs, CyclePCs
<1>8. ASSUME proc[k].pc \in CyclePCs, NEW r, PatchRow(proc[k].c, r), r.claim = None
      PROVE  HoldKept(k)
  BY <1>8, Holding, GivesBack
<1>9. CASE Defer(k) \/ Release(k) \/ TimeoutRelease(k) \/ Heal(k) \/ Abort(k)
  <2>1. proc[k].pc \in CyclePCs
    BY <1>9 DEF Defer, Release, TimeoutRelease, Heal, Abort, CyclePCs
  <2>2. row[proc[k].c] \in RowType
    BY <2>1, Holding
  <2>3. CASE Defer(k) \/ Release(k)
    BY <1>8, <2>1, <2>2, <2>3, PatchClaims DEF Defer, Release
  <2>4. CASE TimeoutRelease(k) \/ Heal(k)
    <3> DEFINE r == Released(row[proc[k].c])
               h == [r EXCEPT !.status = "parsed", !.retry = TRUE]
    <3>1. r.claim = None /\ h.claim = None
      BY <2>2, PatchClaims DEF Released, RowType
    <3>2. PatchRow(proc[k].c, r) \/ PatchRow(proc[k].c, h)
      BY <2>4 DEF TimeoutRelease, Heal
    <3> HIDE DEF r, h
    <3> QED BY <1>8, <2>1, <3>1, <3>2
  <2>5. CASE Abort(k)
    <3> DEFINE r == [Released(row[proc[k].c]) EXCEPT !.park = IF Backoff THEN "held" ELSE "none"]
    <3>1. r.claim = None
      BY <2>2, PatchClaims
    <3>2. PatchRow(proc[k].c, r)
      BY <2>5 DEF Abort
    <3> HIDE DEF r
    <3> QED BY <1>8, <2>1, <3>1, <3>2
  <2> QED BY <1>9, <2>3, <2>4, <2>5
<1>10. CASE Unclaim(k)
  <2>1. proc[k].c \in Concepts /\ row[proc[k].c] \in RowType
    BY <1>10, Holding DEF Unclaim, CyclePCs
  <2>2. CASE row[proc[k].c].claim = k
    BY <1>10, <2>1, <2>2, PatchClaims, GivesBack DEF Unclaim, PatchRow
  <2>3. CASE row[proc[k].c].claim # k
    BY <1>10, <2>3 DEF Unclaim, HoldKept, Holds
  <2> QED BY <2>2, <2>3
<1>11. CASE SeeVerdict(k) \/ Recheck(k)
  <2>1. UNCHANGED row /\ (row[proc[k].c].status # "parsed" \/ \E pc \in HoldingPCs : Goto(k, pc))
    BY <1>11 DEF SeeVerdict, Recheck, HoldingPCs, CyclePCs
  <2> QED BY <1>5, <2>1, SeesVerdict
<1> QED BY <1>1, <1>2, <1>3, <1>4, <1>6, <1>7, <1>9, <1>10, <1>11 DEF CycleStep

LEMMA ClaimHolds ==
    ASSUME TypeInvariant, NEW k \in Cycles, Claim(k)
    PROVE  HoldKept(k)
<1> USE DEF At
<1> k \in Procs /\ ProcOK /\ RowOK
  BY TypeParts DEF Procs
<1>1. PICK c \in Concepts : ClaimRead(k, c) \/ ClaimFair(k, c)
  BY DEF Claim
<1>2. CASE ClaimRead(k, c)
  BY <1>2 DEF ClaimRead, HoldKept, Holds, HoldingPCs, CyclePCs
<1>3. CASE ClaimFair(k, c)
  <2> DEFINE j == [Job(c) EXCEPT !.pc = "pre_progress"]
  <2>1. proc'[k] = j
    BY <1>3, Takes DEF ClaimFair
  <2>2. j.pc = "pre_progress" /\ j.c = c
    BY DEF Job, Idle
  <2> HIDE DEF j
  <2>3. Holds(k, c)'
    BY <2>1, <2>2 DEF Holds, HoldingPCs, CyclePCs
  <2>4. row'[c].claim = k /\ \A d \in Concepts \ {c} : row'[d] = row[d]
    BY <1>3 DEF ClaimFair, PatchRow, Stamped, RowOK, RowType
  <2>5. proc[k].pc \notin HoldingPCs
    BY <1>3 DEF ClaimFair, HoldingPCs, CyclePCs
  <2> QED BY <2>3, <2>4, <2>5 DEF HoldKept, Holds
<1> QED BY <1>1, <1>2, <1>3

(* A verdict leaves the row terminal, and the clock changes no claim.      *)
LEMMA QuietRows ==
    ASSUME TypeInvariant, DataprepNext \/ TimeNext
    PROVE  RowsCalm
<1> USE DEF RowsCalm
<1> RowOK
  BY TypeParts
<1>1. UNCHANGED row \/ (\E c \in Concepts : Callback(c)) \/ (\E cb \in late : DeliverLate(cb)) \/ TimeNext
  BY DEF DataprepNext, TaskStep, EnsureGraph, StoreChunks, Rollback, TaskEnds, TaskFails,
         Kill, CallbackLost, CallbackLate, DataprepCrash
<1>2. ASSUME NEW c \in Concepts, NEW s, PatchRow(c, Verdict(row[c], s))
      PROVE  RowsCalm
  <2>1. Verdict(row[c], s).status # "parsed"
    BY DEF RowOK, RowType, Verdict
  <2> QED BY <1>2, <2>1, CalmPatch
<1>3. ASSUME NEW c \in Concepts, Callback(c)
      PROVE  RowsCalm
  BY <1>2, <1>3 DEF Callback
<1>4. ASSUME NEW cb \in late, DeliverLate(cb)
      PROVE  RowsCalm
  BY <1>2, <1>4, TypeParts DEF DeliverLate, RestOK
<1>5. ASSUME NEW c \in Concepts, NEW a, NEW b,
             \/ PatchRow(c, [row[c] EXCEPT !.age = a])
             \/ PatchRow(c, [row[c] EXCEPT !.park = b])
      PROVE  RowsCalm
  BY <1>5, CalmPatch DEF RowOK, RowType
<1>6. CASE TimeNext
  BY <1>5, <1>6 DEF TimeNext, ClaimStales, ClaimExpires, Age, ParkEnds
<1> QED BY <1>1, <1>3, <1>4, <1>6

(* Requests and settlers rewrite rows whole, or their graph names only.    *)
LEMMA OthersCalm ==
    ASSUME TypeInvariant
    PROVE  /\ SweepNext => RowsCalm
           /\ \A p \in Procs : SettleStep(p) \/ SettleWriteFails(p) => RowsCalm
           /\ \A a \in Admins : Request(a) \/ RequestStep(a) \/ RequestFails(a) => RowsCalm
<1> USE DEF RowsCalm
<1> RowOK
  BY TypeParts
<1>1. ASSUME NEW g, RefreshMetaGraphNames(g)
      PROVE  RowsCalm
  BY <1>1 DEF RefreshMetaGraphNames, RowOK, RowType
<1>2. ASSUME NEW g, RequeueAll(g)
      PROVE  RowsCalm
  BY <1>2 DEF RequeueAll, Requeued
<1>3. SweepNext => RowsCalm
  <2>1. ASSUME NEW c \in Concepts, Reap(c)
        PROVE  RowsCalm
    BY <2>1, CalmPatch DEF Reap, RowOK, RowType
  <2> QED BY <2>1 DEF SweepNext, SweepStep, Reconcile, ReapRead, ReapFails
<1>4. ASSUME NEW p \in Procs, SettleStep(p) \/ SettleWriteFails(p)
      PROVE  RowsCalm
  BY <1>1, <1>4
     DEF SettleStep, Counts, Mark, Load, TakeLease, Promote, Flip, Unlease, CollectGraph, Tally,
         WriteRecord, SettleWriteFails
<1>5. ASSUME NEW a \in Admins, Request(a) \/ RequestStep(a) \/ RequestFails(a)
      PROVE  RowsCalm
  <2>1. CASE RequeueFailed(a)
    BY <2>1 DEF RequeueFailed, Requeued
  <2> QED BY <1>1, <1>2, <1>5, <2>1
          DEF Request, Ingest, Reingest, Retract, Unpublish, Publish, SignOff, Enter, RequestStep,
              ArmCount, ArmStamp, ArmWrite, Drop, Requeue, Disarm, UnpublishWrite, SignOffWrite,
              Mint, PublishWrite, PublishRequeue, RequestFails
<1> QED BY <1>3, <1>4, <1>5

(* While nothing crashes, no write fails and no acknowledgement is lost, a *)
(* pending row's claim belongs to a cycle at work on that row: no order of *)
(* resets, requeues, verdicts and reaps leaves a claim nobody will give    *)
(* back, with any number of cycles and requests.                           *)
THEOREM NoGhosts ==
    ASSUME Allowance["crash"] = 0, Allowance["dberr"] = 0, Allowance["lostack"] = 0
    PROVE  Spec => []NoGhostClaim
<1> DEFINE E == {"crash", "dberr", "lostack"}
           I == TypeInvariant /\ Spared(E) /\ NoGhostClaim
<1>1. Init => I
  BY InitTypes DEF Init, Spared, NoGhostClaim, FreshRow
<1>2. I /\ [Next]_vars => I'
  <2> SUFFICES ASSUME I, [Next]_vars
               PROVE  NoGhostClaim'
    BY NextTypes, SparedStays DEF Events
  <2>1. left["crash"] = 0 /\ left["dberr"] = 0 /\ left["lostack"] = 0
    BY DEF Spared
  <2>2. ASSUME RowsCalm, UNCHANGED proc
        PROVE  NoGhostClaim'
    BY <2>2 DEF RowsCalm, NoGhostClaim, HolderAt
  <2>3. ASSUME NEW p \in Procs, Others(p), RowsCalm, proc[p].pc \notin CyclePCs
        PROVE  NoGhostClaim'
    BY <2>3, CalmKeeps, GhostKept DEF HoldingPCs
  <2>4. CASE WorkerNext
    <3>1. PICK k \in Cycles : Claim(k) \/ CycleStep(k) \/ HttpFails(k)
      BY <2>1, <2>4 DEF WorkerNext, StampAckLost, CycleStoreFails, Spend
    <3> QED BY <3>1, CycleHolds, ClaimHolds, CyclesPlain, GhostKept DEF Procs
  <2>5. CASE DataprepNext \/ TimeNext
    BY <2>2, <2>5, QuietRows, DataprepEvolves, TimeEvolves
  <2>6. CASE SettlementNext
    <3>1. CASE LeaseAges
      BY <2>2, <3>1 DEF LeaseAges, RowsCalm
    <3>2. ASSUME NEW p \in Procs, SettleStep(p) \/ SettleWriteFails(p)
          PROVE  NoGhostClaim'
      <4>1. proc[p].pc \notin CyclePCs
        BY <3>2 DEF SettleStep, Counts, Mark, Load, TakeLease, Promote, Flip, Unlease, CollectGraph, Tally,
                    WriteRecord, SettleWriteFails, At, CyclePCs
      <4> QED BY <2>3, <3>2, <4>1, OthersCalm, SettleMoves
    <3> QED BY <2>6, <3>1, <3>2 DEF SettlementNext
  <2>7. CASE SweepNext
    <3>1. proc[Sweeper].pc \notin CyclePCs
      BY <2>7 DEF SweepNext, SweepStep, Reconcile, ReapRead, Reap, ReapFails, At, CyclePCs
    <3> QED BY <2>3, <2>7, <3>1, OthersCalm, SweepPlain DEF Procs
  <2>8. CASE LifecycleNext
    <3>1. PICK a \in Admins : Request(a) \/ RequestStep(a) \/ RequestFails(a)
      BY <2>8 DEF LifecycleNext
    <3>2. Others(a) /\ RequestMove(a)
      BY <3>1, RequestMoves
    <3>3. proc[a].pc \notin CyclePCs
      BY <3>2 DEF RequestMove, Leads, At, AdminPCs, SigningPCs, CyclePCs
    <3> QED BY <2>3, <3>1, <3>2, <3>3, OthersCalm DEF Procs
  <2>9. CASE ServerCrash
    BY <2>1, <2>9 DEF ServerCrash, Spend
  <2>10. CASE UNCHANGED vars
    BY <2>2, <2>10 DEF vars, RowsCalm
  <2> QED BY <2>4, <2>5, <2>6, <2>7, <2>8, <2>9, <2>10 DEF Next
<1>3. I => NoGhostClaim
  OBVIOUS
<1> QED BY <1>1, <1>2, <1>3, PTL DEF Spec
=============================================================================
