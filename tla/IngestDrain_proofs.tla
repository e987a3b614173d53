------------------------- MODULE IngestDrain_proofs -------------------------
(***************************************************************************)
(* Claims and leases of the ingest drain, for any number of concepts,      *)
(* cycles, requests and versions and any budget of faults: every claim was *)
(* counted, a fresh claim is never taken over, and two settlers are never  *)
(* in the promotion at once while no settle outlasts its lease.            *)
(*                                                                         *)
(* The argument is in two parts.  The first says what a step of the drain  *)
(* may do to a row, to the processes and to the lease, action by action;   *)
(* the second shows from those summaries alone that DrainInv is inductive. *)
(***************************************************************************)
EXTENDS DrainTypes_proofs

(* What a step may do to a row: leave its claim, give the claim back, or   *)
(* stamp a new one over a claim that was open.                             *)
ClaimKept(c) ==
    /\ row'[c].claim = row[c].claim /\ row'[c].attempts = row[c].attempts
    /\ row'[c].age = row[c].age \/ row'[c].age # "fresh"

StampedBy(k, c) ==
    /\ row'[c] = Stamped(row[c], k)
    /\ \/ Fair /\ Claimable(c)
       \/ /\ At(k, "stamp") /\ proc[k].c = c /\ StampMatches(k)
          /\ proc'[k].pc # "stamp"

RowEvolves(c) == ClaimKept(c) \/ row'[c].claim = None \/ \E k \in Cycles : StampedBy(k, c)

RowsEvolve == \A c \in Concepts : RowEvolves(c)

(* A step of p that neither starts a stamp nor touches the lease.          *)
SettlingPCs == {"promote", "flip", "unlease"}

LeaseKept == repo'.lease = repo.lease /\ repo'.leaseOld = repo.leaseOld

Quiet(p) ==
    /\ proc'[p].pc # "stamp"
    /\ proc'[p].pc \in SettlingPCs => proc[p].pc \in SettlingPCs
    /\ \A q \in Procs \ {p} : proc'[q] = proc[q]
    /\ LeaseKept

-----------------------------------------------------------------------------
(* A row that is left alone, or patched without a stamp, evolves.          *)
LEMMA RowsKept == UNCHANGED row => RowsEvolve
BY DEF RowsEvolve, RowEvolves, ClaimKept

LEMMA RowPatched ==
    ASSUME RowOK, NEW c \in Concepts, NEW r, PatchRow(c, r),
           \/ r.claim = None
           \/ r.claim = row[c].claim /\ r.attempts = row[c].attempts /\ r.age \in {row[c].age, "stale", "expired"}
    PROVE  RowsEvolve
<1>1. row'[c] = r /\ \A d \in Concepts \ {c} : row'[d] = row[d]
  BY DEF RowOK, PatchRow
<1> QED BY <1>1 DEF RowsEvolve, RowEvolves, ClaimKept

(* What the patches do to the claim.                                       *)
LEMMA PatchClaims ==
    ASSUME NEW r \in RowType
    PROVE  /\ Released(r).claim = None
           /\ Deferred(r).claim = None
           /\ Unclaimed(r).claim = None
           /\ Reset(r).claim = None
           /\ \A b : ReleasePatch(r, b).claim = None
           /\ \A g : Requeued(r, g).claim = None
           /\ \A b : [Released(r) EXCEPT !.park = b].claim = None
           /\ [Released(r) EXCEPT !.park = IF Backoff THEN "held" ELSE "none"].claim = None
           /\ [Released(r) EXCEPT !.status = "parsed", !.retry = TRUE].claim = None
           /\ \A s : /\ Verdict(r, s).claim = r.claim
                     /\ Verdict(r, s).attempts = r.attempts
                     /\ Verdict(r, s).age = r.age
BY DEF RowType, Released, Deferred, Unclaimed, Reset, ReleasePatch, Requeued, Verdict

(* A process that goes somewhere else, or ends, only changes itself.       *)
LEMMA GotoQuiet ==
    ASSUME ProcOK, NEW p \in Procs, NEW pc, Goto(p, pc), pc # "stamp",
           pc \in SettlingPCs => proc[p].pc \in SettlingPCs, LeaseKept
    PROVE  Quiet(p)
BY DEF ProcOK, ProcType, Goto, Quiet

LEMMA FinishQuiet ==
    ASSUME ProcOK, NEW p \in Procs, Finish(p) \/ GoRefresh(p), LeaseKept
    PROVE  Quiet(p)
BY DEF ProcOK, Finish, GoRefresh, Idle, Quiet, SettlingPCs

LEMMA SetQuiet ==
    ASSUME ProcOK, NEW p \in Procs, NEW j, proc' = [proc EXCEPT ![p] = j], LeaseKept,
           j.pc # "stamp", j.pc \notin SettlingPCs
    PROVE  Quiet(p)
BY DEF ProcOK, Quiet

LEMMA FlagQuiet ==
    ASSUME ProcOK, NEW p \in Procs, NEW pc, NEW f, LeaseKept,
           proc' = [proc EXCEPT ![p].pc = pc, ![p].flag = f],
           pc # "stamp", pc \notin SettlingPCs
    PROVE  Quiet(p)
BY DEF ProcOK, ProcType, Quiet

-----------------------------------------------------------------------------
(***************************************************************************)
(* Actions: the rows evolve, and the process that acts is quiet.           *)
(***************************************************************************)

(* The steps of a cycle, and the failures it meets.                        *)
LEMMA CycleEvolves ==
    ASSUME TypeInvariant, NEW k \in Cycles, CycleStep(k) \/ HttpFails(k) \/ CycleStoreFails(k)
    PROVE  RowsEvolve /\ Quiet(k)
<1> USE DEF At
<1> k \in Procs /\ ProcOK /\ RowOK
  BY TypeParts DEF Procs
<1>1. CASE Stamp(k)
  <2>1. Quiet(k)
    BY <1>1, GotoQuiet, FinishQuiet DEF Stamp, LeaseKept, SettlingPCs
  <2>2. CASE StampMatches(k) /\ PatchRow(proc[k].c, Stamped(row[proc[k].c], k))
    <3>1. \A c \in Concepts : c = proc[k].c => row'[c] = Stamped(row[c], k)
      BY <2>2 DEF PatchRow, RowOK
    <3>2. \A c \in Concepts : c # proc[k].c => row'[c] = row[c]
      BY <2>2 DEF PatchRow, RowOK
    <3>3. \A c \in Concepts : c = proc[k].c => StampedBy(k, c)
      BY <1>1, <2>1, <2>2, <3>1 DEF StampedBy, Quiet, Stamp
    <3>4. \A c \in Concepts : c # proc[k].c => ClaimKept(c)
      BY <3>2 DEF ClaimKept
    <3>5. RowsEvolve
      BY <3>3, <3>4 DEF RowsEvolve, RowEvolves
    <3> QED BY <2>1, <3>5
  <2>3. CASE UNCHANGED row
    BY <2>1, <2>3, RowsKept
  <2> QED BY <1>1, <2>2, <2>3 DEF Stamp
<1>2. CASE ReadProgress(k)
  <2>1. RowsEvolve
    BY <1>2, RowsKept DEF ReadProgress
  <2>2. LeaseKept /\ proc' = [proc EXCEPT ![k].pc = "pre_graph", ![k].flag = repo.progress]
    BY <1>2 DEF ReadProgress, LeaseKept
  <2>3. Quiet(k)
    BY <2>2 DEF Quiet, SettlingPCs, ProcOK, ProcType
  <2> QED BY <2>1, <2>3
<1>3. CASE CheckGraph(k)
  <2>1. RowsEvolve
    BY <1>3, RowsKept DEF CheckGraph
  <2> DEFINE job == [proc[k] EXCEPT !.flag = proc[k].graph \notin exists]
             pc == IF job.flag /\ proc[k].flag THEN "reset_record" ELSE AfterPreflight(job)
             j == [job EXCEPT !.pc = pc]
  <2>2. pc # "stamp" /\ pc \notin SettlingPCs
    BY DEF AfterPreflight, SettlingPCs
  <2>3. proc' = [proc EXCEPT ![k] = j] /\ LeaseKept
    BY <1>3 DEF CheckGraph, LeaseKept
  <2>4. proc[k] \in ProcType
    BY DEF ProcOK
  <2> HIDE DEF pc
  <2>5. j.pc = pc
    BY <2>4 DEF ProcType
  <2>6. Quiet(k)
    BY <2>2, <2>3, <2>5, SetQuiet
  <2> QED BY <2>1, <2>6
<1>4. CASE ResetRecord(k)
  <2>1. RowsEvolve
    BY <1>4, RowsKept DEF ResetRecord
  <2>2. Quiet(k)
    BY <1>4, GotoQuiet DEF ResetRecord, LeaseKept, SettlingPCs
  <2> QED BY <2>1, <2>2
<1>5. CASE ResetRows(k)
  <2>1. RowsEvolve
    BY <1>5, PatchClaims DEF ResetRows, RowsEvolve, RowEvolves, ClaimKept, RowOK
  <2>2. Quiet(k)
    BY <1>5, GotoQuiet DEF ResetRows, LeaseKept, SettlingPCs, AfterPreflight
  <2> QED BY <2>1, <2>2
<1>6. CASE ProbePark(k)
  <2>1. RowsEvolve
    BY <1>6, RowsKept DEF ProbePark
  <2>2. Quiet(k)
    BY <1>6, GotoQuiet DEF ProbePark, LeaseKept, SettlingPCs, AfterParkProbe
  <2> QED BY <2>1, <2>2
<1>7. CASE ProbeStale(k)
  <2>1. RowsEvolve
    BY <1>7, RowsKept DEF ProbeStale
  <2>2. Quiet(k)
    BY <1>7, GotoQuiet DEF ProbeStale, LeaseKept, SettlingPCs, StaleVerdict
  <2> QED BY <2>1, <2>2
<1>8. CASE Defer(k)
  <2>1. RowsEvolve
    BY <1>8, Holding, PatchClaims, RowPatched DEF Defer, CyclePCs
  <2>2. Quiet(k)
    BY <1>8, FinishQuiet DEF Defer, LeaseKept
  <2> QED BY <2>1, <2>2
<1>9. CASE RetractFile(k)
  <2>1. RowsEvolve
    BY <1>9, RowsKept DEF RetractFile
  <2>2. Quiet(k)
    BY <1>9, GotoQuiet DEF RetractFile, LeaseKept, SettlingPCs
  <2> QED BY <2>1, <2>2
<1>10. CASE Post(k)
  <2>1. RowsEvolve
    BY <1>10, RowsKept DEF Post
  <2>2. Quiet(k)
    BY <1>10, FlagQuiet, GotoQuiet DEF Post, GoRelease, LeaseKept, SettlingPCs
  <2> QED BY <2>1, <2>2
<1>11. CASE Unclaim(k)
  <2>1. RowsEvolve
    BY <1>11, Holding, PatchClaims, RowPatched, RowsKept DEF Unclaim, CyclePCs, PatchRow
  <2>2. Quiet(k)
    BY <1>11, FinishQuiet DEF Unclaim, LeaseKept
  <2> QED BY <2>1, <2>2
<1>12. CASE Release(k)
  <2>1. RowsEvolve
    BY <1>12, Holding, PatchClaims, RowPatched DEF Release, CyclePCs
  <2>2. Quiet(k)
    BY <1>12, FinishQuiet DEF Release, LeaseKept
  <2> QED BY <2>1, <2>2
<1>13. CASE Abort(k)
  <2> DEFINE r == [Released(row[proc[k].c]) EXCEPT !.park = IF Backoff THEN "held" ELSE "none"]
  <2>1. PatchRow(proc[k].c, r) /\ proc[k].pc \in CyclePCs /\ Finish(k) /\ LeaseKept
    BY <1>13 DEF Abort, CyclePCs, LeaseKept
  <2>2. r.claim = None
    BY <2>1, Holding, PatchClaims
  <2> HIDE DEF r
  <2>3. RowsEvolve
    BY <2>1, <2>2, Holding, RowPatched
  <2>4. Quiet(k)
    BY <2>1, FinishQuiet
  <2> QED BY <2>3, <2>4
<1>14. CASE SeeVerdict(k)
  <2>1. RowsEvolve
    BY <1>14, RowsKept DEF SeeVerdict
  <2>2. Quiet(k)
    BY <1>14, GotoQuiet, FinishQuiet DEF SeeVerdict, LeaseKept, SettlingPCs
  <2> QED BY <2>1, <2>2
<1>15. CASE Timeout(k)
  <2>1. RowsEvolve
    BY <1>15, RowsKept DEF Timeout
  <2>2. Quiet(k)
    BY <1>15, GotoQuiet DEF Timeout, LeaseKept, SettlingPCs
  <2> QED BY <2>1, <2>2
<1>16. CASE Recheck(k)
  <2>1. RowsEvolve
    BY <1>16, RowsKept DEF Recheck
  <2>2. Quiet(k)
    BY <1>16, GotoQuiet, FinishQuiet DEF Recheck, LeaseKept, SettlingPCs
  <2> QED BY <2>1, <2>2
<1>17. CASE ProbeTimeout(k)
  <2>1. RowsEvolve
    BY <1>17, RowsKept DEF ProbeTimeout
  <2>2. Quiet(k)
    BY <1>17, GotoQuiet DEF ProbeTimeout, LeaseKept, SettlingPCs
  <2> QED BY <2>1, <2>2
<1>18. CASE TimeoutRelease(k)
  <2>1. RowsEvolve
    BY <1>18, Holding, PatchClaims, RowPatched DEF TimeoutRelease, CyclePCs
  <2>2. Quiet(k)
    BY <1>18, FinishQuiet DEF TimeoutRelease, LeaseKept
  <2> QED BY <2>1, <2>2
<1>19. CASE Heal(k)
  <2>1. RowsEvolve
    BY <1>19, Holding, PatchClaims, RowPatched DEF Heal, CyclePCs
  <2>2. Quiet(k)
    BY <1>19, FinishQuiet DEF Heal, LeaseKept
  <2> QED BY <2>1, <2>2
<1>20. CASE HttpFails(k)
  <2>1. RowsEvolve
    BY <1>20, RowsKept DEF HttpFails
  <2>2. Quiet(k)
    BY <1>20, FlagQuiet, GotoQuiet DEF HttpFails, GoRelease, AfterParkProbe, LeaseKept, SettlingPCs
  <2> QED BY <2>1, <2>2
<1>21. CASE CycleStoreFails(k)
  <2>1. RowsEvolve
    BY <1>21, RowsKept DEF CycleStoreFails
  <2>2. Quiet(k)
    BY <1>21, GotoQuiet, FlagQuiet, FinishQuiet DEF CycleStoreFails, LeaseKept, SettlingPCs, AfterPreflight
  <2> QED BY <2>1, <2>2
<1> QED BY <1>1, <1>2, <1>3, <1>4, <1>5, <1>6, <1>7, <1>8, <1>9, <1>10, <1>11, <1>12, <1>13, <1>14, <1>15, <1>16, <1>17, <1>18, <1>19, <1>20, <1>21 DEF CycleStep

(* Taking a job: the fair claim is a stamp, the other one only a read.     *)
LEMMA ClaimEvolves ==
    ASSUME TypeInvariant, NEW k \in Cycles, NEW c \in Concepts, ClaimFair(k, c)
    PROVE  RowsEvolve /\ Quiet(k)
<1>1. ProcOK /\ RowOK /\ k \in Procs
  BY TypeParts DEF Procs
<1>2. row'[c] = Stamped(row[c], k) /\ \A d \in Concepts \ {c} : row'[d] = row[d]
  BY <1>1 DEF ClaimFair, PatchRow, RowOK
<1>3. StampedBy(k, c)
  BY <1>2 DEF ClaimFair, StampedBy
<1>4. RowsEvolve
  BY <1>2, <1>3 DEF RowsEvolve, RowEvolves, ClaimKept
<1> DEFINE j == [Job(c) EXCEPT !.pc = "pre_progress"]
<1>5. j.pc = "pre_progress" /\ proc' = [proc EXCEPT ![k] = j] /\ LeaseKept
  BY DEF ClaimFair, Job, Idle, LeaseKept
<1>6. Quiet(k)
  BY <1>1, <1>5, SetQuiet DEF SettlingPCs
<1> QED BY <1>4, <1>6

(* A stamp whose acknowledgement is lost.                                  *)
LEMMA LostAckEvolves ==
    ASSUME TypeInvariant, NEW k \in Cycles, StampAckLost(k)
    PROVE  RowsEvolve /\ Quiet(k)
<1>1. ProcOK /\ RowOK /\ k \in Procs
  BY TypeParts DEF Procs
<1>2. Quiet(k)
  BY <1>1, FinishQuiet DEF StampAckLost, LeaseKept
<1>3. \A c \in Concepts : c = proc[k].c => row'[c] = Stamped(row[c], k)
  BY <1>1 DEF StampAckLost, PatchRow, RowOK
<1>4. \A c \in Concepts : c # proc[k].c => row'[c] = row[c]
  BY <1>1 DEF StampAckLost, PatchRow, RowOK
<1>5. \A c \in Concepts : c = proc[k].c => StampedBy(k, c)
  BY <1>2, <1>3 DEF StampedBy, Quiet, StampAckLost
<1> QED BY <1>2, <1>4, <1>5 DEF RowsEvolve, RowEvolves, ClaimKept

(* Dataprep, the clock and a restart write no claim but a verdict's row.   *)
LEMMA DataprepEvolves ==
    ASSUME TypeInvariant, DataprepNext
    PROVE  RowsEvolve /\ UNCHANGED <<repo, proc>>
<1>1. ASSUME NEW c \in Concepts, Callback(c)
      PROVE  RowsEvolve
  <2>1. RowOK /\ row[c] \in RowType
    BY TypeParts DEF RowOK
  <2> DEFINE r == Verdict(row[c], VerdictOf(task[c].stage))
  <2>2. r.claim = row[c].claim /\ r.attempts = row[c].attempts /\ r.age = row[c].age
    BY <2>1, PatchClaims
  <2>3. PatchRow(c, r)
    BY <1>1 DEF Callback
  <2> HIDE DEF r
  <2> QED BY <2>1, <2>2, <2>3, RowPatched
<1>2. ASSUME NEW cb \in late, DeliverLate(cb)
      PROVE  RowsEvolve
  <2>1. RowOK /\ cb[1] \in Concepts /\ row[cb[1]] \in RowType
    BY TypeParts DEF RowOK, RestOK
  <2> DEFINE r == Verdict(row[cb[1]], cb[2])
  <2>2. r.claim = row[cb[1]].claim /\ r.attempts = row[cb[1]].attempts /\ r.age = row[cb[1]].age
    BY <2>1, PatchClaims
  <2>3. PatchRow(cb[1], r)
    BY <1>2 DEF DeliverLate
  <2> HIDE DEF r
  <2> QED BY <2>1, <2>2, <2>3, RowPatched
<1>3. UNCHANGED <<repo, proc>>
  BY DEF DataprepNext, TaskStep, EnsureGraph, StoreChunks, Callback, Rollback, TaskEnds, TaskFails,
         Kill, CallbackLost, CallbackLate, DeliverLate, DataprepCrash
<1>4. UNCHANGED row \/ (\E c \in Concepts : Callback(c)) \/ (\E cb \in late : DeliverLate(cb))
  BY DEF DataprepNext, TaskStep, EnsureGraph, StoreChunks, Rollback, TaskEnds, TaskFails,
         Kill, CallbackLost, CallbackLate, DataprepCrash
<1> QED BY <1>1, <1>2, <1>3, <1>4, RowsKept

LEMMA TimeEvolves ==
    ASSUME TypeInvariant, TimeNext
    PROVE  RowsEvolve /\ UNCHANGED <<repo, proc>>
<1>1. ASSUME NEW c \in Concepts, NEW to \in {"stale", "expired"}, NEW from, Age(c, from, to)
      PROVE  RowsEvolve
  <2>1. RowOK /\ row[c] \in RowType
    BY TypeParts DEF RowOK
  <2> QED BY <1>1, <2>1, RowPatched DEF Age, RowType
<1>2. ASSUME NEW c \in Concepts, ParkEnds(c)
      PROVE  RowsEvolve
  <2>1. RowOK /\ row[c] \in RowType
    BY TypeParts DEF RowOK
  <2> QED BY <1>2, <2>1, RowPatched DEF ParkEnds, RowType
<1>3. UNCHANGED <<repo, proc>>
  BY DEF TimeNext, ClaimStales, ClaimExpires, ParkEnds, Age
<1> QED BY <1>1, <1>2, <1>3 DEF TimeNext, ClaimStales, ClaimExpires

(* The steps of a settler that do not write the lease.                     *)
LEMMA RefreshKeepsClaims ==
    ASSUME RowOK, NEW g, RefreshMetaGraphNames(g)
    PROVE  RowsEvolve
BY DEF RowOK, RowType, RefreshMetaGraphNames, RowsEvolve, RowEvolves, ClaimKept

LEMMA SettleEvolves ==
    ASSUME TypeInvariant, NEW p \in Procs, SettleStep(p) \/ SettleWriteFails(p)
    PROVE  RowsEvolve /\ (Quiet(p) \/ TakeLease(p) \/ Flip(p) \/ Unlease(p))
<1> USE DEF At
<1> ProcOK /\ RowOK /\ proc[p] \in ProcType
  BY Serving
<1>1. CASE Promote(p)
  <2>1. RowsEvolve
    BY <1>1, RowsKept, RefreshKeepsClaims DEF Promote
  <2>2. Goto(p, "flip") \/ Goto(p, "unlease")
    BY <1>1 DEF Promote
  <2>3. Quiet(p)
    BY <1>1, <2>2, GotoQuiet DEF Promote, LeaseKept, SettlingPCs
  <2> QED BY <2>1, <2>3
<1>2. CASE Counts(p) \/ Load(p) \/ Tally(p)
  <2>1. RowsEvolve /\ LeaseKept
    BY <1>2, RowsKept DEF Counts, Load, Tally, LeaseKept
  <2>2. CASE Counts(p)
    BY <2>1, <2>2 DEF Counts, Quiet, SettlingPCs, ProcOK, ProcType
  <2>3. CASE Load(p)
    BY <2>1, <2>3, FinishQuiet DEF Load, Quiet, SettlingPCs, ProcOK, ProcType
  <2>4. CASE Tally(p)
    BY <2>1, <2>4 DEF Tally, Quiet, SettlingPCs, ProcOK, ProcType
  <2> QED BY <1>2, <2>2, <2>3, <2>4
<1>3. CASE Mark(p) \/ WriteRecord(p)
  <2>1. Quiet(p)
    BY <1>3, FinishQuiet, Serving DEF Mark, WriteRecord, LeaseKept, RepoType
  <2> QED BY <1>3, <2>1, RowsKept DEF Mark, WriteRecord
<1>4. CASE CollectGraph(p)
  BY <1>4, GotoQuiet, RowsKept DEF CollectGraph, LeaseKept, SettlingPCs
<1>5. CASE SettleWriteFails(p)
  BY <1>5, GotoQuiet, FinishQuiet, RowsKept DEF SettleWriteFails, LeaseKept, SettlingPCs
<1>6. CASE TakeLease(p) \/ Flip(p) \/ Unlease(p)
  BY <1>6, RowsKept DEF TakeLease, Flip, Unlease
<1> QED BY <1>1, <1>2, <1>3, <1>4, <1>5, <1>6 DEF SettleStep

(* The sweep.                                                              *)
LEMMA SweepEvolves ==
    ASSUME TypeInvariant, SweepNext
    PROVE  RowsEvolve /\ Quiet(Sweeper)
<1> USE DEF At
<1> Sweeper \in Procs /\ ProcOK /\ RowOK /\ proc[Sweeper] \in ProcType
  BY SweeperRuns
<1>1. CASE Reconcile
  BY <1>1, FinishQuiet, RowsKept DEF Reconcile, LeaseKept
<1>2. CASE ReapRead
  BY <1>2, RowsKept DEF ReapRead, Idle, Quiet, LeaseKept, SettlingPCs, ProcOK
<1>3. ASSUME NEW c \in Concepts, Reap(c) \/ ReapFails(c)
      PROVE  RowsEvolve /\ Quiet(Sweeper)
  <2>1. Quiet(Sweeper)
    BY <1>3, FinishQuiet DEF Reap, ReapFails, NextVictim, Quiet, LeaseKept, SettlingPCs, ProcOK, ProcType
  <2>2. RowsEvolve
    <3>1. row[c] \in RowType
      BY DEF RowOK
    <3> QED BY <1>3, <3>1, RowPatched, RowsKept DEF Reap, ReapFails, RowType
  <2> QED BY <2>1, <2>2
<1> QED BY <1>1, <1>2, <1>3 DEF SweepNext, SweepStep

(* A request, from its arrival to its failure.                             *)
LEMMA RequestEvolves ==
    ASSUME TypeInvariant, NEW a \in Admins, Request(a) \/ RequestStep(a) \/ RequestFails(a)
    PROVE  RowsEvolve /\ Quiet(a)
<1> USE DEF At
<1> a \in Procs /\ ProcOK /\ RowOK /\ repo \in RepoType /\ proc[a] \in ProcType
  BY RequestReads
<1>1. ASSUME NEW e, NEW pc, NEW g, Enter(a, e, pc, g), pc # "stamp", pc \notin SettlingPCs
      PROVE  RowsEvolve /\ Quiet(a)
  <2> DEFINE j == [Idle EXCEPT !.pc = pc, !.graph = g, !.good = (e = "ingest")]
  <2>1. j.pc = pc /\ proc' = [proc EXCEPT ![a] = j] /\ LeaseKept
    BY <1>1 DEF Enter, Idle, LeaseKept
  <2>2. Quiet(a)
    BY <1>1, <2>1, SetQuiet
  <2> QED BY <1>1, <2>2, RowsKept DEF Enter
<1>2. CASE Ingest(a) \/ Reingest(a) \/ Retract(a) \/ Unpublish(a) \/ Publish(a)
  BY <1>1, <1>2 DEF Ingest, Reingest, Retract, Unpublish, Publish, SettlingPCs
<1>3. CASE SignOff(a) \/ Drop(a)
  BY <1>3, GotoQuiet, RowsKept DEF SignOff, Drop, LeaseKept, SettlingPCs
<1>4. CASE ArmStamp(a)
  BY <1>4, GotoQuiet, RefreshKeepsClaims DEF ArmStamp, LeaseKept, SettlingPCs
<1>5. CASE Disarm(a) \/ UnpublishWrite(a) \/ SignOffWrite(a)
  <2>1. LeaseKept /\ Finish(a) /\ UNCHANGED row
    BY <1>5 DEF Disarm, UnpublishWrite, SignOffWrite, LeaseKept, RepoType
  <2> QED BY <2>1, FinishQuiet, RowsKept
<1>6. CASE PublishWrite(a)
  <2>1. LeaseKept /\ Goto(a, "publish_requeue") /\ UNCHANGED row
    BY <1>6 DEF PublishWrite, LeaseKept, RepoType
  <2> QED BY <2>1, GotoQuiet, RowsKept DEF SettlingPCs
<1>7. CASE RequestFails(a)
  BY <1>7, GotoQuiet, FinishQuiet, RowsKept DEF RequestFails, LeaseKept, SettlingPCs
<1>8. ASSUME NEW g, RequeueAll(g)
      PROVE  RowsEvolve
  BY <1>8 DEF RequeueAll, Requeued, RowsEvolve, RowEvolves
<1>9. CASE Requeue(a) \/ PublishRequeue(a)
  BY <1>8, <1>9, GotoQuiet, FinishQuiet DEF Requeue, PublishRequeue, LeaseKept, SettlingPCs
<1>10. CASE RequeueFailed(a)
  <2>1. RowsEvolve
    BY <1>10 DEF RequeueFailed, Requeued, RowsEvolve, RowEvolves, ClaimKept
  <2>2. Finish(a) \/ Goto(a, "arm_count")
    BY <1>10 DEF RequeueFailed
  <2>3. LeaseKept
    BY <1>10 DEF RequeueFailed, LeaseKept
  <2> QED BY <2>1, <2>2, <2>3, GotoQuiet, FinishQuiet DEF SettlingPCs
<1>11. CASE ArmCount(a)
  BY <1>11, RowsKept DEF ArmCount, Quiet, LeaseKept, SettlingPCs, ProcOK, ProcType
<1>12. CASE ArmWrite(a)
  <2> DEFINE j == [Idle EXCEPT !.pc = "load"]
  <2>1. LeaseKept /\ UNCHANGED row /\ (Finish(a) \/ proc' = [proc EXCEPT ![a] = j]) /\ j.pc = "load"
    BY <1>12 DEF ArmWrite, LeaseKept, RepoType, Idle
  <2> QED BY <2>1, FinishQuiet, SetQuiet, RowsKept DEF SettlingPCs
<1>13. CASE Mint(a)
  <2>1. LeaseKept /\ UNCHANGED row
    BY <1>13 DEF Mint, LeaseKept, RepoType
  <2>2. Quiet(a)
    BY <1>13, <2>1, FinishQuiet DEF Mint, Quiet, SettlingPCs, ProcOK, ProcType
  <2> QED BY <2>1, <2>2, RowsKept
<1> QED BY <1>2, <1>3, <1>4, <1>5, <1>6, <1>7, <1>9, <1>10, <1>11, <1>12, <1>13 DEF Request, RequestStep

-----------------------------------------------------------------------------
(***************************************************************************)
(* The induction, from the summaries.                                      *)
(***************************************************************************)

(* Every step of the drain is of one of these kinds.                       *)
LeaseWrite(p) == TakeLease(p) \/ Flip(p) \/ Unlease(p)

StepKind ==
    \/ \E p \in Procs : Quiet(p)
    \/ UNCHANGED <<repo, proc>>
    \/ \E k \in Cycles, c \in Concepts : ClaimRead(k, c)
    \/ \E p \in Procs : LeaseWrite(p)
    \/ LeaseAges
    \/ ServerCrash

LEMMA StepKinds ==
    ASSUME TypeInvariant, [Next]_vars
    PROVE  RowsEvolve /\ StepKind
<1>1. CASE WorkerNext
  <2> SUFFICES ASSUME NEW k \in Cycles,
                      Claim(k) \/ CycleStep(k) \/ StampAckLost(k) \/ HttpFails(k) \/ CycleStoreFails(k)
               PROVE  RowsEvolve /\ StepKind
    BY <1>1 DEF WorkerNext
  <2>1. k \in Procs
    BY DEF Procs
  <2>2. ASSUME NEW c \in Concepts, ClaimRead(k, c)
        PROVE  RowsEvolve /\ StepKind
    BY <2>2, RowsKept DEF ClaimRead, StepKind
  <2>3. ASSUME NEW c \in Concepts, ClaimFair(k, c)
        PROVE  RowsEvolve /\ StepKind
    BY <2>1, <2>3, ClaimEvolves DEF StepKind
  <2>4. CASE StampAckLost(k)
    BY <2>1, <2>4, LostAckEvolves DEF StepKind
  <2>5. CASE CycleStep(k) \/ HttpFails(k) \/ CycleStoreFails(k)
    BY <2>1, <2>5, CycleEvolves DEF StepKind
  <2> QED BY <2>2, <2>3, <2>4, <2>5 DEF Claim
<1>2. CASE DataprepNext \/ TimeNext
  BY <1>2, DataprepEvolves, TimeEvolves DEF StepKind
<1>3. CASE SettlementNext
  <2>1. CASE LeaseAges
    BY <2>1, RowsKept DEF LeaseAges, StepKind
  <2>2. ASSUME NEW p \in Procs, SettleStep(p) \/ SettleWriteFails(p)
        PROVE  RowsEvolve /\ StepKind
    BY <2>2, SettleEvolves DEF StepKind, LeaseWrite
  <2> QED BY <1>3, <2>1, <2>2 DEF SettlementNext
<1>4. CASE SweepNext
  BY <1>4, SweepEvolves, SweeperRuns DEF StepKind, Procs
<1>5. CASE LifecycleNext
  BY <1>5, RequestEvolves DEF LifecycleNext, StepKind, Procs
<1>6. CASE ServerCrash
  BY <1>6, RowsKept DEF ServerCrash, StepKind
<1>7. CASE UNCHANGED vars
  BY <1>7, RowsKept DEF vars, StepKind
<1> QED BY <1>1, <1>2, <1>3, <1>4, <1>5, <1>6, <1>7 DEF Next

(* A stamp counts the claim it writes, and nothing else writes one.        *)
LEMMA CountsKept ==
    ASSUME TypeInvariant, ClaimCounted, RowsEvolve
    PROVE  ClaimCounted'
<1> SUFFICES ASSUME NEW c \in Concepts, row'[c].claim # None
             PROVE  row'[c].attempts > 0
  BY DEF ClaimCounted
<1>1. RowEvolves(c) /\ row[c] \in RowType
  BY TypeParts DEF RowsEvolve, RowOK
<1>2. CASE ClaimKept(c)
  BY <1>2 DEF ClaimKept, ClaimCounted
<1>3. ASSUME NEW k \in Cycles, StampedBy(k, c)
      PROVE  row'[c].attempts > 0
  <2>1. row'[c].attempts = row[c].attempts + 1 /\ row[c].attempts \in Nat
    BY <1>1, <1>3 DEF StampedBy, Stamped, RowType
  <2> QED BY <2>1
<1> QED BY <1>1, <1>2, <1>3 DEF RowEvolves

(* A stamp finds the claim open: the statement of the fair claim says so,  *)
(* the other stamp read so, and what it read still holds.                  *)
LEMMA FreshKept ==
    ASSUME StampReadsOpen, RowsEvolve
    PROVE  FreshClaimKept
<1> SUFFICES ASSUME NEW c \in Concepts, row'[c].claim \notin {None, row[c].claim}
             PROVE  ClaimOpen(row[c])
  BY DEF FreshClaimKept, ClaimOpen
<1>1. PICK k \in Cycles : StampedBy(k, c)
  BY DEF RowsEvolve, RowEvolves, ClaimKept
<1>2. CASE Claimable(c)
  BY <1>2 DEF Claimable
<1>3. CASE At(k, "stamp") /\ proc[k].c = c /\ StampMatches(k)
  BY <1>3 DEF StampReadsOpen
<1> QED BY <1>1, <1>2, <1>3 DEF StampedBy

(* A stamp on its way stays alone and right about the claim it read, in    *)
(* every step that starts none.                                            *)
LEMMA StampStaysOpen ==
    ASSUME TypeInvariant, StampReadsOpen, RowsEvolve,
           \A k \in Cycles : proc'[k].pc = "stamp" => proc'[k] = proc[k]
    PROVE  StampReadsOpen'
<1> USE DEF At
<1> SUFFICES ASSUME NEW k \in Cycles, proc'[k].pc = "stamp"
             PROVE  /\ ~Fair
                    /\ \A j \in Cycles : proc'[j].pc = "stamp" => j = k
                    /\ StampMatches(k)' => ClaimOpen(row[proc[k].c])'
  BY DEF StampReadsOpen
<1>1. proc'[k] = proc[k] /\ proc[k].pc = "stamp" /\ ~Fair
  BY DEF StampReadsOpen
<1>2. \A j \in Cycles : proc'[j].pc = "stamp" => j = k
  BY <1>1 DEF StampReadsOpen
<1>3. StampMatches(k)' => ClaimOpen(row[proc[k].c])'
  <2> DEFINE c == proc[k].c
  <2>1. c \in Concepts
    BY <1>1, TypeParts DEF ProcOK, Snapshot, CyclePCs, Procs
  <2>2. RowEvolves(c)
    BY <2>1 DEF RowsEvolve
  <2>3. CASE ClaimKept(c)
    BY <1>1, <2>3 DEF ClaimKept, StampReadsOpen, StampMatches, ClaimOpen
  <2>4. CASE row'[c].claim = None
    BY <1>1, <2>4 DEF ClaimOpen
  <2>5. ASSUME NEW j \in Cycles, StampedBy(j, c)
        PROVE  FALSE
    BY <1>1, <2>5 DEF StampedBy, StampReadsOpen
  <2> QED BY <2>2, <2>3, <2>4, <2>5 DEF RowEvolves
<1> QED BY <1>1, <1>2, <1>3

(* The claim chain: a claim is read while no stamp is on its way.          *)
LEMMA ReadOpens ==
    ASSUME TypeInvariant, NEW k \in Cycles, NEW c \in Concepts, ClaimRead(k, c)
    PROVE  StampReadsOpen'
<1> USE DEF At
<1> DEFINE j == [Job(c) EXCEPT !.pc = "stamp"]
<1>1. j.pc = "stamp" /\ j.c = c /\ j.seen = row[c].claim
  BY DEF Job, Idle
<1>2. proc' = [proc EXCEPT ![k] = j] /\ UNCHANGED row /\ ~Fair
  BY DEF ClaimRead
<1>3. ClaimOpen(row[c]) /\ \A i \in Cycles : proc[i].pc # "stamp"
  BY DEF ClaimRead, Claimable, ChainFree
<1> HIDE DEF j
<1>4. proc'[k] = j /\ \A i \in Cycles \ {k} : proc'[i] = proc[i]
  BY <1>2, TypeParts DEF ProcOK, Procs
<1> QED BY <1>1, <1>2, <1>3, <1>4 DEF StampReadsOpen, StampMatches, ClaimOpen

LEMMA StampsKept ==
    ASSUME TypeInvariant, StampReadsOpen, RowsEvolve, StepKind
    PROVE  StampReadsOpen'
<1> ProcOK
  BY TypeParts
<1>1. ASSUME NEW p \in Procs, Quiet(p)
      PROVE  StampReadsOpen'
  BY <1>1, StampStaysOpen DEF Quiet, Procs
<1>2. CASE UNCHANGED <<repo, proc>> \/ LeaseAges
  BY <1>2, StampStaysOpen DEF LeaseAges
<1>3. ASSUME NEW p \in Procs, LeaseWrite(p)
      PROVE  StampReadsOpen'
  <2>1. \/ Finish(p)
        \/ \E pc \in {"promote", "gc", "tally"} : Goto(p, pc)
    BY <1>3 DEF LeaseWrite, TakeLease, Flip, Unlease
  <2>2. proc'[p].pc # "stamp" /\ \A q \in Procs \ {p} : proc'[q] = proc[q]
    BY <2>1 DEF Finish, Goto, Idle, ProcOK, ProcType
  <2> QED BY <2>2, StampStaysOpen DEF Procs
<1>4. CASE ServerCrash
  BY <1>4, StampStaysOpen DEF ServerCrash, Idle, Procs
<1> QED BY <1>1, <1>2, <1>3, <1>4, ReadOpens DEF StepKind

(* The lease: only its holder is between taking it and giving it back.     *)
LEMMA LeasesKept ==
    ASSUME TypeInvariant, LeaseHeld, StepKind
    PROVE  LeaseHeld'
<1> USE DEF At
<1> SUFFICES ASSUME ~LeaseExpires
             PROVE  ~repo'.leaseOld /\ \A q \in Procs : proc'[q].pc \in SettlingPCs => repo'.lease = q
  BY DEF LeaseHeld, Settling, SettlingPCs
<1>1. ~repo.leaseOld /\ \A q \in Procs : proc[q].pc \in SettlingPCs => repo.lease = q
  BY DEF LeaseHeld, Settling, SettlingPCs
<1>2. ProcOK /\ repo \in RepoType
  BY TypeParts
<1>3. ASSUME NEW p \in Procs, Quiet(p)
      PROVE  ~repo'.leaseOld /\ \A q \in Procs : proc'[q].pc \in SettlingPCs => repo'.lease = q
  BY <1>1, <1>3 DEF Quiet, LeaseKept
<1>4. CASE UNCHANGED <<repo, proc>>
  BY <1>1, <1>4
<1>5. ASSUME NEW k \in Cycles, NEW c \in Concepts, ClaimRead(k, c)
      PROVE  ~repo'.leaseOld /\ \A q \in Procs : proc'[q].pc \in SettlingPCs => repo'.lease = q
  <2> DEFINE j == [Job(c) EXCEPT !.pc = "stamp"]
  <2>1. j.pc = "stamp" /\ proc' = [proc EXCEPT ![k] = j] /\ UNCHANGED repo
    BY <1>5 DEF ClaimRead, Job, Idle
  <2> HIDE DEF j
  <2> QED BY <1>1, <1>2, <2>1 DEF ProcOK, SettlingPCs
<1>6. ASSUME NEW p \in Procs, LeaseWrite(p)
      PROVE  ~repo'.leaseOld /\ \A q \in Procs : proc'[q].pc \in SettlingPCs => repo'.lease = q
  <2>1. CASE UNCHANGED repo /\ Finish(p)
    BY <1>1, <1>2, <2>1 DEF Finish, Idle, ProcOK, SettlingPCs
  <2>2. CASE TakeLease(p) /\ repo.armed /\ LeaseOpen /\ Goto(p, "promote")
    <3>1. \A q \in Procs : proc[q].pc \notin SettlingPCs
      BY <1>1, <2>2, ProcsAssumption DEF LeaseOpen, Procs
    <3>2. repo' = [repo EXCEPT !.lease = p, !.leaseOld = FALSE]
      BY <2>2 DEF TakeLease
    <3>3. repo'.lease = p /\ ~repo'.leaseOld
      BY <1>2, <3>2 DEF RepoType
    <3>4. \A q \in Procs \ {p} : proc'[q] = proc[q]
      BY <1>2, <2>2 DEF Goto, ProcOK
    <3> QED BY <3>1, <3>3, <3>4
  <2>3. CASE Flip(p) \/ Unlease(p)
    <3>1. proc[p].pc \in SettlingPCs /\ repo'.lease = None /\ ~repo'.leaseOld
      BY <1>2, <2>3 DEF Flip, Unlease, RepoType, SettlingPCs
    <3>2. Finish(p) \/ \E pc \in {"gc", "tally"} : Goto(p, pc)
      BY <2>3 DEF Flip, Unlease
    <3>3. proc'[p].pc \notin SettlingPCs /\ \A q \in Procs \ {p} : proc'[q] = proc[q]
      BY <1>2, <3>2 DEF Finish, Goto, Idle, ProcOK, ProcType, SettlingPCs
    <3>4. \A q \in Procs \ {p} : proc[q].pc \notin SettlingPCs
      BY <1>1, <3>1
    <3> QED BY <3>1, <3>3, <3>4
  <2> QED BY <1>6, <2>1, <2>2, <2>3 DEF LeaseWrite, TakeLease
<1>7. CASE LeaseAges
  BY <1>7 DEF LeaseAges
<1>8. CASE ServerCrash
  BY <1>1, <1>8 DEF ServerCrash, Idle, SettlingPCs
<1> QED BY <1>3, <1>4, <1>5, <1>6, <1>7, <1>8 DEF StepKind

(* DrainInv is inductive.                                                  *)
LEMMA InitInv == Init => DrainInv
BY InitTypes, ProcsAssumption
   DEF DrainInv, Init, FreshRow, Idle, At, ClaimCounted, StampReadsOpen, LeaseHeld, Settling, Procs

LEMMA NextInv == DrainInv /\ [Next]_vars => DrainInv'
BY NextTypes, StepKinds, CountsKept, StampsKept, LeasesKept DEF DrainInv

(* Every claim was counted, whichever of the stamp, the 429 unclaim, the   *)
(* reset and the requeues wrote the row last: the attempts the reaper      *)
(* budgets never miss a claim that is standing.                            *)
THEOREM Claims == Spec => []ClaimCounted
<1>1. DrainInv => ClaimCounted
  BY DEF DrainInv
<1> QED BY <1>1, InitInv, NextInv, PTL DEF Spec

(* No cycle ever stamps over a claim younger than the staleness window, in *)
(* the in-process chain as in the single-statement claim, across crashes,  *)
(* lost acknowledgements and requeues.                                     *)
THEOREM FreshClaims == Spec => FreshClaimNotStolen
<1>1. DrainInv /\ [Next]_vars => [FreshClaimKept]_vars
  <2> SUFFICES ASSUME DrainInv, [Next]_vars
               PROVE  [FreshClaimKept]_vars
    OBVIOUS
  <2>1. RowsEvolve
    BY StepKinds DEF DrainInv
  <2> QED BY <2>1, FreshKept DEF DrainInv
<1> QED BY <1>1, InitInv, NextInv, PTL DEF Spec, FreshClaimNotStolen

(* While no settle outlasts OKF_SETTLE_LEASE_MS, at most one settler is    *)
(* between taking the lease and giving it back, retracts and crashes       *)
(* included.                                                               *)
THEOREM Leases == Spec => []LeaseExclusive
<1>1. DrainInv => LeaseExclusive
  BY DEF DrainInv, LeaseHeld, LeaseExclusive
<1> QED BY <1>1, InitInv, NextInv, PTL DEF Spec

(* The invariant the three rest on, types included.                        *)
THEOREM Inductive == Spec => []DrainInv
BY InitInv, NextInv, PTL DEF Spec
==============================================================================
