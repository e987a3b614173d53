---------------------- MODULE BenchmarkService_proofs -----------------------
(***************************************************************************)
(* The theorems about benchmark runs, for every number of runs, re-scores, *)
(* submits, judge jobs and faults: the inductive invariant, that a cancel  *)
(* reaches the judge, and that verdicts are kept.                          *)
(***************************************************************************)
EXTENDS BenchmarkService, TLAPS

(* The run of a job. *)
LEMMA JobRun == \A j \in Jobs : j[1] \in Runs
  BY DEF Jobs

(* What a move of one worker changes. *)
LEMMA GotoMoves ==
    ASSUME TypeOK, NEW r \in Runs, NEW pc \in WorkerPCs, Goto(r, pc)
    PROVE  /\ worker' \in [Runs -> WorkerType]
           /\ worker'[r].pc = pc
           /\ worker'[r].tries = worker[r].tries
           /\ \A s \in Runs \ {r} : worker'[s] = worker[s]
  BY DEF TypeOK, Goto, WorkerType

LEMMA FailsMoves ==
    ASSUME TypeOK, NEW r \in Runs, NEW why, Fails(r, why)
    PROVE  /\ worker' \in [Runs -> WorkerType]
           /\ worker'[r].pc = "persist"
           /\ worker'[r].tries = worker[r].tries
           /\ \A s \in Runs \ {r} : worker'[s] = worker[s]
           /\ asked' \in SUBSET Runs
           /\ asked' \subseteq asked
  BY ZenonT(60) DEF TypeOK, Fails, Verdict, WorkerType, WorkerPCs

LEMMA Holds ==
    ASSUME TypeOK, NEW r \in Runs, worker[r].tries > 0
    PROVE  Held(r) \in Jobs
  BY DEF TypeOK, Held, Jobs, WorkerType

LEMMA DropMoves ==
    ASSUME TypeOK, Submitted, NEW r \in Runs, worker[r].pc \in Holding,
           NEW why \in {"failed", "cancelled"}, DropJob(r, why)
    PROVE  /\ worker' \in [Runs -> WorkerType]
           /\ worker'[r].pc = "drop"
           /\ worker'[r].tries = worker[r].tries
           /\ \A s \in Runs \ {r} : worker'[s] = worker[s]
           /\ active' = active \ {Held(r)}
           /\ kills' = kills \cup {Held(r)}
           /\ kills' \in SUBSET Jobs
<1>1. worker' = [worker EXCEPT ![r].pc = "drop", ![r].why = why]
  BY DEF DropJob
<1>2. Held(r) \in Jobs
  BY Holds DEF Submitted
<1>3. active' = active \ {Held(r)} /\ kills' = kills \cup {Held(r)}
  BY DEF DropJob, SendKill
<1>4. worker' \in [Runs -> WorkerType]
  <2>1. worker[r] \in WorkerType /\ worker \in [Runs -> WorkerType]
    BY DEF TypeOK
  <2>2. [worker[r] EXCEPT !.pc = "drop", !.why = why] \in WorkerType
    BY <2>1 DEF WorkerType, WorkerPCs
  <2>3. worker' = [worker EXCEPT ![r] = [worker[r] EXCEPT !.pc = "drop", !.why = why]]
    BY <1>1, <2>1
  <2> QED
    BY <2>1, <2>2, <2>3
<1> QED
  BY <1>1, <1>2, <1>3, <1>4 DEF TypeOK

-----------------------------------------------------------------------------
(***************************************************************************)
(* The inductive step, action by action.                                   *)
(***************************************************************************)
LEMMA BeginRunKeeps ==
    ASSUME BenchmarkInv, NEW r \in Runs, BeginRun(r)
    PROVE  BenchmarkInv'
<1>0. /\ worker' \in [Runs -> WorkerType]
      /\ worker'[r].pc = "save"
      /\ worker'[r].tries = worker[r].tries
      /\ \A s \in Runs \ {r} : worker'[s] = worker[s]
  BY GotoMoves DEF BenchmarkInv, BeginRun, WorkerPCs
<1>1. TypeOK'
  BY <1>0, BenchmarkAssumption DEF BenchmarkInv, TypeOK, docs, wire, BeginRun
<1>2. Owned'
  BY <1>0, BenchmarkAssumption DEF BenchmarkInv, Owned, Alive, Idle, At, BeginRun
<1>3. OneKind'
  BY <1>0, BenchmarkAssumption DEF BenchmarkInv, Owned, OneKind, Alive, Idle, At, BeginRun
<1>4. Polled'
  BY <1>0, BenchmarkAssumption, JobRun, SidecarAssumption
     DEF BenchmarkInv, Polled, Held, TypeOK, At, BeginRun
<1>5. Submitted'
  BY <1>0, BenchmarkAssumption, SidecarAssumption
     DEF BenchmarkInv, Submitted, Holding, Unjudged, At, BeginRun
<1>6. Verdicts'
  BY <1>0, BenchmarkAssumption DEF BenchmarkInv, Verdicts, docs, At, BeginRun
<1>7. Cancels'
  BY <1>0, BenchmarkAssumption DEF BenchmarkInv, Cancels, Held, JobLive, wire, At, BeginRun
<1> QED
  BY <1>1, <1>2, <1>3, <1>4, <1>5, <1>6, <1>7 DEF BenchmarkInv

LEMMA SavePlaceholderKeeps ==
    ASSUME BenchmarkInv, NEW r \in Runs, SavePlaceholder(r)
    PROVE  BenchmarkInv'
<1>0. /\ worker' \in [Runs -> WorkerType]
      /\ worker'[r].pc = "load"
      /\ worker'[r].tries = worker[r].tries
      /\ \A s \in Runs \ {r} : worker'[s] = worker[s]
  BY GotoMoves DEF BenchmarkInv, SavePlaceholder, WorkerPCs
<1>1. TypeOK'
  BY <1>0 DEF BenchmarkInv, TypeOK, DocStatus, memory, wire, SavePlaceholder
<1>2. Owned'
  BY <1>0 DEF BenchmarkInv, Owned, Alive, Idle, memory, At, SavePlaceholder
<1>3. Polled'
  BY <1>0, JobRun, SidecarAssumption
     DEF BenchmarkInv, Polled, Held, TypeOK, memory, At, SavePlaceholder
<1>4. Submitted'
  BY <1>0, SidecarAssumption DEF BenchmarkInv, Submitted, Holding, Unjudged, At, SavePlaceholder
<1>5. Verdicts'
  BY <1>0 DEF BenchmarkInv, Verdicts, At, SavePlaceholder
<1>6. Cancels'
  BY <1>0 DEF BenchmarkInv, Cancels, Held, JobLive, memory, wire, At, SavePlaceholder
<1>7. OneKind'
  BY <1>0 DEF BenchmarkInv, OneKind, memory, SavePlaceholder
<1> QED
  BY <1>1, <1>2, <1>3, <1>4, <1>5, <1>6, <1>7 DEF BenchmarkInv

LEMMA SaveFailsKeeps ==
    ASSUME BenchmarkInv, NEW r \in Runs, SaveFails(r)
    PROVE  BenchmarkInv'
<1>0. /\ worker' \in [Runs -> WorkerType]
      /\ worker'[r].pc \in {"off", "orphan"}
      /\ worker'[r].tries = worker[r].tries
      /\ \A s \in Runs \ {r} : worker'[s] = worker[s]
  BY GotoMoves DEF BenchmarkInv, SaveFails, WorkerPCs
<1>a. left' \in Nat
  BY DEF BenchmarkInv, TypeOK, SaveFails, Spend
<1>b. /\ At(r, "save") \/ At(r, "copy")
      /\ inFlight' = inFlight \/ (At(r, "save") /\ inFlight' = None)
      /\ At(r, "save") => inFlight' = None
  BY DEF SaveFails, LockAfterFailedSave, At
<1>c. /\ doc' = doc \/ doc' = [doc EXCEPT ![r] = "running"]
      /\ UNCHANGED <<suite, recorded, rescoring, asked, active, get, deleting, sweep, wire>>
  BY DEF SaveFails
<1>1. TypeOK'
  BY <1>0, <1>a, <1>b, <1>c DEF BenchmarkInv, TypeOK, DocStatus, wire
<1>2. Owned'
  <2>1. ~Alive(r)'
    BY <1>b, <1>c, BenchmarkAssumption DEF BenchmarkInv, Owned, OneKind, TypeOK, Alive, Idle, At
  <2>2. \A s \in Runs \ {r} : Alive(s)' <=> Alive(s)
    BY <1>b, <1>c, BenchmarkAssumption DEF BenchmarkInv, Owned, Alive, At
  <2>3. \A s \in Runs \ {r} : At(s, "save") => inFlight' = s
    BY <1>b DEF BenchmarkInv, Owned, At
  <2> QED
    BY <1>0, <2>1, <2>2, <2>3 DEF BenchmarkInv, Owned, Idle, At
<1>3. OneKind'
  BY <1>b, <1>c, BenchmarkAssumption DEF BenchmarkInv, OneKind, TypeOK
<1>4. Polled'
  BY <1>0, <1>b, <1>c, JobRun DEF BenchmarkInv, Polled, Held, TypeOK, At
<1>5. Submitted'
  BY <1>0, <1>b DEF BenchmarkInv, Submitted, Holding, Unjudged, At
<1>6. Verdicts'
  BY <1>0, <1>b, <1>c DEF BenchmarkInv, Verdicts, Undecided, TypeOK, At
<1>7. Cancels'
  BY <1>0, <1>c DEF BenchmarkInv, Cancels, Held, JobLive, wire, At
<1> QED
  BY <1>1, <1>2, <1>3, <1>4, <1>5, <1>6, <1>7 DEF BenchmarkInv

LEMMA BeginRescoreKeeps ==
    ASSUME BenchmarkInv, NEW r \in Runs, NEW src \in Runs, BeginRescore(r, src)
    PROVE  BenchmarkInv'
<1>0. /\ worker' \in [Runs -> WorkerType]
      /\ worker'[r].pc = "copy"
      /\ worker'[r].tries = worker[r].tries
      /\ \A s \in Runs \ {r} : worker'[s] = worker[s]
  BY GotoMoves DEF BenchmarkInv, BeginRescore, WorkerPCs
<1>1. TypeOK'
  BY <1>0 DEF BenchmarkInv, TypeOK, docs, memory, wire, BeginRescore
<1>2. Owned'
  BY <1>0 DEF BenchmarkInv, Owned, Alive, Idle, memory, At, BeginRescore
<1>3. Polled'
  BY <1>0, JobRun, SidecarAssumption
     DEF BenchmarkInv, Polled, Held, TypeOK, memory, At, BeginRescore
<1>4. Submitted'
  BY <1>0, SidecarAssumption DEF BenchmarkInv, Submitted, Holding, Unjudged, At, BeginRescore
<1>5. Verdicts'
  BY <1>0 DEF BenchmarkInv, Verdicts, docs, At, BeginRescore
<1>6. Cancels'
  BY <1>0 DEF BenchmarkInv, Cancels, Held, JobLive, memory, wire, At, BeginRescore
<1>7. OneKind'
  BY <1>0 DEF BenchmarkInv, OneKind, memory, BeginRescore
<1> QED
  BY <1>1, <1>2, <1>3, <1>4, <1>5, <1>6, <1>7 DEF BenchmarkInv

LEMMA SaveCopyKeeps ==
    ASSUME BenchmarkInv, NEW r \in Runs, SaveCopy(r)
    PROVE  BenchmarkInv'
<1>0. /\ worker' \in [Runs -> WorkerType]
      /\ worker'[r].pc = "submit"
      /\ worker'[r].tries = worker[r].tries
      /\ \A s \in Runs \ {r} : worker'[s] = worker[s]
  BY GotoMoves DEF BenchmarkInv, SaveCopy, WorkerPCs
<1>1. TypeOK'
  BY <1>0 DEF BenchmarkInv, TypeOK, DocStatus, wire, SaveCopy
<1>2. Owned'
  BY <1>0 DEF BenchmarkInv, Owned, Alive, Idle, At, SaveCopy
<1>3. OneKind'
  BY <1>0 DEF BenchmarkInv, Owned, OneKind, Alive, Idle, At, SaveCopy
<1>4. Polled'
  BY <1>0, JobRun, SidecarAssumption DEF BenchmarkInv, Polled, Held, TypeOK, At, SaveCopy
<1>5. Submitted'
  BY <1>0, SidecarAssumption DEF BenchmarkInv, Submitted, Holding, Unjudged, At, SaveCopy
<1>6. Verdicts'
  BY <1>0 DEF BenchmarkInv, Verdicts, At, SaveCopy
<1>7. Cancels'
  BY <1>0 DEF BenchmarkInv, Cancels, Held, JobLive, wire, At, SaveCopy
<1> QED
  BY <1>1, <1>2, <1>3, <1>4, <1>5, <1>6, <1>7 DEF BenchmarkInv

LEMMA LoadRunKeeps ==
    ASSUME BenchmarkInv, NEW r \in Runs, LoadRun(r)
    PROVE  BenchmarkInv'
<1>0. /\ worker' \in [Runs -> WorkerType]
      /\ worker'[r].pc \in {"answer", "persist"}
      /\ worker'[r].tries = worker[r].tries
      /\ \A s \in Runs \ {r} : worker'[s] = worker[s]
      /\ asked' \in SUBSET Runs
      /\ asked' \subseteq asked
  <2>1. CASE Goto(r, "answer") /\ UNCHANGED asked
    BY <2>1, GotoMoves DEF BenchmarkInv, TypeOK, WorkerPCs
  <2>2. CASE Fails(r, "failed")
    BY <2>2, FailsMoves DEF BenchmarkInv
  <2> QED
    BY <2>1, <2>2 DEF LoadRun
<1>a. left' \in Nat
  BY DEF BenchmarkInv, TypeOK, LoadRun, Spend
<1>1. TypeOK'
  BY <1>0, <1>a DEF BenchmarkInv, TypeOK, docs, wire, LoadRun
<1>2. Owned'
  BY <1>0, <1>a DEF BenchmarkInv, Owned, Alive, Idle, At, LoadRun
<1>3. Polled'
  BY <1>0, <1>a, JobRun, SidecarAssumption DEF BenchmarkInv, Polled, Held, TypeOK, At, LoadRun
<1>4. Submitted'
  BY <1>0, <1>a, SidecarAssumption DEF BenchmarkInv, Submitted, Holding, Unjudged, At, LoadRun
<1>5. Verdicts'
  BY <1>0, <1>a DEF BenchmarkInv, Verdicts, Undecided, docs, At, LoadRun
<1>6. Cancels'
  BY <1>0, <1>a DEF BenchmarkInv, Cancels, Held, JobLive, wire, At, LoadRun
<1>7. OneKind'
  BY <1>0, <1>a DEF BenchmarkInv, OneKind, LoadRun
<1> QED
  BY <1>1, <1>2, <1>3, <1>4, <1>5, <1>6, <1>7 DEF BenchmarkInv

LEMMA AnswersEndKeeps ==
    ASSUME BenchmarkInv, NEW r \in Runs, AnswersEnd(r)
    PROVE  BenchmarkInv'
<1>0. /\ worker' \in [Runs -> WorkerType]
      /\ worker'[r].pc \in {"fail", "submit", "persist"}
      /\ worker'[r].tries = worker[r].tries
      /\ \A s \in Runs \ {r} : worker'[s] = worker[s]
      /\ asked' \in SUBSET Runs
      /\ asked' \subseteq asked
  <2>1. CASE (Goto(r, "submit") \/ Goto(r, "fail")) /\ UNCHANGED asked
    BY <2>1, GotoMoves DEF BenchmarkInv, TypeOK, WorkerPCs
  <2>2. CASE Fails(r, "cancelled")
    BY <2>2, FailsMoves DEF BenchmarkInv
  <2> QED
    BY <2>1, <2>2 DEF AnswersEnd
<1>a. left' \in Nat
  BY DEF BenchmarkInv, TypeOK, AnswersEnd, Spend
<1>1. TypeOK'
  BY <1>0, <1>a DEF BenchmarkInv, TypeOK, docs, wire, AnswersEnd
<1>2. Owned'
  BY <1>0, <1>a DEF BenchmarkInv, Owned, Alive, Idle, At, AnswersEnd
<1>3. Polled'
  BY <1>0, <1>a, JobRun, SidecarAssumption DEF BenchmarkInv, Polled, Held, TypeOK, At, AnswersEnd
<1>4. Submitted'
  BY <1>0, <1>a, SidecarAssumption DEF BenchmarkInv, Submitted, Holding, Unjudged, At, AnswersEnd
<1>5. Verdicts'
  BY <1>0, <1>a DEF BenchmarkInv, Verdicts, Undecided, docs, At, AnswersEnd
<1>6. Cancels'
  BY <1>0, <1>a DEF BenchmarkInv, Cancels, Held, JobLive, wire, At, AnswersEnd
<1>7. OneKind'
  BY <1>0, <1>a DEF BenchmarkInv, OneKind, AnswersEnd
<1> QED
  BY <1>1, <1>2, <1>3, <1>4, <1>5, <1>6, <1>7 DEF BenchmarkInv

LEMMA WriteFailedKeeps ==
    ASSUME BenchmarkInv, NEW r \in Runs, WriteFailed(r)
    PROVE  BenchmarkInv'
<1>0. /\ worker' \in [Runs -> WorkerType]
      /\ worker'[r].pc \in {"finish", "persist"}
      /\ worker'[r].tries = worker[r].tries
      /\ \A s \in Runs \ {r} : worker'[s] = worker[s]
      /\ asked' \in SUBSET Runs
      /\ asked' \subseteq asked
  <2>1. CASE Goto(r, "finish") /\ UNCHANGED asked
    BY <2>1, GotoMoves DEF BenchmarkInv, TypeOK, WorkerPCs
  <2>2. CASE Fails(r, "failed")
    BY <2>2, FailsMoves DEF BenchmarkInv
  <2> QED
    BY <2>1, <2>2 DEF WriteFailed, Lands
<1>a. left' \in Nat /\ (doc' = doc \/ doc' = [doc EXCEPT ![r] = "failed"])
  BY DEF BenchmarkInv, TypeOK, WriteFailed, Lands, Replaced, Spend
<1>1. TypeOK'
  BY <1>0, <1>a DEF BenchmarkInv, TypeOK, DocStatus, wire, WriteFailed
<1>2. Owned'
  BY <1>0, <1>a DEF BenchmarkInv, Owned, Alive, Idle, At, WriteFailed
<1>3. Polled'
  BY <1>0, <1>a, JobRun, SidecarAssumption DEF BenchmarkInv, Polled, Held, TypeOK, At, WriteFailed
<1>4. Submitted'
  BY <1>0, <1>a, SidecarAssumption DEF BenchmarkInv, Submitted, Holding, Unjudged, At, WriteFailed
<1>5. Verdicts'
  BY <1>0, <1>a DEF BenchmarkInv, Verdicts, Undecided, TypeOK, At, WriteFailed
<1>6. Cancels'
  BY <1>0, <1>a DEF BenchmarkInv, Cancels, Held, JobLive, wire, At, WriteFailed
<1>7. OneKind'
  BY <1>0, <1>a DEF BenchmarkInv, OneKind, WriteFailed
<1> QED
  BY <1>1, <1>2, <1>3, <1>4, <1>5, <1>6, <1>7 DEF BenchmarkInv

LEMMA SubmitKeeps ==
    ASSUME BenchmarkInv, NEW r \in Runs, Submit(r)
    PROVE  BenchmarkInv'
<1>0. /\ worker' \in [Runs -> WorkerType]
      /\ worker'[r].pc \in {"submit", "record", "persist"}
      /\ worker'[r].pc = "submit" => worker'[r].tries < MaxTries
      /\ worker'[r].pc = "record" => worker'[r].tries > 0
      /\ \A s \in Runs \ {r} : worker'[s] = worker[s]
      /\ asked' \in SUBSET Runs
      /\ asked' \subseteq asked
  <2>0. /\ worker[r].tries \in 0 .. MaxTries /\ worker[r].tries < MaxTries /\ MaxTries \in Nat
        /\ worker[r] \in WorkerType /\ worker[r].pc = "submit"
    BY SidecarAssumption DEF BenchmarkInv, TypeOK, Submitted, Submit, At, WorkerType
  <2>1. CASE worker' = [worker EXCEPT ![r].pc = "record", ![r].tries = @ + 1] /\ UNCHANGED asked
    BY <2>0, <2>1 DEF BenchmarkInv, TypeOK, WorkerType
  <2>2. CASE Fails(r, "failed")
    BY <2>2, FailsMoves DEF BenchmarkInv
  <2>3. CASE TryFails(r)
    <3>1. CASE worker[r].tries + 1 < MaxTries
      <4>1. worker' = [worker EXCEPT ![r].tries = @ + 1] /\ UNCHANGED asked
        BY <2>3, <3>1 DEF TryFails
      <4>2. [worker[r] EXCEPT !.tries = @ + 1] \in WorkerType
        BY <2>0 DEF WorkerType
      <4>3. /\ worker' = [worker EXCEPT ![r] = [worker[r] EXCEPT !.tries = @ + 1]]
            /\ worker'[r] = [worker[r] EXCEPT !.tries = @ + 1]
        BY <4>1 DEF BenchmarkInv, TypeOK
      <4>4. worker'[r].pc = "submit" /\ worker'[r].tries = worker[r].tries + 1
        BY <2>0, <4>3 DEF WorkerType
      <4> QED
        BY <2>0, <3>1, <4>1, <4>2, <4>3, <4>4 DEF BenchmarkInv, TypeOK
    <3>2. CASE ~(worker[r].tries + 1 < MaxTries)
      BY <2>2, <2>3, <3>2 DEF TryFails
    <3> QED
      BY <3>1, <3>2
  <2> QED
    BY <2>1, <2>2, <2>3 DEF Submit
<1>a. left' \in Nat
  BY DEF BenchmarkInv, TypeOK, Submit, Spend
<1>b. /\ job' \in [Jobs -> JobStatus]
      /\ \A j \in Jobs : j[1] # r => job'[j] = job[j]
  <2>1. Attempt(r) \in Jobs /\ Attempt(r)[1] = r
    BY SidecarAssumption DEF BenchmarkInv, TypeOK, Submitted, Submit, WorkerType, Attempt, Jobs
  <2> QED
    BY <2>1 DEF BenchmarkInv, TypeOK, Submit, StartJob, JobStatus
<1>1. TypeOK'
  BY <1>0, <1>a, <1>b DEF BenchmarkInv, TypeOK, docs, Submit
<1>2. Owned'
  BY <1>0, <1>a, <1>b DEF BenchmarkInv, Owned, Alive, Idle, At, Submit
<1>3. Polled'
  BY <1>0, <1>a, <1>b, JobRun, SidecarAssumption DEF BenchmarkInv, Polled, Held, TypeOK, At, Submit
<1>4. Submitted'
  BY <1>0, <1>a, <1>b, SidecarAssumption DEF BenchmarkInv, Submitted, Holding, Unjudged, At, Submit
<1>5. Verdicts'
  BY <1>0, <1>a, <1>b DEF BenchmarkInv, Verdicts, Undecided, docs, At, Submit
<1>6. Cancels'
  <2> SUFFICES ASSUME NEW s \in Runs, At(s, "poll")', JobLive(Held(s))'
               PROVE  Held(s)' \in kills' \cup lost' \/ (Held(s)' \in active' /\ s \notin asked')
    BY DEF Cancels
  <2>1. s # r /\ At(s, "poll") /\ Held(s)' = Held(s)
    BY <1>0 DEF At, Held
  <2>2. Held(s) \in Jobs /\ Held(s)[1] = s
    BY <2>1, Holds DEF BenchmarkInv, Submitted, At, Holding, Held
  <2>3. JobLive(Held(s))
    BY <1>b, <2>1, <2>2 DEF JobLive
  <2> QED
    BY <1>0, <2>1, <2>3 DEF BenchmarkInv, Cancels, Submit
<1>7. OneKind'
  BY <1>0, <1>a, <1>b DEF BenchmarkInv, OneKind, Submit
<1> QED
  BY <1>1, <1>2, <1>3, <1>4, <1>5, <1>6, <1>7 DEF BenchmarkInv

LEMMA RecordJobKeeps ==
    ASSUME BenchmarkInv, NEW r \in Runs, RecordJob(r)
    PROVE  BenchmarkInv'
<1>0. /\ worker' \in [Runs -> WorkerType]
      /\ worker'[r].pc = "guard"
      /\ worker'[r].tries = worker[r].tries
      /\ \A s \in Runs \ {r} : worker'[s] = worker[s]
      /\ recorded' \in [Runs -> Jobs \cup {None}]
      /\ left' \in Nat
  <2>1. Held(r) \in Jobs
    BY Holds DEF BenchmarkInv, Submitted, RecordJob, At, Holding
  <2> QED
    BY <2>1, GotoMoves DEF BenchmarkInv, TypeOK, RecordJob, Spend, WorkerPCs
<1>1. TypeOK'
  BY <1>0 DEF BenchmarkInv, TypeOK, memory, wire, RecordJob
<1>2. Owned'
  BY <1>0 DEF BenchmarkInv, Owned, Alive, Idle, memory, At, RecordJob
<1>3. Polled'
  BY <1>0, JobRun, SidecarAssumption DEF BenchmarkInv, Polled, Held, TypeOK, memory, At, RecordJob
<1>4. Submitted'
  BY <1>0, SidecarAssumption DEF BenchmarkInv, Submitted, Holding, Unjudged, At, RecordJob
<1>5. Verdicts'
  BY <1>0 DEF BenchmarkInv, Verdicts, Undecided, At, RecordJob
<1>6. Cancels'
  BY <1>0 DEF BenchmarkInv, Cancels, Held, JobLive, memory, wire, At, RecordJob
<1>7. OneKind'
  BY <1>0 DEF BenchmarkInv, OneKind, memory, RecordJob
<1> QED
  BY <1>1, <1>2, <1>3, <1>4, <1>5, <1>6, <1>7 DEF BenchmarkInv

LEMMA CheckCancelKeeps ==
    ASSUME BenchmarkInv, NEW r \in Runs, CheckCancel(r)
    PROVE  BenchmarkInv'
<1>0. /\ worker' \in [Runs -> WorkerType]
      /\ worker'[r].pc \in {"drop", "poll"}
      /\ worker'[r].tries = worker[r].tries
      /\ \A s \in Runs \ {r} : worker'[s] = worker[s]
      /\ Held(r) \in Jobs
      /\ \/ worker'[r].pc = "drop" /\ active' = active \ {Held(r)} /\ kills' = kills \cup {Held(r)}
         \/ /\ worker'[r].pc = "poll" /\ r \notin asked
            /\ active' = active \cup {Held(r)} /\ kills' = kills
  <2>0. Held(r) \in Jobs /\ worker[r].pc \in Holding
    BY Holds DEF BenchmarkInv, Submitted, CheckCancel, At, Holding
  <2>1. CASE DropJob(r, "cancelled")
    BY <2>0, <2>1, DropMoves DEF BenchmarkInv
  <2>2. CASE /\ ~CancelLanded(r) /\ active' = active \cup {Held(r)}
             /\ Goto(r, "poll") /\ UNCHANGED kills
    BY <2>0, <2>2, GotoMoves DEF BenchmarkInv, WorkerPCs, CancelLanded
  <2> QED
    BY <2>1, <2>2 DEF CheckCancel
<1>1. TypeOK'
  BY <1>0 DEF BenchmarkInv, TypeOK, docs, CheckCancel
<1>2. Owned'
  BY <1>0 DEF BenchmarkInv, Owned, Alive, Idle, At, CheckCancel
<1>3. Polled'
  BY <1>0, JobRun, SidecarAssumption DEF BenchmarkInv, Polled, Held, TypeOK, At, CheckCancel
<1>4. Submitted'
  BY <1>0, SidecarAssumption DEF BenchmarkInv, Submitted, Holding, Unjudged, At, CheckCancel
<1>5. Verdicts'
  BY <1>0 DEF BenchmarkInv, Verdicts, Undecided, docs, At, CheckCancel
<1>6. Cancels'
  BY <1>0 DEF BenchmarkInv, Cancels, Held, JobLive, At, CheckCancel
<1>7. OneKind'
  BY <1>0 DEF BenchmarkInv, OneKind, CheckCancel
<1> QED
  BY <1>1, <1>2, <1>3, <1>4, <1>5, <1>6, <1>7 DEF BenchmarkInv

LEMMA PollJobKeeps ==
    ASSUME BenchmarkInv, NEW r \in Runs, PollJob(r)
    PROVE  BenchmarkInv'
<1>0. /\ worker' \in [Runs -> WorkerType]
      /\ worker'[r].pc \in {"drop", "write"}
      /\ worker'[r].tries = worker[r].tries
      /\ \A s \in Runs \ {r} : worker'[s] = worker[s]
      /\ Held(r) \in Jobs
      /\ active' = active \ {Held(r)}
      /\ kills' = kills \/ kills' = kills \cup {Held(r)}
  <2>0. Held(r) \in Jobs /\ worker[r].pc \in Holding
    BY Holds DEF BenchmarkInv, Submitted, PollJob, At, Holding
  <2>1. CASE active' = active \ {Held(r)} /\ Goto(r, "write") /\ UNCHANGED kills
    BY <2>0, <2>1, GotoMoves DEF BenchmarkInv, WorkerPCs
  <2>2. ASSUME NEW why \in {"failed", "cancelled"}, DropJob(r, why)
        PROVE  /\ worker' \in [Runs -> WorkerType]
               /\ worker'[r].pc = "drop"
               /\ worker'[r].tries = worker[r].tries
               /\ \A s \in Runs \ {r} : worker'[s] = worker[s]
               /\ active' = active \ {Held(r)}
               /\ kills' = kills \cup {Held(r)}
    BY <2>0, <2>2, DropMoves DEF BenchmarkInv
  <2>3. \/ active' = active \ {Held(r)} /\ Goto(r, "write") /\ UNCHANGED kills
        \/ \E why \in {"failed", "cancelled"} : DropJob(r, why)
    BY DEF PollJob
  <2> QED
    BY <2>0, <2>1, <2>2, <2>3
<1>a. left' \in Nat
  BY DEF BenchmarkInv, TypeOK, PollJob, Spend
<1>1. TypeOK'
  BY <1>0, <1>a DEF BenchmarkInv, TypeOK, docs, PollJob
<1>2. Owned'
  BY <1>0, <1>a DEF BenchmarkInv, Owned, Alive, Idle, At, PollJob
<1>3. Polled'
  BY <1>0, <1>a, JobRun, SidecarAssumption DEF BenchmarkInv, Polled, Held, TypeOK, At, PollJob
<1>4. Submitted'
  BY <1>0, <1>a, SidecarAssumption DEF BenchmarkInv, Submitted, Holding, Unjudged, At, PollJob
<1>5. Verdicts'
  BY <1>0, <1>a DEF BenchmarkInv, Verdicts, Undecided, docs, At, PollJob
<1>6. Cancels'
  BY <1>0, <1>a DEF BenchmarkInv, Cancels, Held, JobLive, At, PollJob
<1>7. OneKind'
  BY <1>0, <1>a DEF BenchmarkInv, OneKind, PollJob
<1> QED
  BY <1>1, <1>2, <1>3, <1>4, <1>5, <1>6, <1>7 DEF BenchmarkInv

LEMMA DropEndsKeeps ==
    ASSUME BenchmarkInv, NEW r \in Runs, DropEnds(r)
    PROVE  BenchmarkInv'
<1>0. /\ worker' \in [Runs -> WorkerType]
      /\ worker'[r].pc = "persist"
      /\ worker'[r].tries = worker[r].tries
      /\ \A s \in Runs \ {r} : worker'[s] = worker[s]
      /\ asked' \in SUBSET Runs
      /\ asked' \subseteq asked
  BY FailsMoves DEF BenchmarkInv, DropEnds
<1>1. TypeOK'
  BY <1>0 DEF BenchmarkInv, TypeOK, docs, wire, DropEnds
<1>2. Owned'
  BY <1>0 DEF BenchmarkInv, Owned, Alive, Idle, At, DropEnds
<1>3. Polled'
  BY <1>0, JobRun, SidecarAssumption DEF BenchmarkInv, Polled, Held, TypeOK, At, DropEnds
<1>4. Submitted'
  BY <1>0, SidecarAssumption DEF BenchmarkInv, Submitted, Holding, Unjudged, At, DropEnds
<1>5. Verdicts'
  BY <1>0 DEF BenchmarkInv, Verdicts, Undecided, docs, At, DropEnds
<1>6. Cancels'
  BY <1>0 DEF BenchmarkInv, Cancels, Held, JobLive, wire, At, DropEnds
<1>7. OneKind'
  BY <1>0 DEF BenchmarkInv, OneKind, DropEnds
<1> QED
  BY <1>1, <1>2, <1>3, <1>4, <1>5, <1>6, <1>7 DEF BenchmarkInv

LEMMA WriteDoneKeeps ==
    ASSUME BenchmarkInv, NEW r \in Runs, WriteDone(r)
    PROVE  BenchmarkInv'
<1>0. /\ worker' \in [Runs -> WorkerType]
      /\ worker'[r].pc \in {"finish", "persist"}
      /\ worker'[r].tries = worker[r].tries
      /\ \A s \in Runs \ {r} : worker'[s] = worker[s]
      /\ asked' \in SUBSET Runs
      /\ asked' \subseteq asked
  <2>1. CASE Goto(r, "finish") /\ UNCHANGED asked
    BY <2>1, GotoMoves DEF BenchmarkInv, TypeOK, WorkerPCs
  <2>2. CASE Fails(r, "failed")
    BY <2>2, FailsMoves DEF BenchmarkInv
  <2> QED
    BY <2>1, <2>2 DEF WriteDone, Lands
<1>a. left' \in Nat /\ (doc' = doc \/ doc' = [doc EXCEPT ![r] = "done"])
  BY DEF BenchmarkInv, TypeOK, WriteDone, Lands, Replaced, Spend
<1>1. TypeOK'
  BY <1>0, <1>a DEF BenchmarkInv, TypeOK, DocStatus, wire, WriteDone
<1>2. Owned'
  BY <1>0, <1>a DEF BenchmarkInv, Owned, Alive, Idle, At, WriteDone
<1>3. Polled'
  BY <1>0, <1>a, JobRun, SidecarAssumption DEF BenchmarkInv, Polled, Held, TypeOK, At, WriteDone
<1>4. Submitted'
  BY <1>0, <1>a, SidecarAssumption DEF BenchmarkInv, Submitted, Holding, Unjudged, At, WriteDone
<1>5. Verdicts'
  BY <1>0, <1>a DEF BenchmarkInv, Verdicts, Undecided, TypeOK, At, WriteDone
<1>6. Cancels'
  BY <1>0, <1>a DEF BenchmarkInv, Cancels, Held, JobLive, wire, At, WriteDone
<1>7. OneKind'
  BY <1>0, <1>a DEF BenchmarkInv, OneKind, WriteDone
<1> QED
  BY <1>1, <1>2, <1>3, <1>4, <1>5, <1>6, <1>7 DEF BenchmarkInv

LEMMA PersistKeeps ==
    ASSUME BenchmarkInv, NEW r \in Runs, Persist(r)
    PROVE  BenchmarkInv'
<1>0. /\ worker' \in [Runs -> WorkerType]
      /\ worker'[r].pc = "finish"
      /\ worker'[r].tries = worker[r].tries
      /\ \A s \in Runs \ {r} : worker'[s] = worker[s]
  BY GotoMoves DEF BenchmarkInv, Persist, WorkerPCs
<1>1. TypeOK'
  BY <1>0 DEF BenchmarkInv, TypeOK, DocStatus, memory, wire, Persist, Spend, WorkerType
<1>2. Owned'
  BY <1>0 DEF BenchmarkInv, Owned, Alive, Idle, memory, At, Persist, Spend
<1>3. Polled'
  BY <1>0, JobRun, SidecarAssumption
     DEF BenchmarkInv, Polled, Held, TypeOK, memory, At, Persist, Spend
<1>4. Submitted'
  BY <1>0, SidecarAssumption DEF BenchmarkInv, Submitted, Holding, Unjudged, At, Persist, Spend
<1>5. Verdicts'
  BY <1>0 DEF BenchmarkInv, Verdicts, Undecided, TypeOK, At, Persist, Spend
<1>6. Cancels'
  BY <1>0 DEF BenchmarkInv, Cancels, Held, JobLive, memory, wire, At, Persist, Spend
<1>7. OneKind'
  BY <1>0 DEF BenchmarkInv, OneKind, memory, Persist, Spend
<1> QED
  BY <1>1, <1>2, <1>3, <1>4, <1>5, <1>6, <1>7 DEF BenchmarkInv

LEMMA FinishKeeps ==
    ASSUME BenchmarkInv, NEW r \in Runs, Finish(r)
    PROVE  BenchmarkInv'
<1>1. TypeOK'
  BY SidecarAssumption, BenchmarkAssumption
     DEF BenchmarkInv, TypeOK, WorkerType, WorkerPCs, docs, wire, Finish, Worker
<1>2. Owned'
  BY BenchmarkAssumption DEF BenchmarkInv, Owned, OneKind, Alive, Idle, TypeOK, At, Finish, Worker
<1>3. OneKind'
  BY BenchmarkAssumption DEF BenchmarkInv, OneKind, TypeOK, Finish, Worker
<1>4. Polled'
  BY BenchmarkAssumption DEF BenchmarkInv, Polled, Held, At, Finish, Worker
<1>5. Submitted'
  BY BenchmarkAssumption DEF BenchmarkInv, Submitted, Holding, At, Finish, Worker
<1>6. Verdicts'
  BY BenchmarkAssumption DEF BenchmarkInv, Verdicts, Undecided, docs, At, Finish, Worker
<1>7. Cancels'
  BY BenchmarkAssumption DEF BenchmarkInv, Cancels, Held, JobLive, wire, At, Finish, Worker
<1> QED
  BY <1>1, <1>2, <1>3, <1>4, <1>5, <1>6, <1>7 DEF BenchmarkInv

LEMMA CancelRunKeeps ==
    ASSUME BenchmarkInv, NEW r \in Runs, CancelRun(r)
    PROVE  BenchmarkInv'
<1>1. TypeOK'
  BY SidecarAssumption, BenchmarkAssumption
     DEF BenchmarkInv, TypeOK, docs, CancelRun, SendKill, JobsOf
<1>2. Polled'
  BY BenchmarkAssumption DEF BenchmarkInv, Polled, Held, At, CancelRun, SendKill, JobsOf
<1>3. Cancels'
  BY BenchmarkAssumption
     DEF BenchmarkInv, Cancels, Held, JobLive, TypeOK, At, CancelRun, SendKill, JobsOf
<1>4. Owned' /\ OneKind' /\ Submitted' /\ Verdicts'
  BY DEF BenchmarkInv, Owned, OneKind, Submitted, Verdicts, Alive, docs, At, CancelRun, SendKill,
         JobsOf
<1> QED
  BY <1>1, <1>2, <1>3, <1>4 DEF BenchmarkInv

LEMMA DeleteRunKeeps ==
    ASSUME BenchmarkInv, NEW r \in Runs, DeleteRun(r)
    PROVE  BenchmarkInv'
<1>1. TypeOK'
  BY SidecarAssumption, BenchmarkAssumption
     DEF BenchmarkInv, TypeOK, DocStatus, memory, wire, DeleteRun
<1>2. Verdicts'
  BY BenchmarkAssumption DEF BenchmarkInv, Verdicts, At, DeleteRun
<1>3. Owned' /\ OneKind' /\ Polled' /\ Submitted' /\ Cancels'
  BY DEF BenchmarkInv, Owned, OneKind, Polled, Submitted, Cancels, Alive, Held, JobLive, memory,
         wire, At, DeleteRun
<1> QED
  BY <1>1, <1>2, <1>3 DEF BenchmarkInv

LEMMA DeleteSuiteKeeps ==
    ASSUME BenchmarkInv, DeleteSuite
    PROVE  BenchmarkInv'
<1>1. TypeOK'
  BY SidecarAssumption, BenchmarkAssumption DEF BenchmarkInv, TypeOK, docs, DeleteSuite, SendKill
<1>2. Polled'
  BY BenchmarkAssumption DEF BenchmarkInv, Polled, DeleteSuite, SendKill
<1>3. Cancels'
  BY BenchmarkAssumption DEF BenchmarkInv, Cancels, Held, JobLive, At, DeleteSuite, SendKill
<1>4. Owned' /\ OneKind' /\ Submitted' /\ Verdicts'
  BY DEF BenchmarkInv, Owned, OneKind, Submitted, Verdicts, Alive, docs, At, DeleteSuite, SendKill
<1> QED
  BY <1>1, <1>2, <1>3, <1>4 DEF BenchmarkInv

LEMMA RemoveSuiteKeeps ==
    ASSUME BenchmarkInv, RemoveSuite
    PROVE  BenchmarkInv'
<1>1. TypeOK'
  <2>1. /\ doc' \in [Runs -> DocStatus] /\ recorded' \in [Runs -> Jobs \cup {None}]
        /\ suite' \in BOOLEAN /\ deleting' = None
    BY DEF RemoveSuite, DocStatus
  <2>2. UNCHANGED <<memory, worker, get, sweep, wire, left>>
    BY DEF RemoveSuite
  <2> QED
    BY <2>1, <2>2 DEF BenchmarkInv, TypeOK, memory, wire
<1>2. Verdicts'
  BY BenchmarkAssumption DEF BenchmarkInv, Verdicts, At, RemoveSuite
<1>3. Owned' /\ OneKind' /\ Polled' /\ Submitted' /\ Cancels'
  BY DEF BenchmarkInv, Owned, OneKind, Polled, Submitted, Cancels, Alive, Held, JobLive, memory,
         wire, At, RemoveSuite
<1> QED
  BY <1>1, <1>2, <1>3 DEF BenchmarkInv

LEMMA GetRunKeeps ==
    ASSUME BenchmarkInv, NEW r \in Runs, GetRun(r)
    PROVE  BenchmarkInv'
<1>1. TypeOK'
  BY SidecarAssumption, BenchmarkAssumption
     DEF BenchmarkInv, TypeOK, GetPCs, docs, memory, wire, GetRun
<1>2. Verdicts'
  BY BenchmarkAssumption DEF BenchmarkInv, Owned, Verdicts, Idle, docs, At, GetRun
<1>3. Owned' /\ OneKind' /\ Polled' /\ Submitted' /\ Cancels'
  BY DEF BenchmarkInv, Owned, OneKind, Polled, Submitted, Cancels, Alive, Held, JobLive, memory,
         wire, At, GetRun
<1> QED
  BY <1>1, <1>2, <1>3 DEF BenchmarkInv

LEMMA ProbeRunKeeps ==
    ASSUME BenchmarkInv, NEW r \in Runs, ProbeRun(r)
    PROVE  BenchmarkInv'
<1>1. TypeOK'
  <2>1. left' \in Nat /\ get' \in [Runs -> GetPCs]
    BY DEF BenchmarkInv, TypeOK, GetPCs, ProbeRun, Spend
  <2>2. UNCHANGED <<docs, memory, worker, deleting, sweep, wire>>
    BY DEF ProbeRun
  <2> QED
    BY <2>1, <2>2 DEF BenchmarkInv, TypeOK, docs, memory, wire
<1>2. Verdicts'
  BY BenchmarkAssumption DEF BenchmarkInv, Verdicts, TypeOK, docs, At, ProbeRun, Spend
<1>3. Owned' /\ OneKind' /\ Polled' /\ Submitted' /\ Cancels'
  BY DEF BenchmarkInv, Owned, OneKind, Polled, Submitted, Cancels, Alive, Held, JobLive, memory,
         wire, At, ProbeRun, Spend
<1> QED
  BY <1>1, <1>2, <1>3 DEF BenchmarkInv

LEMMA MarkRunKeeps ==
    ASSUME BenchmarkInv, NEW r \in Runs, MarkRun(r)
    PROVE  BenchmarkInv'
<1>1. TypeOK'
  <2>1. left' \in Nat /\ get' \in [Runs -> GetPCs]
    BY DEF BenchmarkInv, TypeOK, GetPCs, MarkRun, Spend
  <2>2. doc' \in [Runs -> DocStatus]
    BY DEF BenchmarkInv, TypeOK, MarkRun, Interrupted, DocStatus
  <2>3. UNCHANGED <<suite, recorded, memory, worker, deleting, sweep, wire>>
    BY DEF MarkRun
  <2> QED
    BY <2>1, <2>2, <2>3 DEF BenchmarkInv, TypeOK, memory, wire
<1>2. Verdicts'
  BY BenchmarkAssumption DEF BenchmarkInv, Verdicts, TypeOK, At, MarkRun, Interrupted, Spend
<1>3. Owned' /\ OneKind' /\ Polled' /\ Submitted' /\ Cancels'
  BY DEF BenchmarkInv, Owned, OneKind, Polled, Submitted, Cancels, Alive, Held, JobLive, memory,
         wire, At, MarkRun, Interrupted, Spend
<1> QED
  BY <1>1, <1>2, <1>3 DEF BenchmarkInv

LEMMA SweepStepKeeps ==
    ASSUME BenchmarkInv, SweepStep
    PROVE  BenchmarkInv'
<1>1. TypeOK'
  <2>1. sweep' \in SweepType /\ left' \in Nat
    <3>0. /\ sweep \in SweepType /\ left \in Nat
          /\ doc \in [Runs -> DocStatus] /\ recorded \in [Runs -> Jobs \cup {None}]
      BY DEF BenchmarkInv, TypeOK
    <3>a. NoSweep \in SweepType
      BY DEF NoSweep, SweepType
    <3>1. CASE SweepNotes
      BY <3>0, <3>1 DEF SweepNotes, SweepType
    <3>2. CASE SweepReads
      <4>1. {<<r, recorded[r]>> : r \in Unnoted} \in SUBSET (Runs \X (Jobs \cup {None}))
        BY <3>0 DEF Unnoted
      <4>2. left' \in Nat
        BY <3>0, <3>2 DEF SweepReads, Spend
      <4>3. \/ sweep' = [sweep EXCEPT !.pc = "rows", !.noted = {},
                                      !.rows = {<<r, recorded[r]>> : r \in Unnoted}]
            \/ sweep' = NoSweep
        BY <3>2 DEF SweepReads
      <4>4. [sweep EXCEPT !.pc = "rows", !.noted = {},
                          !.rows = {<<r, recorded[r]>> : r \in Unnoted}] \in SweepType
        BY <3>0, <4>1 DEF SweepType
      <4> QED
        BY <3>a, <4>2, <4>3, <4>4
    <3>3. ASSUME NEW row \in sweep.rows, SweepProbes(row)
          PROVE  sweep' \in SweepType /\ left' \in Nat
      <4>1. row[1] \in Runs /\ sweep.rows \ {row} \in SUBSET (Runs \X (Jobs \cup {None}))
        BY <3>0 DEF SweepType
      <4>2. left' \in Nat
        BY <3>0, <3>3 DEF SweepProbes, Spend
      <4>3. \/ sweep' = [sweep EXCEPT !.rows = @ \ {row}]
            \/ sweep' = [sweep EXCEPT !.pc = "mark", !.rows = @ \ {row}, !.r = row[1]]
        BY <3>3 DEF SweepProbes
      <4> QED
        BY <3>0, <4>1, <4>2, <4>3 DEF SweepType
    <3>4. CASE SweepMarks
      <4>1. left' \in Nat
        BY <3>0, <3>4 DEF SweepMarks, Spend
      <4>2. sweep' \in {NoSweep, NextRow}
        BY <3>4 DEF SweepMarks
      <4>3. NextRow \in SweepType
        BY <3>0 DEF NextRow, SweepType
      <4> QED
        BY <3>a, <4>1, <4>2, <4>3
    <3>5. CASE SweepEnds
      BY <3>0, <3>5 DEF SweepEnds, NoSweep, SweepType
    <3> QED
      BY <3>1, <3>2, <3>3, <3>4, <3>5 DEF SweepStep
  <2>2. /\ doc' \in [Runs -> DocStatus]
        /\ UNCHANGED <<suite, recorded, memory, worker, get, deleting, wire>>
    BY DEF BenchmarkInv, TypeOK, DocStatus, SweepStep, SweepNotes, SweepReads, SweepProbes,
           SweepMarks, SweepEnds, Interrupted, docs
  <2> QED
    BY <2>1, <2>2 DEF BenchmarkInv, TypeOK, memory, wire
<1>2. Verdicts'
  <2>1. \A r \in Runs : doc'[r] = doc[r] \/ (doc[r] # "none" /\ doc'[r] = "failed")
    BY DEF BenchmarkInv, TypeOK, SweepStep, SweepNotes, SweepReads, SweepProbes, SweepMarks,
           SweepEnds, Interrupted, docs
  <2>2. UNCHANGED <<worker, get>>
    BY DEF SweepStep, SweepNotes, SweepReads, SweepProbes, SweepMarks, SweepEnds
  <2> QED
    BY <2>1, <2>2 DEF BenchmarkInv, Verdicts, At
<1>3. Owned' /\ OneKind' /\ Polled' /\ Submitted' /\ Cancels'
  BY DEF BenchmarkInv, Owned, OneKind, Polled, Submitted, Cancels, Alive, Held, JobLive, memory,
         wire, At, SweepStep, SweepNotes, SweepReads, SweepProbes, SweepMarks, SweepEnds,
         Interrupted, Unnoted, NoSweep, Spend
<1> QED
  BY <1>1, <1>2, <1>3 DEF BenchmarkInv

LEMMA JudgeKeeps ==
    ASSUME BenchmarkInv, NEW j \in Jobs, Judge(j)
    PROVE  BenchmarkInv'
<1>1. TypeOK'
  BY SidecarAssumption, BenchmarkAssumption
     DEF BenchmarkInv, TypeOK, JobStatus, docs, memory, others, Judge, JobEnds
<1>2. Cancels'
  BY BenchmarkAssumption
     DEF BenchmarkInv, Cancels, Held, JobLive, memory, others, At, Judge, JobEnds
<1>3. Owned' /\ OneKind' /\ Polled' /\ Submitted' /\ Verdicts'
  BY DEF BenchmarkInv, Owned, OneKind, Polled, Submitted, Verdicts, Alive, Held, docs, memory,
         others, At, Judge, JobEnds
<1> QED
  BY <1>1, <1>2, <1>3 DEF BenchmarkInv

LEMMA KillArrivesKeeps ==
    ASSUME BenchmarkInv, NEW j \in Jobs, KillArrives(j)
    PROVE  BenchmarkInv'
<1>1. TypeOK'
  BY SidecarAssumption, BenchmarkAssumption
     DEF BenchmarkInv, TypeOK, JobStatus, docs, memory, others, KillArrives, CancelJob
<1>2. Cancels'
  BY BenchmarkAssumption
     DEF BenchmarkInv, Cancels, Held, JobLive, TypeOK, memory, others, At, KillArrives, CancelJob
<1>3. Owned' /\ OneKind' /\ Polled' /\ Submitted' /\ Verdicts'
  BY DEF BenchmarkInv, Owned, OneKind, Polled, Submitted, Verdicts, Alive, Held, docs, memory,
         others, At, KillArrives, CancelJob
<1> QED
  BY <1>1, <1>2, <1>3 DEF BenchmarkInv

LEMMA KillLostKeeps ==
    ASSUME BenchmarkInv, NEW j \in Jobs, KillLost(j)
    PROVE  BenchmarkInv'
<1>1. TypeOK'
  BY SidecarAssumption, BenchmarkAssumption
     DEF BenchmarkInv, TypeOK, docs, memory, others, KillLost, Spend
<1>2. Cancels'
  BY BenchmarkAssumption
     DEF BenchmarkInv, Cancels, Held, JobLive, memory, others, At, KillLost, Spend
<1>3. Owned' /\ OneKind' /\ Polled' /\ Submitted' /\ Verdicts'
  BY DEF BenchmarkInv, Owned, OneKind, Polled, Submitted, Verdicts, Alive, Held, docs, memory,
         others, At, KillLost, Spend
<1> QED
  BY <1>1, <1>2, <1>3 DEF BenchmarkInv

LEMMA SidecarRestartsKeeps ==
    ASSUME BenchmarkInv, SidecarRestarts
    PROVE  BenchmarkInv'
<1>1. TypeOK'
  BY SidecarAssumption, BenchmarkAssumption
     DEF BenchmarkInv, TypeOK, JobStatus, docs, memory, others, SidecarRestarts, RestartSidecar,
         Spend
<1>2. Cancels'
  BY BenchmarkAssumption
     DEF BenchmarkInv, Submitted, Cancels, Held, Holding, JobLive, Jobs, TypeOK, WorkerType, others,
         At, SidecarRestarts, RestartSidecar, Spend
<1>3. Owned' /\ OneKind' /\ Polled' /\ Submitted' /\ Verdicts'
  BY DEF BenchmarkInv, Owned, OneKind, Polled, Submitted, Verdicts, Alive, Held, docs, memory,
         others, At, SidecarRestarts, RestartSidecar, Spend
<1> QED
  BY <1>1, <1>2, <1>3 DEF BenchmarkInv

LEMMA ServerCrashKeeps ==
    ASSUME BenchmarkInv, ServerCrash
    PROVE  BenchmarkInv'
<1>0. PICK saved \in SUBSET Saving :
         /\ doc' = [r \in Runs |-> IF r \in saved THEN "running" ELSE doc[r]]
         /\ worker' = [r \in Runs |-> IF At(r, "new") THEN worker[r]
                                     ELSE IF At(r, "orphan") \/ r \in saved THEN Worker("orphan")
                                     ELSE Worker("off")]
  BY DEF ServerCrash
<1>1. TypeOK'
  <2>1. worker' \in [Runs -> WorkerType]
    BY <1>0, SidecarAssumption DEF BenchmarkInv, TypeOK, Worker, WorkerType, WorkerPCs
  <2>2. sweep' \in SweepType /\ left' \in Nat
    BY DEF BenchmarkInv, TypeOK, ServerCrash, NoSweep, SweepType, Spend
  <2>3. doc' \in [Runs -> DocStatus] /\ get' \in [Runs -> GetPCs]
    BY <1>0 DEF BenchmarkInv, TypeOK, ServerCrash, DocStatus, GetPCs
  <2>4. /\ inFlight' = None /\ rescoring' = {} /\ asked' = {} /\ active' = {}
        /\ deleting' = None /\ kills' \in SUBSET kills
        /\ UNCHANGED <<suite, recorded, job, lost>>
    BY DEF ServerCrash
  <2> QED
    BY <2>1, <2>2, <2>3, <2>4 DEF BenchmarkInv, TypeOK
<1>a. \A r \in Runs :
         /\ worker'[r].pc \in {"new", "orphan", "off"}
         /\ worker'[r].pc = "new" => worker'[r] = worker[r]
         /\ worker'[r].pc \in {"orphan", "off"} => worker'[r].tries = 0
  BY <1>0 DEF At, Worker
<1>2. Owned'
  BY <1>a, BenchmarkAssumption DEF BenchmarkInv, Owned, Alive, Idle, At, ServerCrash
<1>3. OneKind' /\ Polled'
  BY DEF OneKind, Polled, ServerCrash
<1>4. Submitted'
  BY <1>a DEF BenchmarkInv, Submitted, Unjudged, Holding, At
<1>5. Verdicts'
  <2>1. ASSUME NEW r \in Runs, worker'[r].pc = "new"
        PROVE  doc'[r] = "none" /\ get'[r] = "idle"
    <3>1. worker[r].pc = "new" /\ r \notin saved
      BY <1>a, <2>1 DEF Saving, At
    <3> QED
      BY <1>0, <3>1 DEF BenchmarkInv, Verdicts, At, ServerCrash
  <2>2. ASSUME NEW r \in Runs, worker'[r].pc = "orphan"
        PROVE  doc'[r] \notin {"done", "cancelled"}
    BY <1>0, <2>2 DEF BenchmarkInv, Verdicts, At, Worker
  <2>3. ASSUME NEW r \in Runs, get'[r] # "idle"
        PROVE  doc'[r] \notin {"done", "cancelled"}
    BY <1>0, <2>3 DEF BenchmarkInv, Verdicts, ServerCrash
  <2> QED
    BY <1>a, <2>1, <2>2, <2>3 DEF Verdicts, Undecided, At
<1>6. Cancels'
  BY <1>a DEF Cancels, At
<1> QED
  BY <1>1, <1>2, <1>3, <1>4, <1>5, <1>6 DEF BenchmarkInv

-----------------------------------------------------------------------------
(***************************************************************************)
(* The theorems.                                                           *)
(***************************************************************************)
LEMMA InitInv == Init => BenchmarkInv
<1> SUFFICES ASSUME Init PROVE BenchmarkInv
  OBVIOUS
<1>1. worker \in [Runs -> WorkerType] /\ sweep \in SweepType /\ left \in Nat
  BY SidecarAssumption, BenchmarkAssumption
     DEF Init, Worker, NoSweep, WorkerType, WorkerPCs, SweepType
<1>2. \A r \in Runs : worker[r].tries = 0 /\ worker[r].pc = IF r \in Finished THEN "off" ELSE "new"
  BY DEF Init, Worker
<1>3. TypeOK
  BY <1>1 DEF Init, TypeOK, JobStatus, DocStatus, GetPCs
<1>4. Owned /\ OneKind /\ Polled /\ Submitted /\ Verdicts /\ Cancels
  BY <1>2, BenchmarkAssumption
     DEF Init, Owned, OneKind, Polled, Submitted, Verdicts, Cancels, Alive, Idle, At, Holding,
         Undecided
<1> QED
  BY <1>3, <1>4 DEF BenchmarkInv

LEMMA RunStep ==
    ASSUME BenchmarkInv, NEW r \in Runs,
           \/ BeginRun(r) \/ SaveFails(r) \/ WorkerStep(r)
           \/ \E src \in Runs : BeginRescore(r, src)
           \/ CancelRun(r) \/ DeleteRun(r) \/ GetRun(r) \/ ProbeRun(r) \/ MarkRun(r)
    PROVE  BenchmarkInv'
<1>1. CASE WorkerStep(r)
  BY <1>1, SavePlaceholderKeeps, SaveCopyKeeps, LoadRunKeeps, AnswersEndKeeps, WriteFailedKeeps,
     SubmitKeeps, RecordJobKeeps, CheckCancelKeeps, PollJobKeeps, DropEndsKeeps, WriteDoneKeeps,
     PersistKeeps, FinishKeeps
     DEF WorkerStep
<1>2. CASE BeginRun(r) \/ SaveFails(r) \/ \E src \in Runs : BeginRescore(r, src)
  BY <1>2, BeginRunKeeps, SaveFailsKeeps, BeginRescoreKeeps
<1>3. CASE CancelRun(r) \/ DeleteRun(r) \/ GetRun(r) \/ ProbeRun(r) \/ MarkRun(r)
  BY <1>3, CancelRunKeeps, DeleteRunKeeps, GetRunKeeps, ProbeRunKeeps, MarkRunKeeps
<1> QED
  BY <1>1, <1>2, <1>3

LEMMA StutterKeeps == BenchmarkInv /\ UNCHANGED vars => BenchmarkInv'
  BY DEF BenchmarkInv, TypeOK, Owned, OneKind, Polled, Submitted, Verdicts, Cancels, Alive, At,
         Held, JobLive, vars

(* Every step of the server, of the sidecar or of their restarts preserves *)
(* the inductive invariant.                                                *)
THEOREM BenchmarkStep == BenchmarkInv /\ [Next]_vars => BenchmarkInv'
<1> SUFFICES ASSUME BenchmarkInv, [Next]_vars PROVE BenchmarkInv'
  OBVIOUS
<1>1. CASE RunNext
  BY <1>1, RunStep DEF RunNext
<1>2. CASE DeleteSuite
  BY <1>2, DeleteSuiteKeeps
<1>3. CASE RemoveSuite
  BY <1>3, RemoveSuiteKeeps
<1>4. CASE SweepStep
  BY <1>4, SweepStepKeeps
<1>5. CASE SidecarNext
  BY <1>5, JudgeKeeps, KillArrivesKeeps, KillLostKeeps, SidecarRestartsKeeps DEF SidecarNext
<1>6. CASE ServerCrash
  BY <1>6, ServerCrashKeeps
<1>7. CASE UNCHANGED vars
  BY <1>7, StutterKeeps
<1> QED
  BY <1>1, <1>2, <1>3, <1>4, <1>5, <1>6, <1>7 DEF Next

(* In-flight entries and workers match, the registered jobs are those being *)
(* polled, no poll is about to fail a run that lives or was decided, a run  *)
(* that still has its last write before it is not decided, and a cancel     *)
(* finds the job it must stop.                                              *)
THEOREM BenchmarkInvariant == Spec => []BenchmarkInv
<1>1. BenchmarkInv /\ [Next]_vars => BenchmarkInv'
  BY BenchmarkStep
<1> QED
  BY <1>1, InitInv, PTL DEF Spec

LEMMA CancelsReach == BenchmarkInv => CancelReachesJob
  BY DEF BenchmarkInv, Cancels, CancelReachesJob

(* A cancel reaches the judge at whatever point of a run it lands. *)
THEOREM CancelReaches == Spec => []CancelReachesJob
  BY BenchmarkInvariant, CancelsReach, PTL

(* The steps that leave every document alone. *)
LEMMA DocKept ==
    ASSUME NEW r \in Runs,
           \/ BeginRun(r) \/ \E src \in Runs : BeginRescore(r, src)
           \/ LoadRun(r) \/ AnswersEnd(r) \/ Submit(r) \/ RecordJob(r) \/ CheckCancel(r)
           \/ PollJob(r) \/ DropEnds(r) \/ Finish(r) \/ CancelRun(r) \/ GetRun(r) \/ ProbeRun(r)
    PROVE  doc' = doc
  BY DEF BeginRun, BeginRescore, LoadRun, AnswersEnd, Submit, RecordJob, CheckCancel,
         PollJob, DropEnds, Finish, CancelRun, GetRun, ProbeRun, docs

(* The steps of a run that write its document. *)
LEMMA DocWritten ==
    ASSUME BenchmarkInv, NEW r \in Runs,
           \/ SavePlaceholder(r) \/ SaveCopy(r) \/ SaveFails(r)
           \/ WriteFailed(r) \/ WriteDone(r) \/ Persist(r) \/ DeleteRun(r) \/ MarkRun(r)
    PROVE  VerdictKept
<1>1. \A s \in Runs \ {r} : doc'[s] = doc[s]
  BY DEF BenchmarkInv, TypeOK, SavePlaceholder, SaveCopy, SaveFails, WriteFailed, WriteDone,
         Persist, Lands, Replaced, DeleteRun, MarkRun, Interrupted
<1>2. CASE DeleteRun(r)
  BY <1>1, <1>2 DEF BenchmarkInv, DeleteRun, VerdictKept
<1>3. CASE doc[r] \notin {"done", "cancelled"}
  BY <1>1, <1>3 DEF VerdictKept
<1>4. CASE Persist(r)
  <2>1. doc[r] # "cancelled"
    BY <1>4 DEF BenchmarkInv, Verdicts, Persist
  <2> QED
    BY <1>1, <1>4, <2>1 DEF VerdictKept
<1>5. CASE MarkRun(r)
  BY <1>3, <1>5 DEF BenchmarkInv, Verdicts, MarkRun
<1>6. CASE SavePlaceholder(r) \/ SaveCopy(r) \/ SaveFails(r)
  BY <1>3, <1>6 DEF BenchmarkInv, Verdicts, SavePlaceholder, SaveCopy, SaveFails, At
<1>7. CASE WriteFailed(r) \/ WriteDone(r)
  BY <1>3, <1>7 DEF BenchmarkInv, Verdicts, Undecided, WriteFailed, WriteDone, At
<1> QED
  BY <1>2, <1>4, <1>5, <1>6, <1>7

(* A crash leaves a placeholder behind only where there was no document. *)
LEMMA CrashKeepsVerdicts ==
    ASSUME BenchmarkInv, ServerCrash
    PROVE  VerdictKept
<1>1. ASSUME NEW r \in Runs, doc'[r] # doc[r]
      PROVE  r \in Saving
  BY <1>1 DEF ServerCrash
<1> QED
  BY <1>1 DEF BenchmarkInv, Verdicts, Saving, At, VerdictKept

(* A run that ended well or as cancelled keeps its verdict, whatever polls, *)
(* other workers and requests do beside it, until it is deleted; only the   *)
(* sweep at the start of the server may still fail it, and its own worker   *)
(* the verdict of a run that is done, in the catch block it enters when the *)
(* answer to its last write was lost.                                       *)
THEOREM VerdictsFinal == Spec => VerdictFinal
<1>1. ASSUME BenchmarkInv, [Next]_vars PROVE [VerdictKept]_vars
  <2>1. CASE RunNext
    BY <1>1, <2>1, DocKept, DocWritten DEF RunNext, WorkerStep, VerdictKept
  <2>2. CASE DeleteSuite \/ SidecarNext \/ UNCHANGED vars
    BY <2>2
       DEF DeleteSuite, SidecarNext, SidecarRestarts, Judge, KillArrives, KillLost, vars, docs,
           others, VerdictKept
  <2>3. CASE RemoveSuite
    BY <2>3 DEF RemoveSuite, VerdictKept
  <2>4. CASE SweepStep
    BY <1>1, <2>4
       DEF BenchmarkInv, TypeOK, SweepStep, SweepNotes, SweepReads, SweepProbes, SweepMarks,
           SweepEnds, Interrupted, docs, VerdictKept
  <2>5. CASE ServerCrash
    BY <1>1, <2>5, CrashKeepsVerdicts
  <2> QED
    BY <1>1, <2>1, <2>2, <2>3, <2>4, <2>5 DEF Next
<1> QED
  BY <1>1, BenchmarkInvariant, PTL DEF Spec, VerdictFinal
=============================================================================

