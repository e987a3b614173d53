--------------------------- MODULE HeadSuiteRuns ----------------------------
(***************************************************************************)
(* The runs of a head test suite: each is a detached worker under a lock   *)
(* of its suite, which asks every row, writes the corpus verdicts back to  *)
(* the suite it read at first and replaces its placeholder by the results; *)
(* beside it the polls of the panel and the sweep at boot.  The lock and   *)
(* the worker are memory of the process, the documents are not.            *)
(***************************************************************************)
EXTENDS HeadSuite

RunStatus == {"none", "running", "done", "failed", "gone"}

(* "lost": the placeholder was saved, but the answer was lost and nobody   *)
(* was told the key; "off": the promise chain has ended.                   *)
WorkerPCs ==
    {"new", "check", "save", "load", "probe", "write", "catch", "free", "lost", "off"}

WorkerType == [ pc   : WorkerPCs,
                s    : Suites \cup {None},
                rows : SUBSET Rows ]

NoWorker == [pc |-> "new", s |-> None, rows |-> {}]

others == <<suite, generation, edit>>

At(r, pc) == worker[r].pc = pc

(* The copy of the suite is forgotten when it is not needed any more. *)
Goto(r, pc) == worker' = [worker EXCEPT ![r].pc = pc, ![r].rows = {}]

Free(s) == lock' = [lock EXCEPT ![s] = None]

-----------------------------------------------------------------------------
(***************************************************************************)
(* beginRunSuite: the suite is read, then the lock checked and taken in    *)
(* one turn, and then the placeholder saved.                               *)
(***************************************************************************)
BeginRun(r, s) ==
    /\ At(r, "new")
    /\ suite[s] # None
    /\ worker' = [worker EXCEPT ![r] = [NoWorker EXCEPT !.pc = "check", !.s = s]]
    /\ UNCHANGED <<others, run, lock, poll, sweeping, left>>

CheckLock(r) ==
    /\ At(r, "check")
    /\ IF lock[worker[r].s] = None
         THEN /\ lock' = [lock EXCEPT ![worker[r].s] = r]
              /\ Goto(r, "save")
         ELSE /\ worker' = [worker EXCEPT ![r] = NoWorker]
              /\ UNCHANGED lock
    /\ UNCHANGED <<others, run, poll, sweeping, left>>

SavePlaceholder(r) ==
    /\ At(r, "save")
    /\ run' = [run EXCEPT ![r] = "running"]
    /\ Goto(r, "load")
    /\ UNCHANGED <<others, lock, poll, sweeping, left>>

Unlock_Leak(r) == UNCHANGED lock   \* mutant: the lock survives a placeholder that was not saved

Unlock(r) == Free(worker[r].s)

SaveFails(r) ==
    /\ At(r, "save")
    /\ Spend("db")
    /\ Unlock(r)
    /\ worker' = [worker EXCEPT ![r] = NoWorker]
    /\ UNCHANGED <<others, run, poll, sweeping>>

PlaceholderUnacked(r) ==
    /\ At(r, "save")
    /\ Spend("db")
    /\ run' = [run EXCEPT ![r] = "running"]
    /\ Unlock(r)
    /\ Goto(r, "lost")
    /\ UNCHANGED <<others, poll, sweeping>>

-----------------------------------------------------------------------------
(***************************************************************************)
(* runSuite, and the handlers beginRunSuite attaches to it.                *)
(***************************************************************************)
LoadSuite(r) ==
    /\ At(r, "load")
    /\ LET rows == suite[worker[r].s]
       IN  IF rows = None THEN Goto(r, "catch")
           ELSE \/ Goto(r, "write")
                \/ worker' = [worker EXCEPT ![r].pc = "probe", ![r].rows = rows]
    /\ UNCHANGED <<others, run, lock, poll, sweeping, left>>

(* The verdicts go to the rows of the document that was read at first, and *)
(* the whole of it replaces the suite as it is now, unless it has no row   *)
(* to give a verdict to.                                                   *)
SaveVerdicts(r) ==
    /\ At(r, "probe")
    /\ LET w == worker[r]
       IN  \/ w.rows = {} /\ Goto(r, "write") /\ UNCHANGED suite
           \/ /\ suite[w.s] # None
              /\ suite' = [suite EXCEPT ![w.s] = w.rows]
              /\ Goto(r, "write")
           \/ suite[w.s] = None /\ Goto(r, "catch") /\ UNCHANGED suite
    /\ UNCHANGED <<generation, edit, run, lock, poll, sweeping, left>>

WriteResults(r) ==
    /\ At(r, "write")
    /\ IF run[r] # "gone" THEN run' = [run EXCEPT ![r] = "done"] /\ Goto(r, "free")
                          ELSE Goto(r, "catch") /\ UNCHANGED run
    /\ UNCHANGED <<others, lock, poll, sweeping, left>>

StepFails(r) ==
    /\ worker[r].pc \in {"load", "probe", "write"}
    /\ Spend("db")
    /\ Goto(r, "catch")
    /\ UNCHANGED <<others, run, lock, poll, sweeping>>

ResultsUnacked(r) ==
    /\ At(r, "write")
    /\ run[r] # "gone"
    /\ Spend("db")
    /\ run' = [run EXCEPT ![r] = "done"]
    /\ Goto(r, "catch")
    /\ UNCHANGED <<others, lock, poll, sweeping>>

WriteFailure(r) ==
    /\ At(r, "catch")
    /\ run' = [run EXCEPT ![r] = IF @ = "gone" THEN @ ELSE "failed"]
    /\ Goto(r, "free")
    /\ UNCHANGED <<others, lock, poll, sweeping, left>>

(* That write fails as well, which is logged. *)
FailureLost(r) ==
    /\ At(r, "catch")
    /\ Spend("db")
    /\ Goto(r, "free")
    /\ UNCHANGED <<others, run, lock, poll, sweeping>>

EndRun(r) ==
    /\ At(r, "free")
    /\ Free(worker[r].s)
    /\ Goto(r, "off")
    /\ UNCHANGED <<others, run, poll, sweeping, left>>

RunStep(r) ==
    \/ CheckLock(r) \/ SavePlaceholder(r) \/ SaveFails(r) \/ PlaceholderUnacked(r)
    \/ LoadSuite(r) \/ SaveVerdicts(r) \/ WriteResults(r) \/ ResultsUnacked(r)
    \/ StepFails(r) \/ WriteFailure(r) \/ FailureLost(r) \/ EndRun(r)

-----------------------------------------------------------------------------
(***************************************************************************)
(* getRunSuite: a run that holds its lock is running; one whose document   *)
(* says so without it is a ghost, and the poll writes its failure.         *)
(***************************************************************************)
Known(r) == worker[r].pc \notin {"new", "check", "save"}

LooksDead_Always(r) == TRUE   \* mutant: the document alone is asked

LooksDead(r) == lock[worker[r].s] # r

(* "told": the panel was answered "failed", and asks no more. *)
PollPCs == {"idle", "load", "reap", "told"}

(* Nobody was told the key of a lost run, but the list of runs shows it. *)
PollRun(r) ==
    /\ poll[r] \in {"idle", "told"}
    /\ Known(r)
    /\ LooksDead(r)
    /\ poll' = [poll EXCEPT ![r] = "load"]
    /\ UNCHANGED <<others, run, lock, worker, sweeping, left>>

AfterLoad_NoReap(r) == "idle"   \* mutant: a ghost is answered as it stands

AfterLoad(r) == IF run[r] = "running" THEN "reap" ELSE "idle"

PollLoads(r) ==
    /\ poll[r] = "load"
    /\ poll' = [poll EXCEPT ![r] = AfterLoad(r)]
    /\ UNCHANGED <<others, run, lock, worker, sweeping, left>>

Reap(r) ==
    /\ poll[r] = "reap"
    /\ run' = [run EXCEPT ![r] = IF @ = "gone" THEN @ ELSE "failed"]
    /\ poll' = [poll EXCEPT ![r] = "idle"]
    /\ UNCHANGED <<others, lock, worker, sweeping, left>>

(* A replace that fails is not even logged: the answer is "failed" anyway. *)
PollFails(r) ==
    /\ poll[r] \in {"load", "reap"}
    /\ Spend("db")
    /\ poll' = [poll EXCEPT ![r] = IF @ = "reap" THEN "told" ELSE "idle"]
    /\ UNCHANGED <<others, run, lock, worker, sweeping>>

PollStep(r) == PollLoads(r) \/ Reap(r) \/ PollFails(r)

-----------------------------------------------------------------------------
(***************************************************************************)
(* The server dies and starts again.  It listens before the sweep is done. *)
(***************************************************************************)
Crash ==
    /\ Spend("crash")
    /\ clicks' = 0
    /\ gate' = None
    /\ failure' = None
    /\ gen' = [s \in Suites |-> IF suite[s] # None THEN "over"
                                ELSE IF gen[s] = "new" THEN "new" ELSE "gone"]
    /\ edit' = [c \in Curators |-> NoEdit]
    /\ lock' = [s \in Suites |-> None]
    /\ worker' = [r \in Runs |-> IF At(r, "lost") THEN worker[r]
                                ELSE IF Known(r) THEN [worker[r] EXCEPT !.pc = "off", !.rows = {}]
                                ELSE NoWorker]
    /\ poll' = [r \in Runs |-> IF poll[r] = "told" THEN "told" ELSE "idle"]
    /\ sweeping' = TRUE
    /\ UNCHANGED <<suite, run>>

Swept_All(status) == IF status \in {"none", "gone"} THEN status ELSE "failed"   \* mutant: no filter

Swept(status) == IF status = "running" THEN "failed" ELSE status

Sweep ==
    /\ sweeping
    /\ sweeping' = FALSE
    /\ run' = [r \in Runs |-> Swept(run[r])]
    /\ UNCHANGED <<others, lock, worker, poll, left>>

SweepFails ==
    /\ sweeping
    /\ Spend("db")
    /\ sweeping' = FALSE
    /\ UNCHANGED <<others, run, lock, worker, poll>>
=============================================================================
