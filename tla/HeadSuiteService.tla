-------------------------- MODULE HeadSuiteService --------------------------
(***************************************************************************)
(* The head test suites of a repository as a whole: generations, curators, *)
(* runs, polls, and the restarts of the server they all live in.           *)
(***************************************************************************)
EXTENDS HeadSuiteRuns

TypeOK ==
    /\ suite \in [Suites -> (SUBSET Rows) \cup {None}]
    /\ gen \in [Suites -> GenStatus]
    /\ clicks \in 0 .. MaxClicks
    /\ gate \in Suites \cup {None}
    /\ failure \in Suites \cup {None}
    /\ edit \in [Curators -> EditType]
    /\ run \in [Runs -> RunStatus]
    /\ lock \in [Suites -> Runs \cup {None}]
    /\ worker \in [Runs -> WorkerType]
    /\ poll \in [Runs -> PollPCs]
    /\ sweeping \in BOOLEAN
    /\ left \in [Faults -> Nat]

Init ==
    /\ suite = [s \in Suites |-> None]
    /\ gen = [s \in Suites |-> "new"]
    /\ clicks = 0
    /\ gate = None
    /\ failure = None
    /\ edit = [c \in Curators |-> NoEdit]
    /\ run = [r \in Runs |-> "none"]
    /\ lock = [s \in Suites |-> None]
    /\ worker = [r \in Runs |-> NoWorker]
    /\ poll = [r \in Runs |-> "idle"]
    /\ sweeping = FALSE
    /\ left = Allowance

GenerateStep(s) == GenerateLands(s) \/ GenerateFails(s) \/ GenerateEnds(s)

GenerateNext == Click \/ Refuse \/ \E s \in Suites : Reserve(s) \/ GenerateStep(s)

CuratorNext == \E c \in Curators : EditStep(c) \/ \E s \in Touched : Open(c, s) \/ Delete(c, s)

RunNext == \E r \in Runs : RunStep(r) \/ \E s \in Touched : BeginRun(r, s)

PollNext == \E r \in Runs : PollRun(r) \/ PollStep(r)

Next == GenerateNext \/ CuratorNext \/ RunNext \/ PollNext \/ Crash \/ Sweep \/ SweepFails

Spec == Init /\ [][Next]_vars

(***************************************************************************)
(* The event loop brings the promise chain of a run and of a poll to its   *)
(* end, and the panel polls a run whose key it was told until it is        *)
(* answered that it ended.                                                 *)
(***************************************************************************)
PanelPolls(r) == poll[r] = "idle" /\ ~At(r, "lost") /\ PollRun(r)

Fairness == \A r \in Runs : WF_vars(RunStep(r)) /\ WF_vars(PanelPolls(r) \/ PollStep(r))

FairSpec == Spec /\ Fairness

-----------------------------------------------------------------------------
(***************************************************************************)
(* Safety.                                                                 *)
(***************************************************************************)

(* The gate is held by the one generation that is under way, which         *)
(* superseded the last failure.                                            *)
OneGeneration ==
    /\ \A s \in Suites : gen[s] \in {"busy", "landed", "failed"} <=> gate = s
    /\ gate # None => failure = None

(* A suite is there when it landed, and not before nor after its key is gone. *)
SuiteLanded ==
    \A s \in Suites :
        /\ gen[s] = "landed" => suite[s] # None
        /\ gen[s] \in {"new", "busy", "gone"} => suite[s] = None

(* A poll of a generated key always has an answer (getSuite): it is still  *)
(* generating, it failed and the failure is kept, or the suite is there;   *)
(* unless it was deleted, or a later generation or a restart gave it up.   *)
GenerationAnswered ==
    \A s \in Suites : gen[s] \notin {"new", "gone"} => gate = s \/ failure = s \/ suite[s] # None

(* No text is both positive and negative in a suite, nor in the copy of    *)
(* it that a request or a run is about to write.                           *)
Consistent ==
    /\ \A s \in Suites : suite[s] # None => ~Contradiction(suite[s])
    /\ \A c \in Curators : ~Contradiction(edit[c].rows)
    /\ \A r \in Runs : ~Contradiction(worker[r].rows)

(* The lock of a suite is held by the worker of the run it names, from     *)
(* before its placeholder is saved until after its last write.             *)
Working == {"save", "load", "probe", "write", "catch", "free"}

LockedRun ==
    \A r \in Runs, s \in Suites :
        lock[s] = r <=> worker[r].pc \in Working /\ worker[r].s = s

HasSuite == \A r \in Runs : At(r, "new") \/ worker[r].s \in Suites

Placeholder == \A r \in Runs : run[r] = "none" <=> ~Known(r)

(* Results are the last thing a worker writes, unless it does not learn    *)
(* that they were written.                                                 *)
DoneIsLast == \A r \in Runs : run[r] = "done" => worker[r].pc \in {"catch", "free", "off"}

(* No poll is about to fail a run whose worker lives, or that has results: *)
(* its look at the lock, its read and its write are three moments          *)
(* (getRunSuite).                                                          *)
LiveRunNotReaped ==
    \A r \in Runs :
        /\ poll[r] # "idle" => At(r, "off") \/ At(r, "lost")
        /\ poll[r] = "reap" => run[r] # "done"

(* A request has the suite it asked for, and a deletion is not under way   *)
(* while its suite is generated.                                           *)
EditOpen ==
    \A c \in Curators :
        /\ edit[c].pc = "idle" \/ edit[c].s \in Suites
        /\ edit[c].pc = "remove" => gen[edit[c].s] \in {"over", "gone"}

GenInv == OneGeneration /\ SuiteLanded /\ GenerationAnswered /\ EditOpen

RunInv == LockedRun /\ HasSuite /\ Placeholder /\ DoneIsLast /\ LiveRunNotReaped

(* The inductive invariant of HeadSuite_proofs. *)
SuiteInv == TypeOK /\ GenInv /\ Consistent /\ RunInv

(* Results stay until the suite is deleted: no poll and no boot sweep ever *)
(* writes a failure over them, only the worker itself does, when the       *)
(* answer to its last write was lost.                                      *)
ResultsStay ==
    [][\A r \in Runs :
          run[r] = "done" => run'[r] \in {"done", "gone"} \/ WriteFailure(r)]_vars

(***************************************************************************)
(* Liveness.                                                               *)
(***************************************************************************)

Locks(r) == \E s \in Suites : lock[s] = r

(* What the panel shows as running: not a run whose key nobody was told,   *)
(* nor one that it was told has failed.                                    *)
Shown(r) == run[r] = "running" /\ ~At(r, "lost") /\ poll[r] # "told"

(* A run comes to an end: whichever step of it fails, the lock it took is  *)
(* given back, and it is not shown as running for good although its worker *)
(* died with the server, its last write failed or the sweep did: a poll    *)
(* finds it (beginRunSuite, getRunSuite).                                  *)
RunsReachEnd == \A r \in Runs : Locks(r) \/ Shown(r) ~> ~Locks(r) /\ ~Shown(r)
=============================================================================
