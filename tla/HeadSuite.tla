----------------------------- MODULE HeadSuite ------------------------------
(***************************************************************************)
(* The head test suites of one repository in the okf-server: their         *)
(* documents, the detached generation of a suite under the one-job gate,   *)
(* and the requests of curators that edit, probe, rename or delete one.    *)
(* Every one of these reads the whole document, awaits, and replaces it.   *)
(***************************************************************************)
EXTENDS Naturals, FiniteSets

CONSTANTS
    Suites,      \* the keys a suite may get
    Touched,     \* bound: the suites that curators and runs work on
    Texts,       \* query texts
    Runs,        \* the keys a run may get
    Curators,    \* requests that change a suite, at a time
    MaxClicks,   \* bound: requests to generate between their two checks
    None,        \* null
    Allowance    \* bound: how often each fault may happen

Faults == {"crash", "db"}

Kinds == {"positive", "negative"}

Rows == Texts \X Kinds

ASSUME SuiteAssumption ==
    /\ Touched \subseteq Suites
    /\ None \notin Suites \cup Runs
    /\ \A rows \in SUBSET Rows : rows # None
    /\ MaxClicks \in Nat
    /\ Allowance \in [Faults -> Nat]

VARIABLES
    suite,       \* suite[s]: the rows of suite s that have a query, or None
    gen,         \* gen[s]: where the generation of s stands
    clicks,      \* how many requests to generate are past assertFree
    gate,        \* suiteGenInFlight of the repository
    failure,     \* suiteGenFailure of the repository
    edit,        \* edit[c]: the request of curator c
    run,         \* run[r]: the status of run r's document
    lock,        \* lock[s]: suiteRunInFlight of suite s
    worker,      \* worker[r]: the promise chain of run r
    poll,        \* poll[r]: where a poll of run r by the panel stands
    sweeping,    \* whether sweepInterruptedRuns is still to run
    left         \* left[e]: how often fault e may still happen

generation == <<gen, clicks, gate, failure>>
running == <<run, lock, worker, poll, sweeping>>
vars == <<suite, gen, clicks, gate, failure, edit, run, lock, worker, poll, sweeping, left>>

(* "gone": the key was deleted, or its failure given up for a later try or *)
(* a restart, and a poll of it finds nothing.                              *)
GenStatus == {"new", "busy", "landed", "failed", "over", "gone"}

EditType == [ pc   : {"idle", "write", "remove", "runs"},
              s    : Suites \cup {None},
              rows : SUBSET Rows ]

NoEdit == [pc |-> "idle", s |-> None, rows |-> {}]

Spend(e) == left[e] > 0 /\ left' = [left EXCEPT ![e] = @ - 1]

Contradiction(rows) == \E t \in Texts : {<<t, "positive">>, <<t, "negative">>} \subseteq rows

-----------------------------------------------------------------------------
(***************************************************************************)
(* Generation: at most one per repository.  The gate is checked, the       *)
(* frontmatter read, and the gate checked again and taken.                 *)
(***************************************************************************)
Click ==
    /\ gate = None
    /\ clicks < MaxClicks
    /\ clicks' = clicks + 1
    /\ UNCHANGED <<suite, gen, gate, failure, edit, running, left>>

CanReserve_Trusting == TRUE   \* mutant: the first check is trusted

CanReserve == gate = None

Reserve(s) ==
    /\ clicks > 0
    /\ CanReserve
    /\ gen[s] = "new"
    /\ clicks' = clicks - 1
    /\ gate' = s
    /\ failure' = None
    /\ gen' = [k \in Suites |-> IF k = s THEN "busy"
                                ELSE IF k = failure /\ suite[k] = None THEN "gone" ELSE gen[k]]
    /\ UNCHANGED <<suite, edit, running, left>>

(* Another request was faster, or the repository has no frontmatter. *)
Refuse ==
    /\ clicks > 0
    /\ clicks' = clicks - 1
    /\ UNCHANGED <<suite, gen, gate, failure, edit, running, left>>

(* The classes are assembled one by one; a text that is already a positive *)
(* is dropped from the negatives.                                          *)
Assembled_Overlap(pos, neg) ==   \* mutant: the negatives are not compared with the positives
    pos \X {"positive"} \cup neg \X {"negative"}

Assembled(pos, neg) == pos \X {"positive"} \cup (neg \ pos) \X {"negative"}

Land(s) == \E pos, neg \in SUBSET Texts : suite' = [suite EXCEPT ![s] = Assembled(pos, neg)]

GenerateLands(s) ==
    /\ gen[s] = "busy"
    /\ Land(s)
    /\ gen' = [gen EXCEPT ![s] = "landed"]
    /\ UNCHANGED <<clicks, gate, failure, edit, running, left>>

(* The suite is not saved, or it is and the answer is lost. *)
GenerateFails(s) ==
    /\ gen[s] = "busy"
    /\ Spend("db")
    /\ Land(s) \/ UNCHANGED suite
    /\ gen' = [gen EXCEPT ![s] = "failed"]
    /\ UNCHANGED <<clicks, gate, failure, edit, running>>

Outcome_Silent(s) == failure   \* mutant: the failure only reaches the log

Outcome(s) == IF gen[s] = "failed" THEN s ELSE failure

GenerateEnds(s) ==
    /\ gen[s] \in {"landed", "failed"}
    /\ gate' = None
    /\ failure' = Outcome(s)
    /\ gen' = [gen EXCEPT ![s] = "over"]
    /\ UNCHANGED <<suite, clicks, edit, running, left>>

-----------------------------------------------------------------------------
(***************************************************************************)
(* Curators.  What a request asks does not matter before it writes.        *)
(***************************************************************************)
Open(c, s) ==
    /\ edit[c].pc = "idle"
    /\ suite[s] # None
    /\ edit' = [edit EXCEPT ![c] = [pc |-> "write", s |-> s, rows |-> suite[s]]]
    /\ UNCHANGED <<suite, generation, running, left>>

Added(rows, t, k) == IF {t} \X Kinds \cap rows = {} THEN rows \cup {<<t, k>>} ELSE rows

Other(k) == IF k = "positive" THEN "negative" ELSE "positive"

(* A flip moves the row to the other kind, which must not have the text;   *)
(* if there is no such row, what it pushes has no query.                   *)
Flipped(rows, t, k) ==
    IF <<t, Other(k)>> \in rows THEN (rows \ {<<t, Other(k)>>}) \cup {<<t, k>>} ELSE rows

Updates(rows) ==
    { rows \ {q} : q \in Rows } \cup { Flipped(rows, q[1], q[2]) : q \in Rows \ rows }

(* addQueries, updateSuiteRows, and what leaves the rows alone: renameSuite *)
(* and the verdict of probeSuiteQuery.                                      *)
Edited(rows) ==
    { Added(rows, q[1], q[2]) : q \in Rows }
      \cup { new \in Updates(rows) : ~Contradiction(new) }
      \cup {rows}

Replace(c) ==
    /\ edit[c].pc = "write"
    /\ suite[edit[c].s] # None
    /\ \E new \in Edited(edit[c].rows) : suite' = [suite EXCEPT ![edit[c].s] = new]
    /\ edit' = [edit EXCEPT ![c] = NoEdit]
    /\ UNCHANGED <<generation, running, left>>

(* Refused, or the suite is gone. *)
Withdraw(c) ==
    /\ edit[c].pc = "write"
    /\ edit' = [edit EXCEPT ![c] = NoEdit]
    /\ UNCHANGED <<suite, generation, running, left>>

Delete(c, s) ==
    /\ edit[c].pc = "idle"
    /\ suite[s] # None
    /\ gate # s
    /\ lock[s] = None
    /\ edit' = [edit EXCEPT ![c] = [NoEdit EXCEPT !.pc = "remove", !.s = s]]
    /\ UNCHANGED <<suite, generation, running, left>>

Remove(c) ==
    /\ edit[c].pc = "remove"
    /\ IF suite[edit[c].s] # None
         THEN /\ suite' = [suite EXCEPT ![edit[c].s] = None]
              /\ gen' = [gen EXCEPT ![edit[c].s] = "gone"]
              /\ edit' = [edit EXCEPT ![c].pc = "runs"]
         ELSE /\ edit' = [edit EXCEPT ![c] = NoEdit]
              /\ UNCHANGED <<suite, gen>>
    /\ UNCHANGED <<clicks, gate, failure, running, left>>

RemoveRuns(c) ==
    /\ edit[c].pc = "runs"
    /\ run' = [r \in Runs |-> IF worker[r].s = edit[c].s /\ run[r] # "none" THEN "gone" ELSE run[r]]
    /\ edit' = [edit EXCEPT ![c] = NoEdit]
    /\ UNCHANGED <<suite, generation, lock, worker, poll, sweeping, left>>

EditFails(c) ==
    /\ edit[c].pc # "idle"
    /\ Spend("db")
    /\ edit' = [edit EXCEPT ![c] = NoEdit]
    /\ UNCHANGED <<suite, generation, running>>

EditStep(c) == Replace(c) \/ Withdraw(c) \/ Remove(c) \/ RemoveRuns(c) \/ EditFails(c)
=============================================================================
