----------------------------- MODULE DrainState -----------------------------
(***************************************************************************)
(* The state shared by the parts of the OKF ingest drain, and the          *)
(* operators that read and patch it.  Three stores are durable: the rows   *)
(* of okf_concepts_meta (the drain queue), the repository's document in    *)
(* okf_repositories, and the chunks dataprep writes into the version       *)
(* graphs.  Two are lost with their process: what the okf-server's cycles, *)
(* sweep and request handlers hold in memory, and dataprep's tasks.        *)
(*                                                                         *)
(* One repository is modelled.  Its graphs are named by version number,    *)
(* so a graph is a number: 1 is OKF_<slug>_v1.                             *)
(***************************************************************************)
EXTENDS Naturals, FiniteSets

CONSTANTS
    Concepts,      \* the concepts of the repository
    Cycles,        \* drain cycles; a cycle its lane gave up on is one of them
    Sweeper,       \* the hourly sweep of the worker process
    Admins,        \* requests to the lifecycle routes, one transition at a time each
    None,          \* null
    MaxVersion,    \* bound: the versions the repository may mint
    MaxClaims,     \* OKF_INGEST_WORKER_MAX_CLAIMS
    MaxAttempts,   \* bound: a row is claimed at most this often between resets
    Slots,         \* DATAPREP_INGEST_CONCURRENCY
    Adaptive,      \* OKF_JOB_WINDOW_ADAPTIVE
    Backoff,       \* OKF_KICK_BACKOFF_BASE_MS > 0
    Fair,          \* OKF_CLAIM_STRATEGY = fair
    Ageing,        \* whether waits outlast their windows
    LeaseExpires,  \* whether a settle may outlast OKF_SETTLE_LEASE_MS
    Overlap,       \* whether a request may arrive between two steps of a refresh
    Allowance      \* bound: how often each environment event may happen

Procs == Cycles \cup {Sweeper} \cup Admins

Events == { "ingest", "reingest", "retract", "publish", "unpublish",
            "taskfail", "kill", "lost", "late", "dpcrash",
            "crash", "http", "dberr", "lostack" }

ASSUME ProcsAssumption ==
    /\ Sweeper \notin Cycles \cup Admins
    /\ Cycles \cap Admins = {}
    /\ None \notin Procs \cup Concepts

ASSUME BoundsAssumption ==
    /\ MaxVersion \in Nat \ {0}
    /\ MaxClaims \in Nat \ {0}
    /\ MaxAttempts \in Nat
    /\ Slots \in Nat \ {0}
    /\ Allowance \in [Events -> Nat]

ASSUME SwitchAssumption ==
    {Adaptive, Backoff, Fair, Ageing, LeaseExpires, Overlap} \subseteq BOOLEAN

VARIABLES
    row,     \* row[c]: the okf_concepts_meta row of concept c
    repo,    \* the okf_repositories document
    exists,  \* the version graphs whose collections exist
    chunks,  \* chunks[g][c]: how many ingests of c have left chunks in graph g
    task,    \* task[c]: dataprep's ingestion task of c
    late,    \* completion callbacks still under way after dataprep gave up on them
    proc,    \* proc[p]: where process p stands and what it holds in memory
    left     \* left[e]: how often event e may still happen

vars == <<row, repo, exists, chunks, task, late, proc, left>>

(***************************************************************************)
(* Types.  Graph MaxVersion + 1 is the draft a retract of the last version *)
(* opens.  A chunk count of 2 stands for any duplicate.                    *)
(***************************************************************************)
Graphs == 1 .. MaxVersion + 1
Versions == 1 .. MaxVersion

RowType == [ status   : {"parsed", "indexed", "failed"},   \* index_status
             claim    : Procs \cup {None},                 \* worker_claimed_at, by its writer
             age      : {"fresh", "stale", "expired"},     \* of the claim
             attempts : Nat,                               \* ingest_attempts
             park     : {"none", "held", "over"},          \* next_attempt_after
             good     : BOOLEAN,                           \* last_good_index_at
             retry    : BOOLEAN,                           \* reindex_retry
             graph    : Graphs ]                           \* graph_name

RepoType == [ state       : {"publish", "retracted", "review", "approve"},
              version     : Versions,
              armed       : BOOLEAN,                       \* rag_drain_active
              bundled     : BOOLEAN,                       \* bundles[] lists this version
              served      : 0 .. MaxVersion,               \* ingested_version, 0 when ingested_at is null
              servedGraph : {0} \cup Graphs,               \* ingested_graph_name
              lease       : Procs \cup {None},             \* settle_claimed_at, by its writer
              leaseOld    : BOOLEAN,
              record      : {"none", "draining", "completed", "failed", "cancelled"},
              progress    : BOOLEAN ]                      \* rag_ingestion.concepts_done > 0

CyclePCs  == { "stamp", "pre_progress", "pre_graph", "reset_record", "reset_rows",
               "probe_park", "probe_stale", "retract_file", "post", "unclaim", "release",
               "abort", "defer", "wait", "timeout", "timeout_probe", "timeout_release", "heal" }
SettlePCs == { "counts", "mark", "load", "lease", "promote", "flip", "unlease",
               "gc", "tally", "record" }
AdminPCs  == { "arm_count", "arm_stamp", "arm_write", "requeue_failed",
               "drop", "requeue", "disarm", "unpublish", "submit", "approve",
               "mint", "publish_write", "publish_requeue" }

PCs       == {"idle", "reap"} \cup CyclePCs \cup SettlePCs \cup AdminPCs

ProcType == [ pc     : PCs,
              c      : Concepts \cup {None},   \* the job's concept
              seen   : Procs \cup {None},      \* the claim the claim-read saw
              stale  : BOOLEAN,                \* was_stale_reclaim
              parked : BOOLEAN,                \* job.next_attempt_after != null
              good   : BOOLEAN,                \* job.last_good_index_at != null; of a request: it may settle
              retry  : BOOLEAN,                \* job.reindex_retry
              flag   : BOOLEAN,                \* the last answer a later step branches on
              done   : BOOLEAN,                \* some row was counted indexed
              graph  : {0} \cup Graphs,        \* job.graph_name, or repo.version of the loaded repo
              prev   : {0} \cup Graphs,        \* ingested_graph_name of the loaded repo
              list   : SUBSET Concepts ]       \* the victims the reaper read

TaskType == [ stage : {"none", "running", "ensured", "stored", "failing", "cleanup",
                       "killed", "done"},
              graph : {0} \cup Graphs ]

Idle == [ pc |-> "idle", c |-> None, seen |-> None, stale |-> FALSE, parked |-> FALSE,
          good |-> FALSE, retry |-> FALSE, flag |-> FALSE, done |-> FALSE,
          graph |-> 0, prev |-> 0, list |-> {} ]

NoTask == [stage |-> "none", graph |-> 0]

TypeOK ==
    /\ row \in [Concepts -> RowType]
    /\ repo \in RepoType
    /\ exists \in SUBSET Graphs
    /\ chunks \in [Graphs -> [Concepts -> 0 .. 2]]
    /\ task \in [Concepts -> TaskType]
    /\ late \in SUBSET (Concepts \X {"indexed", "failed"})
    /\ proc \in [Procs -> ProcType]
    /\ left \in [Events -> Nat]

(***************************************************************************)
(* A repository whose first version was just published: every row was      *)
(* requeued under the version's graph name, and no graph exists yet.       *)
(***************************************************************************)
FreshRow == [ status |-> "parsed", claim |-> None, age |-> "fresh", attempts |-> 0,
              park |-> "none", good |-> FALSE, retry |-> FALSE, graph |-> 1 ]

Init ==
    /\ row = [c \in Concepts |-> FreshRow]
    /\ repo = [ state |-> "publish", version |-> 1, bundled |-> TRUE, armed |-> FALSE,
                served |-> 0, servedGraph |-> 0, lease |-> None, leaseOld |-> FALSE,
                record |-> "none", progress |-> FALSE ]
    /\ exists = {}
    /\ chunks = [g \in Graphs |-> [c \in Concepts |-> 0]]
    /\ task = [c \in Concepts |-> NoTask]
    /\ late = {}
    /\ proc = [p \in Procs |-> Idle]
    /\ left = Allowance

-----------------------------------------------------------------------------
(***************************************************************************)
(* Reading the rows.                                                       *)
(***************************************************************************)
RowsIn(status) == {c \in Concepts : row[c].status = status}

Live(c) == task[c].stage # "none"

(***************************************************************************)
(* Patches of one row.  Each is the minimal patch of applyUpdate: what it  *)
(* does not name it keeps.  A row without a claim has no claim age.        *)
(***************************************************************************)
Released(r) == [r EXCEPT !.claim = None, !.age = "fresh"]

Deferred(r) == [Released(r) EXCEPT !.park = "held"]

Stamped(r, k) == [r EXCEPT !.claim = k, !.age = "fresh", !.attempts = @ + 1]

Requeued(r, g) == [ status |-> "parsed", claim |-> None, age |-> "fresh", attempts |-> 0,
                    park |-> "none", good |-> FALSE, retry |-> FALSE, graph |-> g ]

(***************************************************************************)
(* Steps of the processes.                                                 *)
(***************************************************************************)
At(p, pc) == proc[p].pc = pc

Goto(p, pc) == proc' = [proc EXCEPT ![p].pc = pc]

Finish(p) == proc' = [proc EXCEPT ![p] = Idle]

(* The terminal refresh of a job takes only the repository id with it. *)
GoRefresh(p) == proc' = [proc EXCEPT ![p] = [Idle EXCEPT !.pc = "counts"]]

Spend(e) == left[e] > 0 /\ left' = [left EXCEPT ![e] = @ - 1]

PatchRow(c, r) == row' = [row EXCEPT ![c] = r]
=============================================================================
