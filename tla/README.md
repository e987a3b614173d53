# Ingest drain, crawl queue, benchmark runs and head test suites of GENIE.AI, in TLA+

GENIE.AI answers questions over knowledge repositories. These modules model, check
and prove about four of its services, those where most of its concurrency and
failure handling lives:

- the **ingest drain**. An OKF repository is imported, reviewed and published as
  numbered versions; an `ingest` then *drains* the published version: every concept
  of it is sent to the dataprep service, which chunks, embeds and writes it into the
  version's graph, and when the queue is empty the graph is promoted to the serving
  graph;
- the **crawl queue** of the document repository: web sites are crawled in the
  background, by a worker thread that a supervisor keeps alive;
- the **benchmark runs** over a repository's test suite: a run answers the suite's
  questions and has another process, the RAGAS sidecar, judge the answers for hours,
  while users poll, cancel and delete runs and either process may restart;
- the **head test suites**: a suite of routing questions is generated by a detached job,
  one per repository at a time, edited by curators, and run by detached workers under a
  lock of the suite, while the panel polls and the server may restart.

The four share no state: each has its own documents, processes and requests, and
is modelled on its own. Paths below are relative to `src/`; `okf-server/` stands for
`components/okf-server/`.

## Inventory

| Part | Code | State | Operations | Hard |
|---|---|---|---|---|
| Concept meta rows | `okf-server/services/concept-meta-service.js` | one row per concept: `index_status`, `worker_claimed_at`, `ingest_attempts`, `next_attempt_after`, `graph_name`, ... | patch, requeue for a re-drain, requeue of failed rows, stamp of the graph name | the rows are the drain's queue, and five actors patch them without comparing |
| Ingest worker, cycles | `okf-server/workers/ingestWorker.js` | what a cycle holds of the row it claimed | claim, stamp, pre-flight, probes, retract, POST, wait, release, un-claim, self-heal | several lanes, cycles a lane gave up on, lost acknowledgements, timeouts with a live task behind them |
| Ingest worker, sweep | same | the list of victims of the reaper | reconcile, reap | reads once, patches one by one |
| Settlement | `_refreshRagIngestion` (worker), `_settleIngest` in `lifecycle-service.js` | lease, arm, record, serving version and graph in the repository's document | counts, progress, lease, promote, flip, collect, record | ten awaits between the first count and the last write |
| Repository lifecycle | `okf-server/services/lifecycle-service.js` | `lifecycle_state`, `version`, the arm | ingest, re-ingest, retract, unpublish, submit, approve, publish | read, check, write without comparing; retract is allowed mid-drain |
| Graph lifecycle and retract | `graph-lifecycle-service.js`, `graph-retract-service.js` | which version graphs exist | promote (rename), drop, retract of a repository | a rename or a drop per collection, a name that is taken |
| Version mint | `version-service.js` | version, bundles | mint | crash between its steps |
| Dataprep | `genie-ai-overlay/dataprep/genieai_dataprep_microservice.py`, `genieai_dataprep_arangodb.py` | in-memory tasks and slots, chunks in the graphs | POST (202, 409, 429), kill, status, retract of a file, completion callback | the callback is the only thing that ends an ingest, and it may be lost, late or doubled |
| Status callback | `okf-server/controllers/internal-controller.js` | - | `conceptStatus` | it names a concept, not an attempt |
| Crawl requests | `components/document-repository/src/services/fileService.js`, `src/crawler/crawler.js` | files documents, `crawl_job` documents, files on disk | schedule, kill, delete | four steps of a deletion beside a running crawl |
| Crawl worker | `components/document-repository/src/workers/crawlWorker.js`, `pageProcessor.js` | the crawl it is in, its requeue loop, its page threads | requeue of what a former worker left, poll, claim, kill watch, batches, save, final status | the requeue retries beside the poll; page threads answer without naming a page |
| Crawl supervisor | `components/document-repository/src/workers/crawlWorkerSupervisor.js` | restart counter, one timer | start, respawn, give up, re-arm, stop | exits of replaced workers, failed spawns, a shutdown |
| Benchmark runs | `okf-server/services/ragas-suite-service.js` | run documents; in memory: the run in flight, the re-scores, the cancelled runs, the registered jobs | run, re-score, cancel, delete, poll, boot sweep | everything in memory dies with the server while the judge goes on |
| RAGAS sidecar | `components/ragas-service/app.py` | the job registry, in memory | start (503 when busy), poll, cancel | it restarts; a lost answer leaves a job nobody knows |
| Head test suites | `okf-server/services/head-suite-service.js` | suite documents, run documents; in memory: the generation in flight, its failure, the lock of each suite | generate, edit, probe, rename, delete, run, poll, boot sweep | whole documents read, awaited over and replaced; the gate, the lock and the failure die with the server, the placeholder of a run does not |
| Asynchronous jobs | `okf-server/services/async-job-gate.js`, `job-registry.js` | one slot per repository, job states | acquire, release, finish | the gate is checked twice with an await between; the registry is not modelled |
| Import, bundles, edges, other evaluation, PII | other services of `okf-server`, `pii-service` | | | not modelled: they run before the drain, follow it, or only read |
| Chat backend, retrieval, translation, front ends, mobile, deployment | `components/gov-chat-*`, `genie-ai-overlay/chatqna`, `retriever`, `document-translation`, `mobile`, `deploy` | | | not modelled: they read the graphs or transform single documents |

How the parts of the drain interact. The lanes of the worker claim rows of *armed* repositories
(`rag_drain_active`), POST to dataprep over HTTP and then poll the row. Dataprep
answers the POST at once and works in the background; it calls `conceptStatus`,
which writes the verdict to the row. A cycle that sees a verdict refreshes the
repository, and whoever finds no pending row settles it, under a lease kept in the
repository's document. Administrators' requests read and write the same rows and
document at the same time. There is no transaction anywhere: the database executes
single statements, some of which compare before they write.

A crawl is a document that a request saves, the worker claims and finishes, and any
request may flag for killing or remove meanwhile. The worker is a thread, its page
threads are threads of that thread, and the supervisor sees only exits. A benchmark
run is a promise chain of the server, with an in-flight entry in memory and a document
in the database; it POSTs a job to the sidecar and polls it. A cancel sets a flag and
sends DELETEs for the jobs it finds registered. A head suite is one document that every
edit, probe and run reads, keeps across an await and replaces as a whole. Generation and
runs answer at once and go on detached; the panel learns how they ended from the maps in
memory and from the documents, which it reads one after the other.

What makes each part correct. Drain: a row is worked by one cycle at a time and never
keeps a claim nobody holds; a chunk is stored once; a version that is reported complete
is complete; a drain is armed only where it may be; one settler at a time touches the
graphs; every armed drain ends. Crawl queue: one job is worked on at a time and only by
its crawl; what is left behind is found and what ended stays ended; the worker is never
dead without a timer; a file reported complete is complete. Benchmark runs: an entry in
flight has a worker; a cancel stops the judge wherever the run stands; no poll and no
other run overwrites a verdict; every run that shows as running ends. Head suites: one generation at a time,
and a poll of its key always has an answer; no text is in both classes of a suite; a poll
fails only runs whose worker is gone; results stay; every run ends and gives its lock back.

## Modules

    DrainState          state, types, row patches
      |- Dataprep       tasks, chunks, callback
      |    `- IngestWorker   one cycle of the worker
      `- Settlement     refresh, settle, promote
           |- WorkerSweep    reconcile, reaper
           `- RepoLifecycle  the routes
    IngestDrain         all of them, time, crash, fairness, properties
      |- MCIngestDrain       instances for TLC
      `- DrainTypes_proofs   type correctness
           `- IngestDrain_proofs  claims and leases
                `- DrainGuards_proofs   arm, record, served graph, claims without faults
                     `- DrainVersion_proofs  the drain of one version

    CrawlState          state and types
      |- CrawlSupervisor     restarts of the worker, crash and shutdown
      |    `- PagePool       page threads
      |         `- CrawlWorker    requeue, poll, crawl
      `- CrawlFiles     schedule, kill, delete
    CrawlService        all of them, fairness, properties; implements
    CrawlJobs           what the queue promises (abstract)
      |- MCCrawl             instances for TLC
      `- CrawlInv_proofs     the inductive invariant
           `- CrawlService_proofs  its results, and the refinement

    Sidecar             the registry of judge jobs
      `- BenchmarkRuns       workers, requests, boot sweep
           `- BenchmarkService   with the sidecar and both restarts; properties
                |- MCBenchmark            instance for TLC
                `- BenchmarkService_proofs

    HeadSuite           suites, generation, curators
      `- HeadSuiteRuns       runs, polls, boot sweep, restart
           `- HeadSuiteService   all of them, fairness, properties
                |- MCHeadSuite            instance for TLC
                `- HeadSuite_proofs

### The drain

A **process** is a cycle of the worker, its sweep, or a request; `proc[p]` holds its
program counter and what it keeps in local variables across awaits. Every await of
the code that reads or writes shared state is a boundary between two actions, and a
process acts later on what it read before. Coarser than the code are the promotion
(rename and stamp of the rows), the drop of a retract, the mint, the requeue of a
repository's rows and the counts of a refresh, which are one step each.

| In the model | In the code |
|---|---|
| `row[c]` | the document of `okf_concepts_meta`; `claim` is `worker_claimed_at`, told by its writer instead of a timestamp; `age` is how old the claim is against the staleness window and the reaper's grace; `park` is `next_attempt_after`: unset, in the future, in the past |
| `repo` | the document of `okf_repositories`; `served`, `servedGraph` are `ingested_version` and `ingested_graph_name` (0 when null), `lease` is `settle_claimed_at`, `record` the status of `rag_ingestion`, `progress` whether it counts a finished concept |
| graph `g` | `OKF_<slug>_v<g>`; `exists` are those with collections, `chunks[g][c]` how many ingests of `c` have left chunks in it (2 stands for more) |
| `task[c]` | dataprep's task: `running` (guardrail, context, labels), `ensured` (graph exists), `stored`, `failing` and `cleanup` (error announced, rollback), `killed`, `done` |
| `late` | callbacks the client has given up waiting for while the okf-server still handles them |
| `left` | the budget of environment events; not in the code |

`IngestWorker` has both claim strategies: `ClaimRead` and `Stamp` for the read
followed by a compare-and-set, behind the in-process chain (`ChainFree`), and
`ClaimFair` for the single statement. `HttpFails`, `CycleStoreFails`,
`SettleWriteFails`, `ReapFails` and `RequestFails` follow the catch blocks: where a
failure is swallowed, where it releases, and where it ends the process as it stands. A
failed retract or POST may have done its work, with only the answer lost.
`ServerCrash` empties every process; `DataprepCrash` forgets every task.

Left out of the parts that are modelled: the order in which claimable rows are
picked (any of them is), the 429 cooldown (it delays), badges of bundle and backing
files, audit and logs, edges, the PII, conformance and source gates (they only
refuse), deletion of concepts and repositories, `rejected` rows, several
repositories, and the collections of a graph one by one. Submit and approve are bounded by the publish they lead to.
Publish mints when the content changed; with unchanged content it completes only
a version whose bundle was not listed yet. Graph names compare as numbers; the
code compares strings, which agrees below version 10.

### The crawl queue

| In the model | In the code |
|---|---|
| `job[f]` | the `crawl_job` document of file `f`: its status, `kill_requested`, and `fresh` for a `claimed_at` not before `BOOT_TIME` of the living worker, which is what tells a zombie from a job in work |
| `file[f]`, `disk[f]` | the files document; the file in the upload directory: missing, opened with flag `w`, or whole |
| `saving`, `call[f]` | a crawl whose job is still to be saved; where `deleteFile` stands |
| `sup` | `crawlWorkerSupervisor`: phase, armed timer, `consecutiveFailures`, gave up |
| `thread` | the worker thread: alive, dead with its exit still to be delivered, or none |
| `req` | `requeueZombieJobs`: its batch as read, and whether a page of it failed |
| `run`, `section` | the poll loop and the crawl it is in; the text it wrote under each page's heading |
| `pool`, `rr` | the page threads with the promises waiting on each; the round robin |

Every await of worker, supervisor and requests that touches shared state is a boundary
between two actions. A write that a dying worker had sent lands before the next worker
starts. `start()` runs once per server process and the delays of the supervisor are only
what its timers wait for. The kill watch looks whenever it may (its throttle only
delays). Left out: progress fields, metrics and the health route, the rate limiter,
link filtering, what a page contains, and the links that add pages while a crawl runs
(the set of pages of a site is given).

`CrawlJobs` is what the queue promises about jobs: submitted, taken, begun, ended or
abandoned, put back. `CrawlService` implements it with `owned` the file the poll loop is
on. It allows one way back, from a reported success to a failure by the same crawl,
because the code takes it when the log entry after the status fails.

### Benchmark runs

| In the model | In the code |
|---|---|
| `job[<<r, n>>]` | the sidecar's `JOBS` entry of the `n`-th submit of run `r`; queued and running are `live`, unknown is `none` |
| `doc[r]`, `recorded[r]`, `suite` | the run's document, its `sidecar_job_id`, the suite's document |
| `inFlight`, `rescoring`, `asked`, `active` | `runInFlight` of the suite, `rescoreInFlight`, `userCancelledRun`, `activeSidecarJobs` |
| `worker[r]` | where the promise chain of `beginRunSuite` or `rescoreRun` stands, how often it has submitted, and how its document will say it ended |
| `get[r]`, `deleting`, `sweep` | a poll of the panel between its awaits, or `told`: it was answered that the run failed, although the write of that failed; a `deleteSuite` between its DELETEs and its removal; `sweepInterruptedRuns` |
| `kills`, `lost` | DELETEs on their way; history: those that failed |

One suite and one server. A run reserves the suite and then saves its placeholder; a
re-score saves first and enters its map when the save returns, which is one step here.
Nobody polls, cancels or deletes a run before the answer that names it. A write that
fails may have been made, with only its answer lost: after the placeholder that leaves an
`orphan`, a run without a promise chain whose key nobody was told and which only the list
of runs shows, and after the last document of a run (`Lands`) the catch block over a run
that has its verdict. A crash may leave orphans too. Progress writes,
answers, scores and the retention of ended jobs (an hour) are left out, and so are the
validations that only refuse. The refusal of a re-score without a scorable row comes
after its in-flight entry is set; no document that this code writes as `done` has that
form, so it is not modelled.

### Head test suites

| In the model | In the code |
|---|---|
| `suite[s]` | the document of suite `s`: the rows with a query, each a text and its class, or none |
| `gen[s]`, `clicks` | where the detached generation of `s` stands; requests that have passed the first check of the gate and not the second |
| `gate`, `failure` | `suiteGenInFlight` and `suiteGenFailure` of the repository |
| `edit[c]` | a curator's request between its read and its replace, or a deletion between its steps |
| `run[r]`, `lock[s]` | the status of a run's document; `suiteRunInFlight` of the suite |
| `worker[r]` | the promise chain of `beginRunSuite` and `runSuite`, with the copy of the suite it read first |
| `poll[r]`, `sweeping` | `getRunSuite` between its look at the lock, its read and its write, or `told` as above; `sweepInterruptedRuns` still to run |
| `left` | the budget of faults; not in the code |

`GenerateFails`, `PlaceholderUnacked`, `StepFails`, `ResultsUnacked` and `FailureLost` follow
the catch handlers: a write may fail, or succeed with its answer lost. `Touched` are the
suites that curators and runs work on; the others are generated only. Left out:
explains and tag recommendations, synchronous runs, several edits in one request, rows
without a query, caps, progress, and what queries and verdicts contain.

## Runs

The first eight runs are of `MCIngestDrain`, `crawl` and `page_mix` of `MCCrawl`,
`benchmarks` of `MCBenchmark`, `suites` of `MCHeadSuite`. They set `CHECK_DEADLOCK FALSE`: a drain that
settled, a queue that was shut down and a suite without runs are meant to stop. `Symmetry` permutes cycles and
concepts and is not used with liveness.

| Run | Instance | Checks |
|---|---|---|
| `redrain` | 1 concept, 2 versions, 2 ingests, re-ingest, unpublish, publish, 2 failures, 1 kill | `IndexedHasOneCopy`, `CompletedIsComplete`, `ArmedOnlyPublished`, `ServedGraphNotCollected`, `NoGhostClaim` |
| `adaptive` | 2 concepts, adaptive windows, fair claim, ageing claims, 1 failure, 1 crash of the okf-server | `RetractSparesLiveTask`, `SettleOnlyDrained` |
| `teardown` | 2 concepts, 2 versions, retract and publish between any two steps, those of a refresh included | `ClaimCounted`, `NoGhostClaim`, `DrainingOnlyWhileArmed`, `LeaseExclusive` |
| `faults` | 1 concept, 2 cycles, ageing claims; a failed request, a failed write, a lost acknowledgement, a late callback | `DrainInv`, `FreshClaimNotStolen` |
| `liveness` | 1 concept; a crash of each service, a lost callback, a failed write, expiring leases | `DrainSettles` |
| `retract_race`, `park_probe`, `reap_race` | 1 concept, 1 cycle | what the code's comments say and the code does not do, below |
| `crawl` | 2 crawls, 2 pages, 1 page thread, limit of 1 page, 1 respawn before giving up, any 2 of: kill, deletion, crash, lost page thread, failed spawn, database or disk failure, shutdown | `CrawlInv`, `WorkerWatched`, `BackoffBounded`, `SucceededIsWhole`, `Implements`, `ZombiesRecovered`, `DoomedCrawlEnds`, `PendingTaken` |
| `page_mix` | 1 crawl, 3 pages, 2 at a time on 1 page thread | `TextUnderItsPage`, violated, below |
| `benchmarks` | 1 run or re-score beside a finished run, 2 submits, 1 job at a time, any 3 of: crash of the server, restart of the sidecar, failed request, failed or unacknowledged write, failed leg | `BenchmarkInv`, `CancelReachesJob`, `VerdictFinal`, `RunsEnd` |
| `suites` | 2 generations and 2 requests for them, 1 curator, 1 text, 2 runs of one suite; a crash and a failed read, write or lost answer | `SuiteInv`, `GenerationAnswered`, `LiveRunNotReaped`, `ResultsStay`, `RunsReachEnd` |

What the properties say:

- `CompletedIsComplete`: when the record says `completed`, every concept is indexed
  and its chunks are once in the serving graph. `IndexedHasOneCopy` is its
  row-by-row form, over failures, kills, rollbacks and versions.
- `SettleOnlyDrained`: nothing is pending at the moment a settle disarms the
  repository, although it counted several awaits earlier.
- `NoGhostClaim`: every way out of a job gives the claim back or leaves the row
  terminal. `ClaimCounted`: and never leaves a claim that the attempt budget of the
  reaper does not see.
- `FreshClaimNotStolen`: no stamp lands on a claim younger than the staleness window.
- `RetractSparesLiveTask`: with adaptive windows, and the graph in place, the retract
  before a POST never runs under a task of the same concept.
- `LeaseExclusive`, `ServedGraphNotCollected`: one settler at a time between lease and
  flip, and it never collects the graph being served.
- `ArmedOnlyPublished`, `DrainingOnlyWhileArmed`: the arm, the state and the record
  agree.
- `DrainSettles`: every armed drain ends.
- `Implements`: the crawl queue keeps the promise of `CrawlJobs`. A requeue that flips
  a job the worker has claimed since, a second crawl of a job or a job that comes back
  after it ended would break it.
- `WorkerWatched`, `BackoffBounded`: while the server runs, either a worker lives (or its
  exit is being delivered) or exactly one timer will start one; the restarts stop at
  their limit, and then only the re-arm is left.
- `SucceededIsWhole`: the file of a crawl that was reported as succeeded is complete, as
  long as its document exists: no later worker truncates it.
- `ZombiesRecovered`, `PendingTaken`, `DoomedCrawlEnds`: what a former worker left is put
  back or finalised; a pending job gets its turn; a crawl that was killed or removed
  ends though its site never answers. The last two except a lost page thread, below.
- `CancelReachesJob`: while a cancelled run polls a live judge job, a DELETE for that job
  is under way, wherever the run stood when the cancel landed - unless a DELETE failed.
- `VerdictFinal`: no poll and no other run overwrites `done` or `cancelled`. The boot sweep
  may, and so may the catch block of a run that is `done`, when the answer to its last
  write was lost; both below. `RunsEnd`: every run that the panel shows as running stops
  being shown so (`Shown`: not an orphan, and not a run the panel was told has failed).
- `GenerationAnswered`: who was told a suite's key never polls into nothing: the suite is
  being generated, or its failure is kept, or it is there, until it is deleted or a later
  generation or a restart gave it up.
- `LiveRunNotReaped`: a poll that found the lock free and then reads `running` never fails
  a run that lives or has results, though lock, read and write are three moments.
- `ResultsStay`: only the worker itself may replace its results by a failure, when the
  answer to the write of the results was lost. `RunsReachEnd`: whatever fails, the lock is
  given back and the run stops being shown as running (`Shown`, as for benchmarks).
- `DrainInv`, `CrawlInv`, `BenchmarkInv`, `SuiteInv`: the inductive invariants of the proofs;
  among the parts of the last, that no text is
  positive and negative in a suite or in a copy somebody is about to write.

Every property was tried against a plausible bug in the code (a dropped filter, a
lease taken over a live holder, an un-claim that keeps its claim, ...): the
definitions marked `mutant` in the modules. Each such bug violates the property in
the run that checks it.

### Bounds, and why they are enough

Two cycles and two concepts are where the races are: between two claimers of a row,
between two finishers of the last two rows, and between them and the sweep. Two
versions show a settle that supersedes a graph. `MaxAttempts` bounds how often a row
is claimed between resets; where it equals `MaxClaims` the reaper's limit is reached,
and the claims the code might still make on such a row before the next sweep are cut.
`Allowance` bounds each environment event to once or twice in a run; the code has no
state that remembers how often a fault happened except the attempt counter. The
proofs below have none of these bounds.

Two crawls are where the queue is: one in work or left behind while the other waits. With
two pages, one page thread and a limit of one page, a batch waits, overruns the limit and
loses its thread. `MaxEvents = 2` covers each fault meeting a second one (a crash during
the retries of a requeue, a deletion of a killed crawl); with `MaxRestarts = 1` two deaths
reach the limit and the re-arm. One new run beside a finished one is a run, or a re-score
of the finished one, against every request and fault; two submits (four in the code) have
a first, a repeated and a last attempt, one job at a time (two in the code) makes the sidecar busy. An instance
with three runs, so that a run and a re-score work at once, was explored by hand: 323,926
states without faults and 14.3 million with one, without a violation; it is too large to be
kept as a run. For the safety properties the proofs close the gap.

Two suites are a generation and the one that supersedes it; two requests meet between the
two checks of the gate. One text is enough, since two texts never interact, in two classes
that contradict each other. Two runs of one suite compete for its lock, and a curator
edits or deletes under them. One crash and one failed access each leave every document
and map in the states that a second one could: the proofs have no such bound.

`Overlap = FALSE` means that no request arrives inside a refresh, which takes
milliseconds. `redrain` and `adaptive` depend on it: with it `TRUE`, a settler delayed
between its counts and its load settles a drain that was armed after it counted, a
final record written late overwrites the record of the next drain, and a retract and a
settle overwrite each other (`retract_race` is one of these). Where the proofs below do
without it, they say so. `SettleOnlyDrained` is not claimed where a retract runs, even
with `Overlap = FALSE`: a retract that has started requeues rows under a settle that
began later.

### Fairness

`FairSpec` assumes what the processes' scheduling provides: a started cycle,
settle or request runs to its next await (the event loop), some free lane claims when
a row is claimable for good (the poll), dataprep runs its tasks and the okf-server
finishes callbacks it is handling, parks and claims age and leases expire (the clock),
and the sweep keeps making its passes. The sweep's two passes compete for one process,
so they have strong fairness: each runs every hour whatever the other did. No request,
fault, crash or retry is assumed to happen.

The crawl queue: the supervisor's timers fire and exits are delivered, the worker's loops
go on to their next await, page threads answer, the kill watch looks, a fetch that was
aborted is cancelled, requests under way are carried on. A site need not answer
(`PageFails`, `PostPage` have no fairness of their own): that is why `PendingTaken`
excepts a crawl that is waiting for pages. Benchmark runs: the event loop finishes every
promise chain, poll, deletion and sweep it has started, a judge job ends, a DELETE that
was sent is answered, and the panel polls a run whose key it was told until it is answered
that the run ended (`PanelPolls`). Head suites: the
event loop finishes the promise chain of every run and poll (`RunStep`, `PollStep`), and the
panel polls as for benchmarks (`PanelPolls`); neither the boot sweep nor a curator is
assumed to come. Nobody need start, cancel or delete anything.

### Where the code and its comments disagree

- `retract_race`: `lifecycle-service.js:81` says that a retracted repository's only
  exit is submit. A settle that took its lease before the retract flips the state
  back to `publish` (336, an unconditional update) after the retract has dropped the
  graph and disarmed.
- `park_probe`: `ingestWorker.js:961-968` says that a row whose park just expired is
  probed before the retract, except after a reset. The condition (969) tests for a
  missing graph, which is also the state of a first drain until dataprep has finished
  its model calls: then the retract runs under a live task.
- `reap_race`: `ingestWorker.js:1507-1508` says that recently claimed rows are immune
  to the reaper. The attempt limit (1522) does not look at the claim: the last
  claim a row is allowed is reaped while it is fresh.
- `page_mix`: `crawlWorker.js:58` waits for the next message of a page thread, whichever
  page it is about. With more pages in flight than threads, the first answer settles
  every promise that waits on the thread, and the text of one page is written under the
  heading of another; the later answers are lost.

Seen while modelling, and not kept as runs:

- `fileService.js:744-747` says that an active crawl is terminated and confirmed dead
  before the teardown of its file. `deleteFile` reads `Pending`, the worker claims, and the
  removal filtered by `Pending` (766) removes nothing; nobody looks at the count. The
  crawl left behind ends all the same (`DoomedCrawlEnds`), because its kill watch sees
  that the document has gone.
- `crawlWorkerSupervisor.js:10-13` says that the queue cannot stay dead until a manual
  restart; that holds of the worker thread. A page thread that died stays in the round robin: a page posted to it is
  never answered and the worker, which crawls one job at a time, is held for good. Hence
  the exception `ThreadLost` in the liveness properties.
- A submit whose answer is lost is repeated although the sidecar may have started the
  job (`ragas-suite-service.js:386`): the orphan is judged to the end and holds one of
  the sidecar's slots.
- `deleteSuite` (1548) looks for a run in flight, not for a re-score. A re-score that is
  submitting has no job registered yet, and is judged to the end for a removed suite.
- `cancelSidecarJob` drops the registration (485) before its DELETE, so a DELETE that
  fails cannot be repeated by a second cancel; hence `lost` in `CancelReachesJob`.
- `sweepInterruptedRuns` notes what is in flight (4767-4772) before it queries the running
  documents, while the server answers requests already (`okf-server/index.js:68-92`). A run
  begun in between is failed in its document though it lives, and may lose a verdict
  that came first; hence the exception in `VerdictFinal`.
- A refresh that counted no pending row before a re-ingest requeued the failed ones may load
  the repository after it was armed again, and settle over the pending rows: the counts
  are not repeated. `SettlesWhatIsDrained` therefore excludes re-ingests.
- With several versions, a late callback, or the verdict of a cycle that a reset overtook,
  may mark a row of the new version as indexed by the ingest of the old one: a verdict
  names a concept, not an attempt. In one version, a late verdict may likewise settle a row
  that was claimed again since.
- Without adaptive windows, and after a POST whose answer was lost, a claim is given back
  without a probe while the task lives, and the next claim retracts under it.
- `runSuite` gives the verdicts to the copy of the suite it read at first and replaces the
  whole document by it (`head-suite-service.js:1761`): edits accepted meanwhile are lost.
- `deleteSuite` of a head suite looks at the lock before it awaits (1178): a run that takes the
  lock in between works for a suite that is gone, which ends in a failure.
- If the answer to the write of its results is lost, a run of either kind overwrites them in
  its catch block, which does not look at the document: with a failure, or, in a benchmark
  whose cancel flag was set, with `cancelled` (`ragas-suite-service.js:2675` and 2110-2125,
  re-score 1964 and 1974-1994; `head-suite-service.js:1807` and 1918-1934). Hence the
  exceptions `Persist(r)` in `VerdictFinal` and `WriteFailure(r)` in `ResultsStay`.
- If the answer to the write of its placeholder is lost (`ragas-suite-service.js:2066`,
  1828, `head-suite-service.js:1887`), nobody is told the run's key, and the list shows a
  running run until somebody opens it or the server starts. If a poll cannot write the failure
  of an interrupted run, it swallows that and answers `failed` all the same
  (`ragas-suite-service.js:2869-2873`, `head-suite-service.js:1989-1993`): the panel stops
  asking, and the document stays running. `RunsEnd` and `RunsReachEnd` except both (`Shown`).
- The boot sweep fails whatever is running when its query arrives (2008), while requests
  are answered already: a run begun before it is shown as failed until it writes its
  results. It looks at runs only (`kind == 'run'`, 2012): an explain's placeholder
  (2194) stays running.
- A flip in `updateSuiteRows` of a row that is gone pushes a row without a query (~1040),
  although line 928 says that every writer rejects blank queries.

## Proofs

`DrainTypes_proofs` proves `Spec => []TypeInvariant` (`Typing`): every row, task and
process record has its type, and every graph that a job, a settler, a request or a
task carries is a graph of the repository. The second half is what makes it
inductive: a settler writes the version it loaded into every row, so its snapshot must
be known to hold a version wherever its program counter will use it (`SnapshotOK`).

`IngestDrain_proofs` proves, for every number of concepts, cycles, requests and
versions, every budget of faults and both claim strategies:

| Theorem | Statement |
|---|---|
| `Inductive` | `Spec => []DrainInv` |
| `Claims` | `Spec => []ClaimCounted` |
| `FreshClaims` | `Spec => FreshClaimNotStolen` |
| `Leases` | `Spec => []LeaseExclusive` |

`DrainInv` is the inductive invariant: `TypeInvariant`, `ClaimCounted`,
`StampReadsOpen` and `LeaseHeld`. None of the three results follows without a part
that is not about it. `FreshClaimNotStolen` needs to know that between a claim's read
and its stamp no other stamp is on the way, and that if the row still has the claim
that was read then that claim is still open; this is `StampReadsOpen`, and it is the
reason for the in-process chain: the compare-and-set alone compares claims, and a
claim of the same cycle could have come back. `LeaseExclusive` needs that the settler
is the one the lease names (`LeaseHeld`): a second settler is refused by the lease, and
no step but a settler's own flip or return clears it - in particular not the retract.

The argument has two levels. For each kind of step a lemma says what it may do to a
row (`RowEvolves`: keep the claim, give it back, or stamp an open one), to the
processes (`Quiet`: one process moves, and not into a stamp or a settle) and to the
lease; `StepKinds` collects them. The preservation of each part of `DrainInv` is then
proved from these summaries, without looking at the actions again.

Assumptions of the drain: `ProcsAssumption` (cycles, sweep and requests are different processes),
`BoundsAssumption` and `SwitchAssumption` (the constants have their types). `Typing`
and the rest hold for an infinite set of concepts too; nothing assumes finiteness.

`CrawlInv_proofs` and `CrawlService_proofs` prove, for every number of crawls, pages,
page threads, restarts and faults:

| Theorem | Statement |
|---|---|
| `CrawlInvariant` | `Spec => []CrawlInv` |
| `Watched`, `Backoff`, `Whole` | `WorkerWatched`, `BackoffBounded`, `SucceededIsWhole` |
| `QueueImplemented` | `Spec => Implements`: the refinement of `CrawlJobs` |

The refinement needs that a requeue never touches the job being crawled, although it read
its batch long before it writes. `BatchLeftBehind` says that what it read is still a
zombie or gone; that is inductive because only a claim makes a job fresh, a claim takes a
pending job, and the requeue takes a job out of its batch as it makes it pending.
`CrawlOwnsJob` ties the status of the job in work to where its crawl stands,
`ThreadMemory` says that what a thread held died with it (so that a new worker begins
with an empty batch), `UnsavedUnknown` that nobody knows a crawl before its job is saved,
and `FilesWhole` extends `SucceededIsWhole` to the moment before the status is written.
`Supervised` is what the supervisor's two results need besides each other. Assumption:
`CrawlAssumption`, the types of the constants.

`DrainGuards_proofs` and `DrainVersion_proofs` prove what holds under conditions. Each
theorem assumes what its result needs, as a restriction of `Allowance` or of the switches,
and is otherwise for every number of concepts and cycles and every budget of the rest:

| Theorem | Property | Conditions |
|---|---|---|
| `ArmedPublished` | `ArmedOnlyPublished` | one request at a time, none inside a refresh |
| `ServedNotCollected` | `ServedGraphNotCollected` | the same, and no settle outlasts its lease |
| `Draining` | `DrainingOnlyWhileArmed` | one request at a time (inside a refresh too), no crash, no failed write |
| `NoGhosts` | `NoGhostClaim` | no crash, failed write or lost acknowledgement |
| `SettlesWhatIsDrained` | `SettleOnlyDrained` | one version (no publish, no retract), no re-ingest |
| `IndexedOnce` | `IndexedHasOneCopy` | one version; no claim ages, no row is claimed `MaxClaims` times; no late callback and no failed request to dataprep |
| `CompleteServed` | `CompletedIsComplete` | those of `IndexedOnce`; no crash, no failed write |
| `RetractsSpare` | `RetractSparesLiveTask` | one version, one cycle (the default of `OKF_INGEST_CONCURRENCY`), adaptive windows, no re-ingest, no failed request to dataprep |

No condition is there for the prover's sake. Two requests that both passed their checks,
or a request inside a refresh, arm a repository that is no longer published; a settle past
its lease collects what another promoted. A crash or failed write between the flip and the
record leaves `draining` behind, and a record `completed` of a drain before; a crash,
a failed write or a lost acknowledgement leaves a claim without a cycle, until staleness or
the reaper deals with it. A retract, a re-ingest or a publish requeues rows behind a settler's
count. An old claim is taken over, or reaped, while its task lives; a failed request gives a
claim back though the task was started; a late verdict meets a row that was claimed again;
and a second cycle may re-stamp a claim that aged under the first. The theorems about
one version do without most of the other restrictions: requests may be concurrent and
inside refreshes, settles may outlast their leases, settlers overlap, tasks fail, are killed
or lose their callback, and either service may restart unless the table says otherwise.

`DrainGuards_proofs` first reduces every step to the moves of one process between program
points and what it may write to the repository's document (`GuardMove`); the invariants are
proved from the moves. `RequestsFreeze` says that no request but a retract is past its
checks while the drain is armed, `NoneBehind` that no settler that saw the arm is left when
such a request is at work, `CollectsAlone` that a settler which is about to drop a graph
promoted another one, disarmed the repository, and has no rival before its flip.
`NoGhostClaim` is proved from what a step may do to a claim together with its cycle.

`DrainVersion_proofs` rests on `VersionInv`: in the drain of one version every row, job
and task names the same graph, which once made stays. Hence no pre-flight finds progress
without a graph, no drain is reset, no row healed, and a row never becomes pending again but
by a re-ingest of failed ones (`RowStays`). `CountedDrained` carries a zero count from the
counts of a refresh, or of an ingest request, to the flip. `CopyInv` is about a concept from
stamp to verdict: between them its row is pending and claimed, its task is the one its
cycle posted, and before the POST there is neither a task nor a chunk; so that storing makes
the first copy. `CompleteInv` says that what the settler tallied as indexed stays so.
`SpareInv` says that a pending row with a live task is claimed or parked, that whoever takes
it over knows it (`stale` or `parked`), and that on the way to the retract a probe has
found no task; before it was proved TLC met no violation in 33 million states of instances
of one and of two concepts, which it did not exhaust.

`BenchmarkService_proofs` proves, for every number of runs and re-scores at once, of
submits, concurrent jobs and faults:

| Theorem | Statement |
|---|---|
| `BenchmarkInvariant` | `Spec => []BenchmarkInv` |
| `CancelReaches` | `Spec => []CancelReachesJob` |
| `VerdictsFinal` | `Spec => VerdictFinal` |

`BenchmarkStep` is the inductive step, one lemma per action. `Cancels` carries
`CancelReachesJob`: a polled job that is live is registered and its run is not cancelled,
or a DELETE was sent. It holds when polling begins because the guard after the submit
looks at the flag in the same step that registers the job, and it stays because a cancel
finds what is registered; for that, a registration must be of the job that its run polls
now (`Polled`), and the job must exist (`Submitted`: a chain that holds a job has
submitted). `Verdicts` carries `VerdictFinal`: a chain that still has its last
write before it has no verdict in its document, only a chain in its catch block may stand
over one that says `done`, and a poll that is about to write has seen a running document
of a chain that is over. That the chain is over follows from `Owned`, which
says that in-flight entries and chains match, and `OneKind`, that a run is not also a
re-score. Assumptions: `SidecarAssumption` and `BenchmarkAssumption`, the types of the
constants and that null is none of them.

`HeadSuite_proofs` proves, for every number of suites, texts, runs, curators, requests
to generate and faults:

| Theorem | Statement |
|---|---|
| `SuiteInvariant` | `Spec => []SuiteInv` |
| `PollsAreAnswered` | `Spec => []GenerationAnswered` |
| `NoLiveRunReaped` | `Spec => []LiveRunNotReaped` |
| `ResultsAreKept` | `Spec => ResultsStay` |

`GenerationAnswered` needs that the gate is held exactly while its generation is under way,
and that nobody's failure is kept meanwhile (`OneGeneration`): without the second half
the end of a generation could drop a failure that was not reported; and that a landed suite
exists (`SuiteLanded`), which a deletion does not undo because it looks at the gate first
(`EditOpen`). `LiveRunNotReaped` needs that a lock is held exactly by the worker it names, from
before its placeholder to after its last write (`LockedRun`, `Placeholder`), and that
results are the last thing a worker writes (`DoneIsLast`): a poll that found the lock
free after the run was known can only have come after all that. `ResultsStay` follows from
it. `Consistent` covers the copies that curators and runs hold across an await.
Assumption: `SuiteAssumption`, the types of the constants.

Only model-checked: the liveness properties (`DrainSettles`, `ZombiesRecovered`,
`DoomedCrawlEnds`, `PendingTaken`, `RunsEnd`, `RunsReachEnd`), which are beyond the prover
together with `ENABLED`; and, outside the conditions of the table above,
`IndexedHasOneCopy` and `CompletedIsComplete` over two versions (`redrain`). What the violation runs
refute has no theorem. The prover can also not do induction over data or recursive
operators; the modules have neither.

## Not modelled

- Of the drain: `mintVersion`'s inner steps and a crash between them, the collections of
  a graph one by one, two administrators at once, several repositories. Each multiplies
  the states of runs that are at their limit; they need instances of their own.
- Of the crawl queue: what a page contains, link discovery, rate limits.
- Of the benchmarks: suite generation, which has the same submit, poll and cancel under a
  map of its own; explains, exports and thresholds; a second server replica.
- Of the head suites: explains and tag recommendations, which have placeholders and a
  lock of the same form; synchronous runs; rows without a query.
- `job-registry.js`: a table whose operations are single synchronous statements.
- Import, parsing, frontmatter, bundles, edges, validation, translation, PII scoring: they
  transform one document or repository at a time, with no second actor; what could be
  stated of them is about text.
- Chat backend, retrieval and the front ends: sessions, prompts, ranking and user
  interfaces over what the parts above have produced. The largest files of the repository
  (components of the front end and its translations) are of this kind.

## What could come next

1. `ClaimProtocol` and `SettleProtocol`, what the claims and the lease of the drain
   promise, as abstract specifications that `IngestDrain` implements.
2. The lifecycle with two concurrent requests; the mint in steps; promote and drop
   collection by collection with a crash between two renames.
3. `IndexedHasOneCopy` and `CompletedIsComplete` proved over several versions, where a
   graph is replaced, and with claims that age under adaptive windows; `RetractSparesLiveTask`
   for several cycles, up to the re-stamped claim.
4. Suite generation of the benchmarks beside its runs, over the same sidecar.
