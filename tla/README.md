# legal-rag-agent: a verification development

TLA+ models of the stateful parts of `legal_rag/`, checked with TLC on small
instances, and theorems about them proved with TLAPS for every value of their
constants. Paths below are relative to `legal_rag/` unless they start with
`docs/`; `PROJECT.json` maps every definition to the lines it stands for.

## 1. The system

legal-rag-agent answers questions on statutes from a versioned corpus. Around
prompts and scores, which are sequential and stateless, stands a service that
does durable work in several processes over PostgreSQL, Redis and directories of
immutable files. That service is what can go wrong in ways a test hardly reaches,
and what is modelled here.

| Component | State it keeps | Operations | Interacts with | What makes it correct |
|---|---|---|---|---|
| Durable job store (`jobs/store.py`) | tables `jobs`, `job_items`, `job_outbox` | 16 transactions: submit, cancel, claim/mark/retry outbox rows, recovery scan, claim, heartbeat, set total/stage, claim/complete/reconcile/fail items, finish, activate | API, dispatcher, workers | stale leases write nothing; counters are those of the ledger; success means all items and no cancellation; deliveries and attempts are bounded; one job per idempotency key |
| Outbox dispatcher (`jobs/dispatcher.py`, `jobs/command.py`) | the claimed batch | scan, collect, publish, settle | job store, Redis | no job is forgotten, none is delivered without end |
| Worker (`jobs/worker.py`, `process_job`) | the task, its lease, the heartbeat flag | take, beat, check, finish, retry, die | Redis, job store | writes only under its lease; every job ends |
| Evaluation jobs (`run_evaluation_job`) | experiment directory, attempts, markers, `flock` | per case: claim, credit or run, complete, fail; aggregate | job store, M2 experiment store | credited results are on disk; no result is overwritten; the aggregation is complete |
| Ingestion jobs (`run_ingestion_job`) | nothing of its own | six stages; activation in one transaction with the pointer | job store, repository, catalog | pointer, last item and job commit together; no stage is skipped |
| Snapshot catalog (`storage/catalog.py`) | active pointer, activation events, snapshot statuses | read, activate, rollback, look up articles and relations | operators, ingestion, retrieval | the pointer is the last event; no move on an outdated view; a lookup answers from one version in force |
| Corpus repository (`storage/repository.py`, `import_workflow.py`, `contracts.py`) | snapshots, imports, rows; plan and receipt files | plan, apply, `import_bundle`, read back | ingestion, CLI | imports are immutable, atomic, and what was planned |
| Retrieval (`storage/retrieval.py`) | none; reads a frozen boundary | bind a corpus, filter, fuse, truncate | corpus, runs | a boundary reads the same for ever |
| ANN generations (`storage/ann.py`) | generation rows, receipts, physical indexes | ensure, bind, retire, search with exact fallback | importers, CLI, retrieval | a binding is backed by one index over exactly its rows; answers are complete |
| Run service (`services/run_service.py`) | sessions, runs, attempts, ledger, checkpoints, events, messages | create, claim, heartbeat, recover, reserve/dispatch/finish attempt, bind checkpoint, publish, cancel, resume | API, supervisor, harness | one active run per session; budget never exceeded; no unknown outcome repeated; one answer |
| Supervisor (`services/supervisor.py`) | current execution, quarantined threads | poll, recover, execute with timeout, stop | run service, harness | every claim is settled; shutdown leaves runs recoverable |
| Harness (`harness/`), turns (`chat.py`, `verifier.py`, `evidence.py`) | graph state, checkpoints | retrieve, merge, check, plan, generate, verify, persist | run service, retrieval, provider | progress is one walk; nothing paid is repeated in silence; answers rest on what they cite |
| HTTP API (`api/app.py`) | the cursor of a stream | submit, cancel, resume, stream events, page messages | run service, job store | a stream ends delivered |
| M2 experiments (`experiment_*.py`) | manifest, attempts, markers, stage cache, aggregations | run, resume, replay, aggregate | CLI, evaluation jobs | exact cache; sessions are chains; bundles claim what the disk holds |
| Schema (`storage/alembic`, `models.py`) | constraints and triggers | upgrade, downgrade | all of the above | it refuses no statement of the service |
| Job registry, query understanding, judge, data preparation, datasets, observability, command line | none shared, or best effort | | | not modelled, section 8 |

Hard behaviours: two workers on one job or run after a lease expired, each unaware
of the other; messages lost, duplicated and redelivered; crashes between two
transactions, and between a file and a transaction; a publish or a commit whose
answer is lost; a cancellation against a success; the active pointer moved between
a read and a compare-and-swap; two threads after one cache entry; a client that
reads a log while it grows; a trigger that looks at rows half-way through a
transaction. Every hazard is listed in `PROJECT.json` at the line where it bites,
with the property that would catch it.

## 2. Modules

| Module | Models | Checked by |
|---|---|---|
| `JobStore` | every transaction of `JobStore` that writes a row, one action each, with arbitrary callers | `JobStore.cfg` |
| `JobContract` | abstract: what a job promises, without tables, leases or messages | `ImplementsContract` |
| `JobStore_proofs` | the inductive invariant of the job store and the refinement; every step of the service is a transaction of the store under a granted lease, and what its frames keep | TLAPS |
| `JobService` | dispatcher, broker, worker slots and `process_job` over `JobStore` | through the two below |
| `EvaluationJob` | `run_evaluation_job` over `JobService` and the M2 store's files | `EvaluationJob.cfg`, `EvaluationLiveness.cfg` |
| `IngestionJob` | `run_ingestion_job` over `JobService` and an instance of `Catalog` | `IngestionJob.cfg` |
| `EvaluationJob_proofs`, `IngestionJob_proofs` | their inductive invariants and safety properties | TLAPS |
| `Catalog` | pointer, events, imports, under optimistic preconditions | `Corpus.cfg` |
| `Corpus` | the tables behind the catalog; plan, apply, import, receipt | `Corpus.cfg` |
| `CorpusReads` | exact lookups, listings, bound corpora and what a search returns from them | `Corpus.cfg` |
| `StorageGuards` | the keys and triggers of migrations 0001 to 0003, statement by statement | `Corpus.cfg` |
| `AnnIndex` | builders, generations, receipts, indexes, searches, migration 0004 | `AnnIndex.cfg`, `AnnDeadlock.cfg` |
| `SnapshotNames` | the constants catalog, corpus and ANN share | through these |
| `Corpus_proofs` | the inductive invariants of catalog, corpus and ANN generations, and that reads are reproducible | TLAPS |
| `RunService` | every transaction of `RunService` that writes a row of a run, one action each, with arbitrary callers | `RunService.cfg` |
| `EventStream` | the loop of the event stream and the pages of a transcript | `RunService.cfg` |
| `RunTables` | constraints of migrations 0005 and 0006 and the downgrade of 0006 | `RunService.cfg` |
| `RunService_proofs` | types, leases, ledger, journal and checkpoints of a run; sessions, messages, keys, events and constraints | TLAPS |
| `Supervisor` | the supervisor's loop, its executor threads, `stop()` and the hosting process over `RunService` | `Supervisor.cfg`, `SupervisorStop.cfg` |
| `ChatTurn` | the stages of one turn as functions: evidence check, safe results, verification, contracts of stored turns | through `RunHarness` |
| `RunHarness` | the bounded graph over `RunService`: nodes, checkpoints, reservations, calls | `RunHarness.cfg` |
| `RunHarness_proofs` | that executions of the graph are runs, published answers, the walk of `RunProgress`, no silent repetition; that supervised runs are runs, bounded executions, failures with a cause | TLAPS |
| `RunProgress` | abstract: one walk through the graph, one draft, one answer | `ImplementsProgress` |
| `ExperimentStore` | manifest, attempts, markers and their validators, as operators | through the two below |
| `ExperimentRunner` | scheduler, threads, stages, exact cache, run, resume, replay | through `ExperimentAggregation` |
| `ExperimentAggregation` | the four passes over the inventory and the published bundle, beside a runner | `Experiments.cfg` |
| `Experiments_proofs` | the inductive invariant of runners, threads, files and cache; exact reuse; what a step of a thread does | TLAPS |
| `ExperimentSessions_proofs` | sessions, summaries and lost races: the invariant of sound directories | TLAPS |
| `MC*` | instances for TLC, their symmetry sets and bounds | |

Correspondence of state and code:

* **Job store.** `jobs`, `items`, `outbox` are the three tables, row by row;
  `grants[j][e]` is a history of claims, to say which lease a worker may present. A
  transaction that returns False or None, or raises, rolls back and is no step.
  Timestamps are abstract: a job lease counts down `LeaseTicks`, an outbox claim is
  `live` until the environment expires it, and delays that only postpone a step are
  left to nondeterminism. Any worker may present any lease it was ever granted, at
  any time and for any item: weaker than the real callers, so that what holds there
  holds of any of them. `JobService` restricts the callers to the real loops, and
  `KeepsToTheStore` (the specification of `JobStore` as a property) shows that it
  is a restriction.
* **Job service.** `sender[d]` is the local state of `dispatch_once`; `broker[j][t]`
  counts messages by how often they were retried; `task[w]` is the frame of
  `process_job` in worker slot w: program counter, lease epoch, the stage the claim
  returned, the case or stage it is at, the reference in hand and the flag of the
  heartbeat thread. Each database call, file operation and lock is a step of its own.
* **Evaluation.** `dir`, `attempt`, `artifact`, `lock` are the experiment directory,
  the attempt files, the complete markers and the `flock`. A crash inside the M2
  runner may leave a directory without manifest, an attempt without marker, or
  failed attempts; a takeover completes a pending result first and then runs one
  more case, as the code does.
* **Catalog and corpus.** `snapshots`, `imports`, `pointer`, `history` are the
  catalog of one scope, `tables` the rows of the corpus as functions of their keys,
  `plan[i]` and `applied[i]` where an operator is between plan, apply, import and
  receipt. `import_bundle` is one transaction under the advisory lock
  `legal_rag_corpus_import_v1` and hence one step, with every comparison of an
  immutable row; a stored hash that agrees is a row that agrees. Reads that take
  several statements are modelled as one, which `ReadsAreReproducible` justifies:
  what a boundary reads never changes. In `IngestionJob` the activation is two steps
  (`OpenActivation`, `CommitActivation`), between which the job row is locked and
  the world moves.
* **Guards.** `StorageGuards` replays each step of `Corpus` and of the pointer as
  its statements in order, and evaluates at each the trigger that fires there, over
  the rows as the statements before have left them.
* **ANN.** A manifest hash stands for the set of chunks it covers and an index for
  its parameters and the rows it holds. `build` and `search` are transactions that
  take locks in steps (advisory, SHARE, ACCESS EXCLUSIVE); what follows the last
  lock is one step. An index that a build finds without a receipt (`adopt`) arises
  only through a downgrade and upgrade of migration 0004.
* **Run service.** As in `JobStore`, a worker may present any lease it was ever
  granted, for any call at any time; `leases[r][e]` is that history. `runs[r]` is
  the row (its checkpoint namespace is the epoch in `trusted`); `ledger`,
  `attempts`, `checkpoints`, `artifacts`, `events`, `messages` and `keys` are the
  other tables. `checkpoints[r][c].after` stands for the comparison of `created_at`
  with `completed_at`: the successes completed strictly before, of which one may be
  missing because the clock was too coarse.
* **Event stream.** A turn of the loop reads a page and then the run, in two
  transactions. The log only grows, so that the page read at the first moment is a
  page of any earlier length of the log (`seen`); every cursor is tried.
* **Run tables.** The columns a CHECK ties to the status are followed as the set of
  those that are not NULL; `ColumnsAccepted` checks each statement on a row.
* **Supervisor.** `loop` is the frame of the loop thread: where it is (`top` of
  `_loop`, `claim`, `load`, `watch` in `_execute_with_timeout`, `fail` in
  `_safe_fail`), with which execution (a run under one lease), and whether its time
  is over. `current` is `_execution_thread`, `token` the executions whose `active`
  event is set, `quarantined` the list of threads given up, and `thread` what became
  of each thread: Python cannot kill it, so it goes on under its lease. `stopper` is
  the caller of `stop()`, in the lifespan of the API process, and `process` the
  worker_id of that process.
* **Harness.** `frame[r][e]` is the execution of run r in the thread of lease epoch
  e: the node or call it is at, the graph state, the pending writes. Every call to
  the run service is a step, and what is computed between two calls belongs to the
  one before; threads of older epochs live on. `published[r]` is the row of
  `run_results`. Texts are kinds, scores are strong or weak, source Sn is n.
* **Experiments.** `exps[e]` is the directory of an experiment, `cache` the shared
  stage cache, `run[e]` the frame of its runner, `work[e][u]` the thread of a unit
  (a session or a single case), `agg` the aggregating process and `published` the
  bundles, file by file. A provider call is three steps (dispatch, answer,
  publication of the entry); a stage without a provider is one. Launches, resumes and
  replays come in two kinds. `RunExperiment`, `ResumeExperiment` and `ReplayExperiment`
  are those of the lifecycle, whose runtimes have no provider: it refuses to generate,
  to run a manifest that allows external calls, and to replay a source that does (a
  replay that would generate leaves the new directory behind and runs nothing).
  `RunWithProviders`, `ResumeWithProviders` and `ReplayWithProviders` are those of a
  caller that gives `ExperimentRunner` a runtime factory of its own, as the tests of
  the adapter do; only there can a call be made, lost or repeated. The end of an
  attempt follows the code into its own validation: `FailPublication` is the path on
  which `StageObservation.to_dict` refuses the failure that is being recorded, so that
  the exception leaves the thread and ends the run with no attempt written.

## 3. Runs

| Run | Question | States |
|---|---|---|
| `job_store` | do the tables keep their invariants and implement the contract under arbitrary callers; is there one job per key? | 245,329 |
| `evaluation` | are credited results on disk, never overwritten, and complete before aggregation; does every process keep to the transactions of the store? | 816,945 |
| `evaluation_liveness` | does every accepted job end, or is it reported undeliverable? | 379,001 |
| `ingestion` | do pointer, item and job commit together; is no stage skipped; is any move of the pointer blind? | 1,340,086 |
| `corpus` | do pointer, statuses, history and rows agree; is what was planned imported, and read back for good; do reads answer soundly; do the triggers refuse nothing legal? | 47,853 |
| `run_service` | do journal, ledger, checkpoints, events and turns of a run agree under arbitrary callers; is nothing undone; do the tables refuse nothing? | 226,631 |
| `ann` | is every binding backed by one index, every answer complete and of one generation? | 1,587,400 |
| `ann_deadlock` | does the order of the locks keep two builders from waiting for each other? | violated |
| `experiments` | is reuse exact, are sessions chains, are reports true, does every run end? | 263,579 |
| `harness` | is durable progress one walk, is nothing paid repeated in silence, are answers earned? | 991,092 |
| `supervisor` | is every claim settled and every claimable run served, is capacity kept, does a shutdown fail nothing? | 114,813 |
| `supervisor_stop` | does `stop()` answer True only when no execution is alive? | violated |

Every property has a mutant in the modules (a dropped guard, a missing reset, a
lock not taken ...) under which its run fails; `PROJECT.json` lists them. A property
that joins several facts is a conjunction of named ones.

The properties, and why they are worth their run:

* `ProgressMatchesItems`: the counters of a job row are maintained by increments in
  five transactions and never recomputed. `SuccessIsComplete`: a success against a
  cancellation and against failed items. `TablesAreSound` (types, `LeasePair`,
  `OutboxBounded`, `AttemptsBounded`): what the CHECK constraints and the partial
  index `uq_job_outbox_pending_per_job` demand, and the bounds ADR-004 states ("at
  most five outbox rows"). `OneJobPerKey`: two submissions under one key race.
* `ImplementsContract`: a stale lease credits nothing, credits and ends are final,
  success needs all items and no accepted cancellation, a cancelled end needs one.
* `LedgerMatchesDisk` relates the ledger to the file system, which share no
  transaction: `CreditedArtifacts` (a credited result is on disk) and
  `NothingToOverwrite`, which holds because of the `flock` alone: the lease does not
  exclude the old holder. `AggregationIsComplete` also says that the guard for an
  inconsistent stage never fires.
* `ActivatedTogether` (with `ActivatedComplete` and `StageNotAhead`), `NoBlindMove`:
  the promises of ADR-004 on activation. They show in passing that the branch of
  `_activation_ref` for an activation of an earlier attempt cannot be reached.
* `CatalogInv` (`PointerIsLastMove`, `HistoryIsAChain`), `NoStaleMove`: the checks
  that `_active_snapshot` makes on every read never fail; a view is outdated even if
  the snapshot it saw is active again.
* `ImportsStayValid`: rows are shared between snapshots, so a later import could
  change what an earlier one meant; its receipt reads back for good.
  `PlannedIsImported`: the files may change between plan, apply and import, and the
  operator may die between any two. `ReadsAreSound`: versions that overlap, end on
  the day asked for, or have no known validity; fusion and truncation of rankings.
  `ReadsAreReproducible`: a run reads its boundary long after it was frozen.
  `GuardsNeverRefuse`: triggers see rows half-way through a transaction.
* `GraphsAreAccounted`: an index outlives its generation row, and a crash or a
  downgrade leaves one without a receipt. `AnswersAreComplete`, `ServesTheGeneration`:
  three fences are read at different times around an approximate search. A bound
  generation stays refused after PostgreSQL or pgvector changed its version, until
  new embeddings arrive; searches then fall back to the exact order.
* `JournalIsComplete`: attempts are paid for in one table and recorded in another,
  and recovery rewrites the second only; ADR-003 promises that budget is neither
  exceeded nor refunded. Recovery looks only at the attempts of the last lease, so it
  must never leave one of an older lease in flight; a model result that the trusted
  checkpoint may lack is not kept as a success.
* `NothingIsUndone`: no late answer replaces an unknown outcome, ends are final (only
  the publishing lease may still bind its last checkpoint), and the deadline is
  absolute over any sequence of interruptions and resumes. `TrustedIsNewest`: a run
  resumes from the newest lease that bound a checkpoint.
* `EventsAreDelivered`: events are written next to the row, not derived from it, and
  read in pages while the run goes on; a stream that ends has delivered the terminal
  event, as section 7 of ADR-002 says, and the pages of a transcript make it up.
  `OneConversation`: an interrupted run is still active, otherwise turns would
  interleave and `_completed_history` would drop or mix them.
  `ReplayIsTheSameRequest`: after expiry, rebinding and follow-ups.
* `NeverRefused`: recovery rewrites reserved, dispatched and succeeded attempts with
  one statement; if a CHECK refused one row of the batch, the batch would be rolled
  back and repeated for ever.
* `ImplementsProgress`: a checkpoint is put and bound in two transactions, and a
  worker may be gone between them. `NoSilentRepeat`: a model that may have been paid
  is not asked again unless the retry of unknown outcomes is on, and then at most
  `MaxRetry` times. `AnswersAreEarned`: a follow-up replaces results, evidence check
  and terminal answer of the turn before; what is published cites what was retrieved.
* `ExactReuse`: two threads publish one stage under one key; a cached value is the
  one the stage would have had. `SessionChain`: a turn continues the turn before it,
  also after crashes and retries. `AcceptsItsOwnHistory`: the validators never refuse
  what the runner itself has written, and no exception ends a run but that of a race
  lost in mode cache (`LostRace`), which one thread alone never meets. `ReportsAreTrue`: summaries and bundles, whose
  four passes are not atomic, claim nothing the directories do not hold.
* `KnownExecutionsBounded`: four places move a thread between current, quarantined
  and forgotten. `FailuresHaveACause`: the order of the handlers in
  `_execute_claimed` decides whether a shutdown fails the run it interrupts.
* `JobsSettle`, `RunsSettle`, `ClaimableIsServed`, `RunsEnd`: see section 5.

Two runs show where the code and its own words disagree:

* `supervisor_stop`. A heartbeat is refused when the run has been cancelled, or
  answered by an executor that has not returned yet, and may fail for reasons of
  the database. The exception leaves `_execute_with_timeout` at line 313 past the
  code that clears and quarantines the thread. The next claim overwrites
  `_execution_thread`; from then on neither `stop()`, nor `start()`, nor the
  capacity of the quarantine knows of the thread, and `stop()` answers True while
  it is alive. ADR-002 promises False, and the lifespan of `api/app.py` disposes
  the engine on that answer. `KnownExecutionsBounded` is therefore about the
  threads that are known.
* `ann_deadlock`. The comment at `storage/ann.py:748` says that the advisory lock
  keeps two builders from both holding SHARE while they retire an index. The lock
  is keyed by profile and dimension, so builders of two profiles take two locks and
  deadlock on the table, until PostgreSQL aborts one of them.

Seen while modelling, and covered by no run of its own:

* Two threads of a run in mode cache ask the same question. Both miss the entry, both
  call, and the answers differ; the second publication is refused with
  `CacheConflictError`, as it must be. The adapter puts the origin `cache` on the failed
  stage (`experiment_adapter.py:1060`), and the ledger holds the call just made.
  `StageObservation.to_dict` refuses the two together (`experiment_runner.py:312`),
  inside the handler that records the failure: no attempt is written, the call is on no
  record, and the exception ends the run, although `CHANGELOG.md:238` says that failures
  keep an explicit state and real calls are recorded in every mode. The model takes this
  path (`FailPublication`), `AcceptsItsOwnHistory` names it as the only one by which an
  exception ends a run (`LostRace`), and the next run finds the entry.
* A shutdown clears the callback token but leaves the run under its lease, which is
  the only fence of the graph executor: a quarantined thread may still publish. The
  answer is whole and fenced (`NothingIsUndone`).
* A worker that dies in a retrieval round has paid for it; a resume may therefore
  end the run as limited. An early timeout of the planner, even one retried with
  success, blocks later planning rounds, since `has_outcome_unknown` looks by name.
* The harness disables adaptive retrieval, so that `missing_facts` is always empty
  and `needs_clarification` is not reached in the graph; `merge_followup_turn` never
  writes `merge_trace["evidence_filter"]`. `ChatTurn` keeps both branches.
* A client whose cursor lies before an interruption that has been resumed since gets
  a page with `run.interrupted`, and its stream ends although the run is active; it
  connects again with `Last-Event-ID`.

## 4. Bounds, and why they are enough

* **Jobs.** Two workers and `MaxClaims = 2`: the interesting cases are an old and a
  new holder of one job; a third claim adds another stale holder like the first.
  `claim_job` and `claim_item` compare with the limit, so that 2 reaches every branch
  that 3 (items) or 5 (claims) reaches. One job per instance, except where jobs
  interact: the `Bound` of `MCJobStore` lets either one job with items or two jobs
  under keys run their course, as jobs share no other row. Two items or cases: one
  finished and one under way. Ingestion has four stages in place of six: the three
  whose effects differ (re-read, import, validate) and the activation; `received` and
  `embedded` behave like any other. `MaxAutoDeliveries = 2` (code: 5), `LeaseTicks` 1
  or 2, `MaxSends` claims of an outbox row, `MaxRetries` of 0 or 1 (code: 2),
  `MaxFaults = 1`: one fault at any step, in addition to lease expiry, which is free.
  In `ingestion` either a fault happens or an operator moves the pointer. The proofs
  hold for any number of these.
* **Corpus.** Two importers, two operators, seven bundles: one more snapshot of the
  same rows, another profile, a larger one, one that differs in a vector, one with
  overlapping versions, one that adds an article to a version in use, one with an
  article number twice. `MaxMoves = 4` reaches A, B, A and a rollback after it;
  `ImportsComeFirst` lets a second activation happen only with no plan open, since
  imports and moves share only the status of a snapshot. `RRFK = 2` (code: 60) lets
  ranks of two lists outweigh each other within few chunks.
* **ANN.** Two builders with different parameters, two snapshots of which one adds a
  chunk, two profiles, one searcher; `MaxInstances = 2` indexes for a profile and one
  upgrade or change by an operator (`MaxChanges`).
* **Runs.** In `run_service` either one run with two operations (one of a model and
  one of a tool, since recovery treats models apart and embeddings like tools), two
  leases (an old and a new one), one checkpoint for each and two attempts (one of each
  kind, or a retry), or two runs in two sessions under one key, without attempts and
  with three claims in total, as only sessions and keys join runs. Attempts come after
  the retrieval round, on which they do not depend. `PageSize = 2` is exceeded by every
  run that ends. The proofs hold for any number of these.
* **Harness.** One run, two leases, three executors (the one of `api/command.py`, one
  with planner and generator, one that retries unknown outcomes), `MaxRounds = 2`,
  `MaxQueries = 2`, limits of two model and three tool calls, all reached. `Bound`
  keeps one of several steps that cannot be told apart: a lease is lost or a run
  cancelled just before a call that writes, a deadline passes just before it is
  compared, a thread outlives its lease only where it may still write, and the clock
  is fine (the coarse one is in `run_service`). `CheckpointId` numbers the checkpoints
  of one lease; no lease reaches the last.
* **Experiments.** Eight scenarios, each with the faults it is about: a session with
  crashes and failing providers, a stop with two threads for one permit, a replay
  with damage, two experiments that share the cache with a new checkout, an
  aggregation beside a runner, aggregations of a damaged session with a crash, runs,
  resumes and replays of the lifecycle, and one that may call nobody and asks to
  generate.
* **Supervisor.** One run claimed twice, since the loop executes one at a time and two
  leases of one run are two executions to it; capacity one (code: 4), which one
  draining thread fills; two failing database calls, so that a failure can follow a
  failed heartbeat; one stop, two processes. The deadline of a run and the expiry of
  keys are left to `RunService`. `supervisor_stop` has two runs and no fault.
* `CHECK_DEADLOCK FALSE`: all the work may be done, and the system stops.
* Symmetry only permutes workers, items, references, operators and importers, which
  no definition tells apart, and only in runs without liveness.

## 5. Fairness

`EvaluationSpec` assumes weak fairness of what loops in the code: each
dispatcher's pass (`dispatch --poll`, a loop restarted by its service manager),
each worker's next step (Celery's loop and the straight-line handler), and the
clock. Nothing makes a client act, a heartbeat arrive or a fault happen; and an
outbox claim that expires under a dispatcher still at work on it counts as a
fault. Under this, `JobsSettle`: every accepted job becomes terminal or carries
`delivery_unconfirmed`, which is what the code reports when it gives up.

`SupervisorSpec` assumes that the loop thread is scheduled; that the recovery pass
and the claim are not for ever beaten to every row by other transactions (strong
fairness, since both are due again and again: every `poll_seconds`, at the latest
every five seconds); that time passes, for an execution and for a lease nobody
renews; and that a process that has called `stop()` ends and another one starts,
which is what its service manager does. Executors, users and the database owe
nothing: a thread may hang for ever. Under this, `RunsSettle`: no run stays
`running`, whichever of an executor, a process, a heartbeat or a commit's answer
was lost; and `ClaimableIsServed`: a run waits for ever only behind a quarantine
that stays full.

`AggSpec` (experiments) assumes weak fairness of each runner process: its scheduler
and its threads go on while the process lives and providers answer or time out,
which the client enforces. Crashes, damage and stops are bounded by the scenario and
not fair. Under this, `RunsEnd`: no run call waits for ever, whichever thread holds
the permit or the flight of a cache key when it fails.

## 6. What is proved

Each proof is about every value of the constants: any finite or infinite number of
jobs, items, runs, workers, snapshots, profiles ... and any positive limits. What is
assumed of the constants is named in the module that declares them, and TLC evaluates
it on the instances of the runs. Most assumptions say that NULL is none of the values
it stands beside (`NullIsFresh`, `NullIsNoCheckpoint`, `NullIsNoIndex`,
`NullIsNoEntry`, `NullIsNoSnapshot`, `NullIsNoSelector`) or that a limit is a number
(`LimitsArePositive`, `TotalsAreCounts`, `BoundsAreCounts`, `MovesAreBounded`); the
others are named below.

**Job store** (`JobStore_proofs`; `FiniteItems`: a job has finitely many items).

* `Invariance`: `Spec => []IInv`. `IInv` joins the type invariant, `Unborn`,
  `LeasePair`, `ProgressMatchesItems`, `SuccessIsComplete`, `AttemptsBounded` and
  `OutboxBounded`. None is inductive alone: that a completion keeps the counters
  right needs the ledger of a running item; that a success is complete needs the
  counters; that submission keeps anything needs `Unborn`, since a row that was
  never written must have an empty ledger and outbox; that the outbox keeps one
  pending row needs its types. The proof has one lemma for each transaction and
  splits `IInv` into predicates on the row, ledger, outbox and grants of one job
  (`RowsToIInv`), so that a transaction on job j is only argued about j.
* `CountsAreRight`, `SuccessIsHonest`, `TablesStaySound`: its consequences, each a
  property of run `job_store`; `TypeCorrectness`, `LeasesArePaired`,
  `DeliveriesAreBounded` and `AttemptsAreBounded` are the parts of the last.
* `KeysAreUnique`: `Spec => []OneJobPerKey`. A submission takes a key no row of its
  kind has; every other transaction leaves kind and key of every row as they were
  (`SameIdentity`).
* `Refinement`: `Spec => ImplementsContract`: every transaction maps to a step of
  `JobContract` or to a stutter under the mapping `Phase`, `Size`, `Turn`, `Asked`,
  `CreditTable`. The credits need `ProgressMatchesItems` (the contract counts the
  credited items, the code increments a counter) and `LeasePair`.

**Job service** (also `JobStore_proofs`). Lemmas that need nothing of what a job does:
each step of a dispatcher, of the broker and of `process_job` either leaves the tables
alone or is one transaction of `JobStore` under a lease in `grants`, and keeps the
frame typed. `EndsStay` (a job that has ended stays as it is) and `NoNewSuccess` say
what no transaction but the last one does.

**Evaluation** (`EvaluationJob_proofs`; `ItemsAreCases`, `CasesAreATotal`,
`RegistrationIsKnown`, `ItemsAreStages`).

* `EvaluationInvariance`: `EvalInv` is inductive for `EvaluationSafety`, the
  specification without its fairness. It joins `IInv`, the types of
  frames and files, what a frame knows where it stands (its lease was granted, the
  `flock` is held from the case it has claimed to the end of it, the cases before its
  own are credited, a result in hand is one that was computed), and `MarkersComplete`,
  `CreditedArtifacts`, `StagesEarned`: a marker has a whole result behind it, a credit
  a marker, a recorded aggregation all credits. That no result is overwritten follows
  from the lock, not from the lease: the argument is that a worker past the claim of
  a case holds the lock, and that while it does nobody else writes a file.
* `EvaluationKeepsToTheStore`: `EvaluationSafety => KeepsToTheStore`; hence every
  theorem about `JobStore` holds of the service.
* `LedgerFollowsTheDisk`, `AggregationStaysComplete`: the invariants of the run.

**Ingestion** (`IngestionJob_proofs`; `StagesAreATotal`, `JobsSignForThemselves`).

* `IngestionInvariance`: `IngestInv` joins `IInv`, the types of catalog and frames,
  what a frame knows (lease, order of the stages, the stage it is at, and, inside the
  transaction of the activation, the pointer as it was read and locked), and
  `PointerWasMoved`, `JobsMoveToTarget`, `ActivatedTogether`. That a job activates at
  most once needs `EndsStay`: the activation ends the job in the same transaction, and
  nothing begins it anew.
* `IngestionKeepsToTheStore`, `ActivationsStayTogether`, `MovesAreNeverBlind`.

**Catalog and corpus** (`Corpus_proofs`; `ReadersAct`, `HashesIdentify`,
`BundlesAreBuilt`: a bundle names a snapshot and a profile and has a chunk;
`SnapshotsAreAsked`: requests and filters name snapshots, and there is a request).

* `CatalogInvariance`: `CatalogSpec => []CatalogInv`, the conjunction of the type
  invariant, `PointerIsLastMove` and `HistoryIsAChain`. The chain needs the pointer
  (a new event starts where the pointer stands, so the pointer must be where the
  last event ended); that only the first event is an `initial_activate` needs
  the revision to be the number of events; that a move goes somewhere else needs
  the statuses, since the code refuses a target that is `active`, not one that
  equals the pointer. `CatalogStaysSound`, `MovesStayCurrent`: the same, and
  `NoStaleMove`, while operators import.
* `CorpusInvariance`: `CorpusInv` joins `CatalogInv`, `ImportsStayValid`, `KeysAgree`
  (an import is filed under its own snapshot and profile; a snapshot has members
  exactly when the catalog knows it) and `PreparedAsPlanned`. The argument is that an
  import only ever adds rows (`Kept`), so that what is stored stays stored, and that
  an import accepted agrees with every row it shares, so that it is stored itself.
* `ImportsStayOnRecord`, `OnlyPlansAreImported`: properties of run `corpus`.
* `ReadsStayReproducible`: `CorpusSpec => ReadsAreReproducible`. What a lookup or a
  search reads of a snapshot that is served are rows of a bundle on record
  (`StoredChunk`: members, relations, articles, versions and vectors are all there),
  and these are kept.

**ANN** (also `Corpus_proofs`; `SnapshotsHaveChunks`).

* `AnnInvariance`: `AnnInv` is inductive: who holds which lock at which step, the
  generation of a profile, its receipts, the binding, and the physical indexes. A
  builder past its last lock is alone with the table, so that what it read is still so
  when it writes; without the locks in the invariant no other part is inductive.
* `GraphsStayAccounted`, `AnswersStayComplete`, `IndexesServeTheGeneration`.

**Runs** (`RunService_proofs`).

* `RunTypesHold`: types, the pair of owner and lease, that each claim is one epoch
  of the history of leases, and that a run not yet created owns no row
  (`UnbornIsBlank`). Each transaction is first summarised as a step of one run
  (`StepOf`: created, ended, claimed, recovered, reserved, bound ...; `RunSteps` shows
  that every transaction is one for each run), and the invariants about a run are then
  argued over the summaries.
* `TrustedStaysNewest` (`Trusts`), `JournalStaysComplete` (`Accounts`: the ledger counts
  the journal; `Remembers`: an attempt in flight belongs to the lease of the row).
* `SessionsAreOneConversation`: needs `Turns`, that the messages of a session are the
  questions and answers of its runs in order and only the last asker may be active.
  `ReplayStaysTheSameRequest`: needs `KeysBound`. `NothingIsEverUndone`: an action
  property, over every summary. `EventsAreAlwaysDelivered`: needs `Logged`, that the log
  tells the status of its run, a pending resume and every unknown outcome; a page of an
  earlier moment is a page of a shorter log. `TablesNeverRefuse`: needs `Descends` (a
  run continues another one that exists) beside the types and the journal.

**Supervisor** (the end of `RunHarness_proofs`; `NullIsNoExecution`).

* `SupervisionHolds`: `Supervised` is inductive. It joins the types of runs, what the
  loop has in hand (an execution of its own process, the current thread once it
  watches it), `Past` (nothing is known of an execution before its lease is granted,
  so that a claim is always a new one), `Room` (there is room for an execution between
  its claim and its start; that the bound holds after the start needs it) and
  `Blamed` (who is about to fail a run knows why).
* `SupervisedRunsAreRuns`: `SupervisorSafety => RunSpec`, so that the theorems about
  `RunService` hold of supervised runs, their lost executors included. A call that
  presents a lease is one of `RunService` because only a lease of the history passes
  `_assert_worker_lease`.
* `KnownExecutionsStayBounded`, `FailuresAlwaysHaveACause`: properties of the run.

**Harness** (`RunHarness_proofs`; `ChunksAreKnown`: the corpus is finite; `TopKIsANumber`,
`NothingIsNoValue`, `AnswersAreRead`: what a model says has a form and cites numbers;
`OperationsAreKnown`; `NullIsNoState`; and `ResultsAreInScope`: the retriever ranks the
chunks of the frozen snapshot and scope of the run, which are the verification context
as well (`service_retrieval.py:98`), so that nothing is filtered out between them).
The theorems have the hypothesis `TablesFit`: the artifacts and states a graph stores
are among those of `RunService`. It says which `RunService` is refined; the run gives
its constants exactly these sets.

* `PublishedAnswersAreEarned`: `HarnessSpec => []AnswersAreEarned`. `HarnessInv` is
  inductive. It joins `Typed` (the types of `RunService`), the types of the frames and
  of what is published, and `RunOK` for each run: `Trust` (the trusted state is
  `Coherent`: what a state has follows from the node it has passed; it is `Backed`: what
  it refers to is stored and its rounds are paid for; and a result is the one it refers
  to), `Sound` (so is the state in every frame, of lost leases too, and the turn in hand
  passes its validation) and `Follows` (the frame of the latest lease stands at the
  trusted state or one step ahead of it). An answer is earned because a chain of
  functions of `ChatTurn` made it; each has a lemma that says what it returns, and the
  artifacts between them are read back as they were stored. A frame of a lost lease
  satisfies less, which is enough: whatever it writes is refused.
* `HarnessedRunsAreRuns`: `HarnessSpec => RunSpec`, so that the theorems about
  `RunService` hold under the graph.
* `RunsWalkTheGraph`: `HarnessSpec => ImplementsProgress`. Only `Bind` moves the trusted
  state, and `Follows` says it moves one step; only `Limit` and `PersistResult` publish,
  once, since a published run has ended (`EndsStay`).
* `NoModelIsAskedTwice`: `HarnessSpec => NoSilentRepeat`. `AsksOnce` joins `Watched` (each
  attempt of the journal stands where the latest frame or the trusted state tells:
  one in flight is the one the frame is at, an answered one is `Reached` by the frame or
  `Settles` in the trusted state) and `Covers` (a checkpoint is past the successes it was
  bound after). It is inductive only beside `HarnessInv`, `JournalIsComplete` and
  `TrustedIsNewest`: at a claim the frame is lost, and that every success that still
  counts is behind the trusted checkpoint is what recovery has seen to. That the answer
  is not asked for again follows from the key of the operation: a state past it leads to
  a later round or a later node.

**Experiments** (`Experiments_proofs`; `ScenariosAreValid`: a dataset is a sequence of
cases with distinct ids, as `plan_work_units` and the case catalog check before anything
runs, and budgets are numbers; `NothingIsNoFile`, `NothingIsNoRuntime`).

* `RunnersStayTyped`: `AggSpec => []RunnerTypeOK`, for any dataset, number of
  experiments, threads and retries. `BaseInv` is inductive. It joins the types,
  `ThreadsOK` (what a thread has in hand at each step), `RecordsOK` (what a successful
  file holds), and `SessionsGenerate` (a dataset with sessions is one that generates:
  without it the success of a turn would add the answer of a stage that never ran).
* `CacheHitsAreExact`: `AggSpec => []ExactReuse`. `Filed` says of a list of stage values
  that each is the one the cache holds under the key of its stage, which is made of the
  contract, the question, the session state and the values before it. It holds of the
  values in hand of every thread and of every successful file; no step takes an entry
  away or replaces its value, damage included (a damaged entry is refused, not read).
  Equal inputs then give equal values one stage after the other, which is an induction
  over at most five stages (`FiledSame`). That units are sequences of cases of the
  dataset, each case at one place (`UnitsAreCases`, `SamePlace`), is what the frames of
  steps need: a step of one unit leaves the files of all others alone.

**Sessions, summaries and races** (from the section on sound directories in
`Experiments_proofs` on, and `ExperimentSessions_proofs`).

* `SoundInv` adds to `BaseInv` what the files of an experiment, its threads and the
  result of its runs say of each other (`Sound`). It is claimed of directories that
  are `Clean`, without stray files and changed bytes; the budget of damage is counted
  (`DamagesCounted`), so that all are clean while nothing was damaged. `DirSound`
  numbers the attempts and says that only the last can be a success; `TurnSound` that
  each was made from `StateIn`, the state the turn before left, and that all turns
  before are marked; `ThreadSound` that a thread stands where the files of its unit
  end, or that an exception ended it; `RunSound` that who gave up had a reason.
* `SessionsAreChains`: `AggSpec => []SessionChain`. What makes it inductive is that a
  thread works on a turn only while the turn is not marked and its attempts are
  `Open` (fewer than the retries allow, none a success, all retryable), so that a
  resume that plans a unit from its files stands exactly where the thread stood that
  a crash took away.
* `SummariesAreTrue`: `AggSpec => []SummaryIsTrue`, the half of `ReportsAreTrue` that is
  about runs. A case is terminal only when it is `Hopeless`, and a hopeless case stays
  so; an open one is not hopeless (`OpenIsNotHopeless`). A thread is done only after a
  stop, a terminal case, or with all its cases marked: no run ends as `partial`.
* `RunnersAcceptTheirHistory`: `AggSpec => []AcceptsItsOwnHistory`. That nothing is
  refused, no run blocked and no attempt one too many follows from `SoundInv`. That a
  thread ends by an exception only in a lost race needs `RaceInv` beside it: each step of
  a thread is first summarised (`ThreadStep`: it ends `raised` only if it `Loses` or is
  `Broken`, and nothing in clean directories is broken); entries are intact while nothing
  is damaged; and where one thread works at a time (`OneThread`), a key that was missed
  before the call is still missing when the answer is published
  (`NothingFiledMeanwhile`), because nobody else could have filed it.

Only model-checked: what bundles claim (`BundlesAreTrue`, the other half of
`ReportsAreTrue`: a pass over the inventory is a fold); `GuardsNeverRefuse` (a fold over
the statements of a transaction) and `ReadsAreSound` (fusion sorts by computed ranks),
which need induction over sequences; the two runs that find a violation. Out of the
prover's reach are liveness under fairness (`JobsSettle`, `RunsSettle`,
`ClaimableIsServed`, `RunsEnd`) and ENABLED, and induction over data.

## 7. Plan

Done: all modules of section 2, and the proofs of section 6.

1. `BundlesAreTrue` as a theorem: the passes of the aggregation as step-wise facts.
2. `RunContract`, what a run promises without tables, refined by `RunService`.
3. `EmbeddingCache`: the three files of an embedding cache, overwritten one after the
   other (`embeddings.py:453`); a crash between two of them may pair the vectors of
   one build with the identifiers of another.
4. The lock order of attempts and runs (`run_service.py:2006`): an attempt is marked
   with its row locked before the run's, recovery locks them the other way round.

## 8. Not modelled, and why

* Scores of BM25 and vectors are a given ranking; query understanding, query
  rewriting, the judge and prompts compute on their inputs and share no state; the
  memory of the interactive chat lives in one process.
* Data preparation, experiment datasets, `scripts/quality_gate.py`, the scoring of
  evaluations and the command line are sequential scripts and pure validation.
* Observability is best effort and decides nothing. The job registry is an immutable
  lookup; that a registration may no longer resolve is a branch of `JobService!Take`.
* Celery, Redis and PostgreSQL are external: Redis may lose or duplicate messages,
  transactions are atomic and serialised by the row locks the code takes, and a
  commit whose answer is lost is a fault after the step. A worker that hangs without
  dying beyond Celery's hard time limit is not modelled.
* Catalog: `migration_bootstrap` events come from one migration. In `StorageGuards`
  one timestamp stands for all of a move, writers older than migration 0003 are left
  out, and `activation_id` is represented by the revision: after a downgrade and
  upgrade of 0003 identifiers change and a pinned lookup is refused in reality. The
  row counts before and after in a receipt are left out.
* Runs: `create_session` (sessions are given), executors that production does not
  wire, the readiness fields of the supervisor, heartbeats of the event stream;
  in `RunTables` the order of timestamps (what a row records was written under a
  lease that had ended), the foreign key between checkpoints and the CHECKs on
  artifacts and graph states.
* Harness: the seed checkpoint that LangGraph puts twice with the same state,
  identity fields no node may change, and the texts of queries and stop reasons.
* ANN: SQL text, plan inspection, dimensions above the limit of HNSW.
* Experiments: metrics, usage ledgers and timings, which are functions of trusted
  attempts, and the text of published files.
