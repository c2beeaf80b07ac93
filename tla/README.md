# TLA+ models of Witdem

Witdem records what AI applications do. An application-side SDK and any OTLP
exporter send telemetry to a receiver; the receiver commits every request to an
immutable on-disk corpus before it acknowledges it; an ELT worker transforms
committed batches into DuckDB projections; a dashboard reads the projections;
`witdem prune` removes expired batches while everything else keeps running.
Correctness depends on a handful of protocols between threads, processes and
the file system. This directory models them: TLA+ modules translated from the
source, TLC runs over small instances, and proofs checked by TLAPS. Paths below
are relative to `src/`.

## 1. Inventory

| Component | State it keeps | Operations | Modelled in |
|---|---|---|---|
| Corpus writer, `src/witdem/ingest/corpus.py` | bounded queue, commit group, ingest lock, corpus files and directories | `commit_batch`, `_CommitWriter.submit/_run/_persist_group` | `CorpusWriter`, `AckLog` |
| Receivers, `ingest/otlp_http.py`, `ingest/sdk_ingest.py` | none of their own | decode, validate, commit, answer | their answers, in `CorpusWriter` and `SdkTransport` |
| Status API, `api.py` | none | batch and execution status, health | as properties of `EltWorker` |
| ELT worker, `elt/worker.py` | per-batch state file (status, attempts), run directory | `run_pending`, `_bounded_pending`, `_execution_bundles` | `EltWorker`, `Window`, `BoundedPending` |
| Adapter stage, Duckle, `elt/adapter_stage.py`, `elt/publisher.py` | files of one run | records of a bundle to canonical rows | one step of `EltWorker`; what it derives from a bundle, in `Serving` |
| Canonical and serving store, `ingest/live_db.py` | DuckDB tables, file lock | publish, project, delete an execution | tables of `EltWorker` and `Retention`; transactions and attribution in `Serving` |
| Retention, `retention.py` | plan, staging directory, two locks | `plan_retention`, `apply_retention` | `Retention` |
| SDK transport, `witdem-sdk/.../_transport.py` | semaphore, pending set, executor, counters | `submit_record`, `_send`, `_discard_pending`, `flush` | `SdkTransport` |
| SDK clients, executions, contracts, `witdem-sdk/.../_telemetry.py` | process globals for endpoint and key, context of each task, contracts reported | `configure`, `shutdown`, `execution`, `report`, `invocation` of the integrations | `SdkClients` |
| SDK integrations, `integrations/litellm.py` | registered callback and its references, open spans | install, `log_*`, `_finish`, `wait_for_idle`, uninstall | `LiteLLM`; the other integrations are conversions |
| Workflow registry, `workflows.py` | none (definitions are values) | validate, order, match, project | `WorkflowReplay`; matching in `Serving` |
| Dashboard service, `dashboard/service.py` | none | `materialize_workflow_projections`, queries | `Serving` |
| Dashboard cache, `dashboard/cache.py` | entries, refreshing keys, executor | `get_or_compute`, `_refresh`, `_store`, `close` | `ResponseCache` |
| Prices, `analytics/cost.py` | none (catalogues are values) | load, resolve a model, price a call | `Pricing` |
| Repeated work, `analytics/runtime.py`, `analytics/serving.py` | none | `derive_repeated_patterns`, `_repeat_details` | `RepeatedWork` |
| Native lifecycle, `lifecycle.py` | `services.json`, processes, ports | `native_up`, `native_down`; `reset` of `cli.py` is planned | `Lifecycle` |
| Rate limiter, `auth.py` | attempts per client | check | planned |
| The rest of analytics and metrics, catalogue download, evaluation import, update check, framework normalizers | query results, caches of public data | pure queries and conversions | not modelled |

How they interact: the request thread hands its batch to the writer thread
through the queue and blocks on a future; writer, worker and prune share the
corpus directory; `.ingest.lock` excludes the writer while prune rebuilds, and
`.maintenance.lock` excludes worker, rebuild and prune from each other; the
worker and the dashboard share the DuckDB file, and the dashboard keeps answers
of it in memory; clients of the SDK share globals of the process and, with
LiteLLM, one callback; the SDK meets the receiver only
through HTTP, so a request may be lost, served late, or answered after its
sender gave up.

What is hard, and what makes each component correct:

- **Writer.** A group goes through records and raw payload -> manifest -> state, and
  the directories of each stage are synced before the next. An acknowledged batch
  survives power loss; no reader ever meets a manifest without data; one failing
  batch does not take its group along; every request gets an answer although the
  queue is bounded and the lock may not be free.
- **Window selection.** Executions linked through shared batches may not be split
  between runs; the limit is soft for the oldest group only.
- **Worker.** Batches arrive during a run, a run fails or dies anywhere, a rebuild
  ignores states. *Ready* must mean queryable; republication must not lose evidence;
  attempts are bounded; every batch settles.
- **Prune.** Files move one at a time, the locks are taken after the preview and
  dropped between failure and recovery. A successful prune leaves nothing of the
  expired batches and serves all the others; a failed one restores.
- **SDK transport.** Permits, counters, the pending set and the future are updated
  in separate steps by three kinds of threads. No permit leaks, the counters add up,
  `sent` means stored, nothing stays pending.
- **Native lifecycle.** Commands share nothing but a file and the process table. A
  failed start rolls back, a later one does not overwrite the record of what still
  runs, and a stop does not signal a process that inherited a pid.
- **Serving store.** Rows, projection, participants and facts of an execution are
  replaced in transactions of their own, a run may break off between any two, the
  YAML changes and definitions arrive as records, late or twice. What is ready is
  served from all its evidence and under one workflow.
- **Dashboard cache.** Refreshes run next to requests that load by themselves.
  Answers do not go back in time, and a failed refresh is not the last one.
- **SDK clients and callbacks.** Clients nest in one process, executions in one
  another and in the tasks they spawn; LiteLLM logs from threads of its own. Globals
  come back, each start of an execution is completed once, each attempt has one
  span, and a flush that succeeded covers its workload.
- **Replay, prices, repeated work.** Loops over data from outside: cyclic or
  ambiguous definitions, missing parents, overlapping intervals, aliases of aliases,
  tokens that are included in others or over several limits.

`PROJECT.json` lists each hazard at the line where it bites.

## 2. Plan

Written, in this order: `AckLog` and `CorpusWriter` with `CorpusWriterProofs`;
`Window` and `BoundedPending`; `EltWorker`; `Retention`; `SdkTransport`;
`Lifecycle`; `Serving`; `SdkClients` and `LiteLLM`; `WorkflowReplay`, `Pricing` and
`RepeatedWork`; `ResponseCache`.

`EltWorker` extends `Window`, the selection rule, and `BoundedPending` shows that
the loops of the code compute it. `CorpusWriter`
instantiates `AckLog` under a refinement mapping. `EltWorker` sees the receiver
only as the two corpus events `PublishManifest` and `PublishState`, whose order
and crash behaviour `CorpusWriter` justifies (`PublicationOrder`); `Retention`
sees a run of the worker as one step under the maintenance lock, which
`EltWorker` takes apart; `Serving` takes apart the step in which the worker
publishes and materializes, and `ResponseCache` sees `Serving` as a version number.

Three MC modules put parts that share no state next to each other, so that one
run checks them: `MCSdk` (`SdkClients`, `LiteLLM`), `MCServing` (`Serving`,
`ResponseCache`) and `Algorithms` (the sequential algorithms; `MCAlgorithms` gives
it its inputs). A variable `subject`
chooses one part in the initial state and the others stay as they are; the state
graph is the disjoint union of the parts' graphs.

Left, extending the model: `reset` of the command line, which deletes the corpus
without a lock, next to `Lifecycle` and the corpus; the rate limiter of `auth.py`;
measurements that wrapper spans repeat (`analytics/operations.py`); a worker that
meets a missing records file, with liveness over `EltWorker` and `Retention`.

Proved: every invariant and action property that a run checks, and the refinement of
`AckLog` (section 6); `WindowIsReturned` is what entitles `EltWorker` to take the
selection from `Window`. Left, proving: `PublicationOrder` is proved, but that it
entitles `EltWorker` and `Retention` to their corpus events, and that a run of
`EltWorker` is the one step `Retention` sees, is argued here and not a theorem. The
modules are written for proofs: assumptions named, and no `RECURSIVE` operator in
any of them; what the code does by recursion or in a loop is a stack, a loop of
actions, or a function. Each concurrent part has a `TypeOK` for these proofs; only
that of `CorpusWriter` is also a property of a run.

## 3. Modules

### CorpusWriter (abstract: AckLog)
One action per queue operation, loop iteration and barrier.

| Code | Definition |
|---|---|
| `submit`: `queue.put(timeout)`, `future.result()` | `Submit`, `Enqueue`, `Refuse` (503) |
| `_run`: first `get`, window loop, full group | `PopFirst`, `PopMore`, `CloseGroup` |
| `ingest_publication_lock(timeout)` | `AcquireLock`, `LockTimeout` |
| `_persist_group`: three loops with their `except` | `Write`, `WriteFails`, stage in `stage`, survivors in `done` |
| `_fsync_directory` after each loop | `SyncDirectory`, barrier in `NextStage` |
| `completion.set_result` | `Ack`, `GroupDone` |

A file is a name `<<batch, kind>>`. It is visible after `os.replace`; it is
certain to survive a power loss when its entry is `durable` and its directory
`anchored`. `DirSync` names what `fsync` of a directory gives: `"ancestors"`
(journaling file systems such as ext4 or XFS commit the whole path),
`"entries"` (the minimum POSIX gives), `"unsupported"` (the error the code
swallows). `PowerLoss` keeps an arbitrary superset of what is durable.

### Window and BoundedPending
`Window` states the selection over sets. `BoundedPending` is the loops, one action
per iteration: `stage` names the loop that runs or the call of `find` it waits for.

| Code | Definition |
|---|---|
| `find`: `setdefault`, the climb with path halving, the compression, `return` | `Call` with `WithNode`, `Climb`, `Compress`, `Returned` |
| `union` of the first execution with each other one of a batch | `RegisterFirst`, `FindLeft`, `FindRight`, `Link`, `CommitJoined` |
| grouping by root, in order of insertion | `GroupAlone`, `FindKey`, `GroupCommit` |
| selection, with its two exits | `SelectGroup`, `StopSelecting` |

### EltWorker
`status` and `attempts` are the state files; `canonical`, `serving` and `handoff`
are, per execution, the set of batches the rows were built from. `pc` and `left`
are the program counter and the remaining items of the current loop: every
batch of a marking loop and every published row is a step, so that `RunFails`
and `Interrupt` may come between any two. `StartRun` recovers interrupted
attempts among the batches it listed; `StartRebuild` takes every batch.
`WriteBundles` lists the corpus a second time, as the code does.

### Retention
Corpus and staging directory are sets of files; `MoveFile` moves them in the
order of `_commit_paths`. `StepFails` is the exception that leaves the `with`
statement: both locks are free before the `except` clause takes them again
(`Recover`, `RecoverTimeout`); it recovers from the moment the first move is tried,
also if that move fails. `Killed` is the death of the command. `RemoveStaging` is
`rmtree` with its errors ignored: what it cannot remove, and what a kill leaves
staged, is `abandoned`, files that no later command looks at.

### SdkTransport
`app` is where each application thread is inside `submit_record`; `job`,
`attempt` and `callback` are the future, `_send` and the completion callback.
`wire` holds requests that may still be served, also after their sender timed
out; `Serve` answers 2xx only after a commit, 4xx only without one, and leaves
both open on 5xx. `Breaks` is the exception that is not an HTTP error.

### Lifecycle
`table` is the process table of the operating system (external): what runs under a
pid, and its start token. `file` is `services.json`; `pc`, `target` and `known` are
one invocation of a command, and are gone when it ends. `_spawn` is two steps:
`Spawn` leaves a child that outlives its parent, and `Identify` puts it into the
list of processes that a failure rolls back; between them `ps` may fail
(`Unidentified`), and the child, which `unlisted` remembers, is in no list. `Bind`
is the service that opens its port, or exits because it cannot; `Await` asks the
port and not the child, as `_wait` does. `Check`, `Term`, `Wait` and `Kill` are four
steps of the loop in `native_down`, so a pid may change hands between any two.
`disturbed` is a history variable: `up` is not serialised with anything, and one
that is overlapped or interrupted can leave services that no file names. The hazard
list says where.

### Serving
`evidence` is what the receiver committed for an execution, in the order of
`list_commits`; everything else is derived from a prefix of it. A record is
what attribution reads of it: a workflow definition, or the root span with the
workflow it names. `rows`, `participants`, `facts` and
`projection` say from how much of the evidence each table was made, and under which
revision; a `Stamp` is one row's provenance.

| Code | Definition |
|---|---|
| `publish_transformed_bundle`, one transaction | `Publish`: rows, facts, association, then the definitions |
| `materialize_workflow_projections`: one read session | `Read`, `Resolve` |
| `store_workflow_projection`, `delete_workflow_projections`, `store_participant_facts`, `store_operation_facts` | `Project`, `Delete`, `StoreParticipants`, `StoreFacts` |
| states set ready; rebuild materializes all once more | `Ready`, `run.all` |
| an exception, a lock that is taken, a kill | `Abort` |
| `WorkflowRegistry.match` | `Configured` |
| `sdk_by_id` and the sort by time | `FirstAt`, `LastAt` |

### ResponseCache
`entries` is the ordered dictionary, least recently used first. A request reads
`now` in `Ask` and takes the lock in `Serve...` or `Miss`, so it may judge an
entry by an old clock. A loader sees the store at one moment (`Snapshot`) and
stores later (`Store`); `Fail` is the DuckDB file lock. `overlapped` is history: the
keys that a request loaded by itself next to another load. For those nothing
orders the stores, and the older snapshot may win.

### SdkClients
`override`, `keyGiven` and `exporter` are the process globals, `client` the objects
`configure` returned, with what each has to put back; the globals are read and
replaced without a lock, and `Configure` and `Close` are one step each, as when one
thread makes these calls. `frames` are the `with` blocks a task is inside of, `base`
the execution a spawned task found in its context. `MayStart` says which id an
invocation starts: a fresh one, or one from outside (`Given`) or already in use, as
`execution_id=` allows; in the mode `"disabled"` only those, as the id is that of
the active trace. Two invocations may so start one execution, and each of them sends
`execution.started` and `execution.completed`; `CompletedAsStarted` counts them.
`report` is two steps, `Define` and `Report`, because the set of reported
definitions is read and written without a lock. `crossed` is history: some client
was closed before one configured after it.

### LiteLLM
`Install` and `Uninstall` are atomic under `_REGISTRATION_LOCK`. `Attempt` runs in the
thread of the call; `Answer` queues calls of the logger, whose threads take
`Peek`, `EndSpan` and `Forget` as the lock of `_finish` is taken and released.
`OrderedLogs` is an assumption about LiteLLM (external): an attempt has been logged
before the next one of the call begins.

### WorkflowReplay, Pricing, RepeatedWork
The algorithms on one input each. `WorkflowReplay` takes the recursive `visit` of
the validator as a stack of frames, so that the order of names is free; its
dependency order is one action per round. The search for the owner of a model
call is `Project`, `Climb`, `Own` and `LeaveUnowned`, compared with a definition by
reachability; the duration of a step is `Measure`, `Merge` and `Total`, compared
with the seconds in which an operation ran. `Pricing` loads an override file item
by item, resolves a name through its `Forms`, and prices a
call; an amount is the set of priced quantities with their rates, so that two
different sums are never equal by chance. `RepeatedWork` is the two nested scans,
one action per iteration. `Algorithms` puts them next to `BoundedPending`, names what
it assumes of their inputs (`AlgorithmsAssumption`) and repeats their properties.

## 4. Runs

| Run | Bounds | Shows |
|---|---|---|
| `corpus_writer` | 3 batches (one with a raw payload, two sharing a directory), queue 1, group 2 | types, `AckDurable`, `PublicationOrder`, `LockExcludesWrites`, the refinement `AckLogSpec`, and that every request is answered |
| `elt_worker` | 3 batches, 2 executions (batch 2 links both), limit 1, 2 attempts, 1 fault, 1 rebuild | `ReadyIsQueryable`, `EvidenceNeverShrinks`, `HandoffBeforeReady`, `RetriesAreBounded` |
| `elt_worker_settles` | 2 batches (one without executions), 2 faults, 1 rebuild | `EveryBatchSettles` under fairness |
| `retention` | 2 expired and 2 arriving batches, 2 executions, 2 faults | `PrunedIsGone`, `RetainedIsServed`, `RetainedIsUntouched`, `PruneEnds` |
| `retention_restore` | same, 1 fault | violation, see findings |
| `sdk_transport` | 3 records, 2 permits, 2 senders, 1 attempt | `CapacityIsExact`, `CountsAddUp`, `FlushCoversEarlierRecords` |
| `sdk_transport_retry` | 2 records, 1 permit, 1 sender, 3 attempts | `SentIsStored`, `EverySubmissionSettles` |
| `lifecycle` | 2 terminals, 4 pids, 4 processes ever, 2 crashes, interrupts, unrelated processes or failures of `ps` | `NoOrphans`, `EarlierProcessesSpared` |
| `serving` | 2 executions with 2 and 1 records, 3 revisions of 2 workflows of which one is superseded, 2 disturbances; cache: 2 keys, room for 1, 2 requests, 2 refreshes, 2 snapshots, 2 ticks | `FactsFollowRows`, `ReadyIsProjected`, `LinksLead`; `OneRefreshPerKey`, `AnswersNeverGoBack` |
| `sdk` | 2 clients, 2 endpoints, 2 tasks, one execution id from outside, one start per client, 2 invocations open at a time; 2 workloads with 3 attempts each | `EndpointOfInnermost`, `CompletedAsStarted`, `DefinedFirst`; `CallbackWhileHeld`, `FlushCoversTheWorkload`, `OneSpanPerAttempt` |
| `algorithms` | 4 batches over 3 executions and all limits; all graphs of 3 steps, 3 operations, 3 intervals; all small override files and tables, usages with missing and negative numbers; all histories of 6 operations; 2.1 million states, about a minute | `ReturnsTheWindow`, `AcceptedDefinitionsCompile`, `NearestStepOwnsModel`, `WallSecondsAreTheUnion`, `ResolvedNameIsPriced`, `EveryTokenPricedOnce`, `RepetitionsAreFound` |
| `pricing_long_context` | same | violation, see findings |

Why the bounds are enough. Three batches with a queue of one and groups of two give
a full group, a second group behind it, a full queue and a refusal, with two batches
in one directory and one in another, and a crash at every point. Four batches over
three executions contain chains, stars, batches without executions, and groups
before, at and over every limit. The worker needs one batch that links two
executions, one older and one younger than it, and a limit below the group size.
Prune needs an execution that loses all batches, one that keeps some, and a late
batch for the first; a second fault lets recovery fail as well, and one prune after
another is not bounded. Four processes are the three services of a start and one
more that meets them: an unrelated one under a freed pid, or the first of a second
start. Three submitters over two permits contend for the semaphore while two senders
release it. The serving store needs one execution that is attributed by its own
records, in either order and twice, one that only the configuration attributes, a
revision the schema no longer reads, and two disturbances: an edit of the YAML and a
run that breaks off before or after it. The cache needs a second key to evict the
first, both refresh threads, and time enough for an entry to be fresh, stale and
expired. Two clients, each with one of two endpoints or none, nest or cross; the
open invocations are one that started an execution and one that is inside it or in a
task spawned from it, and that joined it, started another one, or started it again
under its id. Three attempts have a middle one. Six operations hold patterns of one,
two and three operations, next to each other and overlapping. `SYMMETRY` is used on
records in `sdk_transport`, on pids and terminals in `lifecycle`, and on clients, tasks and endpoints in `sdk`, runs without
liveness.

Bounds that cut behaviour are constants: `MaxFaults` and `MaxRebuilds` (crashes,
failed operations and rebuilds), `MaxBorn` (processes ever started), `MaxAttempts`
where it is smaller than the code's 3, `MaxArrivals`, `Sends` and `MaxDisturbances`
(records, and edits, prunes and breaks), `MaxExecutions` and `MaxNesting`,
`MaxVersion` and `MaxTime`. Ordinary runs of the worker, prunes and flushes are not
bounded.

### Fairness
- `CorpusWriter`: the request threads inside `queue.put` and the writer thread
  are scheduled by the operating system; the put and the lock have timeouts, so
  each always has a step to take. Nothing is assumed of other lock holders,
  crashes or restarts.
- `EltWorker`: the worker loop calls `run_pending` again after every outcome
  (`WF(Progress)`, in which a failing step counts as progress), and the writer
  thread that published a manifest either writes the state or dies.
- `Retention`: the command that was started runs on. The worker, the receiver
  and new prunes owe nothing.
- `SdkTransport`: application and sender threads are scheduled, waits end by
  timeout. Neither network nor receiver owes an answer.

### Deadlock
Deadlock is checked in every run of a system that does not stop. The cfgs of
`algorithms` and `pricing_long_context` say `CHECK_DEADLOCK FALSE` because a
function returns, those of `serving` and `sdk` because a behaviour ends when the
bounded records, clients, workloads or ticks are used up.

## 5. Findings

Two have a run that ends in a counterexample.

- `retention_restore`: when the recovery of a failed prune raises, the staging
  directory with the only copy of the batches is removed (`retention.py:159`).
- `pricing_long_context`: `_rate` looks for the rate of the highest limit the input
  exceeds only (`analytics/cost.py:266`); an entry with rates above 200 000 tokens
  alone is priced at the base rate from 256 001 tokens on.

The others are reproduced by hand: put the property into the cfg named here, or
change the constant, and TLC prints the behaviour.

- `AcceptedIsTransformed` in `MCEltWorkerLive.cfg`, as a PROPERTY: a manifest
  without a state file is skipped by every ordinary run and reported as accepted for
  ever (`corpus.py:374`, `api.py:38`).
- `PrunedExecutionsGone` in `MCRetention.cfg`: a prune leaves the workflow
  projections of the executions it deleted (`live_db.py:795`).
- `PrunedIsDeleted` in `MCRetention.cfg`: a prune reports `pruned` although files of
  its staging directory could not be removed (`retention.py:148`, against "Delete the
  planned batches", `retention.py:117`, and "permanent corpus retention action",
  `docs/operations.md:105`); nobody looks at them again. What a killed prune has
  staged stays for good in the same way (`retention.py:141`).
- `FailedStartsLeaveNothing` in `MCLifecycle.cfg`: when `ps` does not name a child after
  `Popen` (`lifecycle.py:164-170`), the start fails and its rollback does not know the
  child: it gets one SIGTERM, or none if `ps` cannot be run, and runs on unrecorded,
  although a failed start "rolls back started children"
  (`tests/test_lifecycle.py:33`).
- `FlushLeavesNothingPending` in `MCSdkTransport.cfg`, as a PROPERTY: `flush`
  returns true while later records are pending (`_transport.py:135`, against
  `docs/sdk.md:202`).
- `ExtraWorkCountsOnce` of `RepeatedWork`, taken up in `MCAlgorithms` like its
  neighbour: "A longer pattern subsumes its contained shorter pattern at the same
  start" (`analytics/runtime.py:889`), but the code keeps both, and
  `_repeat_details` (`analytics/serving.py:183`) adds up the time, tokens and cost
  of each: an operation attempted four times is reported as five operations of extra
  work.
- `DirSync = "entries"`, the minimum POSIX gives, in `MCCorpusWriter.cfg`:
  `PublicationOrder` and `AckDurable` fail, because new parent directories are never
  synced (`corpus.py:123`).
- `OrderedLogs = FALSE` in `MCSdk.cfg`: a failure that is logged after the next
  attempt began ends that attempt's span (`integrations/litellm.py:277`), and
  `OneSpanPerAttempt` fails.
- A definition of a superseded schema among the records raises when it is registered
  (`live_db.py:1280`), although the replay skips it (`workflows.py:473`): in
  `Serving`, `Publish` is disabled and the execution never gets ready.
- A client sends the definition of a contract once (`_telemetry.py:738`), while the
  dashboard looks for it in each execution (`analytics_repository.py:589`):
  `DefinedFirst` promises no more than the client keeps.
- Two requests that load one key of the dashboard by themselves may store the older
  answer last, stamped as fresh (`dashboard/cache.py:46`): what `overlapped`
  excludes from `AnswersNeverGoBack`.
- The `SIGKILL` at the end of a stop goes by the pid alone (`lifecycle.py:281`),
  which is why `EarlierProcessesSpared` promises nothing about processes that start
  during the stop, although `docs/troubleshooting.md:28-30` does.

## 6. Proofs

Every invariant and every action property that a passing run checks is a theorem,
for every value of the constants that satisfies the named assumptions, and so is
the refinement of `AckLog`. Each proof has the same shape: an inductive invariant,
`IInv` or one named after the part, of which the initial states are members, which
each action preserves (one lemma or step per action), and which implies the
property. None of the properties is inductive by itself; what follows names what
had to be added, and why.

| Module | Theorems | Assumes |
|---|---|---|
| `CorpusWriterProofs` | `TypeCorrect`, `AckDurability`, `PublicationOrdered`, `ImplementsAckLog`, `LockExclusion` | `DirSync = "ancestors"`, for durability, order and refinement |
| `EltWorkerProofs` | `ReadyMeansQueryable`, `EvidenceKept`, `HandoffFirst`, `AttemptsBounded` | finitely many batches; both are numbers, in the order of receipt and of identifiers |
| `RetentionProofs` | `RetainedKept`, `PrunedGone`, `RetainedServed` | batches are numbers |
| `SdkTransportProofs` | `PermitsExact`, `CountersAgree`, `SentStored`, `FlushCovers` | finitely many records |
| `LifecycleProofs` | `NothingOrphaned`, `EarlierSpared` | `NoPid` is not a pid |
| `ServingProofs` | `FactsAlwaysFollow`, `ReadyProjected`, `LinksAlwaysLead`; `RefreshesBounded`, `AnswersMoveOn` | `None` is neither a revision nor a projection; slots are not request threads |
| `SdkProofs` | `EndpointsRestored`, `ExecutionsComplete`, `DefinitionsLead`; `CallbackKeptWhileHeld`, `FlushIsComplete`, `AttemptsHaveTheirSpans` | `None` names nothing; finitely many workloads; `OrderedLogs`, for the last |
| `AlgorithmProofs` | `WindowIsReturned`, `ValidatorDecides`, `NearestStepIsFound`, `DurationIsTheUnion`, `RepetitionsFound`, `ResolvedNamesArePriced`, `TokensPricedOnce`, `SideBySide` | `AlgorithmsAssumption` |

All assumptions are `ASSUME`s of the modules, which TLC evaluates in the runs,
except the two that choose an environment: `DirSync` and `OrderedLogs`. Without them
TLC refutes the properties (section 5). The other constants are arbitrary: any
corpus, limits, attempts, faults, clients, workloads, catalogues, graphs.

**CorpusWriter.** Whether an acknowledgement is safe depends on what earlier stages
left behind. `IInv` adds `DoneEmpty` (no survivors are carried outside the writing
stages), `DurableVisible`, `PriorSafe` (a batch still in a stage has the files of all
earlier stages safe), `WrittenTracked` (a file the current stage has written is safe,
or its directory is still to be synced) and `OrderSafe` (what makes a manifest or a
state legitimate is itself safe). `StageHandover` is the heart: at a barrier
`WrittenTracked` with no directory left is `PriorSafe` of the next stage. The
refinement also needs `Custody`: between its enqueueing and its answer a batch is in
one of the queue, the group and the survivors, once; so each step answers at most
one batch, and answers it once. `LockExclusion` rests on `LockHeld` alone.

**EltWorker.** `LoopShape` says what each loop has still to visit, `Provenance` that a
run bundles all that was ever published of its executions, so that replacing rows
drops nothing. `Published`, `Served`, `HandedOver` and `AttemptsLeft` say what each
stage has done for the selected batches; they are the postconditions that make
`MarkReady` legitimate, and a failure or an interrupt leaves them trivially true.

**Retention.** `LocksHeld` keeps the receiver and the worker out between the first move
and the last; `PlanCovers` bridges the gap before it: an execution of the plan is
listed for deletion, or a retained batch carries it, also one that arrived after
the preview. `Moved`, `Deleted`, `Emptied`, `Purged` and `Rebuilt` are what each stage
has achieved; `StagedOld` and `RowsOfExecution` tie files and rows to the expired
batches, and `NothingLeft` says that without a fault no file is abandoned.

**SdkTransport.** `Agreement` says that application thread, sender and callback agree
on how far a record has come, `QueuedOnce` that its future waits once,
`Acknowledged` that a 2xx a sender is about to read has its record in the corpus, and
`Covered` what a flush still waits for. The two counting properties are equations
about the cardinalities of `Held` and `Open`, which each step changes by at most one record.

**Lifecycle.** `Tokens` is what start tokens mean: they are given out once, and what the
file or a command keeps for a service belongs to no other program. `Victims`: the
pid of a stop that found its victim valid belongs to the victim, to nobody or to
something younger. Undisturbed, `Alone`, `Spawned` and `Remembered` say that the file or
the memory of the one start under way names every running service but the
`unlisted` ones, and `Stopping`
that what a stop has passed is not valid any more.

**Serving.** The workflow of an execution (`Flow`) is determined by its records or its
association, and a change of the YAML only changes the revision it is resolved to.
`Associated` relates the association to the definitions among the published records;
`Taken`, `Found` and `Materialized` say what the run has behind it; `ReadyIsServed` is
`ReadyIsProjected` during a run. `FactsFollowRows` is maintained by each transaction.

**ResponseCache.** `OneTask`: a key that counts as refreshing is once in the queue or in
one slot. `Monotone`: of a key that no request loads next to another load, nothing
stored or about to be stored is older than the last answer, and one load is under way
at most; that one load is why the refreshing set orders answers. Adding and removing
entries is reasoned about by lemmas on `RemoveAt` and `SelectInSeq`.

**SdkClients.** `Chained` says that each client that names an endpoint found that of the
clients before it, unless clients crossed; `Framed` that every context holds an
execution that was started; `Told` that what was started is completed or runs, in
finitely many invocations; `Handed` that a definition precedes its reports.

**LiteLLM.** `Registered`: the registration in force is that of all workloads at work,
counted. `Accounted`: an attempt has a span that ended, or one in the callback that
its workload holds, whatever the logger's threads do; this needs no order of the
logs. Under `OrderedLogs`, `Sequential`: a workload has one attempt in hand, which is
with the provider, with the logger or with nobody.

**The algorithms.** `SideBySide` carries the theorems about each algorithm over to the
behaviours that TLC runs.

- Window: the forest of the union-find comes with a rank and a root (`Forest`), and its
  trees are what the joined executions connect (`Represents`): exactly the sets that
  split no tree split no joined batch. Path halving and compression keep both,
  `Link` merges two trees. `Grouped` and `Selection` carry this through the grouping,
  in the order of first batches, to the declared window.
- Validator and compiler: the active calls are a path of the dependency graph
  (`Path`), what the search has left is closed and acyclic (`Settled`), the rounds
  depend on earlier rounds only (`Rounds`).
- Owner of a model call: what the search has passed is undeclared and leads to where
  it is (`Passed`). Duration: what was added up is the time before the current
  interval in which an operation ran (`Measured`).
- Repeated work: what is behind the index is accounted for (`Scanned`) by patterns that
  are what they claim (`Sound`), end before it (`Behind`) and are disjoint (`Apart`).
- Prices: the resolution is a function of the catalogues (`PricesInv`); a resolved name
  has a price, and an entry is never unknown, because the built-in aliases stand for
  entries, which `catalog.yaml`
  guarantees by its layout, and the loader guarantees for overrides.

Only model-checked: liveness under fairness (`EveryRequestAnswered`,
`EveryBatchSettles`, `PruneEnds`, `EverySubmissionSettles`), which with `ENABLED` is
outside what the prover handles. Reference definitions are stated with sets and
quantifiers and never by recursion, so no proof needs an induction over data.

## 7. Not modelled, and why

The modules stand for a small part of the repository's lines, and most of the rest
has nothing a state machine could add: more than half of the implementation is
analytics (read-only SQL, statistics, conversions of results) and the example
applications; much of the remainder parses, validates and renames fields.

- Field-by-field conversions (normalizers, `correlate.py`, sanitising, schema
  models, the mapping of `adapter_stage.py`) change no shared state.
- Analytics, metrics and assurance other than prices and repeated work are queries
  and arithmetic over published rows.
- The OpenAI, LangChain and Haystack integrations turn one callback into one span.
- The catalogue download, the update check and evaluation import are I/O around one
  file or one transaction.
- The examples are applications that use the SDK; what they do to Witdem is what
  `SdkClients` and `SdkTransport` let any application do.
- `reset` and the rate limiter are planned (section 2).

`Lifecycle` leaves out Windows, where an identity is the bare pid. `Serving` leaves
out the legacy path that upserts on receipt, connections and schema migration.
`SdkClients` leaves out operation spans and measurements, which write attributes, and
two threads inside `configure` or `shutdown` at once. `LiteLLM` leaves out a handle
that the application keeps beyond a workload, and `shutdown()` called again on it.
`Pricing` leaves out regions, search queries, custom meters and the one-hour cache
rate.
