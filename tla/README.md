# A TLA+ model of the scan platform

This directory models `src/platform`: a master that accepts scans and plans
them into tasks, a Redis stream that carries the tasks, and workers that run
tools on them and record what they find. It also models the orchestrator that
came before it, `src/legacy/stage0`. TLC checks the modules on small instances;
TLAPS proves nearly all of their safety properties for every value of the
constants. Paths below are relative to `src/platform` unless they start with
`src/`.

1. [The system](#1-the-system)
2. [The modules and the code](#2-the-modules-and-the-code)
3. [What the runs check](#3-what-the-runs-check)
4. [Fairness](#4-fairness)
5. [What is proved](#5-what-is-proved)
6. [Where code and documentation disagree](#6-where-code-and-documentation-disagree)
7. [Observations](#7-observations)
8. [What is not modelled](#8-what-is-not-modelled)
9. [Plan](#9-plan)

## 1. The system

| Component | State it keeps | Operations | Talks to |
|---|---|---|---|
| **Submission** (`master/api.py` submit_scan) | the request's locals: targets, scope rows, plan, index in it | find program, load workflow, decide targets, insert scan and tasks, enqueue those without dependencies, set the scan running | tables, stream, planner, scope policy |
| **Workflow loader, planner** (`master/orchestrator.py`) | colours and call stack of a depth-first search; the plan | load_workflow, _assert_acyclic, plan_tasks | submission |
| **Scope policy** (`common/scope.py`) | none (rows of `scope_entries`) | normalize_target, evaluate, load_entries | submission; again every worker before a run |
| **Task queue** (`common/redis_client.py`) | the stream, the group's last-delivered id, its pending list | enqueue, consume, ack, reclaim_stale | master, workers |
| **Task and scan tables** (`common/db.py`, migrations 001-003) | `tasks.state`, `dispatched`, `scans.status` | insert_task, ready_tasks, mark_dispatched, the worker's updates, abort_dependents | master, workers |
| **Maintenance loop** (`master/api.py` _background_loop) | the batch it fetched, the counts it read | reclaim, dispatch ready tasks, close scans | tables, stream |
| **Worker** (`worker/main.py`) | handlers with a semaphore, the entry each was given | consume, claim, gates, run, retry, dead-letter, abort dependents, acknowledge, reclaim | tables, stream, executor, findings |
| **Findings store** (`common/db.py` record_findings, migration 002) | `findings` rows: fingerprint, type, is_new | one transaction per batch; the types of a scan open its routing gates | worker, dispatcher |
| **Migrations, startup** (`common/db.py`) | `schema_migrations`, each process's list of applied names | wait_for_db, run_migrations, restart | every process |
| **Executor, rate limiter** (`worker/executor.py`, `common/ratelimit.py`) | the processes of one program, its wait and timeout; tokens, time of the last refill | run, run_batch, acquire | worker, whose event loop they block |
| **Tools and drivers** (`worker/tools`) | none; interactsh: a registration, a probe plan, a poll loop | consumes, produces, allowed_params, parse; the driver's main | findings, executor |
| **Triage, reporting** (`common/db.py`, `master/reporting.py`) | `findings.triage_status` | triage_finding, report_material | API |
| **MCP server** (`mcp_server`) | per-process rate window, initialised flag | initialize, tools/list, tools/call | master's API |
| **Legacy stage 0** (`src/legacy/stage0`) | a task per selected tool, a semaphore, attempts, raw logs, the files handed from stage to stage | select, run a stage, retry, parse, hand over, report | nothing of the platform |

What makes it hard:

- **At-least-once delivery.** A message is added (XADD), its row marked, the
  old message acknowledged (XACK): calls to two systems, from the request
  handler, the maintenance loop, the reclaim loops and the task handlers, with
  crashes in between. Nothing may be lost; duplicates have to be harmless.
- **State kept across awaits.** The dispatcher fetches rows, enqueues them one
  by one and marks them later; the finalizer selects a scan, counts its states
  and writes its status in three statements; a handler claims a row long before
  it finalizes it. Submission and workers run in between.
- **Cascades and gates.** A failed task aborts the rows that exist then; a
  routing gate opens when findings are committed. Both decide whether a scan is
  ever closed.
- **What a finding means.** A tool's input is what earlier tools have written
  under the types it consumes. A step added to a YAML file joins two wrappers
  whose authors agreed on nothing but the name of a type.
- **Programs one does not control.** A tool may fork, leave its session, keep its
  pipes open, or never end; the executor waits for it inside the event loop that
  all handlers of the worker share. A collaborator server hands over each
  interaction once.
- **Several writers of one table.** Batches of findings insert common rows in
  different orders; processes of different versions migrate one database at
  once.

What makes each component correct:

- *Pipeline*: no task handed to the stream is lost; none is sent before what it
  depends on has succeeded or while its gate is shut; an outcome stays; a closed
  scan is settled; a running scan is closed in the end.
- *Submission*: the cycle check accepts what can run and nothing else; the plan
  is the workflow times the targets in scope, in the order of the file; every
  request is answered.
- *Findings*: an entity never enters the table as already known; a row is not
  rewritten; batches are atomic and always return.
- *Tools and routing*: a tool is only started on values its signal is true of;
  what it reads is complete when it starts, and never empty behind a gate;
  nothing waits for what cannot come, but for dependents a cascade never reached.
- *Worker node*: launches keep to the rate over any span of time; what the
  driver could read of the server's answers is recorded, and nothing else; every
  handler returns.
- *Legacy stage 0*: never more tools at work than permits, all of one stage, on
  complete files; raw logs are kept, if no tool is selected twice; the report
  adds up; the scan ends.
- *Startup*: migrations take effect in order and once; a process that is up
  finds its schema; all of them come up.

## 2. The modules and the code

`PROJECT.json` maps every definition to its source lines. Operators named
`...Raw`, `...Early`, `...Only` and the like that no other definition uses are
marked `Variant:`; they are the code with a plausible bug and serve to show
that the property next to them would notice it.

### The pipeline: `Tasks`, `TaskStore`, `TaskQueue`, `ScanPipeline`

`Tasks` holds the columns written once when a task is planned. `TaskStore` has
one operator per SQL statement: `InsertTask` (insert_task), `Ready` (the WHERE
clause of ready_tasks, in which a dependency without rows is satisfied),
`MarkDispatched`, `ClaimTask`, `Finalize`, `RequeueTask`, `AbortDependents`
(the recursive CTE, as a least set). `TaskQueue` is the stream: `log` is
append-only, `delivered` is the group's position in it, `pel` the pending
entries. XACK removes from `pel` and asks nobody who owns the entry.

`ScanPipeline` composes them into one scan's life. An action is the code
between two awaits that touch the database or the stream:

| Process | Variables | Actions |
|---|---|---|
| submit_scan | `req` | `InsertScan`, `InsertPlanned`, `EnqueuePlanned`, `MarkPlanned`, `StartScan` |
| maintenance loop | `loop` (batch, counts) | `FetchReady`, `EnqueueReady`, `MarkReady`; `SelectScan`, `CountStates`, `CloseScan` |
| reclaim_stale (master and workers) | `moving` | `ClaimAbandoned` or `ClaimEarly`, `ReAdd`, `AckMoved` |
| consume loop and _handle | `pc`, `entry` | `Read`, `Claim`, `ClaimNone`; the gates `DenyScope`, `RefuseTool`, `RaiseNoInput`, `RejectParams`; `BuildContext`, `RunOk`, `Succeed`; `Retry`, `Resend`; `DeadLetter`, `Abort`; `AckDone` |
| faults | `failures`, `crashes`, `early` | `HandlerError`, `WorkerCrash`, `ReclaimError`, `LoopError`, `SubmitError`, `MasterCrash` |

Three choices deserve a word. The executor blocks the worker's event loop
(`worker/executor.py` uses `subprocess` calls), so a run and what follows it up
to the next await are one step. An entry in nobody's hands becomes old enough
to be reclaimed sooner or later (`ClaimAbandoned`); one that somebody works on
only if the work outlasts `STALE_REQUEUE_SECS` (`ClaimEarly`, bounded by
`MaxEarly`). And `succeeded` and `ran` (in `Startup`) are history variables:
nothing in a guard reads them.

`ScanLifecycle` is the abstract specification: what a scan promises its reader
(task rows move queued, running, settled; a task runs only after what it needs;
the scan is closed when everything is settled), without queue, workers or
crashes. `ScanPipeline!ImplementsLifecycle` is the refinement, with the task
states as they are and `status <- scan`.

### The request before it: `WorkflowLoader`, `Submission`

`WorkflowLoader` is load_workflow: `WellFormed` collects its checks, and
`Visit`, `DepDone`, `FindCycle`, `Finish`, `RootDone`, `Accept` are the turns of
the depth-first search of _assert_acyclic. The recursion's stack is the
variable `stack`, `mark` is `state[]`. The checks of one step's own fields are
the Boolean `legal`.

`Submission` extends it with the request: `FindProgram`, `Loaded`, `ReadScope`,
`DecideTarget` target by target, `Audit`, `InsertScan`, `PlanStep` step by step.
`Evaluate` is evaluate of `common/scope.py`; which hosts a row covers and which
host a target normalizes to are constants. The result, `planned`, is what
`ScanPipeline` takes as the constant `Plan`.

### The findings table: `FindingsStore`, `FindingsTable`

record_findings statement by statement: `Select` reads what the program has,
`Insert` adds a row or leaves an existing one, waiting for a transaction that
wrote the same row (`WaitsFor`); `Commit`, `Fail` and `Victim` (PostgreSQL's
deadlock detection) end it. `FindingsTable` is what a reader of the table may rely on: a
call looks once which of its entities are there, then records the whole batch in
one step or drops it (`RecordsLikeTable`). `ScanPipeline!RecordFindings` does all
this in a single step; `BatchIsAtomic` is the reason it may.

### From tool to tool: `Tools`, `Routing`

`Tools` has every registered wrapper as a record of its class attributes
(`Wrapper`) and its parse as an operator on what the program printed
(`SubfinderParse` to `NoopParse`). A value is what the findings table keeps: a
name, an address, a URL, or a pair of them. What the programs may print is the
environment's choice (`Prints`), bounded by what is true of a small world: who
resolves, which ports are open, which URL has a query.

`Routing` is one scan over it: per task `at`, `attempt` and the `input` its tool
was started with, and `rows`, the findings. `Insert` is submit_scan's row for a
task, while others already run; `Dispatch` is ready_tasks with the gate and the
dependencies. `RefuseTool`, `Raise`, `Refuse` and `Launch` are the ways _handle
may go before a run (the capability gate, _build_context and _validate_params);
`Report`, `LoseBatch`, `Finish`, `Retry`, `Exhaust` what follows it; `Crash`
gives the task to another handler. A tool in `Lacking` is one that some worker's
capabilities leave out: it is refused there and run elsewhere. The scope gate,
which ends a task the same way, is in `ScanPipeline` only.

A dead row and the cascade behind it are two statements (main.py:284-291):
`Refuse` and `Exhaust` put the task into `due`, and `Cascade` aborts what is
queued behind it at that later moment, or `LoseCascade` drops it, as a crash
between the two does. `RefuseTool` has no cascade. The history variable `spared`
has the tasks that were passed by: those without a row when the cascade ran, and
all of them when it did not. `Params` is what plan_tasks puts into a task, which
is not what the YAML file says.

### Inside a worker: `TokenBucket`, `LeakyBucket`, `Executor`, `OobDriver`, `WorkerNode`

`TokenBucket` is acquire: a refill by the time elapsed, capped, then a token or a
sleep of the deficit (`Credit`, `Take`, `TooFew`, `Deficit`). `Executor` is run:
`Spawn`, the program's own steps (`Fork`, `Leave`, `CloseOutput`, `Exit`),
`Expire` with the kill of the process group, and `Return`, which waits for the
pipes and not only for the process. `OobDriver` is the interactsh driver from
registration over the probes to the poll loop and its exit code. A poll makes
the server forget what it hands over (`HandOver`), whether the driver reads the
answer (`Poll`), loses it (`PollLost`) or gives up over it
(`PollUndecipherable`): `handed` has all of it, `read` what was readable.

`WorkerNode` puts them together: a consume loop with its semaphore (`Consume`,
`Admit`), handlers that wait for a token (`Wait`, `Launch`), and `loop`, the
handler that runs a program. While somebody has the loop only `Tick` and the
steps of the program happen: run does not await. `Evaluate` is run_batch's
merge and the test for success.

`LeakyBucket` is the abstract specification of the rate limiter: a debt that a
launch adds to, that time pays back, and that never exceeds a ceiling; from
which the number of launches in any span of time follows.
`WorkerNode!RateIsKept` is the refinement, with `debt <- Capacity - Credit`.

### The legacy orchestrator: `StageTools`, `StageRunner`

`StageTools` has the seven tools with their stage, argument and parser, and
expand_tool_selection, which looks at no other name once it has met `all`.
`StageRunner` is a run: `EndStage`, `NoTools`, `Report`
and `DryRun` of the engine; per tool `Skip`, `Acquire`, the attempt
(`LaunchFails`, `Exit`, `Expire`, `Drain`, `Retry`), what follows it
(`Conclude`, `Finish`, `Sleep`). asyncio runs its tasks one at a time, so a step
goes from one await to the next; a failed write ends the run (`disk_full`).

### Coming up: `Startup`

wait_for_db and run_migrations in every process, each with the list of
migrations its image contains (`Knows`), against a database that comes up late
and goes away. `FindTable` and `CreateTable` are the two halves of CREATE TABLE
IF NOT EXISTS, which does not exclude a rival; `Record` and `Rival` are the two
ends of the transaction that runs a script and inserts its name.

## 3. What the runs check

| Run | Instance | Question |
|---|---|---|
| `OneHandler` | a -> b -> c with a denied target, a missing tool, a tool without input and a gate; one handler, one failure, one crash, one early reclaim | Does the pipeline implement the lifecycle when a single handler runs the tasks? Do outcomes stay, do aborted tasks have a cause, is a closed scan settled, is the gate respected? Is a task marked without a message, or sent too early? |
| `Decided` | one task, two workers, one failure, one crash anywhere | Is a task ever lost? Does every task handed out get an outcome for good, and is the scan closed? |
| `Cascade` | two tasks of step one, a third that depends on them, bad params, two failures, no crash | Is a running scan closed, if the cascade did not come before the insertions it should have reached? |
| `Routing` | sixteen workflows that together have every tool, one or two targets, two attempts, one crash of a handler or before a cascade; two tools some worker lacks; a workflow with params a wrapper refuses and one with a value it cannot read | Do signals keep their meaning, are inputs complete, is nobody behind a gate without input? What, besides a cascade lost in one of three ways, can keep a step waiting for ever? |
| `WorkerNode` | two handlers, three tasks, six jobs: a tool, a missing one, the driver, batches; two processes; two thirds of a token a tick and room for one and a third; one probe among three URLs | Does the token bucket implement the leaky bucket, is what the driver can read recorded and nothing else, does every handler return? |
| `StageRunner` | seven command lines: stages out of order, a tool twice, one without its input, a dry run, no tool, an unknown one, an unknown one next to `all`; two permits, two attempts, two seconds | Are permits, files and reports kept, what does success mean, does the scan end? |
| `Submission` | every dependency graph of three steps (512) and four malformed files, requests of one or two of six targets, five scope tables | Is the cycle check right in both directions, is the plan exact and in order, is every request answered? |
| `Findings` | five batches of two scans: a redelivery, two in opposite orders, an empty one; one failure | Do the transactions implement `FindingsTable`? Is an entity ever known from the start, a batch half visible, a call stuck? |
| `Startup` | master and worker of the current image, a worker of an older one, two migrations, one kill, one outage | Are migrations applied in order and once, and is everybody up in the end? |

Three runs refute a statement of the repository (section 6): `LateInsertHangs`,
`OnceStepRefused` and `LogsCollide`. The type invariants of the pipeline, submission, the findings
store and startup are not among the runs' properties: they are proved.

The bounds: `MaxFailures`, `MaxCrashes`, `MaxEarly`, `MaxOutages` limit how
often the environment misbehaves. One fault at any of the points between two
awaits, followed by the recovery of everything that runs, is the case the code
is written for; the proofs, which have no bound, agree. A second
failure in `Cascade` makes a task run out of attempts while its sibling is
retried. `MaxEntries` limits reclaims: with 8 or 9 the stream stays shorter in
every reachable state, so the bound never bites; `OneHandler` uses 4, which
leaves room for three deliveries plus one copy of a task. In `WorkerNode`,
`MaxTasks` limits what is taken from the stream: three tasks for two handlers
let one of them wait for the semaphore while the others wait for tokens and for
the loop. Deadlock is not checked because every system here may be at rest: a
closed scan with an empty stream, all batches returned, all processes up, a
request answered, a report written.

Three steps are enough for the search: they have every self-loop, every cycle
of two and three, a diamond's shared dependency and cycles that the first root
does not reach. A workflow of `Routing` is as deep as its longest chain of types
(five tools for `sqlmap`); its second target lets a step with `fanout: once`
differ from one per target, and a task of one target finish before its sibling.
Two processes are a tool and a child that outlives it. Two attempts and two
permits let one tool back off while others run and a third waits. Two targets of
a request are enough for one spelling to follow another of
the same host, for a denied one and for one that does not normalize.

## 4. Fairness

- `ScanPipeline!Fairness`: weak fairness of the request, of the maintenance
  loop, of each reclaimer and of each handler. asyncio runs ready coroutines,
  the loops tick for ever, and a crashed container is restarted
  (`docker-compose.yml`, `restart: unless-stopped`). Faults, early reclaims and
  the outcome of a run are not promised. That a run ends is assumed here; it is
  what `WorkerNode!HandlersReturn` shows, but for a process that has left its
  session and keeps the pipe (`Stuck`).
- `Routing!FairSpec`: some task is inserted, dispatched or handled as long as one
  can be; no fairness among tasks and none of any particular outcome. That
  submit_scan inserts every row is assumed here (`Insert`); `ScanPipeline` has
  the request that dies half way.
- `WorkerNode!FairSpec`: time passes, what run does next is done, and each
  handler gets its turn when the loop is free. The program need do nothing: it
  may run for ever, and the timeout has to end it.
- `StageRunner!FairSpec`: the event loop runs what is ready (a skipped tool, a
  permit, a drained pipe, the engine) and fires its timers (timeout, backoff).
  Exit and the release of a held pipe are not promised.
- `Submission!FairSpec`: weak fairness of the handler of the request, a single
  coroutine; not of `DbError`.
- `FindingsStore!FairSpec`: weak fairness of each batch: PostgreSQL executes a
  statement that need not wait and breaks deadlocks.
- `Startup!FairSpec`: weak fairness of each process's boot, and of the database
  coming back.

## 5. What is proved

Assumptions are the named ones of the modules (`TasksAssumption`,
`PipelineAssumption`, `FindingsAssumption`, `StartupAssumption`,
`LoaderAssumption`, `SubmissionAssumption`, `WorldAssumption`,
`RoutingAssumption`, `BucketAssumption`, `ExecutorAssumption`,
`DriverAssumption`, `WorkerAssumption`, `RunnerAssumption`, `NoneAssumption`):
types of the constants, that a batch has no fingerprint twice, which
record_findings sees to before its transaction, and that `None` and `NoFile` are
no results and no contents. TLC evaluates them in the runs.

**`ScanPipelineProofs`**: for every plan, number of workers and handlers, and
bound on faults.

- `TypeCorrect` (TypeOK), with `Refs`: the entry a handler or reclaimer holds is
  a delivered one.
- `TasksAreDurable` (NoTaskLost). NoTaskLost is not inductive: an
  acknowledgement is harmless only because nobody else relies on the entry it
  removes. `DurableInv` adds who holds which entry (`Exclusive`: nobody shares
  one, and an entry somebody works on is pending, as long as none was reclaimed
  early) and that a row exists before its first message and is marked after it
  (`Recorded`).
- `DispatchIsSound` (DispatchedIsSent): what the loop has in `sent`, and the
  request at `mark`, was added to the stream.
- `GateIsRespected` (GateBeforeDispatch): a fetched batch has its gates open,
  and gates never shut again.
- `OrderIsRespected` (DependenciesFirst) under the hypothesis that the plan
  lists a step's dependencies before it: then a row that exists has the rows it
  depends on, and Ready's test means what it says (`OrderInv`).

**`SubmissionProofs`**: for every set of files, scope tables and targets.

- `AcceptedIsSound` (AcceptedCanRun) and `CyclicIsSound` (CyclicCannotRun): the
  search is correct. The invariant `LoaderInv` has the classical facts: frames
  are exactly the nodes marked 1, each once, each waiting for the one above it;
  done nodes have only done dependencies and can run (`CanRun(Done)`: in each
  part of it some node waits for none of the others, kept because a finished
  node depends on nothing but what was done before). A cycle is read off the
  stack from the frame of the repeated node upwards.
- `PlannedIsExact` (PlanIsExact) and `PlanKeepsOrder` (PlanInOrder): loop
  invariants over the targets decided and the steps planned so far. PlanInOrder
  is what the hypothesis of `OrderIsRespected` asks of the plan.
- `PlansSuitThePipeline` composes this with the pipeline: the plan a request ends
  with meets `TasksAssumption` and the type of `Plan` and is whole; it is in order
  if the file is (`FileInOrder`), and has no task twice if no two targets are the
  same host (`DistinctTargets`, from the invariant `Unrepeated`). These are the
  hypotheses of `OrderIsRespected` and `LifecycleProofs`, which therefore speak of
  plans the master makes.
- `SubmissionTypeCorrect` (TypeOK).

**`LifecycleProofs`**: for any number of workers and handlers and a plan that has
every task (`PlanIsWhole`) after its dependencies (`PlanInOrder`), whatever
fails, crashes or is reclaimed, as long as no two handlers are at work on one
task (`Apart`): `ClosedScansAreSettled`, `AbortsHaveCauses`, `OutcomesAreFinal`,
and `PipelineImplementsLifecycle`, by a step for every action of the pipeline.
The invariant `LifeInv` adds to `OrderInv` that a handler past its claim finds
the row as it left it (`HandlerRows`, which a second handler breaks), that the
finalizer's counts are still true when it writes (`ScanRows`), and that what has
succeeded stays so.

When are handlers apart? `SoleHandlerFollowsLifecycle`: always, if there is one.
`HandlersKeepApart`: if the plan has no task twice (`PlanIsASet`) and none of
the following happens (`Undisturbed`): a crash or an error between two awaits,
an early reclaim, a maintenance tick that holds a task which submit_scan has
inserted and not yet marked (section 7). The invariant `SoloInv` is that each
task has at most one entry that can still lead to a claim (`OneLive`): an entry
that no longer does is in the hands that acknowledge it.
`UndisturbedScansFollowLifecycle` puts the two together. The hypotheses are
stated of a behaviour (`Spec /\ []Apart => ...`): a scan during which they hold
follows the lifecycle, whatever other behaviours the constants admit.

**`RoutingProofs`**: for every workflow, set of targets, world and output.

- `RoutingTypeCorrect` (TypeOK), from `ParseProduces`: a wrapper reports no type
  it does not declare.
- `SignalsKeepTheirMeaning` (RoutingRules): each row means what its type says
  (`RowsMean`), because each parse adds only such rows if its input was of them.
- `EverythingIsFed` (DependenciesFeed) and `NoGatedStepStarves` (GatedIsFed),
  from `Gated`: a task that was let go had its dependencies done and its gate
  open (`Clear`), what has succeeded stays so through every later cascade
  (`CascadeMoves`), and types do not disappear.

**`WorkerNodeProofs`**: for every rate, capacity, number of handlers and
processes, and jobs.

- `WorkerTypeCorrect` (TypeOK), with `DriverInv`.
- `RateLimiterIsCorrect` (RateIsKept): a take is a grant, a tick a payment or a
  stutter; a late or early waker makes no difference.
- `EvidenceIsKept` (OobIsKept): what a job has found was handed over, and unless
  it timed out it is all that the driver could read. Not all that was handed over:
  the difference of `handed` and `read` is gone (section 7). `EvidenceInv` ties
  the driver's step to the handler that has the loop and to the results so far.
- `RateHoldsOverEverySpan` is the limiter as its reader sees it
  (ratelimit.py:10-15): an observer that starts to count at any moment (`SpanSpec`)
  never sees more than (Capacity + n * Rate) / Unit launches in n ticks, and
  constrains nothing. What was launched and what is left is never more than the
  bucket holds and what the time brought (`SpanInv`).
- `KillEndsTheProgram` is the safety core of `HandlersReturn`
  (executor.py:126-130): once the group is killed the program has ended, unless a
  process that left the session keeps the pipe.

**`StageRunnerProofs`**: for every command line, number of permits and attempts,
and whatever the tools print.

- `StepKinds` first reduces the twelve actions to six kinds of steps; the
  invariant `RunnerInv` is then kept kind by kind.
- `RunnerTypeCorrect` (TypeOK), `PermitsCorrect` (PermitsAreKept),
  `SuccessComesLast` (SuccessIsTheLastAttempt).
- `RawLogsAreKept` has the hypothesis that the selection names no tool twice
  (`NoToolTwice`): then every result's log is in the file of that run, with all
  its attempts (LogsAreKept). Without it the run `LogsCollide` refutes this.
- `HandOffIsComplete` (InputIsComplete) and `ReportsAddUp` (ReportAddsUp): below
  the stage under way everything has its result and above it nothing has begun
  (`Order`), a type is found by tools of one stage only (`Kinds`), and so a file
  written at the end of that stage (`Files`) never lacks anything later.
- `TheRunIsBounded` and `NothingWaitsForNothing` are the safety core of
  `EngineEnds`. The measure `Progress` of a tool only grows, and each step moves
  one tool, the stage or the outcome (`OneStepOn`): with n tools there are at most
  n * (7 * max_retries + 7) + 4 steps. And until the run ends there is one to
  take: the guards of some action hold, or a child holds the pipes of a killed
  tool (`SomethingToDo`); when nothing is at work, the first of the waiting tools
  finds a permit. Its hypotheses are that there is a clock and that whatever a
  tool is given, it prints something, if only nothing at all. From there to the
  end of the run it takes ENABLED and fairness, which is left to TLC.

**`FindingsStoreProofs`**: for every set of scans, batches and fingerprints.

- `FindingsTypeCorrect`, `EntitiesAreReported` (SomeoneSawItNew: what a batch has
  in `seen` was committed before by a scan that had it new), `CommittedRowsStay`
  (a row lock is held from the insert to the end), `BatchesAreAtomic`
  (BatchIsAtomic).
- `StoreImplementsTable` (RecordsLikeTable): the transactions implement
  `FindingsTable`. `Select` is a look, `Commit` a record, the end of a rolled
  back transaction a drop, each `Insert` a stutter. The invariant it needs
  (`Tx`) says that what a transaction has written are exactly those of its rows
  so far that the table lacks *at that time*, with the is_new of its look: a row
  that is missing at the insert does not appear before the commit, because
  whoever would insert it waits (`Exclusive`).

**`StartupProofs`**: `StartupTypeCorrect`, `MigrationsInOrder`,
`MigrationsOnce`, `UpMeansMigrated`. The invariant: a process in its loop has
passed only migrations that are recorded, whatever list it read.

Only model-checked: every liveness property (SentIsDecided, RunningIsClosed,
RunningIsClosedIfPlanned, RequestEnds, EveryBatchReturns, ComesUp,
OnlyInputIsAwaited, HandlersReturn, EngineEnds), as ENABLED and fairness are
outside of the prover's reach. Every safety property of the runs is stated by a
theorem.

## 6. Where code and documentation disagree

- **`LateInsertHangs`**. worker/main.py:289-290 says the cascade lets the scan
  finalize instead of hanging forever. submit_scan hands out tasks before their
  dependents are inserted; a cascade that comes first does not reach them, and
  they stay queued. `RunningIsClosedIfPlanned` states what is left of it.
- **`OnceStepRefused`**. worker/main.py:174-175 says "'once' steps carry the full
  target list in params; otherwise the single task target is validated."
  plan_tasks adds the key `targets` for them (master/orchestrator.py:183-184),
  and validate_params (worker/tools/base.py:80-85) rejects every key that a
  wrapper does not allow. No wrapper of a shipped `once` step allows it (only
  builtin.noop accepts any key), so each of these steps is dead-lettered and
  its dependents aborted. The run has it with the steps of workflows/recon.yaml.
- **`LogsCollide`**. `src/legacy/stage0/recon/runner.py`:4-5 promises "100%
  raw-log retention". The name of a log is the tool's and the second its run
  started in (runner.py:241); `--tools httpx,httpx` keeps both
  (expand_tool_selection drops no duplicate), both start at once, and the log of
  the one that ends first is overwritten by the other.

## 7. Observations

Met while modelling; they are in the models where these cover the code, but no
run is devoted to them.

Deliveries and tables:

- Migration 003:19-21 says the claim makes duplicate deliveries no-ops. The claim
  also takes a row that is `running`, and _finalize updates by id alone: two
  deliveries may run side by side and the later one overwrites the outcome of the
  earlier. This is why `OneHandler` has one handler; `LifecycleProofs` says when
  more of them do as well.
- It takes no crash to have two deliveries. ready_tasks does not ask for the
  scan's status (common/db.py:116-134), so a maintenance tick between
  submit_scan's insert_task and mark_dispatched (api.py:320-334) finds a task of
  the first step ready and enqueues it a second time (`TickMeetsSubmit`).
- The sentence at worker/main.py:289-290 also fails by a crash between
  _finalize(dead) and abort_dependents: the redelivered entry finds its row
  terminal and is acknowledged without the cascade.
- Migration 002:27 says is_new is "TRUE when this fingerprint was never seen
  before for the program". Two scans that find an entity at the same time both
  record it as new (db.py:260); `SomeoneSawItNew` states what is left.
- A refused tool (worker/main.py:208) ends a task as dead without aborting its
  dependents; they stay queued and the scan running. This, the crash above and
  `LateInsertHangs` are the three ways in which `Routing!OnlyInputIsAwaited` lets
  a dead step hold up those behind it (`spared`).
- A routing gate nothing opens (common/db.py:128) keeps a scan running for ever.
- A tool whose input file would be empty raises in _build_context outside of the
  try block (worker/main.py:217): the entry is redelivered and fails for ever;
  the comment at 323-324 has the task failing instead.
- Every reclaim raises the attempt (common/redis_client.py:114), so a task whose
  workers died may be dead-lettered after one failed run; `README.md`:73 counts
  attempts by failures.
- reclaim_stale takes entries by idle time alone (redis_client.py:117), also
  those of a handler at work; the docstring at 9-11 speaks of dead consumers.
- The cascade (db.py:188) starts with the failed step itself and so aborts
  queued siblings for other targets; migration 003:10 and main.py:190-192 speak
  of dependents.
- load_workflow accepts a dependency on a later step. The plan then inserts the
  dependent first, and ready_tasks (db.py:123) finds no unfinished dependency
  among rows that do not exist. The shipped workflows are written in order.
- A gated step without dependencies is enqueued by the submission without asking
  its gate (api.py:330); ready_tasks' docstring (db.py:160-161) says gates are
  asked. `GateBeforeDispatch` is therefore about steps with dependencies.
- Two targets that normalize to one host give the same keys; insert_task returns
  the existing id and submit_scan enqueues it a second time (db.py:107).
- A target such as `1.2.3.4*` passes normalize_target and makes evaluate raise a
  plain ValueError (scope.py:150), which submit_scan does not catch
  (api.py:290): the whole request ends in a 500. `RaiseInEvaluate` models it.
- A cvss_score of 10.0 does not fit NUMERIC(3,2) (migration 002:34, db.py:275);
  the error rolls back the whole batch.
- triage_finding compares a BIGSERIAL id with `$1::uuid` (db.py:361), so triage
  always raises, and reports, which list validated findings, stay empty.

Tools and workers:

- run does not await, so a run stops the worker's other handlers, its heartbeat
  and its reclaims. The master drops a worker it has not heard of for ten
  minutes (api.py:457), which is TASK_TIMEOUT_SECS; a task that waits for one run
  of 600 s and then takes as long itself outlasts STALE_REQUEUE_SECS = 900, and
  is handed out twice, where docs/TUNING.md:26 says "w/o dupes".
- A process that leaves the session survives killpg. If it keeps the pipe, the
  second communicate(), which has no timeout, never returns: `Stuck` in
  `HandlersReturn`. The output is cut only after it has been buffered.
- run_batch merges a missing binary, or no argv at all, with exit code 0: the
  task succeeds. Its docstring (executor.py:146-148) says "partial evidence is
  preserved", but main.py:241 parses the output of a successful run only.
- One token is taken per batch, not per launch. A sleeper that wakes late may
  find its token gone again and again; nothing orders the waiters.
- _consume_loop reads a message before it has a permit, so a busy worker holds
  one more entry than it works on.
- A poll that fails after the server has answered, or an answer that cannot be
  deciphered (drivers/interactsh.py:296-300), loses the interactions in it: the
  server hands each over once. The second ends the run as well, with exit code
  0: the task succeeds and does not look different from one that found nothing.
- The driver ends with an error code of its own when no URL has a parameter,
  which counts as a failed run; its probes alone may use up the timeout, and what
  it has not printed by then is lost. A token twice in one response is printed
  twice.
- The dedupe of UncoverTool (recon_enum.py:22) drops the subdomain row of an entity that has an open port
  row, and keeps bare addresses as subdomains although TOOLCHAIN.md:68-69 says
  otherwise. What sqlmap and wpscan report has lost the URL. builtin.noop
  declares noop_echo, which is never stored. Ffuf and Arjun are defined twice;
  the second definition counts.

Legacy stage 0 (`src/legacy/stage0/recon`):

- After a timeout kill() reaches the tool, not its children, and the readers of
  its pipes are awaited without a timeout (runner.py:204-206).
- A full disk cancels the other tools, whose logs are gone with them.
- `--dry-run` is store_true: without the flag it is False, and a `dry_run` of the
  JSON file is never looked at. `--tools ,` makes max() raise.
- retries_used is 1 for every success (`attempts` in the model's result is what
  the raw log has); last_error is that of the first failed attempt.
- The line parsers take banners for names, and one JSON record of another shape
  loses all findings of its tool.

## 8. What is not modelled

- *Command lines, text formats, the driver's cryptography, environment and
  resource limits of a process*: data no property here depends on. In
  `ScanPipeline` a run succeeds, with any of the types its tool may report, or
  fails; `Routing` and `WorkerNode` say which and how.
- *Triage, reporting*: a row changes its status by one statement, which raises at
  present (section 7). *MCP server*: a front end that forwards a call to the
  master's API and counts calls in a window; it keeps nothing else.
- *Heartbeats, dashboard, notifications, events*: best-effort output no decision
  depends on. That heartbeats stop during a run is an observation.
- *Fingerprints, keys, configuration, logging*: pure functions of text. Two keys
  or fingerprints are equal in the models exactly when the code hashes equal
  tuples.
- *Redis durability*: the stream is taken to keep what it acknowledged, though
  `appendfsync everysec` may lose a second of XADDs; nothing in the code would
  recover them.
- *Legacy stage 0*: the terminal interface, the wording of the reports, and an
  interrupt from the keyboard.
- LIMIT 50 of ready_tasks, XREADGROUP's and XAUTOCLAIM's batch sizes: the
  instances stay below them.

## 9. Plan

Done: the pipeline with its abstract specification, the findings store, startup,
submission, routing, the worker node with the abstract rate limiter, the legacy
orchestrator; all with proofs. What would add most next:

1. What remains true of a scan when handlers are not apart: an abstract
   specification that admits the overwritten outcome of section 7, implemented
   without a hypothesis.
2. `Session`: the MCP server's handshake and rate window, and its calls to the
   master's API.
3. `Triage`: triage_finding and report_material with the status they share with
   record_findings' updates, once the id is compared with its own type.
